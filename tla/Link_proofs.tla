---------------------------- MODULE Link_proofs ----------------------------
(***************************************************************************)
(* Theorems about the codec, the packets and the exchanges over the line,  *)
(* for all sizes and all contents: what is encoded is decoded to what it   *)
(* was, a packet that was not damaged arrives as what it is, and one byte  *)
(* of a packet that was changed is detected.                               *)
(***************************************************************************)
EXTENDS Link, Integers, SequenceTheorems, WellFoundedInduction, TLAPS

-----------------------------------------------------------------------------
(* Induction with a set of numbers in the place of a predicate, and what   *)
(* it says of functions that are defined by recursion.                     *)

LEMMA LeastNumber ==
    ASSUME NEW T, T \subseteq Nat, T # {}
    PROVE  \E p \in T : \A y \in T : ~(y < p)
  <1>1. PICK p \in T : \A y \in T : <<y, p>> \notin OpToRel(<, Nat)
    BY WFMin, NatLessThanWellFounded, Zenon
  <1>2. \A y \in T : <<y, p>> \in Nat \X Nat  OBVIOUS
  <1> QED  BY <1>1, <1>2, Zenon DEF OpToRel

LEMMA Induction ==
    ASSUME NEW n \in Nat, NEW T, 0 \in T, \A i \in 1 .. n : i - 1 \in T => i \in T
    PROVE  \A i \in 0 .. n : i \in T
  <1> DEFINE Bad == {i \in 0 .. n : i \notin T}
  <1>1. SUFFICES ASSUME Bad # {} PROVE FALSE  OBVIOUS
  <1>2. Bad \subseteq Nat  OBVIOUS
  <1>3. PICK p \in Bad : \A y \in Bad : ~(y < p)
    <2> HIDE DEF Bad
    <2> QED  BY <1>1, <1>2, LeastNumber, Zenon
  <1>4. p \in 0 .. n /\ p \notin T /\ p # 0  OBVIOUS
  <1>5. p \in 1 .. n /\ p - 1 \in 0 .. n /\ p - 1 < p  BY <1>4
  <1>6. p - 1 \notin Bad  BY <1>3, <1>5
  <1>7. p - 1 \in T  BY <1>5, <1>6
  <1> QED  BY <1>4, <1>5, <1>7

(* From the end back, and from all that lies behind.                       *)
LEMMA Descent ==
    ASSUME NEW n \in Nat, NEW T,
           \A i \in 1 .. n : (\A j \in i + 1 .. n : j \in T) => i \in T
    PROVE  \A i \in 1 .. n : i \in T
  <1> DEFINE U == {k \in 0 .. n : \A j \in 1 .. n : j > n - k => j \in T}
  <1>1. 0 \in U  OBVIOUS
  <1>2. ASSUME NEW k \in 1 .. n, k - 1 \in U PROVE k \in U
    <2>1. k - 1 \in 0 .. n /\ \A j \in 1 .. n : j > n - (k - 1) => j \in T  BY <1>2
    <2>2. PICK i \in 1 .. n : i = n - k + 1  OBVIOUS
    <2>3. \A j \in i + 1 .. n : j \in T  BY <2>1, <2>2
    <2>4. i \in T  BY <2>3
    <2>5. \A j \in 1 .. n : j > n - k => j = i \/ j > n - (k - 1)  BY <2>2
    <2> QED  BY <2>1, <2>4, <2>5
  <1>3. n \in U
    <2> HIDE DEF U
    <2>1. \A k \in 0 .. n : k \in U  BY <1>1, <1>2, Induction, Zenon
    <2> QED  BY <2>1
  <1> QED  BY <1>3

(* A function over 0 .. n in which every value follows from the one before.*)
HasSteps(n, S, x, step) ==
    \E f \in [0 .. n -> S] : f[0] = x /\ \A i \in 1 .. n : f[i] = step[i][f[i - 1]]

LEMMA Recursion ==
    ASSUME NEW n \in Nat, NEW S, NEW x \in S, NEW step \in [1 .. n -> [S -> S]]
    PROVE  HasSteps(n, S, x, step)
  <1> DEFINE Upto(k, f) == /\ f \in [0 .. k -> S] /\ f[0] = x
                           /\ \A i \in 1 .. k : f[i] = step[i][f[i - 1]]
             T == {k \in 0 .. n : \E f : Upto(k, f)}
  <1>1. 0 \in T
    <2>1. Upto(0, [i \in 0 .. 0 |-> x])  OBVIOUS
    <2>2. \E f : Upto(0, f)
      <3> HIDE DEF Upto
      <3> QED  BY <2>1, Zenon
    <2> QED  BY <2>2
  <1>2. ASSUME NEW k \in 1 .. n, k - 1 \in T PROVE k \in T
    <2>1. PICK f : Upto(k - 1, f)  BY <1>2
    <2> DEFINE g == [i \in 0 .. k |-> IF i = k THEN step[k][f[k - 1]] ELSE f[i]]
    <2>2. f[k - 1] \in S  BY <2>1
    <2>3. g \in [0 .. k -> S]
      <3>1. step[k][f[k - 1]] \in S  BY <2>2
      <3>2. ASSUME NEW i \in 0 .. k, i # k PROVE f[i] \in S  BY <2>1, <3>2
      <3> QED  BY <3>1, <3>2
    <2>4. g[0] = x /\ g[k - 1] = f[k - 1]  BY <2>1
    <2>5. ASSUME NEW i \in 1 .. k PROVE g[i] = step[i][g[i - 1]]
      <3>1. CASE i = k  BY <2>4, <3>1
      <3>2. CASE i # k
        <4>1. i \in 1 .. k - 1 /\ i - 1 # k /\ i - 1 \in 0 .. k  BY <3>2
        <4>2. f[i] = step[i][f[i - 1]]  BY <2>1, <4>1
        <4> QED  BY <3>2, <4>1, <4>2
      <3> QED  BY <3>1, <3>2
    <2> HIDE DEF g
    <2>6. Upto(k, g)  BY <2>3, <2>4, <2>5
    <2>7. \E h : Upto(k, h)
      <3> HIDE DEF Upto
      <3> QED  BY <2>6, Zenon
    <2> QED  BY <2>7
  <1>3. n \in T
    <2> HIDE DEF T
    <2>1. \A k \in 0 .. n : k \in T  BY <1>1, <1>2, Induction, Zenon
    <2> QED  BY <2>1
  <1>4. PICK f : Upto(n, f)  BY <1>3
  <1> QED  BY <1>4, Zenon DEF HasSteps

(* One over 1 .. n in which every value follows from one behind it.        *)
HasStepsBack(n, S, x, step, next) ==
    \E f \in [1 .. n -> S] : f[n] = x /\ \A i \in 1 .. n - 1 : f[i] = step[i][f[next[i]]]

LEMMA RecursionBack ==
    ASSUME NEW n \in Nat \ {0}, NEW S, NEW x \in S,
           NEW step \in [1 .. n - 1 -> [S -> S]], NEW next \in [1 .. n - 1 -> 1 .. n],
           \A i \in 1 .. n - 1 : next[i] > i
    PROVE  HasStepsBack(n, S, x, step, next)
  <1> DEFINE From(k, f) == /\ f \in [n - k .. n -> S] /\ f[n] = x
                           /\ \A i \in n - k .. n - 1 : f[i] = step[i][f[next[i]]]
             T == {k \in 0 .. n - 1 : \E f : From(k, f)}
  <1>1. 0 \in T
    <2>1. From(0, [i \in n - 0 .. n |-> x])  OBVIOUS
    <2>2. \E f : From(0, f)
      <3> HIDE DEF From
      <3> QED  BY <2>1, Zenon
    <2> QED  BY <2>2
  <1>2. ASSUME NEW k \in 1 .. n - 1, k - 1 \in T PROVE k \in T
    <2>1. PICK f : From(k - 1, f)  BY <1>2
    <2>2. PICK p \in 1 .. n - 1 : p = n - k  OBVIOUS
    <2>3. f \in [p + 1 .. n -> S] /\ f[n] = x
          /\ \A i \in p + 1 .. n - 1 : f[i] = step[i][f[next[i]]]
      <3>1. n - (k - 1) = p + 1  BY <2>2
      <3> QED  BY <2>1, <3>1
    <2> DEFINE g == [i \in p .. n |-> IF i = p THEN step[p][f[next[p]]] ELSE f[i]]
    <2>4. ASSUME NEW i \in p .. n - 1 PROVE next[i] \in i + 1 .. n  OBVIOUS
    <2>5. g \in [p .. n -> S]
      <3>1. f[next[p]] \in S  BY <2>3, <2>4
      <3>2. step[p][f[next[p]]] \in S  BY <3>1
      <3>3. ASSUME NEW i \in p .. n, i # p PROVE f[i] \in S  BY <2>3, <3>3
      <3> QED  BY <3>2, <3>3
    <2>6. g[n] = x  BY <2>3
    <2>7. ASSUME NEW i \in p .. n - 1 PROVE g[i] = step[i][g[next[i]]]
      <3>1. next[i] \in i + 1 .. n  BY <2>4
      <3>2. next[i] \in p .. n /\ next[i] # p  BY <3>1
      <3>3. g[next[i]] = f[next[i]]  BY <3>2
      <3>4. CASE i = p  BY <3>3, <3>4
      <3>5. CASE i # p
        <4>1. i \in p + 1 .. n - 1  BY <3>5
        <4>2. f[i] = step[i][f[next[i]]]  BY <2>3, <4>1
        <4> QED  BY <3>3, <3>5, <4>2
      <3> QED  BY <3>4, <3>5
    <2> HIDE DEF g
    <2>8. From(k, g)  BY <2>2, <2>5, <2>6, <2>7
    <2>9. \E h : From(k, h)
      <3> HIDE DEF From
      <3> QED  BY <2>8, Zenon
    <2> QED  BY <2>9
  <1>3. n - 1 \in T
    <2> HIDE DEF T
    <2>1. n - 1 \in Nat  OBVIOUS
    <2>2. \A k \in 0 .. n - 1 : k \in T  BY <1>1, <1>2, <2>1, Induction, Zenon
    <2> QED  BY <2>1, <2>2
  <1>4. PICK f : From(n - 1, f)  BY <1>3
  <1>5. f \in [1 .. n -> S] /\ f[n] = x
        /\ \A i \in 1 .. n - 1 : f[i] = step[i][f[next[i]]]
    <2>1. n - (n - 1) = 1  OBVIOUS
    <2> QED  BY <1>4, <2>1
  <1> QED  BY <1>5, Zenon DEF HasStepsBack

-----------------------------------------------------------------------------
(* Sequences.                                                              *)

LEMMA Joined ==
    ASSUME NEW S, NEW s \in Seq(S), NEW t \in Seq(S)
    PROVE  /\ s \o t \in Seq(S)
           /\ Len(s) \in Nat /\ Len(t) \in Nat
           /\ Len(s \o t) = Len(s) + Len(t)
           /\ \A j \in 1 .. Len(s) : (s \o t)[j] = s[j]
           /\ \A j \in 1 .. Len(t) : (s \o t)[Len(s) + j] = t[j]
  <1>1. Len(s) \in Nat /\ Len(t) \in Nat  BY LenProperties
  <1>2. /\ s \o t \in Seq(S)
        /\ Len(s \o t) = Len(s) + Len(t)
        /\ \A j \in 1 .. Len(s) + Len(t) :
               (s \o t)[j] = IF j <= Len(s) THEN s[j] ELSE t[j - Len(s)]
    BY ConcatProperties
  <1>3. PICK m \in Nat, n \in Nat : m = Len(s) /\ n = Len(t)  BY <1>1
  <1>4. \A j \in 1 .. m : (s \o t)[j] = s[j]  BY <1>2, <1>3
  <1>5. \A j \in 1 .. n : (s \o t)[m + j] = t[j]
    <2> TAKE j \in 1 .. n
    <2>1. m + j \in 1 .. m + n /\ ~(m + j <= m) /\ (m + j) - m = j  BY <1>3
    <2> QED  BY <1>2, <1>3, <2>1
  <1> QED  BY <1>1, <1>2, <1>3, <1>4, <1>5

LEMMA JoinedBytes ==
    ASSUME NEW s \in Seq(Byte), NEW t \in Seq(Byte), NEW m \in Nat, NEW n \in Nat,
           m = Len(s), n = Len(t)
    PROVE  /\ s \o t \in Seq(Byte) /\ Len(s \o t) = m + n
           /\ \A j \in 1 .. m : (s \o t)[j] = s[j]
           /\ \A j \in 1 .. n : (s \o t)[m + j] = t[j]
  <1>1. /\ s \o t \in Seq(Byte)
        /\ Len(s) \in Nat /\ Len(t) \in Nat
        /\ Len(s \o t) = Len(s) + Len(t)
        /\ \A j \in 1 .. Len(s) : (s \o t)[j] = s[j]
        /\ \A j \in 1 .. Len(t) : (s \o t)[Len(s) + j] = t[j]
    BY Joined
  <1> QED  BY <1>1

LEMMA Part ==
    ASSUME NEW S, NEW s \in Seq(S), NEW a \in Nat, NEW b \in 0 .. Len(s), a <= b
    PROVE  /\ SubSeq(s, a + 1, b) \in Seq(S)
           /\ Len(SubSeq(s, a + 1, b)) = b - a
           /\ \A j \in 1 .. b - a : SubSeq(s, a + 1, b)[j] = s[a + j]
  <1>1. Len(s) \in Nat  BY LenProperties
  <1>2. b \in Nat /\ a + 1 \in Int /\ b \in Int  BY <1>1
  <1>3. \A j \in a + 1 .. b : s[j] \in S
    <2> TAKE j \in a + 1 .. b
    <2>1. j \in 1 .. Len(s)  BY <1>1, <1>2
    <2> QED  BY <2>1, ElementOfSeq
  <1>4. /\ SubSeq(s, a + 1, b) \in Seq(S)
        /\ Len(SubSeq(s, a + 1, b)) = IF a + 1 <= b THEN b - (a + 1) + 1 ELSE 0
        /\ \A j \in 1 .. b - (a + 1) + 1 : SubSeq(s, a + 1, b)[j] = s[(a + 1) + j - 1]
    BY <1>2, <1>3, SubSeqProperties
  <1>5. b - (a + 1) + 1 = b - a /\ (IF a + 1 <= b THEN b - (a + 1) + 1 ELSE 0) = b - a
    BY <1>2
  <1>6. \A j \in 1 .. b - a : SubSeq(s, a + 1, b)[j] = s[a + j]
    <2> TAKE j \in 1 .. b - a
    <2>1. (a + 1) + j - 1 = a + j  BY <1>2
    <2> QED  BY <1>4, <1>5, <2>1
  <1> QED  BY <1>4, <1>5, <1>6

(* The front of a sequence, with more of it and the rest behind.           *)
Glues(s, a, b, t) ==
    SubSeq(s, 1, a) \o (SubSeq(s, a + 1, b) \o t) = SubSeq(s, 1, b) \o t

LEMMA Glued ==
    ASSUME NEW s \in Seq(Byte), NEW a \in Nat, NEW b \in Nat, a <= b, b <= Len(s),
           NEW t \in Seq(Byte)
    PROVE  Glues(s, a, b, t)
  <1>1. PICK n \in Nat : n = Len(s)  BY LenProperties
  <1>2. a \in 0 .. Len(s) /\ b \in 0 .. Len(s)  BY <1>1
  <1>3. SubSeq(s, 0 + 1, a) \in Seq(Byte)
    <2>1. 0 \in Nat /\ 0 <= a  OBVIOUS
    <2> QED  BY <1>2, <2>1, Part
  <1>4. PICK u \in Seq(Byte) : u = SubSeq(s, 1, a)
    <2>1. 0 + 1 = 1  OBVIOUS
    <2> QED  BY <1>3, <2>1
  <1>5. PICK v \in Seq(Byte) : v = SubSeq(s, a + 1, b)
    <2>1. SubSeq(s, a + 1, b) \in Seq(Byte)  BY <1>2, Part
    <2> QED  BY <2>1
  <1>6. SubSeq(s, 1, a) \o SubSeq(s, a + 1, b) = SubSeq(s, 1, b)
    <2>1. 1 \in 1 .. Len(s) + 1 /\ a \in 1 - 1 .. Len(s) /\ b \in a .. Len(s)
      BY <1>1, <1>2
    <2> QED  BY <2>1, ConcatAdjacentSubSeq
  <1>7. \A x, y, z \in Seq(Byte) : (x \o y) \o z = x \o (y \o z)  BY ConcatAssociative
  <1>8. (u \o v) \o t = u \o (v \o t)  BY <1>7
  <1> QED  BY <1>4, <1>5, <1>6, <1>8 DEF Glues

-----------------------------------------------------------------------------
(* The encoder.                                                            *)

NonZero(s) == \A j \in 1 .. Len(s) : s[j] # 0

(* What the encoder holds between two bytes.                               *)
State ==
    {r \in [out : Seq(Byte), run : Seq(Byte)] :
        NonZero(r.out) /\ NonZero(r.run) /\ Len(r.run) + 1 < MAX_CODE}

Block(run) == <<Len(run) + 1>> \o run

LEMMA BlockFacts ==
    ASSUME NEW run \in Seq(Byte), NonZero(run), Len(run) + 1 <= MAX_CODE
    PROVE  /\ Block(run) \in Seq(Byte) /\ NonZero(Block(run))
           /\ Len(run) \in Nat /\ Len(Block(run)) = Len(run) + 1
           /\ Block(run)[1] = Len(run) + 1
           /\ \A k \in 1 .. Len(run) : Block(run)[k + 1] = run[k]
  <1>1. PICK l \in Nat : l = Len(run)  BY LenProperties
  <1>2. l + 1 \in Byte /\ l + 1 # 0
    <2>1. l + 1 <= MAX_CODE  BY <1>1
    <2> QED  BY <2>1, CodeAssumption DEF Byte
  <1>3. PICK c \in Seq(Byte) : c = <<l + 1>> /\ Len(c) = 1 /\ c[1] = l + 1
    <2>1. <<l + 1>> \in Seq(Byte) /\ Len(<<l + 1>>) = 1 /\ <<l + 1>>[1] = l + 1  BY <1>2
    <2> QED  BY <2>1, Zenon
  <1>4. /\ c \o run \in Seq(Byte) /\ Len(c \o run) = 1 + l
        /\ \A j \in 1 .. 1 : (c \o run)[j] = c[j]
        /\ \A j \in 1 .. l : (c \o run)[1 + j] = run[j]
    <2>1. /\ c \o run \in Seq(Byte)
          /\ Len(c) \in Nat /\ Len(run) \in Nat
          /\ Len(c \o run) = Len(c) + Len(run)
          /\ \A j \in 1 .. Len(c) : (c \o run)[j] = c[j]
          /\ \A j \in 1 .. Len(run) : (c \o run)[Len(c) + j] = run[j]
      BY <1>3, Joined
    <2> QED  BY <1>1, <1>3, <2>1
  <1>5. Block(run) = c \o run  BY <1>1, <1>3 DEF Block
  <1>6. \A k \in 1 .. l : Block(run)[k + 1] = run[k]
    <2> TAKE k \in 1 .. l
    <2>1. 1 + k = k + 1  OBVIOUS
    <2> QED  BY <1>4, <1>5, <2>1
  <1>7. Block(run)[1] = l + 1  BY <1>3, <1>4, <1>5
  <1>8. ASSUME NEW j \in 1 .. l + 1 PROVE Block(run)[j] # 0
    <2>1. CASE j = 1  BY <1>2, <1>7, <2>1
    <2>2. CASE j # 1
      <3>1. PICK k \in 1 .. l : j = k + 1
        <4>1. j - 1 \in 1 .. l /\ j = (j - 1) + 1  BY <2>2
        <4> QED  BY <4>1
      <3> QED  BY <1>1, <1>6, <3>1 DEF NonZero
    <2> QED  BY <2>1, <2>2
  <1>9. Len(Block(run)) = l + 1  BY <1>4, <1>5
  <1>10. NonZero(Block(run))
    <2>1. \A j \in 1 .. Len(Block(run)) : Block(run)[j] # 0  BY <1>8, <1>9
    <2> QED  BY <2>1 DEF NonZero
  <1> QED  BY <1>1, <1>4, <1>5, <1>6, <1>7, <1>9, <1>10

LEMMA NonZeroJoined ==
    ASSUME NEW s \in Seq(Byte), NEW t \in Seq(Byte), NonZero(s), NonZero(t)
    PROVE  NonZero(s \o t)
  <1>1. PICK m \in Nat, n \in Nat : m = Len(s) /\ n = Len(t)  BY LenProperties
  <1>2. /\ Len(s \o t) = m + n
        /\ \A j \in 1 .. m : (s \o t)[j] = s[j]
        /\ \A j \in 1 .. n : (s \o t)[m + j] = t[j]
    BY <1>1, JoinedBytes
  <1>3. ASSUME NEW j \in 1 .. m + n PROVE (s \o t)[j] # 0
    <2>1. CASE j \in 1 .. m  BY <1>1, <1>2, <2>1 DEF NonZero
    <2>2. CASE j \notin 1 .. m
      <3>1. PICK k \in 1 .. n : j = m + k
        <4>1. j - m \in 1 .. n /\ j = m + (j - m)  BY <2>2
        <4> QED  BY <4>1
      <3> QED  BY <1>1, <1>2, <3>1 DEF NonZero
    <2> QED  BY <2>1, <2>2
  <1>4. \A j \in 1 .. Len(s \o t) : (s \o t)[j] # 0  BY <1>2, <1>3
  <1> QED  BY <1>4 DEF NonZero

(* new is out with the run and its code behind it.                         *)
HasBlock(out, run, new) ==
    /\ new \in Seq(Byte) /\ NonZero(new)
    /\ Len(out) \in Nat /\ Len(run) \in Nat
    /\ Len(new) = Len(out) + Len(run) + 1
    /\ \A j \in 1 .. Len(out) : new[j] = out[j]
    /\ new[Len(out) + 1] = Len(run) + 1
    /\ \A k \in 1 .. Len(run) : new[Len(out) + 1 + k] = run[k]

LEMMA ClosedFacts ==
    ASSUME NEW out \in Seq(Byte), NEW run \in Seq(Byte),
           NonZero(out), NonZero(run), Len(run) + 1 <= MAX_CODE
    PROVE  HasBlock(out, run, out \o Block(run))
  <1>1. PICK m \in Nat, l \in Nat : m = Len(out) /\ l = Len(run)  BY LenProperties
  <1>2. PICK b \in Seq(Byte) :
            /\ b = Block(run) /\ NonZero(b) /\ Len(b) = l + 1 /\ b[1] = l + 1
            /\ \A k \in 1 .. l : b[k + 1] = run[k]
    BY <1>1, BlockFacts
  <1>3. /\ out \o b \in Seq(Byte) /\ NonZero(out \o b) /\ Len(out \o b) = m + (l + 1)
        /\ \A j \in 1 .. m : (out \o b)[j] = out[j]
        /\ \A j \in 1 .. l + 1 : (out \o b)[m + j] = b[j]
    <2>1. l + 1 \in Nat  OBVIOUS
    <2>2. NonZero(out \o b)  BY <1>2, NonZeroJoined
    <2>3. /\ out \o b \in Seq(Byte)
          /\ Len(out) \in Nat /\ Len(b) \in Nat
          /\ Len(out \o b) = Len(out) + Len(b)
          /\ \A j \in 1 .. Len(out) : (out \o b)[j] = out[j]
          /\ \A j \in 1 .. Len(b) : (out \o b)[Len(out) + j] = b[j]
      BY <1>2, Joined
    <2> QED  BY <1>1, <1>2, <2>1, <2>2, <2>3
  <1>4. m + (l + 1) = m + l + 1 /\ 1 \in 1 .. l + 1  OBVIOUS
  <1>5. \A k \in 1 .. l : (out \o b)[m + 1 + k] = run[k]
    <2> TAKE k \in 1 .. l
    <2>1. k + 1 \in 1 .. l + 1 /\ m + 1 + k = m + (k + 1)  OBVIOUS
    <2> QED  BY <1>2, <1>3, <2>1
  <1> QED  BY <1>1, <1>2, <1>3, <1>4, <1>5 DEF HasBlock

LEMMA Grown ==
    ASSUME NEW run \in Seq(Byte), NEW b \in Byte, b # 0, NonZero(run)
    PROVE  /\ Append(run, b) \in Seq(Byte) /\ NonZero(Append(run, b))
           /\ Len(run) \in Nat /\ Len(Append(run, b)) = Len(run) + 1
  <1>1. PICK l \in Nat : l = Len(run)  BY LenProperties
  <1>2. /\ Append(run, b) \in Seq(Byte) /\ Len(Append(run, b)) = l + 1
        /\ \A j \in 1 .. l : Append(run, b)[j] = run[j]
        /\ Append(run, b)[l + 1] = b
    BY <1>1, AppendProperties
  <1>3. ASSUME NEW j \in 1 .. l + 1 PROVE Append(run, b)[j] # 0
    <2>1. CASE j = l + 1  BY <1>2, <2>1
    <2>2. CASE j # l + 1
      <3>1. j \in 1 .. l  BY <2>2
      <3> QED  BY <1>1, <1>2, <3>1 DEF NonZero
    <2> QED  BY <2>1, <2>2
  <1>4. \A j \in 1 .. Len(Append(run, b)) : Append(run, b)[j] # 0  BY <1>2, <1>3
  <1> QED  BY <1>1, <1>2, <1>4 DEF NonZero

(* What one byte does to the encoder.                                      *)
LEMMA CollectCases ==
    ASSUME NEW r \in State, NEW b \in Byte
    PROVE  /\ b = 0 => Collect(r, b) = [out |-> r.out \o Block(r.run), run |-> <<>>]
           /\ b # 0 /\ Len(r.run) + 2 = MAX_CODE =>
                  Collect(r, b) = [out |-> r.out \o Block(Append(r.run, b)), run |-> <<>>]
           /\ b # 0 /\ Len(r.run) + 2 # MAX_CODE =>
                  Collect(r, b) = [out |-> r.out, run |-> Append(r.run, b)]
  <1>1. r \in [out : Seq(Byte), run : Seq(Byte)] /\ r.run \in Seq(Byte)  BY DEF State
  <1>2. PICK l \in Nat : l = Len(r.run)  BY <1>1, LenProperties
  <1> DEFINE grown == [r EXCEPT !.run = Append(@, b)]
  <1>3. grown = [out |-> r.out, run |-> Append(r.run, b)]
        /\ grown.out = r.out /\ grown.run = Append(r.run, b)
    <2>1. PICK a : a = Append(r.run, b)  OBVIOUS
    <2>2. [r EXCEPT !.run = a] = [out |-> r.out, run |-> a]  BY <1>1
    <2>3. grown = [r EXCEPT !.run = a]  BY <2>1
    <2> QED  BY <2>1, <2>2, <2>3
  <1>4. Collect(r, b) = IF b = 0 THEN Closed(r)
                        ELSE IF Len(grown.run) + 1 = MAX_CODE THEN Closed(grown) ELSE grown
    BY DEF Collect
  <1>5. Closed(r) = [out |-> r.out \o Block(r.run), run |-> <<>>]  BY DEF Closed, Block
  <1>6. Closed(grown) = [out |-> grown.out \o Block(grown.run), run |-> <<>>]
    BY DEF Closed, Block
  <1> HIDE DEF grown
  <1>7. Closed(grown) = [out |-> r.out \o Block(Append(r.run, b)), run |-> <<>>]
    BY <1>3, <1>6
  <1>8. Len(Append(r.run, b)) = l + 1  BY <1>1, <1>2, AppendProperties
  <1>9. (Len(grown.run) + 1 = MAX_CODE) <=> (Len(r.run) + 2 = MAX_CODE)
    BY <1>2, <1>3, <1>8, CodeAssumption
  <1> QED  BY <1>3, <1>4, <1>5, <1>7, <1>9

LEMMA CollectState ==
    ASSUME NEW r \in State, NEW b \in Byte
    PROVE  Collect(r, b) \in State
  <1>1. /\ r.out \in Seq(Byte) /\ r.run \in Seq(Byte) /\ NonZero(r.out) /\ NonZero(r.run)
        /\ Len(r.run) + 1 < MAX_CODE
    BY DEF State
  <1>2. PICK l \in Nat : l = Len(r.run)  BY <1>1, LenProperties
  <1>3. l + 1 < MAX_CODE /\ MAX_CODE \in Nat /\ 1 < MAX_CODE  BY <1>1, <1>2, CodeAssumption
  <1>4. <<>> \in Seq(Byte) /\ NonZero(<<>>) /\ Len(<<>>) = 0
    <2>1. <<>> \in Seq(Byte) /\ Len(<<>>) = 0  OBVIOUS
    <2> QED  BY <2>1 DEF NonZero
  <1>5. ASSUME NEW run \in Seq(Byte), NonZero(run), Len(run) + 1 <= MAX_CODE
        PROVE  [out |-> r.out \o Block(run), run |-> <<>>] \in State
    <2>1. HasBlock(r.out, run, r.out \o Block(run))  BY <1>1, <1>5, ClosedFacts
    <2>3. r.out \o Block(run) \in Seq(Byte) /\ NonZero(r.out \o Block(run))
      BY <2>1 DEF HasBlock
    <2>2. Len(<<>>) + 1 < MAX_CODE  BY <1>3, <1>4
    <2> QED  BY <1>4, <2>2, <2>3 DEF State
  <1>6. CASE b = 0
    <2>1. Len(r.run) + 1 <= MAX_CODE  BY <1>2, <1>3
    <2>2. [out |-> r.out \o Block(r.run), run |-> <<>>] \in State  BY <1>1, <1>5, <2>1
    <2> QED  BY <1>6, <2>2, CollectCases
  <1>7. CASE b # 0
    <2>1. /\ Append(r.run, b) \in Seq(Byte) /\ NonZero(Append(r.run, b))
          /\ Len(Append(r.run, b)) = l + 1
      BY <1>1, <1>2, <1>7, Grown
    <2>2. Len(Append(r.run, b)) + 1 <= MAX_CODE  BY <1>3, <2>1
    <2>3. CASE Len(r.run) + 2 = MAX_CODE
      <3>1. [out |-> r.out \o Block(Append(r.run, b)), run |-> <<>>] \in State
        BY <1>5, <2>1, <2>2
      <3> QED  BY <1>7, <2>3, <3>1, CollectCases
    <2>4. CASE Len(r.run) + 2 # MAX_CODE
      <3>1. Len(Append(r.run, b)) + 1 < MAX_CODE  BY <1>2, <1>3, <2>1, <2>4
      <3>2. [out |-> r.out, run |-> Append(r.run, b)] \in State  BY <1>1, <2>1, <3>1 DEF State
      <3> QED  BY <1>7, <2>4, <3>2, CollectCases
    <2> QED  BY <2>3, <2>4
  <1> QED  BY <1>6, <1>7

Fresh == [out |-> <<>>, run |-> <<>>]

LEMMA FreshState == Fresh \in State
  <1>1. <<>> \in Seq(Byte) /\ Len(<<>>) = 0  OBVIOUS
  <1>2. NonZero(<<>>)  BY <1>1 DEF NonZero
  <1>3. Len(<<>>) + 1 < MAX_CODE  BY <1>1, CodeAssumption
  <1> QED  BY <1>1, <1>2, <1>3 DEF State, Fresh

(* The recursion of the encoder.                                           *)
LEMMA CollectedFacts ==
    ASSUME NEW s \in Seq(Byte)
    PROVE  /\ Collected(s) \in [0 .. Len(s) -> State]
           /\ Collected(s)[0] = Fresh
           /\ \A i \in 1 .. Len(s) : Collected(s)[i] = Collect(Collected(s)[i - 1], s[i])
  <1>1. PICK n \in Nat : n = Len(s)  BY LenProperties
  <1>2. \A i \in 1 .. n : s[i] \in Byte  BY <1>1, ElementOfSeq
  <1> DEFINE Def(g) == [i \in 0 .. n |-> IF i = 0 THEN Fresh ELSE Collect(g[i - 1], s[i])]
             step == [i \in 1 .. n |-> [r \in State |-> Collect(r, s[i])]]
  <1>3. step \in [1 .. n -> [State -> State]]  BY <1>2, CollectState
  <1>5. PICK f \in [0 .. n -> State] :
            f[0] = Fresh /\ \A i \in 1 .. n : f[i] = step[i][f[i - 1]]
    <2> HIDE DEF step
    <2>1. HasSteps(n, State, Fresh, step)  BY <1>3, FreshState, Recursion
    <2> QED  BY <2>1, Zenon DEF HasSteps
  <1>6. ASSUME NEW i \in 1 .. n PROVE f[i] = Collect(f[i - 1], s[i])
    <2>1. f[i - 1] \in State  OBVIOUS
    <2>2. step[i][f[i - 1]] = Collect(f[i - 1], s[i])  BY <2>1
    <2> HIDE DEF step
    <2> QED  BY <1>5, <2>2
  <1>7. f = Def(f)
    <2>1. ASSUME NEW i \in 0 .. n
          PROVE  f[i] = IF i = 0 THEN Fresh ELSE Collect(f[i - 1], s[i])
      <3>1. CASE i = 0  BY <1>5, <3>1
      <3>2. CASE i # 0
        <4>1. i \in 1 .. n  BY <3>2
        <4> QED  BY <1>6, <3>2, <4>1
      <3> QED  BY <3>1, <3>2
    <2> QED  BY <2>1
  <1>8. Collected(s) = CHOOSE g : g = Def(g)  BY <1>1 DEF Collected, Fresh
  <1> DEFINE C == CHOOSE g : g = Def(g)
  <1>9. C = Def(C)
    <2> HIDE DEF Def
    <2> QED  BY <1>7
  <1>10. C[0] = Fresh /\ \A i \in 1 .. n : C[i] = Collect(C[i - 1], s[i])
    <2> HIDE DEF C
    <2> QED  BY <1>9
  <1>11. \A i \in 0 .. n : C[i] \in State
    <2> DEFINE T == {i \in 0 .. n : C[i] \in State}
    <2> HIDE DEF C
    <2>1. 0 \in T  BY <1>10, FreshState
    <2>2. ASSUME NEW i \in 1 .. n, i - 1 \in T PROVE i \in T
      <3>1. C[i - 1] \in State  BY <2>2
      <3>2. C[i] \in State  BY <1>2, <1>10, <3>1, CollectState
      <3> QED  BY <3>2
    <2>3. \A i \in 0 .. n : i \in T
      <3> HIDE DEF T
      <3> QED  BY <2>1, <2>2, Induction, Zenon
    <2> QED  BY <2>3
  <1>12. C = [i \in 0 .. n |-> C[i]]
    <2> HIDE DEF C
    <2> QED  BY <1>9
  <1>13. C \in [0 .. n -> State]
    <2> HIDE DEF C
    <2> QED  BY <1>11, <1>12
  <1> QED  BY <1>1, <1>8, <1>10, <1>13

(* One byte: it joins the run, ends it, or fills it.                       *)
Joins(r, b, c) ==
    b # 0 /\ Len(r.run) + 2 < MAX_CODE /\ c.out = r.out /\ c.run = Append(r.run, b)
Ends(r, b, c) == b = 0 /\ c.out = r.out \o Block(r.run) /\ c.run = <<>>
Fills(r, b, c) ==
    /\ b # 0 /\ Len(r.run) + 2 = MAX_CODE
    /\ c.out = r.out \o Block(Append(r.run, b)) /\ c.run = <<>>

LEMMA CollectStep ==
    ASSUME NEW s \in Seq(Byte), NEW i \in 1 .. Len(s)
    PROVE  LET r == Collected(s)[i - 1]
               c == Collected(s)[i]
           IN  /\ r \in State /\ c \in State /\ s[i] \in Byte
               /\ Joins(r, s[i], c) \/ Ends(r, s[i], c) \/ Fills(r, s[i], c)
  <1>1. PICK n \in Nat : n = Len(s)  BY LenProperties
  <1>2. s[i] \in Byte  BY ElementOfSeq
  <1>3. i - 1 \in 0 .. n /\ i \in 0 .. n  BY <1>1
  <1>4. /\ Collected(s) \in [0 .. n -> State]
        /\ Collected(s)[i] = Collect(Collected(s)[i - 1], s[i])
    BY <1>1, CollectedFacts
  <1>5. PICK r \in State : r = Collected(s)[i - 1]  BY <1>3, <1>4
  <1>6. PICK c \in State : c = Collected(s)[i]  BY <1>3, <1>4
  <1>7. c = Collect(r, s[i])  BY <1>4, <1>5, <1>6
  <1>8. r.run \in Seq(Byte) /\ Len(r.run) + 1 < MAX_CODE  BY DEF State
  <1>9. PICK l \in Nat : l = Len(r.run)  BY <1>8, LenProperties
  <1>10. CASE s[i] = 0
    <2>1. c = [out |-> r.out \o Block(r.run), run |-> <<>>]
      BY <1>2, <1>7, <1>10, CollectCases
    <2>2. Ends(r, s[i], c)  BY <1>10, <2>1 DEF Ends
    <2> QED  BY <1>2, <1>5, <1>6, <2>2
  <1>11. CASE s[i] # 0 /\ Len(r.run) + 2 = MAX_CODE
    <2>1. c = [out |-> r.out \o Block(Append(r.run, s[i])), run |-> <<>>]
      BY <1>2, <1>7, <1>11, CollectCases
    <2>2. Fills(r, s[i], c)  BY <1>11, <2>1 DEF Fills
    <2> QED  BY <1>2, <1>5, <1>6, <2>2
  <1>12. CASE s[i] # 0 /\ Len(r.run) + 2 # MAX_CODE
    <2>1. c = [out |-> r.out, run |-> Append(r.run, s[i])]
      BY <1>2, <1>7, <1>12, CollectCases
    <2>2. Len(r.run) + 2 < MAX_CODE  BY <1>8, <1>9, <1>12, CodeAssumption
    <2>3. Joins(r, s[i], c)  BY <1>12, <2>1, <2>2 DEF Joins
    <2> QED  BY <1>2, <1>5, <1>6, <2>3
  <1> QED  BY <1>10, <1>11, <1>12

(* A full run of MAX_CODE - 1 bytes costs one byte more than its bytes, as *)
(* does the last run.                                                      *)
LEMMA CollectedLength ==
    ASSUME NEW s \in Seq(Byte)
    PROVE  \A i \in 0 .. Len(s) : \E q \in Nat :
               /\ Len(Collected(s)[i].out) + Len(Collected(s)[i].run) = i + q
               /\ q * (MAX_CODE - 1) + Len(Collected(s)[i].run) <= i
  <1>1. PICK n \in Nat : n = Len(s)  BY LenProperties
  <1>2. PICK k \in Nat : k = MAX_CODE - 1  BY CodeAssumption
  <1> DEFINE R == Collected(s)
             Within(i) == \E q \in Nat : /\ Len(R[i].out) + Len(R[i].run) = i + q
                                         /\ q * k + Len(R[i].run) <= i
             T == {i \in 0 .. n : Within(i)}
  <1>3. 0 \in T
    <2>1. R[0].out = <<>> /\ R[0].run = <<>>  BY CollectedFacts DEF Fresh
    <2>2. Len(R[0].out) = 0 /\ Len(R[0].run) = 0  BY <2>1
    <2> HIDE DEF R
    <2>3. 0 \in Nat /\ 0 * k = 0  OBVIOUS
    <2>4. Within(0)  BY <2>2, <2>3
    <2> HIDE DEF Within
    <2> QED  BY <2>4
  <1>4. ASSUME NEW i \in 1 .. n, i - 1 \in T PROVE i \in T
    <2>1. PICK r \in State, c \in State, b \in Byte :
              /\ r = R[i - 1] /\ c = R[i] /\ b = s[i]
              /\ Joins(r, b, c) \/ Ends(r, b, c) \/ Fills(r, b, c)
      BY <1>1, CollectStep
    <2> HIDE DEF R
    <2>2. /\ r.out \in Seq(Byte) /\ r.run \in Seq(Byte) /\ NonZero(r.out) /\ NonZero(r.run)
          /\ Len(r.run) + 1 < MAX_CODE
      BY DEF State
    <2>3. PICK m \in Nat, l \in Nat : m = Len(r.out) /\ l = Len(r.run)  BY <2>2, LenProperties
    <2>4. PICK q \in Nat : m + l = i - 1 + q /\ q * k + l <= i - 1
      <3>1. Within(i - 1)  BY <1>4
      <3> QED  BY <2>1, <2>3, <3>1
    <2>5. PICK p \in Nat : p = q * k  BY <1>2
    <2>6. l + 1 <= MAX_CODE /\ l + 1 < MAX_CODE /\ MAX_CODE \in Nat
      BY <2>2, <2>3, CodeAssumption
    <2>7. CASE Joins(r, b, c)
      <3>1. Len(c.out) = m /\ Len(c.run) = l + 1
        BY <2>2, <2>3, <2>7, Grown DEF Joins
      <3>2. Len(c.out) + Len(c.run) = i + q /\ p + Len(c.run) <= i
        BY <2>4, <2>5, <3>1
      <3>3. Within(i)  BY <2>1, <2>5, <3>2
      <3> HIDE DEF Within
      <3> QED  BY <3>3
    <2>8. CASE Ends(r, b, c)
      <3>1. Len(c.out) = m + l + 1 /\ Len(c.run) = 0
        <4>1. c.out = r.out \o Block(r.run) /\ c.run = <<>>  BY <2>8 DEF Ends
        <4>2. Len(r.run) + 1 <= MAX_CODE  BY <2>3, <2>6
        <4>3. HasBlock(r.out, r.run, r.out \o Block(r.run))  BY <2>2, <4>2, ClosedFacts
        <4> QED  BY <2>3, <4>1, <4>3 DEF HasBlock
      <3>2. Len(c.out) + Len(c.run) = i + q /\ p + Len(c.run) <= i
        BY <2>4, <2>5, <3>1
      <3>3. Within(i)  BY <2>1, <2>5, <3>2
      <3> HIDE DEF Within
      <3> QED  BY <3>3
    <2>9. CASE Fills(r, b, c)
      <3>1. PICK run \in Seq(Byte) : run = Append(r.run, b) /\ NonZero(run) /\ Len(run) = l + 1
        BY <2>2, <2>3, <2>9, Grown DEF Fills
      <3>2. l + 2 = MAX_CODE /\ Len(run) + 1 <= MAX_CODE
        BY <2>3, <2>6, <2>9, <3>1 DEF Fills
      <3>3. HasBlock(r.out, run, r.out \o Block(run))  BY <2>2, <3>1, <3>2, ClosedFacts
      <3>4. Len(c.out) = m + l + 2 /\ Len(c.run) = 0
        <4>1. c.out = r.out \o Block(run) /\ c.run = <<>>  BY <2>9, <3>1 DEF Fills
        <4>2. Len(c.out) = Len(r.out) + Len(run) + 1  BY <3>3, <4>1 DEF HasBlock
        <4>3. Len(c.out) = m + (l + 1) + 1  BY <2>3, <3>1, <4>2
        <4> QED  BY <4>1, <4>3
      <3>5. (q + 1) * k = p + k  BY <2>5
      <3>6. l + 1 = k  BY <1>2, <3>2
      <3>7. Len(c.out) + Len(c.run) = i + (q + 1) /\ (q + 1) * k + Len(c.run) <= i
        BY <2>4, <2>5, <3>4, <3>5, <3>6
      <3>8. q + 1 \in Nat  OBVIOUS
      <3>9. Within(i)  BY <2>1, <3>7, <3>8
      <3> HIDE DEF Within
      <3> QED  BY <3>9
    <2> QED  BY <2>1, <2>7, <2>8, <2>9
  <1>5. \A i \in 0 .. n : i \in T
    <2> HIDE DEF T
    <2> QED  BY <1>3, <1>4, Induction, Zenon
  <1> QED  BY <1>1, <1>2, <1>5

(* A frame ends at its only zero.                                          *)
IsFrame(f) ==
    f \in Seq(Byte) /\ f # <<>> /\ \A j \in 1 .. Len(f) : f[j] = 0 <=> j = Len(f)

Encodes(s, r, body) ==
    /\ r = Collected(s)[Len(s)] /\ HasBlock(r.out, r.run, body)
    /\ Encode(s) \in Seq(Byte) /\ Len(Encode(s)) = Len(body) + 1
    /\ \A j \in 1 .. Len(body) : Encode(s)[j] = body[j]
    /\ Encode(s)[Len(body) + 1] = 0

LEMMA EncodeBody ==
    ASSUME NEW s \in Seq(Byte)
    PROVE  \E r \in State, body \in Seq(Byte) : Encodes(s, r, body)
  <1>1. PICK n \in Nat : n = Len(s)  BY LenProperties
  <1>2. PICK r \in State : r = Collected(s)[n]
    <2>1. n \in 0 .. Len(s)  BY <1>1
    <2> QED  BY <2>1, CollectedFacts
  <1>3. /\ r.out \in Seq(Byte) /\ r.run \in Seq(Byte) /\ NonZero(r.out) /\ NonZero(r.run)
        /\ Len(r.run) + 1 < MAX_CODE
    BY DEF State
  <1>4. Len(r.run) + 1 <= MAX_CODE
    <2>1. PICK l \in Nat : l = Len(r.run)  BY <1>3, LenProperties
    <2> QED  BY <1>3, <2>1, CodeAssumption
  <1>5. HasBlock(r.out, r.run, r.out \o Block(r.run))  BY <1>3, <1>4, ClosedFacts
  <1>6. PICK body \in Seq(Byte) : body = r.out \o Block(r.run)  BY <1>5 DEF HasBlock
  <1>7. PICK m \in Nat : m = Len(body)  BY LenProperties
  <1>8. PICK z \in Seq(Byte) : z = <<0>> /\ Len(z) = 1 /\ z[1] = 0
    <2>1. <<0>> \in Seq(Byte) /\ Len(<<0>>) = 1 /\ <<0>>[1] = 0  BY DEF Byte
    <2> QED  BY <2>1, Zenon
  <1>9. Encode(s) = body \o z
    BY <1>1, <1>2, <1>6, <1>8 DEF Encode, Closed, Block
  <1>10. /\ body \o z \in Seq(Byte)
         /\ Len(body) \in Nat /\ Len(z) \in Nat
         /\ Len(body \o z) = Len(body) + Len(z)
         /\ \A j \in 1 .. Len(body) : (body \o z)[j] = body[j]
         /\ \A j \in 1 .. Len(z) : (body \o z)[Len(body) + j] = z[j]
    BY Joined
  <1>11. Encode(s) \in Seq(Byte) /\ Len(Encode(s)) = Len(body) + 1
    BY <1>8, <1>9, <1>10
  <1>12. Encode(s)[Len(body) + 1] = 0  BY <1>8, <1>9, <1>10
  <1>13. \A j \in 1 .. Len(body) : Encode(s)[j] = body[j]  BY <1>9, <1>10
  <1>14. Encodes(s, r, body)
    BY <1>1, <1>2, <1>5, <1>6, <1>11, <1>12, <1>13 DEF Encodes
  <1> QED  BY <1>14

LEMMA DivBound ==
    ASSUME NEW n \in Nat, NEW q \in Nat, NEW k \in Nat \ {0}, q * k <= n
    PROVE  q <= n \div k
  <1>1. PICK d \in Nat : d = n \div k  OBVIOUS
  <1>2. n < (d + 1) * k
    <2>1. PICK e \in Nat : e = n % k /\ e < k /\ n = d * k + e  BY <1>1
    <2>2. (d + 1) * k = d * k + k  OBVIOUS
    <2> QED  BY <2>1, <2>2
  <1>3. ASSUME q > d PROVE FALSE
    <2>1. PICK c \in Nat : q = (d + 1) + c
      <3>1. q - (d + 1) \in Nat /\ q = (d + 1) + (q - (d + 1))  BY <1>3
      <3> QED  BY <3>1
    <2>2. q * k = (d + 1) * k + c * k  BY <2>1
    <2>3. c * k \in Nat /\ (d + 1) * k \in Nat  OBVIOUS
    <2> QED  BY <1>2, <2>2, <2>3
  <1> QED  BY <1>1, <1>3

(* What the encoder sends is a frame, and how long it is at most.          *)
LEMMA EncodeShape ==
    ASSUME NEW s \in Seq(Byte)
    PROVE  /\ IsFrame(Encode(s)) /\ Len(Encode(s)) \in Nat \ {0, 1}
           /\ Len(Encode(s)) <= Len(s) + 2 + Len(s) \div (MAX_CODE - 1)
  <1>1. PICK r \in State, body \in Seq(Byte) : Encodes(s, r, body)  BY EncodeBody
  <1>2. PICK n \in Nat : n = Len(s)  BY LenProperties
  <1>3. PICK m \in Nat, l \in Nat, b \in Nat :
            m = Len(r.out) /\ l = Len(r.run) /\ b = Len(body) /\ b = m + l + 1
    BY <1>1, LenProperties DEF Encodes, HasBlock
  <1>4. Encode(s) \in Seq(Byte) /\ Len(Encode(s)) = b + 1
    BY <1>1, <1>3 DEF Encodes
  <1>5. ASSUME NEW j \in 1 .. b + 1 PROVE Encode(s)[j] = 0 <=> j = b + 1
    <2>1. CASE j = b + 1  BY <1>1, <1>3, <2>1 DEF Encodes
    <2>2. CASE j # b + 1
      <3>1. j \in 1 .. b  BY <2>2
      <3>2. Encode(s)[j] = body[j]  BY <1>1, <1>3, <3>1 DEF Encodes
      <3>3. body[j] # 0  BY <1>1, <1>3, <3>1 DEF Encodes, HasBlock, NonZero
      <3> QED  BY <2>2, <3>2, <3>3
    <2> QED  BY <2>1, <2>2
  <1>6. IsFrame(Encode(s))
    <2>1. Encode(s) # <<>>
      <3>1. Len(<<>>) = 0  OBVIOUS
      <3> QED  BY <1>4, <3>1
    <2> QED  BY <1>4, <1>5, <2>1 DEF IsFrame
  <1>7. PICK q \in Nat : m + l = n + q /\ q * (MAX_CODE - 1) + l <= n
    <2>1. n \in 0 .. Len(s)  BY <1>2
    <2> QED  BY <1>1, <1>2, <1>3, <2>1, CollectedLength DEF Encodes
  <1>8. PICK k \in Nat \ {0} : k = MAX_CODE - 1  BY CodeAssumption
  <1>9. PICK p \in Nat : p = q * k  OBVIOUS
  <1>10. q * k <= n  BY <1>7, <1>8, <1>9
  <1>11. PICK d \in Nat : d = n \div k  OBVIOUS
  <1>12. q <= d
    <2>1. q <= n \div k  BY <1>10, DivBound
    <2> QED  BY <1>11, <2>1
  <1>13. b + 1 <= n + 2 + d
    <2>1. m + l = n + q /\ b = m + l + 1  BY <1>3, <1>7
    <2> QED  BY <1>12, <2>1
  <1>14. Len(s) \div (MAX_CODE - 1) = d  BY <1>2, <1>8, <1>11
  <1>15. Len(Encode(s)) = b + 1  BY <1>4
  <1>16. Len(Encode(s)) \in Nat \ {0, 1}
    <2>1. b = m + l + 1  BY <1>3
    <2>2. b + 1 \in Nat \ {0, 1}  BY <2>1
    <2> QED  BY <1>15, <2>2
  <1>17. Len(Encode(s)) <= Len(s) + 2 + Len(s) \div (MAX_CODE - 1)
    BY <1>2, <1>13, <1>14, <1>15
  <1> QED  BY <1>6, <1>16, <1>17

-----------------------------------------------------------------------------
(* The decoder.                                                            *)

Part1(f, i) == SubSeq(f, i + 1, RunEnd(f, i) - 1)

LEMMA RunFacts ==
    ASSUME NEW f \in Seq(Byte), NEW i \in 1 .. Len(f) - 1, f[i] # 0
    PROVE  /\ RunEnd(f, i) \in i + 1 .. Len(f) /\ RunEnd(f, i) \in 1 .. Len(f)
           /\ Part1(f, i) \in Seq(Byte) /\ Run(f, i) \in Seq(Byte)
           /\ Len(Part1(f, i)) = RunEnd(f, i) - 1 - i
           /\ \A j \in 1 .. RunEnd(f, i) - 1 - i : Part1(f, i)[j] = f[i + j]
  <1>1. PICK n \in Nat : n = Len(f)  BY LenProperties
  <1>2. i \in 1 .. n - 1 /\ i \in 1 .. n /\ i \in Nat  BY <1>1
  <1>3. PICK c \in Byte : c = f[i] /\ c # 0  BY <1>1, <1>2, ElementOfSeq
  <1>4. PICK e \in i + 1 .. n : e = RunEnd(f, i)
    <2>1. c \in Nat /\ c > 0
      <3>1. c # 0  BY <1>3
      <3> QED  BY <3>1 DEF Byte
    <2>2. RunEnd(f, i) = IF i + c > n - 1 THEN n ELSE i + c  BY <1>1, <1>3 DEF RunEnd
    <2>3. (IF i + c > n - 1 THEN n ELSE i + c) \in i + 1 .. n  BY <1>1, <1>2, <2>1
    <2> QED  BY <2>2, <2>3
  <1>5. e - 1 \in 0 .. Len(f) /\ i <= e - 1 /\ e \in 1 .. n /\ e - 1 \in Nat  BY <1>1, <1>2
  <1>6. /\ SubSeq(f, i + 1, e - 1) \in Seq(Byte) /\ Len(SubSeq(f, i + 1, e - 1)) = (e - 1) - i
        /\ \A j \in 1 .. (e - 1) - i : SubSeq(f, i + 1, e - 1)[j] = f[i + j]
    BY <1>2, <1>5, Part
  <1>7. Part1(f, i) = SubSeq(f, i + 1, e - 1)  BY <1>4 DEF Part1
  <1>8. PICK z \in Seq(Byte) :
            z = IF f[i] < MAX_CODE /\ RunEnd(f, i) < Len(f) THEN <<0>> ELSE <<>>
    <2>1. <<0>> \in Seq(Byte) /\ <<>> \in Seq(Byte)  BY DEF Byte
    <2> QED  BY <2>1
  <1>9. Run(f, i) = Part1(f, i) \o z  BY <1>8 DEF Run, Part1
  <1>10. Run(f, i) \in Seq(Byte)  BY <1>6, <1>7, <1>9, ConcatProperties
  <1> QED  BY <1>1, <1>4, <1>5, <1>6, <1>7, <1>10

(* The recursion of the decoder.                                           *)
LEMMA DecodedFacts ==
    ASSUME NEW f, IsFrame(f)
    PROVE  /\ \A i \in 1 .. Len(f) : Decoded(f)[i] \in Seq(Byte)
           /\ Decoded(f)[Len(f)] = <<>>
           /\ \A i \in 1 .. Len(f) - 1 : Decoded(f)[i] = Run(f, i) \o Decoded(f)[RunEnd(f, i)]
  <1>1. f \in Seq(Byte)  BY DEF IsFrame
  <1>2. PICK n \in Nat \ {0} : n = Len(f)  BY <1>1, EmptySeq DEF IsFrame
  <1>3. ASSUME NEW i \in 1 .. n - 1
        PROVE  Run(f, i) \in Seq(Byte) /\ RunEnd(f, i) \in i + 1 .. n /\ RunEnd(f, i) \in 1 .. n
    <2>1. i \in 1 .. Len(f) /\ i # Len(f) /\ i \in 1 .. Len(f) - 1  BY <1>2
    <2>2. f[i] # 0  BY <2>1 DEF IsFrame
    <2> QED  BY <1>1, <1>2, <2>1, <2>2, RunFacts
  <1> DEFINE Def(g) == [i \in 1 .. n |-> IF i = n THEN <<>> ELSE Run(f, i) \o g[RunEnd(f, i)]]
             step == [i \in 1 .. n - 1 |-> [s \in Seq(Byte) |-> Run(f, i) \o s]]
             next == [i \in 1 .. n - 1 |-> RunEnd(f, i)]
  <1>4. step \in [1 .. n - 1 -> [Seq(Byte) -> Seq(Byte)]]
    <2>1. ASSUME NEW i \in 1 .. n - 1, NEW s \in Seq(Byte) PROVE Run(f, i) \o s \in Seq(Byte)
      BY <1>3, ConcatProperties
    <2> QED  BY <2>1
  <1>5. next \in [1 .. n - 1 -> 1 .. n] /\ \A i \in 1 .. n - 1 : next[i] > i
    <2>1. next \in [1 .. n - 1 -> 1 .. n]  BY <1>3
    <2>2. ASSUME NEW i \in 1 .. n - 1 PROVE next[i] > i
      <3>1. RunEnd(f, i) \in i + 1 .. n /\ next[i] = RunEnd(f, i)  BY <1>3
      <3> HIDE DEF next
      <3> QED  BY <3>1
    <2> HIDE DEF next
    <2> QED  BY <2>1, <2>2
  <1>6. <<>> \in Seq(Byte)  OBVIOUS
  <1>7. PICK g \in [1 .. n -> Seq(Byte)] :
            g[n] = <<>> /\ \A i \in 1 .. n - 1 : g[i] = step[i][g[next[i]]]
    <2> HIDE DEF step, next
    <2>1. HasStepsBack(n, Seq(Byte), <<>>, step, next)  BY <1>4, <1>5, <1>6, RecursionBack
    <2> QED  BY <2>1, Zenon DEF HasStepsBack
  <1>8. ASSUME NEW i \in 1 .. n - 1 PROVE g[i] = Run(f, i) \o g[RunEnd(f, i)]
    <2>1. RunEnd(f, i) \in 1 .. n /\ next[i] = RunEnd(f, i)  BY <1>3
    <2>2. g[RunEnd(f, i)] \in Seq(Byte)  BY <2>1
    <2>3. step[i][g[RunEnd(f, i)]] = Run(f, i) \o g[RunEnd(f, i)]  BY <2>2
    <2> HIDE DEF step, next
    <2> QED  BY <1>7, <2>1, <2>3
  <1>9. g = Def(g)
    <2>1. ASSUME NEW i \in 1 .. n
          PROVE  g[i] = IF i = n THEN <<>> ELSE Run(f, i) \o g[RunEnd(f, i)]
      <3>1. CASE i = n  BY <1>7, <3>1
      <3>2. CASE i # n
        <4>1. i \in 1 .. n - 1  BY <3>2
        <4> QED  BY <1>8, <3>2, <4>1
      <3> QED  BY <3>1, <3>2
    <2> QED  BY <2>1
  <1>10. Decoded(f) = CHOOSE h : h = Def(h)  BY <1>2 DEF Decoded
  <1> DEFINE D == CHOOSE h : h = Def(h)
  <1>11. D = Def(D)
    <2> HIDE DEF Def
    <2> QED  BY <1>9
  <1>12. D[n] = <<>> /\ \A i \in 1 .. n - 1 : D[i] = Run(f, i) \o D[RunEnd(f, i)]
    <2> HIDE DEF D
    <2>1. \A i \in 1 .. n : D[i] = IF i = n THEN <<>> ELSE Run(f, i) \o D[RunEnd(f, i)]
      BY <1>11
    <2>2. n \in 1 .. n /\ \A i \in 1 .. n - 1 : i \in 1 .. n /\ i # n  OBVIOUS
    <2> QED  BY <2>1, <2>2
  <1> HIDE DEF D
  <1>13. \A i \in 1 .. n : D[i] \in Seq(Byte)
    <2> DEFINE T == {i \in 1 .. n : D[i] \in Seq(Byte)}
    <2>1. ASSUME NEW i \in 1 .. n, \A j \in i + 1 .. n : j \in T PROVE i \in T
      <3>1. CASE i = n  BY <1>6, <1>12, <3>1
      <3>2. CASE i # n
        <4>1. i \in 1 .. n - 1  BY <3>2
        <4>2. RunEnd(f, i) \in i + 1 .. n /\ Run(f, i) \in Seq(Byte)  BY <1>3, <4>1
        <4>3. D[RunEnd(f, i)] \in Seq(Byte)  BY <2>1, <4>2
        <4>4. Run(f, i) \o D[RunEnd(f, i)] \in Seq(Byte)  BY <4>2, <4>3, ConcatProperties
        <4> QED  BY <1>12, <4>1, <4>4
      <3> QED  BY <3>1, <3>2
    <2>2. \A i \in 1 .. n : i \in T
      <3> HIDE DEF T
      <3> QED  BY <2>1, Descent, Zenon
    <2> QED  BY <2>2
  <1> QED  BY <1>2, <1>10, <1>12, <1>13 DEF D

-----------------------------------------------------------------------------
(* The decoder reads back what the encoder wrote, a block at a time.       *)

Begins(f, o) ==
    Len(o) + 1 <= Len(f) /\ \A m \in 1 .. Len(o) : f[m] = o[m]

LEMMA BlockBegins ==
    ASSUME NEW f \in Seq(Byte), NEW out \in Seq(Byte), NEW run \in Seq(Byte),
           NEW new \in Seq(Byte), HasBlock(out, run, new), Begins(f, new)
    PROVE  /\ Begins(f, out) /\ Len(out) + 2 <= Len(f)
           /\ f[Len(out) + 1] = Len(run) + 1
           /\ \A k \in 1 .. Len(run) : f[Len(out) + 1 + k] = run[k]
  <1>1. PICK n \in Nat, m \in Nat, l \in Nat :
            n = Len(f) /\ m = Len(out) /\ l = Len(run)
    BY LenProperties
  <1>2. PICK w \in Nat : w = Len(new) /\ w = m + l + 1  BY <1>1 DEF HasBlock
  <1>3. w + 1 <= n /\ \A j \in 1 .. w : f[j] = new[j]  BY <1>1, <1>2 DEF Begins
  <1>4. m + 2 <= n /\ m + 1 <= n
    <2>1. w = m + l + 1  BY <1>2
    <2> QED  BY <1>3, <2>1
  <1>5. \A j \in 1 .. m : f[j] = out[j]
    <2> TAKE j \in 1 .. m
    <2>1. j \in 1 .. w
      <3>1. w = m + l + 1  BY <1>2
      <3> QED  BY <3>1
    <2> QED  BY <1>1, <1>3, <2>1 DEF HasBlock
  <1>6. f[m + 1] = l + 1
    <2>1. m + 1 \in 1 .. w
      <3>1. w = m + l + 1  BY <1>2
      <3> QED  BY <3>1
    <2> QED  BY <1>1, <1>3, <2>1 DEF HasBlock
  <1>7. \A k \in 1 .. l : f[m + 1 + k] = run[k]
    <2> TAKE k \in 1 .. l
    <2>1. m + 1 + k \in 1 .. w
      <3>1. w = m + l + 1  BY <1>2
      <3> QED  BY <3>1
    <2> QED  BY <1>1, <1>3, <2>1 DEF HasBlock
  <1> QED  BY <1>1, <1>4, <1>5, <1>6, <1>7 DEF Begins

LEMMA BlockRead ==
    ASSUME NEW f, IsFrame(f), NEW out \in Seq(Byte), NEW run \in Seq(Byte),
           NEW new \in Seq(Byte), HasBlock(out, run, new), Begins(f, new)
    PROVE  /\ Len(out) + 1 \in 1 .. Len(f) - 1
           /\ RunEnd(f, Len(out) + 1) = Len(new) + 1
           /\ Part1(f, Len(out) + 1) = run
  <1>1. f \in Seq(Byte)  BY DEF IsFrame
  <1>2. PICK n \in Nat, m \in Nat, l \in Nat :
            n = Len(f) /\ m = Len(out) /\ l = Len(run)
    BY <1>1, LenProperties
  <1>3. PICK w \in Nat : w = Len(new) /\ w = m + l + 1  BY <1>2 DEF HasBlock
  <1>4. w + 1 <= n  BY <1>2, <1>3 DEF Begins
  <1>5. /\ m + 2 <= n /\ f[m + 1] = l + 1
        /\ \A k \in 1 .. l : f[m + 1 + k] = run[k]
    <2>1. /\ Begins(f, out) /\ Len(out) + 2 <= Len(f)
          /\ f[Len(out) + 1] = Len(run) + 1
          /\ \A k \in 1 .. Len(run) : f[Len(out) + 1 + k] = run[k]
      BY <1>1, BlockBegins
    <2> QED  BY <1>2, <2>1
  <1>6. w = m + l + 1  BY <1>3
  <1>7. PICK p \in 1 .. n - 1 : p = m + 1 /\ f[p] = l + 1 /\ p + (l + 1) = w + 1
    <2>1. m + 1 \in 1 .. n - 1 /\ (m + 1) + (l + 1) = w + 1  BY <1>5, <1>6
    <2> QED  BY <1>5, <2>1
  <1>8. RunEnd(f, p) = w + 1
    <2>1. RunEnd(f, p) = IF w + 1 > n - 1 THEN n ELSE w + 1  BY <1>2, <1>7 DEF RunEnd
    <2>2. (IF w + 1 > n - 1 THEN n ELSE w + 1) = w + 1  BY <1>4
    <2> QED  BY <2>1, <2>2
  <1>9. f[p] # 0
    <2>1. l + 1 # 0  OBVIOUS
    <2> QED  BY <1>7, <2>1
  <1>10. p \in 1 .. Len(f) - 1  BY <1>2, <1>7
  <1>11. /\ RunEnd(f, p) \in p + 1 .. Len(f) /\ RunEnd(f, p) \in 1 .. Len(f)
         /\ Part1(f, p) \in Seq(Byte) /\ Run(f, p) \in Seq(Byte)
         /\ Len(Part1(f, p)) = RunEnd(f, p) - 1 - p
         /\ \A j \in 1 .. RunEnd(f, p) - 1 - p : Part1(f, p)[j] = f[p + j]
    BY <1>1, <1>9, <1>10, RunFacts
  <1>12. RunEnd(f, p) - 1 - p = l
    <2>1. w + 1 - 1 - p = l /\ p \in Nat
      <3>1. p = m + 1  BY <1>7
      <3> QED  BY <1>6, <3>1
    <2> QED  BY <1>8, <2>1
  <1>13. Part1(f, p) = run
    <2>1. Len(Part1(f, p)) = Len(run)  BY <1>2, <1>11, <1>12
    <2>2. \A j \in 1 .. Len(Part1(f, p)) : Part1(f, p)[j] = run[j]
      BY <1>2, <1>5, <1>7, <1>11, <1>12
    <2>3. Part1(f, p) \in Seq(Byte)  BY <1>11
    <2> QED  BY <2>1, <2>2, <2>3, SeqEqual
  <1> QED  BY <1>2, <1>3, <1>7, <1>8, <1>10, <1>13

(* A part of a sequence with the next element behind it.                   *)
LEMMA PartGrows ==
    ASSUME NEW s \in Seq(Byte), NEW i \in 1 .. Len(s), NEW a \in Nat, a < i
    PROVE  /\ SubSeq(s, a + 1, i - 1) \in Seq(Byte) /\ s[i] \in Byte
           /\ Append(SubSeq(s, a + 1, i - 1), s[i]) = SubSeq(s, a + 1, i)
           /\ SubSeq(s, a + 1, i - 1) \o <<s[i]>> = SubSeq(s, a + 1, i)
  <1>1. PICK n \in Nat : n = Len(s)  BY LenProperties
  <1>2. a + 1 \in 1 .. Len(s) /\ i \in a + 1 .. Len(s) /\ i - 1 \in 0 .. Len(s) /\ a <= i - 1
    BY <1>1
  <1>3. SubSeq(s, a + 1, i - 1) \in Seq(Byte)  BY <1>2, Part
  <1>4. s[i] \in Byte  BY ElementOfSeq
  <1>5. SubSeq(s, a + 1, i) = SubSeq(s, a + 1, i - 1) \o <<s[i]>>
    BY <1>2, SubSeqRecursiveSecond
  <1>6. PICK u \in Seq(Byte), b \in Byte : u = SubSeq(s, a + 1, i - 1) /\ b = s[i]
    BY <1>3, <1>4
  <1>7. Append(u, b) = u \o <<b>>  BY AppendIsConcat
  <1> QED  BY <1>3, <1>4, <1>5, <1>6, <1>7

(* A byte that does not join the run closes a block: a run before a zero,  *)
(* or a full one.                                                          *)
Closes(r, b, c, run) ==
    /\ HasBlock(r.out, run, c.out) /\ c.run = <<>>
    /\ \/ b = 0 /\ run = r.run /\ Len(run) + 1 < MAX_CODE
       \/ b # 0 /\ run = Append(r.run, b) /\ Len(run) + 1 = MAX_CODE

LEMMA ClosingStep ==
    ASSUME NEW r \in State, NEW c \in State, NEW b \in Byte,
           Joins(r, b, c) \/ Ends(r, b, c) \/ Fills(r, b, c)
    PROVE  Joins(r, b, c) \/ \E run \in Seq(Byte) : Closes(r, b, c, run)
  <1>1. /\ r.out \in Seq(Byte) /\ r.run \in Seq(Byte) /\ NonZero(r.out) /\ NonZero(r.run)
        /\ Len(r.run) + 1 < MAX_CODE
    BY DEF State
  <1>2. PICK l \in Nat : l = Len(r.run)  BY <1>1, LenProperties
  <1>3. l + 1 < MAX_CODE /\ MAX_CODE \in Nat  BY <1>1, <1>2, CodeAssumption
  <1>4. CASE Ends(r, b, c)
    <2>1. Len(r.run) + 1 <= MAX_CODE  BY <1>2, <1>3
    <2>2. HasBlock(r.out, r.run, r.out \o Block(r.run))  BY <1>1, <2>1, ClosedFacts
    <2>3. Closes(r, b, c, r.run)  BY <1>1, <1>4, <2>2 DEF Closes, Ends
    <2> QED  BY <1>1, <2>3
  <1>5. CASE Fills(r, b, c)
    <2>1. PICK run \in Seq(Byte) : run = Append(r.run, b) /\ NonZero(run) /\ Len(run) = l + 1
      BY <1>1, <1>2, <1>5, Grown DEF Fills
    <2>2. l + 2 = MAX_CODE  BY <1>2, <1>5 DEF Fills
    <2>3. Len(run) + 1 = MAX_CODE /\ Len(run) + 1 <= MAX_CODE  BY <1>3, <2>1, <2>2
    <2>4. HasBlock(r.out, run, r.out \o Block(run))  BY <1>1, <2>1, <2>3, ClosedFacts
    <2>5. Closes(r, b, c, run)  BY <1>5, <2>1, <2>3, <2>4 DEF Closes, Fills
    <2> QED  BY <2>5
  <1> QED  BY <1>4, <1>5

LEMMA EncodedBegins ==
    ASSUME NEW s \in Seq(Byte)
    PROVE  \A i \in 0 .. Len(s) :
               /\ Begins(Encode(s), Collected(s)[i].out)
               /\ Len(Collected(s)[i].out) + 2 <= Len(Encode(s))
  <1>1. PICK n \in Nat : n = Len(s)  BY LenProperties
  <1>2. PICK f \in Seq(Byte) : f = Encode(s)  BY EncodeShape DEF IsFrame
  <1> DEFINE R == Collected(s)
             Grows(i) == Begins(f, R[i].out) /\ Len(R[i].out) + 2 <= Len(f)
             T == {k \in 0 .. n : Grows(n - k)}
  <1>3. 0 \in T
    <2>1. PICK r \in State, body \in Seq(Byte) : Encodes(s, r, body)  BY EncodeBody
    <2>2. r = R[n] /\ HasBlock(r.out, r.run, body)  BY <1>1, <2>1 DEF Encodes
    <2>3. r.out \in Seq(Byte) /\ r.run \in Seq(Byte)  BY DEF State
    <2>4. Begins(f, body)
      <3>1. PICK b \in Nat : b = Len(body)  BY LenProperties
      <3>2. Len(f) = b + 1 /\ \A j \in 1 .. b : f[j] = body[j]
        BY <1>2, <2>1, <3>1 DEF Encodes
      <3>3. b + 1 <= Len(f)  BY <3>2
      <3> QED  BY <3>1, <3>2, <3>3 DEF Begins
    <2>5. Begins(f, r.out) /\ Len(r.out) + 2 <= Len(f)
      BY <2>2, <2>3, <2>4, BlockBegins
    <2> HIDE DEF R
    <2>6. Grows(n)  BY <2>2, <2>5
    <2>7. n - 0 = n  OBVIOUS
    <2> HIDE DEF Grows
    <2> QED  BY <2>6, <2>7
  <1>4. ASSUME NEW k \in 1 .. n, k - 1 \in T PROVE k \in T
    <2>1. PICK i \in 1 .. n : i = n - (k - 1) /\ i - 1 = n - k  OBVIOUS
    <2>2. PICK r \in State, c \in State, b \in Byte :
              /\ r = R[i - 1] /\ c = R[i] /\ b = s[i]
              /\ Joins(r, b, c) \/ Ends(r, b, c) \/ Fills(r, b, c)
      BY <1>1, CollectStep
    <2>3. Grows(i)
      <3> HIDE DEF Grows
      <3> QED  BY <1>4, <2>1
    <2>4. r.out \in Seq(Byte) /\ c.out \in Seq(Byte)  BY DEF State
    <2>5. Begins(f, c.out) /\ Len(c.out) + 2 <= Len(f)  BY <2>2, <2>3
    <2>6. Begins(f, r.out) /\ Len(r.out) + 2 <= Len(f)
      <3>1. CASE Joins(r, b, c)  BY <2>5, <3>1 DEF Joins
      <3>2. ASSUME NEW run \in Seq(Byte), Closes(r, b, c, run)
            PROVE  Begins(f, r.out) /\ Len(r.out) + 2 <= Len(f)
        BY <2>4, <2>5, <3>2, BlockBegins DEF Closes
      <3> QED  BY <2>2, <3>1, <3>2, ClosingStep
    <2> HIDE DEF R
    <2>7. Grows(i - 1)  BY <2>2, <2>6
    <2> HIDE DEF Grows
    <2> QED  BY <2>1, <2>7
  <1>5. \A k \in 0 .. n : k \in T
    <2> HIDE DEF T
    <2> QED  BY <1>3, <1>4, Induction, Zenon
  <1>6. ASSUME NEW i \in 0 .. n PROVE Grows(i)
    <2> HIDE DEF Grows
    <2>1. n - i \in 0 .. n /\ n - (n - i) = i  OBVIOUS
    <2>2. n - i \in T
      <3> HIDE DEF T
      <3> QED  BY <1>5, <2>1
    <2> QED  BY <2>1, <2>2
  <1> QED  BY <1>1, <1>2, <1>6

(* After i bytes: what the decoder reads at the start is the first a of    *)
(* them and what it reads where the encoder writes on; the rest of the i   *)
(* is the run.                                                             *)
ReadUpTo(s, i, a) ==
    /\ Decoded(Encode(s))[1] =
           SubSeq(s, 1, a) \o Decoded(Encode(s))[Len(Collected(s)[i].out) + 1]
    /\ Collected(s)[i].run = SubSeq(s, a + 1, i)

LEMMA ReadStep ==
    ASSUME NEW s \in Seq(Byte), NEW i \in 1 .. Len(s), NEW a \in 0 .. i - 1,
           ReadUpTo(s, i - 1, a)
    PROVE  \E z \in 0 .. i : ReadUpTo(s, i, z)
  <1> DEFINE F == Encode(s)
             D == Decoded(F)
             R == Collected(s)
  <1>1. PICK n \in Nat : n = Len(s)  BY LenProperties
  <1>2. IsFrame(F)  BY EncodeShape
  <1>3. /\ \A j \in 1 .. Len(F) : D[j] \in Seq(Byte)
        /\ D[Len(F)] = <<>>
        /\ \A j \in 1 .. Len(F) - 1 : D[j] = Run(F, j) \o D[RunEnd(F, j)]
    BY <1>2, DecodedFacts
  <1>4. PICK r \in State, c \in State, b \in Byte :
            /\ r = R[i - 1] /\ c = R[i] /\ b = s[i]
            /\ Joins(r, b, c) \/ Ends(r, b, c) \/ Fills(r, b, c)
    BY CollectStep
  <1>5. r.out \in Seq(Byte) /\ c.out \in Seq(Byte) /\ r.run \in Seq(Byte)  BY DEF State
  <1>6. Begins(F, c.out) /\ Len(c.out) + 2 <= Len(F)
    <2>1. i \in 0 .. Len(s)  BY <1>1
    <2> QED  BY <1>4, <2>1, EncodedBegins
  <1>7. /\ SubSeq(s, a + 1, i - 1) \in Seq(Byte) /\ s[i] \in Byte
        /\ Append(SubSeq(s, a + 1, i - 1), s[i]) = SubSeq(s, a + 1, i)
        /\ SubSeq(s, a + 1, i - 1) \o <<s[i]>> = SubSeq(s, a + 1, i)
    <2>1. a \in Nat /\ a < i  BY <1>1
    <2> QED  BY <2>1, PartGrows
  <1>8. r.run = SubSeq(s, a + 1, i - 1)
        /\ D[1] = SubSeq(s, 1, a) \o D[Len(r.out) + 1]
    BY <1>4 DEF ReadUpTo
  <1>9. CASE Joins(r, b, c)
    <2>1. c.out = r.out /\ c.run = Append(r.run, b)  BY <1>9 DEF Joins
    <2>2. c.run = SubSeq(s, a + 1, i)  BY <1>4, <1>7, <1>8, <2>1
    <2>3. ReadUpTo(s, i, a)  BY <1>4, <1>8, <2>1, <2>2 DEF ReadUpTo
    <2>4. a \in 0 .. i  BY <1>1
    <2> QED  BY <2>3, <2>4
  <1>10. ASSUME NEW run \in Seq(Byte), Closes(r, b, c, run)
         PROVE  \E z \in 0 .. i : ReadUpTo(s, i, z)
    <2>1. HasBlock(r.out, run, c.out) /\ c.run = <<>>  BY <1>10 DEF Closes
    <2>2. PICK f : f = F  OBVIOUS
    <2>3. f \in Seq(Byte) /\ IsFrame(f)  BY <1>2, <2>2 DEF IsFrame
    <2>4. /\ Len(r.out) + 1 \in 1 .. Len(f) - 1
          /\ RunEnd(f, Len(r.out) + 1) = Len(c.out) + 1
          /\ Part1(f, Len(r.out) + 1) = run
      <3> HIDE DEF F
      <3> QED  BY <1>5, <1>6, <2>1, <2>2, <2>3, BlockRead
    <2>5. f[Len(r.out) + 1] = Len(run) + 1
      <3> HIDE DEF F
      <3> QED  BY <1>5, <1>6, <2>1, <2>2, <2>3, BlockBegins
    <2>6. PICK p \in 1 .. Len(f) - 1 : p = Len(r.out) + 1  BY <2>4
    <2>7. PICK e \in Nat, w \in Nat, l \in Nat :
              e = Len(f) /\ w = Len(c.out) /\ l = Len(run)
      BY <1>5, <2>3, LenProperties
    <2>8. w + 1 < e /\ RunEnd(f, p) = w + 1 /\ w + 1 \in 1 .. e /\ f[p] = l + 1
      <3>1. w + 2 <= e
        <4> HIDE DEF F
        <4> QED  BY <1>6, <2>2, <2>7
      <3>2. w + 1 < e /\ w + 1 \in 1 .. e  BY <3>1
      <3> QED  BY <2>4, <2>5, <2>6, <2>7, <3>2
    <2>9. RunEnd(f, p) < Len(f)  BY <2>7, <2>8
    <2>10. Run(f, p) = SubSeq(s, a + 1, i)
      <3>1. CASE b = 0 /\ run = r.run /\ Len(run) + 1 < MAX_CODE
        <4>1. f[p] < MAX_CODE  BY <2>7, <2>8, <3>1
        <4>2. Run(f, p) = run \o <<0>>  BY <2>4, <2>6, <2>9, <4>1 DEF Run, Part1
        <4> QED  BY <1>4, <1>7, <1>8, <3>1, <4>2
      <3>2. CASE run = Append(r.run, b) /\ Len(run) + 1 = MAX_CODE
        <4>1. ~(f[p] < MAX_CODE)  BY <2>7, <2>8, <3>2, CodeAssumption
        <4>2. Run(f, p) = run \o <<>>  BY <2>4, <2>6, <4>1 DEF Run, Part1
        <4>3. run \o <<>> = run  BY ConcatEmptySeq
        <4> QED  BY <1>4, <1>7, <1>8, <3>2, <4>2, <4>3
      <3> QED  BY <1>10, <3>1, <3>2 DEF Closes
    <2>11. PICK t \in Seq(Byte) : t = D[w + 1] /\ D[p] = SubSeq(s, a + 1, i) \o t
      <3> HIDE DEF D
      <3>1. \A j \in 1 .. e : D[j] \in Seq(Byte)  BY <1>3, <2>2, <2>7
      <3>2. D[p] = Run(f, p) \o D[RunEnd(f, p)]
        <4> HIDE DEF F
        <4> QED  BY <1>3, <2>2
      <3> QED  BY <2>8, <2>10, <3>1, <3>2
    <2>12. SubSeq(s, 1, a) \o (SubSeq(s, a + 1, i) \o t) = SubSeq(s, 1, i) \o t
      <3>1. PICK j \in Nat : j = i /\ a \in Nat /\ a <= j /\ j <= Len(s)  BY <1>1
      <3>2. Glues(s, a, j, t)  BY <3>1, Glued
      <3> QED  BY <3>1, <3>2 DEF Glues
    <2>13. D[1] = SubSeq(s, 1, i) \o D[w + 1]
      <3> HIDE DEF D
      <3> QED  BY <1>8, <2>6, <2>11, <2>12
    <2>14. SubSeq(s, i + 1, i) = <<>>
      <3>1. i + 1 \in Int /\ i \in Int /\ i < i + 1  BY <1>1
      <3> QED  BY <3>1, SubSeqEmpty
    <2>15. ReadUpTo(s, i, i)  BY <1>4, <2>1, <2>7, <2>13, <2>14 DEF ReadUpTo
    <2>16. i \in 0 .. i  BY <1>1
    <2> QED  BY <2>15, <2>16
  <1> QED  BY <1>4, <1>9, <1>10, ClosingStep

(* What is encoded is decoded to what it was, whatever the bytes and how   *)
(* many (cobs_encode, cobs_decode and their counterparts in the host       *)
(* libraries).                                                             *)
THEOREM RoundTrip ==
    ASSUME NEW s \in Seq(Byte)
    PROVE  Decode(Encode(s)) = s
  <1>1. PICK n \in Nat : n = Len(s)  BY LenProperties
  <1> DEFINE T == {i \in 0 .. n : \E a \in 0 .. i : ReadUpTo(s, i, a)}
             D == Decoded(Encode(s))
  <1>2. PICK f \in Seq(Byte) : f = Encode(s) /\ IsFrame(f) /\ Len(f) \in Nat \ {0, 1}
    BY EncodeShape DEF IsFrame
  <1>3. /\ \A j \in 1 .. Len(f) : Decoded(f)[j] \in Seq(Byte)
        /\ Decoded(f)[Len(f)] = <<>>
        /\ \A j \in 1 .. Len(f) - 1 : Decoded(f)[j] = Run(f, j) \o Decoded(f)[RunEnd(f, j)]
    BY <1>2, DecodedFacts
  <1>4. 0 \in T
    <2>1. Collected(s)[0].out = <<>> /\ Collected(s)[0].run = <<>>  BY CollectedFacts DEF Fresh
    <2>2. SubSeq(s, 1, 0) = <<>>
      <3>1. 1 \in Int /\ 0 \in Int /\ 0 < 1  OBVIOUS
      <3> QED  BY <3>1, SubSeqEmpty
    <2>3. PICK d \in Seq(Byte) : d = Decoded(f)[1]
      <3>1. 1 \in 1 .. Len(f)  BY <1>2
      <3> QED  BY <1>3, <3>1
    <2>4. <<>> \o d = d  BY ConcatEmptySeq
    <2>5. Len(<<>>) + 1 = 1 /\ 0 + 1 = 1  OBVIOUS
    <2>6. ReadUpTo(s, 0, 0)  BY <1>2, <2>1, <2>2, <2>3, <2>4, <2>5 DEF ReadUpTo
    <2>7. 0 \in 0 .. 0 /\ 0 \in 0 .. n  OBVIOUS
    <2> QED  BY <2>6, <2>7
  <1>5. ASSUME NEW i \in 1 .. n, i - 1 \in T PROVE i \in T
    <2>1. PICK a \in 0 .. i - 1 : ReadUpTo(s, i - 1, a)  BY <1>5
    <2>2. \E z \in 0 .. i : ReadUpTo(s, i, z)  BY <1>1, <2>1, ReadStep
    <2> QED  BY <2>2
  <1>6. PICK a \in 0 .. n : ReadUpTo(s, n, a)
    <2>1. n \in T
      <3> HIDE DEF T
      <3>1. \A i \in 0 .. n : i \in T  BY <1>4, <1>5, Induction, Zenon
      <3> QED  BY <3>1
    <2> QED  BY <2>1
  <1>7. PICK r \in State, body \in Seq(Byte) : Encodes(s, r, body)  BY EncodeBody
  <1>8. r = Collected(s)[n] /\ HasBlock(r.out, r.run, body)  BY <1>1, <1>7 DEF Encodes
  <1>9. r.out \in Seq(Byte) /\ r.run \in Seq(Byte)  BY DEF State
  <1>10. PICK b \in Nat : b = Len(body) /\ b + 1 = Len(f)
    <2>1. PICK b \in Nat : b = Len(body)  BY LenProperties
    <2>2. Len(f) = b + 1  BY <1>2, <1>7, <2>1 DEF Encodes
    <2> QED  BY <2>1, <2>2
  <1>11. Begins(f, body)
    <2>1. \A j \in 1 .. b : f[j] = body[j]  BY <1>2, <1>7, <1>10 DEF Encodes
    <2>2. b + 1 <= Len(f)  BY <1>10
    <2> QED  BY <1>10, <2>1, <2>2 DEF Begins
  <1>12. /\ Len(r.out) + 1 \in 1 .. Len(f) - 1
         /\ RunEnd(f, Len(r.out) + 1) = Len(body) + 1
         /\ Part1(f, Len(r.out) + 1) = r.run
    BY <1>2, <1>8, <1>9, <1>11, BlockRead
  <1>13. PICK p \in 1 .. Len(f) - 1 : p = Len(r.out) + 1  BY <1>12
  <1>14. RunEnd(f, p) = Len(f) /\ Part1(f, p) = r.run  BY <1>10, <1>12, <1>13
  <1>15. Run(f, p) = r.run
    <2>1. ~(RunEnd(f, p) < Len(f))  BY <1>2, <1>14
    <2>2. Run(f, p) = r.run \o <<>>  BY <1>14, <2>1 DEF Run, Part1
    <2>3. r.run \o <<>> = r.run  BY <1>9, ConcatEmptySeq
    <2> QED  BY <2>2, <2>3
  <1>16. Decoded(f)[p] = r.run \o <<>>  BY <1>3, <1>14, <1>15
  <1>17. r.run = SubSeq(s, a + 1, n) /\ Decoded(f)[1] = SubSeq(s, 1, a) \o Decoded(f)[p]
    BY <1>2, <1>6, <1>8, <1>13 DEF ReadUpTo
  <1>18. SubSeq(s, 1, a) \o (SubSeq(s, a + 1, n) \o <<>>) = SubSeq(s, 1, n) \o <<>>
    <2>1. a \in Nat /\ a <= n /\ n <= Len(s) /\ <<>> \in Seq(Byte)  BY <1>1
    <2>2. Glues(s, a, n, <<>>)  BY <2>1, Glued
    <2> QED  BY <2>2 DEF Glues
  <1>19. SubSeq(s, 1, n) \o <<>> = s
    <2>1. SubSeq(s, 1, Len(s)) = s  BY SubSeqFull
    <2>2. s \o <<>> = s  BY ConcatEmptySeq
    <2> QED  BY <1>1, <2>1, <2>2
  <1>20. Decoded(f)[1] = s  BY <1>16, <1>17, <1>18, <1>19
  <1>21. f # <<>> /\ f[Len(f)] = 0 /\ ~\E i \in 1 .. Len(f) - 1 : f[i] = 0
    <2>1. PICK e \in Nat \ {0, 1} : e = Len(f)  BY <1>2
    <2>2. f # <<>> /\ \A j \in 1 .. e : f[j] = 0 <=> j = e  BY <1>2, <2>1 DEF IsFrame
    <2>3. e \in 1 .. e /\ \A j \in 1 .. e - 1 : j \in 1 .. e /\ j # e  BY <2>1
    <2> QED  BY <2>1, <2>2, <2>3
  <1> QED  BY <1>2, <1>20, <1>21 DEF Decode

-----------------------------------------------------------------------------
(* The checksum of bytes is a word.                                        *)

LEMMA WordIs == \A x : x \in Word <=> x \in Nat /\ x < 65536
  <1>1. ASSUME NEW x \in Word PROVE x \in Nat /\ x < 65536  BY DEF Word
  <1>2. ASSUME NEW x \in Nat, x < 65536 PROVE x \in Word
    <2>1. PICK n : n = 65535  OBVIOUS
    <2>2. Word = 0 .. n  BY <2>1 DEF Word
    <2>3. n \in Nat /\ x <= n  BY <1>2, <2>1
    <2> QED  BY <2>2, <2>3
  <1> QED  BY <1>1, <1>2

LEMMA DigitXor ==
    /\ \A a, b \in 0 .. 15 : digit_xor[a][b] \in 0 .. 15
    /\ digit_xor[0][0] = 0
  <1> DEFINE differ(a, b, k) == ((a \div k) + (b \div k)) % 2
             sum(a, b) == differ(a, b, 1) + 2 * differ(a, b, 2)
                          + 4 * differ(a, b, 4) + 8 * differ(a, b, 8)
  <1>1. \A a, b \in 0 .. 15 : digit_xor[a][b] = sum(a, b)  BY DEF digit_xor
  <1>2. ASSUME NEW a \in 0 .. 15, NEW b \in 0 .. 15, NEW k \in {1, 2, 4, 8}
        PROVE  differ(a, b, k) \in 0 .. 1
    <2>1. PICK x \in Nat : x = a \div k  OBVIOUS
    <2>2. PICK y \in Nat : y = b \div k  OBVIOUS
    <2>3. (x + y) % 2 \in 0 .. 1  OBVIOUS
    <2> QED  BY <2>1, <2>2, <2>3
  <1>3. ASSUME NEW a \in 0 .. 15, NEW b \in 0 .. 15 PROVE sum(a, b) \in 0 .. 15
    <2>1. PICK d1 \in 0 .. 1 : d1 = differ(a, b, 1)  BY <1>2
    <2>2. PICK d2 \in 0 .. 1 : d2 = differ(a, b, 2)  BY <1>2
    <2>3. PICK d4 \in 0 .. 1 : d4 = differ(a, b, 4)  BY <1>2
    <2>4. PICK d8 \in 0 .. 1 : d8 = differ(a, b, 8)  BY <1>2
    <2>5. d1 + 2 * d2 + 4 * d4 + 8 * d8 \in 0 .. 15  OBVIOUS
    <2> HIDE DEF differ
    <2> QED  BY <2>1, <2>2, <2>3, <2>4, <2>5
  <1>4. sum(0, 0) = 0  OBVIOUS
  <1>5. 0 \in 0 .. 15  OBVIOUS
  <1> HIDE DEF sum
  <1> QED  BY <1>1, <1>3, <1>4, <1>5

LEMMA XorType ==
    ASSUME NEW v \in Nat, NEW w \in Nat
    PROVE  /\ Xor(v, w) \in Word
           /\ v < 256 /\ w < 256 => Xor(v, w) \in Byte
  <1> DEFINE at(k) == digit_xor[(v \div k) % 16][(w \div k) % 16]
  <1>1. ASSUME NEW k \in Nat \ {0} PROVE at(k) \in 0 .. 15
    <2>1. PICK x \in Nat : x = v \div k  OBVIOUS
    <2>2. PICK y \in Nat : y = w \div k  OBVIOUS
    <2>3. x % 16 \in 0 .. 15 /\ y % 16 \in 0 .. 15  OBVIOUS
    <2>4. digit_xor[x % 16][y % 16] \in 0 .. 15  BY <2>3, DigitXor
    <2> QED  BY <2>1, <2>2, <2>4
  <1>2. Xor(v, w) = at(1) + 16 * at(16) + 256 * at(256) + 4096 * at(4096)  BY DEF Xor
  <1>3. ASSUME v < 256, w < 256 PROVE at(256) = 0 /\ at(4096) = 0
    <2>1. v \div 256 = 0 /\ w \div 256 = 0 /\ v \div 4096 = 0 /\ w \div 4096 = 0  BY <1>3
    <2>2. 0 % 16 = 0  OBVIOUS
    <2> QED  BY <2>1, <2>2, DigitXor
  <1> HIDE DEF at
  <1>4. PICK d1 \in 0 .. 15 : d1 = at(1)  BY <1>1
  <1>5. PICK d2 \in 0 .. 15 : d2 = at(16)  BY <1>1
  <1>6. PICK d3 \in 0 .. 15 : d3 = at(256)  BY <1>1
  <1>7. PICK d4 \in 0 .. 15 : d4 = at(4096)  BY <1>1
  <1>8. Xor(v, w) = d1 + 16 * d2 + 256 * d3 + 4096 * d4  BY <1>2, <1>4, <1>5, <1>6, <1>7
  <1>9. d1 + 16 * d2 + 256 * d3 + 4096 * d4 \in Word
    <2>1. PICK low \in 0 .. 255 : low = d1 + 16 * d2  OBVIOUS
    <2>2. PICK high \in 0 .. 255 : high = d3 + 16 * d4  OBVIOUS
    <2>3. d1 + 16 * d2 + 256 * d3 + 4096 * d4 = low + 256 * high  BY <2>1, <2>2
    <2>4. low + 256 * high \in Nat /\ low + 256 * high < 65536  OBVIOUS
    <2> QED  BY <2>3, <2>4, WordIs
  <1>10. ASSUME v < 256, w < 256 PROVE Xor(v, w) \in Byte
    <2>1. d3 = 0 /\ d4 = 0  BY <1>3, <1>6, <1>7, <1>10
    <2>2. d1 + 16 * d2 + 256 * 0 + 4096 * 0 \in Byte  BY DEF Byte
    <2> QED  BY <1>8, <2>1, <2>2
  <1> QED  BY <1>8, <1>9, <1>10

LEMMA ShiftedType ==
    ASSUME NEW crc \in Word
    PROVE  Shifted(crc) \in Word
  <1>1. PICK twice \in Word : twice = (crc * 2) % 65536
    <2>1. PICK c \in Nat : c = crc * 2  BY WordIs
    <2>2. PICK x \in Nat : x = c % 65536 /\ x < 65536  OBVIOUS
    <2>3. x \in Word  BY <2>2, WordIs
    <2> QED  BY <2>1, <2>2, <2>3
  <1>2. Xor(twice, 4129) \in Word
    <2>1. twice \in Nat /\ 4129 \in Nat  BY WordIs
    <2> QED  BY <2>1, XorType
  <1>3. Shifted(crc) = IF crc >= 32768 THEN Xor(twice, 4129) ELSE twice
    BY <1>1 DEF Shifted
  <1> QED  BY <1>2, <1>3

LEMMA TableType == crc16_table \in [Byte -> Word]
  <1>1. ASSUME NEW byte \in Byte
        PROVE  Shifted(Shifted(Shifted(Shifted(Shifted(Shifted(Shifted(Shifted(byte * 256))))))))
                   \in Word
    <2>1. PICK w0 \in Word : w0 = byte * 256  BY WordIs DEF Byte
    <2>2. PICK w1 \in Word : w1 = Shifted(w0)  BY ShiftedType
    <2>3. PICK w2 \in Word : w2 = Shifted(w1)  BY ShiftedType
    <2>4. PICK w3 \in Word : w3 = Shifted(w2)  BY ShiftedType
    <2>5. PICK w4 \in Word : w4 = Shifted(w3)  BY ShiftedType
    <2>6. PICK w5 \in Word : w5 = Shifted(w4)  BY ShiftedType
    <2>7. PICK w6 \in Word : w6 = Shifted(w5)  BY ShiftedType
    <2>8. PICK w7 \in Word : w7 = Shifted(w6)  BY ShiftedType
    <2>9. Shifted(w7) \in Word  BY ShiftedType
    <2> QED  BY <2>1, <2>2, <2>3, <2>4, <2>5, <2>6, <2>7, <2>8, <2>9, Zenon
  <1> QED  BY <1>1 DEF crc16_table, Byte

LEMMA UpdatedType ==
    ASSUME NEW crc \in Word, NEW byte \in Byte
    PROVE  Updated(crc, byte) \in Word
  <1>1. PICK high \in Nat : high = crc \div 256 /\ high < 256
    <2>1. PICK c \in Nat : c = crc /\ c < 65536  BY WordIs
    <2>2. PICK high \in Nat : high = c \div 256  OBVIOUS
    <2>3. high < 256  BY <2>1, <2>2
    <2> QED  BY <2>1, <2>2, <2>3
  <1>2. PICK low \in Nat : low = (crc * 256) % 65536
    <2>1. PICK c \in Nat : c = crc * 256  BY WordIs
    <2>2. c % 65536 \in Nat  OBVIOUS
    <2> QED  BY <2>1, <2>2
  <1>3. Xor(high, byte) \in Byte
    <2>1. byte \in Nat /\ byte < 256  BY DEF Byte
    <2> QED  BY <1>1, <2>1, XorType
  <1>4. PICK x \in Byte : x = Xor(high, byte)  BY <1>3
  <1>5. PICK t \in Word : t = crc16_table[x]  BY TableType
  <1>6. Xor(low, t) \in Word
    <2>1. t \in Nat  BY WordIs
    <2> QED  BY <2>1, XorType
  <1> QED  BY <1>1, <1>2, <1>4, <1>5, <1>6 DEF Updated

LEMMA ChecksumSteps ==
    ASSUME NEW data \in Seq(Byte)
    PROVE  /\ Checksums(data)[0] = 65535
           /\ \A i \in 1 .. Len(data) : Checksums(data)[i] = Updated(Checksums(data)[i - 1], data[i])
           /\ \A i \in 0 .. Len(data) : Checksums(data)[i] \in Word
  <1>1. PICK n \in Nat : n = Len(data)  BY LenProperties
  <1>2. \A i \in 1 .. n : data[i] \in Byte  BY <1>1, ElementOfSeq
  <1> DEFINE Def(g) == [i \in 0 .. n |-> IF i = 0 THEN 65535 ELSE Updated(g[i - 1], data[i])]
             step == [i \in 1 .. n |-> [w \in Word |-> Updated(w, data[i])]]
  <1>3. step \in [1 .. n -> [Word -> Word]]  BY <1>2, UpdatedType
  <1>4. PICK first \in Word : first = 65535  BY WordIs
  <1>5. PICK f \in [0 .. n -> Word] :
            f[0] = first /\ \A i \in 1 .. n : f[i] = step[i][f[i - 1]]
    <2> HIDE DEF step
    <2>1. HasSteps(n, Word, first, step)  BY <1>3, Recursion
    <2> QED  BY <2>1, Zenon DEF HasSteps
  <1>6. ASSUME NEW i \in 1 .. n PROVE f[i] = Updated(f[i - 1], data[i])
    <2>1. f[i - 1] \in Word  OBVIOUS
    <2>2. step[i][f[i - 1]] = Updated(f[i - 1], data[i])  BY <2>1
    <2> HIDE DEF step
    <2> QED  BY <1>5, <2>2
  <1>7. f = Def(f)
    <2>1. ASSUME NEW i \in 0 .. n
          PROVE  f[i] = IF i = 0 THEN 65535 ELSE Updated(f[i - 1], data[i])
      <3>1. CASE i = 0  BY <1>4, <1>5, <3>1
      <3>2. CASE i # 0
        <4>1. i \in 1 .. n  BY <3>2
        <4> QED  BY <1>6, <3>2, <4>1
      <3> QED  BY <3>1, <3>2
    <2> QED  BY <2>1
  <1>8. Checksums(data) = CHOOSE g : g = Def(g)  BY <1>1 DEF Checksums
  <1> DEFINE C == CHOOSE g : g = Def(g)
  <1>9. C = Def(C)
    <2> HIDE DEF Def
    <2> QED  BY <1>7
  <1>10. C[0] = 65535 /\ \A i \in 1 .. n : C[i] = Updated(C[i - 1], data[i])
    <2> HIDE DEF C
    <2> QED  BY <1>9
  <1>11. \A i \in 0 .. n : C[i] \in Word
    <2> DEFINE T == {i \in 0 .. n : C[i] \in Word}
    <2> HIDE DEF C
    <2>1. 0 \in T  BY <1>4, <1>10
    <2>2. ASSUME NEW i \in 1 .. n, i - 1 \in T PROVE i \in T
      <3>1. C[i - 1] \in Word  BY <2>2
      <3>2. PICK w \in Word, b \in Byte : w = C[i - 1] /\ b = data[i]  BY <1>2, <3>1
      <3>3. Updated(w, b) \in Word  BY UpdatedType
      <3>4. C[i] = Updated(w, b)  BY <1>10, <3>2
      <3> QED  BY <3>3, <3>4
    <2>3. \A i \in 0 .. n : i \in T
      <3> HIDE DEF T
      <3> QED  BY <2>1, <2>2, Induction, Zenon
    <2> QED  BY <2>3
  <1> QED  BY <1>1, <1>8, <1>10, <1>11

LEMMA ChecksumType ==
    ASSUME NEW data \in Seq(Byte)
    PROVE  crc16_ccitt(data) \in Word
  <1>1. PICK n \in Nat : n = Len(data)  BY LenProperties
  <1>2. n \in 0 .. n  OBVIOUS
  <1> QED  BY <1>1, <1>2, ChecksumSteps DEF crc16_ccitt

-----------------------------------------------------------------------------
(* Packets: what is put in is at its place, and the checksum agrees.       *)

IsRaw(raw) == raw \in Seq(Byte) /\ Len(raw) = PACKET_FIXED_SIZE
Uuid == {u \in Seq(Byte) : Len(u) = UUID_SIZE}

LEMMA Sizes ==
    \E u \in Nat \ {0}, p \in Nat :
        /\ u = UUID_SIZE /\ p = PACKET_PAYLOAD_SIZE /\ 7 <= p /\ p < 256
        /\ MAX_MESSAGE_IN_PROTOCOL \in Nat /\ 3 + MAX_MESSAGE_IN_PROTOCOL < p
        /\ PACKET_HEADER_SIZE = 5 + u
        /\ ts_offset = 5 + u + p
        /\ FLEX_TS_OFFSET = 4 + u + p \/ FLEX_TS_OFFSET = 5 + u + p
        /\ PACKET_CRC_OFFSET = 13 + u + p /\ PACKET_FIXED_SIZE = 15 + u + p
  <1>1. PICK u \in Nat \ {0} : u = UUID_SIZE  BY PacketAssumption
  <1>2. PICK p \in Nat : p = PACKET_PAYLOAD_SIZE /\ p < 256  BY PacketAssumption
  <1>3. PACKET_HEADER_SIZE = 5 + u  BY <1>1 DEF PACKET_HEADER_SIZE
  <1>4. ts_offset = 5 + u + p  BY <1>2, <1>3 DEF ts_offset
  <1>5. FLEX_TS_OFFSET = 4 + u + p \/ FLEX_TS_OFFSET = 5 + u + p
    <2>1. (5 + u + p) - 1 = 4 + u + p  OBVIOUS
    <2> QED  BY <1>4, <2>1, PacketAssumption
  <1>6. PACKET_CRC_OFFSET = 13 + u + p
    <2>1. (5 + u + p) + 8 = 13 + u + p  OBVIOUS
    <2> QED  BY <1>4, <2>1 DEF PACKET_CRC_OFFSET
  <1>7. PACKET_FIXED_SIZE = 15 + u + p
    <2>1. (13 + u + p) + 2 = 15 + u + p  OBVIOUS
    <2> QED  BY <1>6, <2>1 DEF PACKET_FIXED_SIZE
  <1>8. PICK m : m = MAX_MESSAGE_IN_PROTOCOL  OBVIOUS
  <1>9. m \in Nat /\ 3 + m < p /\ 7 <= p
    <2>1. PICK x \in 3 .. m : x = MAX_FLEX_MESSAGE_LENGTH  BY <1>8, PacketAssumption
    <2>2. 3 + m < p  BY <1>2, <1>8, PacketAssumption DEF CMD_SEND_FLEX_ARGS_SIZE
    <2>3. m \in Nat  BY <1>8, PacketAssumption
    <2>4. 3 <= x /\ x <= m  BY <2>1, <2>3
    <2> QED  BY <2>2, <2>3, <2>4
  <1> QED  BY <1>1, <1>2, <1>3, <1>4, <1>5, <1>6, <1>7, <1>8, <1>9

(* w starts with h.                                                        *)
Leads(h, w) == Len(h) <= Len(w) /\ \A j \in 1 .. Len(h) : w[j] = h[j]

LEMMA LeadsOn ==
    ASSUME NEW a \in Seq(Byte), NEW b \in Seq(Byte), NEW c \in Seq(Byte),
           Leads(a, b), Leads(b, c)
    PROVE  Leads(a, c)
  <1>1. PICK l \in Nat, m \in Nat, n \in Nat : l = Len(a) /\ m = Len(b) /\ n = Len(c)
    BY LenProperties
  <1>2. l <= m /\ m <= n  BY <1>1 DEF Leads
  <1>3. ASSUME NEW j \in 1 .. l PROVE c[j] = a[j]
    <2>1. j \in 1 .. m  BY <1>2
    <2> QED  BY <1>1, <2>1 DEF Leads
  <1>4. l <= n  BY <1>2
  <1> QED  BY <1>1, <1>3, <1>4 DEF Leads

LEMMA LeadsJoined ==
    ASSUME NEW a \in Seq(Byte), NEW b \in Seq(Byte)
    PROVE  Leads(a, a \o b)
  <1>1. /\ a \o b \in Seq(Byte)
        /\ Len(a) \in Nat /\ Len(b) \in Nat
        /\ Len(a \o b) = Len(a) + Len(b)
        /\ \A j \in 1 .. Len(a) : (a \o b)[j] = a[j]
        /\ \A j \in 1 .. Len(b) : (a \o b)[Len(a) + j] = b[j]
    BY Joined
  <1>2. Len(a) <= Len(a \o b)  BY <1>1
  <1> QED  BY <1>1, <1>2 DEF Leads

LEMMA FilledFacts ==
    ASSUME NEW s \in Seq(Byte), NEW n \in Nat, Len(s) <= n
    PROVE  /\ Filled(s, n) \in Seq(Byte) /\ Len(Filled(s, n)) = n /\ Leads(s, Filled(s, n))
           /\ Len(s) + 1 = n => Filled(s, n)[n] = 0
  <1>1. PICK m \in Nat : m = Len(s)  BY LenProperties
  <1>2. PICK k \in Nat : k = n - m
    <2>1. n - m \in Nat  BY <1>1
    <2> QED  BY <2>1
  <1>3. PICK z \in Seq(Byte) : z = Zeros(k) /\ Len(z) = k
    <2>1. Zeros(k) \in [1 .. k -> Byte]  BY DEF Zeros, Byte
    <2>2. Zeros(k) \in Seq(Byte)  BY <2>1, SeqDef
    <2>3. Len(Zeros(k)) = k  BY DEF Zeros
    <2> QED  BY <2>2, <2>3
  <1>4. Filled(s, n) = s \o z  BY <1>1, <1>2, <1>3 DEF Filled
  <1>5. s \o z \in Seq(Byte) /\ Len(s \o z) = Len(s) + Len(z)  BY ConcatProperties
  <1>6. Leads(s, s \o z)  BY LeadsJoined
  <1>7. m + k = n  BY <1>2
  <1>8. Len(s) + 1 = n => Filled(s, n)[n] = 0
    <2> SUFFICES ASSUME Len(s) + 1 = n PROVE Filled(s, n)[n] = 0  OBVIOUS
    <2>1. k = 1  BY <1>1, <1>2
    <2>2. z[1] = 0  BY <1>3, <2>1 DEF Zeros
    <2>3. /\ s \o z \in Seq(Byte) /\ Len(s \o z) = m + k
          /\ \A j \in 1 .. m : (s \o z)[j] = s[j]
          /\ \A j \in 1 .. k : (s \o z)[m + j] = z[j]
      BY <1>1, <1>3, JoinedBytes
    <2>4. (s \o z)[m + 1] = 0  BY <2>1, <2>2, <2>3
    <2> QED  BY <1>1, <1>4, <2>4
  <1> QED  BY <1>1, <1>3, <1>4, <1>5, <1>6, <1>7, <1>8

LEMMA SealedFacts ==
    ASSUME NEW body \in Seq(Byte), Len(body) = PACKET_CRC_OFFSET
    PROVE  IsRaw(Sealed(body)) /\ Passes(Sealed(body)) /\ Leads(body, Sealed(body))
  <1>1. PICK k \in Nat : k = PACKET_CRC_OFFSET /\ k + 2 = PACKET_FIXED_SIZE
    <2>1. PICK u \in Nat \ {0}, p \in Nat :
              PACKET_CRC_OFFSET = 13 + u + p /\ PACKET_FIXED_SIZE = 15 + u + p
      BY Sizes
    <2>2. PICK k \in Nat : k = 13 + u + p  OBVIOUS
    <2>3. k + 2 = 15 + u + p  BY <2>2
    <2> QED  BY <2>1, <2>2, <2>3
  <1>2. PICK crc \in Word : crc = crc16_ccitt(body)  BY ChecksumType
  <1>3. PICK c \in Nat : c = crc /\ c < 65536  BY WordIs
  <1>4. PICK low \in Byte, high \in Byte :
            low = crc % 256 /\ high = crc \div 256 /\ high * 256 + low = crc
    <2>1. PICK h \in Nat : h = c \div 256  OBVIOUS
    <2>2. PICK l \in Nat : l = c % 256 /\ l < 256 /\ c = h * 256 + l  BY <2>1
    <2>3. h * 256 + l < 65536  BY <1>3, <2>2
    <2>4. h < 256  BY <2>3
    <2>5. h \in Byte /\ l \in Byte  BY <2>2, <2>4 DEF Byte
    <2> QED  BY <1>3, <2>1, <2>2, <2>5
  <1>5. PICK z \in Seq(Byte) : z = <<low, high>> /\ Len(z) = 2 /\ z[1] = low /\ z[2] = high
    <2>1. /\ <<low, high>> \in Seq(Byte) /\ Len(<<low, high>>) = 2
          /\ <<low, high>>[1] = low /\ <<low, high>>[2] = high
      OBVIOUS
    <2> QED  BY <2>1, Zenon
  <1>6. PICK raw : raw = Sealed(body)  OBVIOUS
  <1>7. raw = body \o z  BY <1>2, <1>4, <1>5, <1>6 DEF Sealed
  <1>8. /\ raw \in Seq(Byte) /\ Len(raw) = k + 2
        /\ \A j \in 1 .. k : raw[j] = body[j]
        /\ \A j \in 1 .. 2 : raw[k + j] = z[j]
    <2>1. /\ body \o z \in Seq(Byte) /\ Len(body \o z) = k + 2
          /\ \A j \in 1 .. k : (body \o z)[j] = body[j]
          /\ \A j \in 1 .. 2 : (body \o z)[k + j] = z[j]
      BY <1>1, <1>5, JoinedBytes
    <2> QED  BY <1>7, <2>1
  <1>9. IsRaw(raw)  BY <1>1, <1>8 DEF IsRaw
  <1>10. Leads(body, raw)  BY <1>7, LeadsJoined
  <1>11. Bytes(raw, 0, k) = body
    <2>1. 0 \in Nat /\ 0 <= k /\ k \in 0 .. Len(raw) /\ k - 0 = k  BY <1>8
    <2>2. /\ SubSeq(raw, 0 + 1, k) \in Seq(Byte)
          /\ Len(SubSeq(raw, 0 + 1, k)) = k - 0
          /\ \A j \in 1 .. k - 0 : SubSeq(raw, 0 + 1, k)[j] = raw[0 + j]
      BY <1>8, <2>1, Part
    <2>3. 0 + k = k /\ \A j \in 1 .. k : 0 + j = j  OBVIOUS
    <2>4. PICK x \in Seq(Byte) : x = SubSeq(raw, 0 + 1, k) /\ Len(x) = k
      BY <2>1, <2>2
    <2>5. \A j \in 1 .. Len(x) : x[j] = body[j]
      BY <1>8, <2>1, <2>2, <2>3, <2>4
    <2>6. x = body  BY <1>1, <2>4, <2>5, SeqEqual
    <2> QED  BY <2>3, <2>4, <2>6 DEF Bytes
  <1>12. At(raw, k) = low /\ At(raw, k + 1) = high
    <2>1. (k + 1) + 1 = k + 2 /\ 1 \in 1 .. 2 /\ 2 \in 1 .. 2  OBVIOUS
    <2> QED  BY <1>5, <1>8, <2>1 DEF At
  <1>13. Passes(raw)
    BY <1>1, <1>2, <1>4, <1>8, <1>11, <1>12 DEF Passes, UInt16
  <1> QED  BY <1>6, <1>9, <1>10, <1>13

(* The header and the payload, at the start of a packet.                   *)
Carries(raw, type, opcode, flags, uuid, payload) ==
    /\ raw[1] = type /\ raw[2] = opcode /\ raw[3] = flags
    /\ \A k \in 1 .. UUID_SIZE : raw[3 + k] = uuid[k]
    /\ raw[4 + UUID_SIZE] = 0 /\ raw[5 + UUID_SIZE] = Len(payload)
    /\ \A k \in 1 .. Len(payload) : raw[5 + UUID_SIZE + k] = payload[k]

LEMMA HeaderFacts ==
    ASSUME NEW type \in Byte, NEW opcode \in Byte, NEW flags \in Byte, NEW uuid \in Uuid,
           NEW payload \in Seq(Byte), Len(payload) <= PACKET_PAYLOAD_SIZE
    PROVE  \E h \in Seq(Byte) :
               /\ h = Header(type, opcode, flags, uuid, payload) \o payload
               /\ Len(h) = 5 + UUID_SIZE + Len(payload)
               /\ Carries(h, type, opcode, flags, uuid, payload)
  <1>1. PICK u \in Nat \ {0}, p \in Nat :
            u = UUID_SIZE /\ p = PACKET_PAYLOAD_SIZE /\ p < 256
    BY Sizes
  <1>2. PICK l \in Nat : l = Len(payload) /\ l <= p
    <2>1. PICK l \in Nat : l = Len(payload)  BY LenProperties
    <2> QED  BY <1>1, <2>1
  <1>3. l \in Byte /\ 0 \in Byte
    <2>1. l < 256  BY <1>1, <1>2
    <2> QED  BY <2>1 DEF Byte
  <1>4. PICK a \in Seq(Byte) :
            /\ a = <<type, opcode, flags>> /\ Len(a) = 3
            /\ a[1] = type /\ a[2] = opcode /\ a[3] = flags
    <2>1. /\ <<type, opcode, flags>> \in Seq(Byte) /\ Len(<<type, opcode, flags>>) = 3
          /\ <<type, opcode, flags>>[1] = type /\ <<type, opcode, flags>>[2] = opcode
          /\ <<type, opcode, flags>>[3] = flags
      OBVIOUS
    <2> QED  BY <2>1, Zenon
  <1>5. PICK z \in Seq(Byte) : z = <<0, l>> /\ Len(z) = 2 /\ z[1] = 0 /\ z[2] = l
    <2>1. <<0, l>> \in Seq(Byte) /\ Len(<<0, l>>) = 2 /\ <<0, l>>[1] = 0 /\ <<0, l>>[2] = l
      BY <1>3
    <2> QED  BY <2>1, Zenon
  <1>6. PICK id \in Seq(Byte) : id = uuid /\ Len(id) = u  BY <1>1 DEF Uuid
  <1>7. PICK b \in Seq(Byte) :
            /\ b = a \o id /\ Len(b) = 3 + u
            /\ \A j \in 1 .. 3 : b[j] = a[j]
            /\ \A j \in 1 .. u : b[3 + j] = id[j]
    <2>1. /\ a \o id \in Seq(Byte)
          /\ Len(a) \in Nat /\ Len(id) \in Nat
          /\ Len(a \o id) = Len(a) + Len(id)
          /\ \A j \in 1 .. Len(a) : (a \o id)[j] = a[j]
          /\ \A j \in 1 .. Len(id) : (a \o id)[Len(a) + j] = id[j]
      BY Joined
    <2> QED  BY <1>4, <1>6, <2>1
  <1>8. PICK c \in Seq(Byte) :
            /\ c = b \o z /\ Len(c) = 5 + u
            /\ \A j \in 1 .. 3 + u : c[j] = b[j]
            /\ c[4 + u] = 0 /\ c[5 + u] = l
    <2>1. PICK m \in Nat : m = 3 + u  OBVIOUS
    <2>6. /\ b \o z \in Seq(Byte)
          /\ Len(b) \in Nat /\ Len(z) \in Nat
          /\ Len(b \o z) = Len(b) + Len(z)
          /\ \A j \in 1 .. Len(b) : (b \o z)[j] = b[j]
          /\ \A j \in 1 .. Len(z) : (b \o z)[Len(b) + j] = z[j]
      BY Joined
    <2>2. /\ b \o z \in Seq(Byte) /\ Len(b \o z) = m + 2
          /\ \A j \in 1 .. m : (b \o z)[j] = b[j]
          /\ \A j \in 1 .. 2 : (b \o z)[m + j] = z[j]
      BY <1>5, <1>7, <2>1, <2>6
    <2>3. m + 2 = 5 + u /\ m + 1 = 4 + u /\ 1 \in 1 .. 2 /\ 2 \in 1 .. 2  BY <2>1
    <2>4. (b \o z)[4 + u] = 0 /\ (b \o z)[5 + u] = l  BY <1>5, <2>2, <2>3
    <2> QED  BY <2>1, <2>2, <2>3, <2>4
  <1>9. PICK h \in Seq(Byte) :
            /\ h = c \o payload /\ Len(h) = 5 + u + l
            /\ \A j \in 1 .. 5 + u : h[j] = c[j]
            /\ \A j \in 1 .. l : h[5 + u + j] = payload[j]
    <2>1. PICK m \in Nat : m = 5 + u  OBVIOUS
    <2>3. /\ c \o payload \in Seq(Byte)
          /\ Len(c) \in Nat /\ Len(payload) \in Nat
          /\ Len(c \o payload) = Len(c) + Len(payload)
          /\ \A j \in 1 .. Len(c) : (c \o payload)[j] = c[j]
          /\ \A j \in 1 .. Len(payload) : (c \o payload)[Len(c) + j] = payload[j]
      BY Joined
    <2>2. /\ c \o payload \in Seq(Byte) /\ Len(c \o payload) = m + l
          /\ \A j \in 1 .. m : (c \o payload)[j] = c[j]
          /\ \A j \in 1 .. l : (c \o payload)[m + j] = payload[j]
      BY <1>2, <1>8, <2>1, <2>3
    <2> QED  BY <2>1, <2>2
  <1>10. h = Header(type, opcode, flags, uuid, payload) \o payload
    BY <1>2, <1>4, <1>5, <1>6, <1>7, <1>8, <1>9 DEF Header
  <1>11. /\ \A j \in 1 .. 3 : j \in 1 .. 3 + u /\ j \in 1 .. 5 + u
         /\ \A j \in 1 .. u : 3 + j \in 1 .. 3 + u /\ 3 + j \in 1 .. 5 + u
         /\ 4 + u \in 1 .. 5 + u /\ 5 + u \in 1 .. 5 + u
         /\ 1 \in 1 .. 3 /\ 2 \in 1 .. 3 /\ 3 \in 1 .. 3
    OBVIOUS
  <1>12. h[1] = type /\ h[2] = opcode /\ h[3] = flags
    BY <1>4, <1>7, <1>8, <1>9, <1>11
  <1>13. \A j \in 1 .. u : h[3 + j] = uuid[j]
    <2> TAKE j \in 1 .. u
    <2>1. PICK i \in 1 .. 3 + u : i = 3 + j /\ i \in 1 .. 5 + u  BY <1>11
    <2>2. h[i] = c[i] /\ c[i] = b[i]  BY <1>8, <1>9, <2>1
    <2>3. b[3 + j] = uuid[j]  BY <1>6, <1>7
    <2> QED  BY <2>1, <2>2, <2>3
  <1>14. h[4 + u] = 0 /\ h[5 + u] = l  BY <1>8, <1>9, <1>11
  <1>15. Carries(h, type, opcode, flags, uuid, payload)
    BY <1>1, <1>2, <1>9, <1>12, <1>13, <1>14 DEF Carries
  <1> QED  BY <1>1, <1>2, <1>9, <1>10, <1>15

LEMMA CarriedOn ==
    ASSUME NEW type, NEW opcode, NEW flags, NEW uuid, NEW payload \in Seq(Byte),
           NEW h \in Seq(Byte), Len(h) = 5 + UUID_SIZE + Len(payload),
           Carries(h, type, opcode, flags, uuid, payload), NEW raw, Leads(h, raw)
    PROVE  Carries(raw, type, opcode, flags, uuid, payload)
  <1>1. PICK u \in Nat \ {0} : u = UUID_SIZE  BY Sizes
  <1>2. PICK l \in Nat : l = Len(payload)  BY LenProperties
  <1>3. PICK n \in Nat : n = 5 + u + l /\ n = Len(h)  BY <1>1, <1>2
  <1>4. \A j \in 1 .. 5 + u + l : raw[j] = h[j]
    <2>1. \A j \in 1 .. n : raw[j] = h[j]  BY <1>3 DEF Leads
    <2> QED  BY <1>3, <2>1
  <1>5. /\ 1 \in 1 .. 5 + u + l /\ 2 \in 1 .. 5 + u + l /\ 3 \in 1 .. 5 + u + l
        /\ \A j \in 1 .. u : 3 + j \in 1 .. 5 + u + l
        /\ 4 + u \in 1 .. 5 + u + l /\ 5 + u \in 1 .. 5 + u + l
        /\ \A j \in 1 .. l : 5 + u + j \in 1 .. 5 + u + l
    OBVIOUS
  <1>6. /\ h[1] = type /\ h[2] = opcode /\ h[3] = flags
        /\ \A k \in 1 .. u : h[3 + k] = uuid[k]
        /\ h[4 + u] = 0 /\ h[5 + u] = l
        /\ \A k \in 1 .. l : h[5 + u + k] = payload[k]
    BY <1>1, <1>2 DEF Carries
  <1>7. /\ raw[1] = type /\ raw[2] = opcode /\ raw[3] = flags
        /\ \A k \in 1 .. u : raw[3 + k] = uuid[k]
        /\ raw[4 + u] = 0 /\ raw[5 + u] = l
        /\ \A k \in 1 .. l : raw[5 + u + k] = payload[k]
    BY <1>4, <1>5, <1>6
  <1> QED  BY <1>1, <1>2, <1>7 DEF Carries

LEMMA TimestampFacts ==
    ASSUME NEW t \in Word, NEW tz \in Byte, NEW flags \in Byte
    PROVE  Timestamp(t, tz, flags) \in Seq(Byte) /\ Len(Timestamp(t, tz, flags)) = 8
  <1>1. PICK c \in Nat : c = t /\ c < 65536  BY WordIs
  <1>2. PICK high \in Byte, low \in Byte : high = t \div 256 /\ low = t % 256
    <2>1. PICK h \in Nat : h = c \div 256  OBVIOUS
    <2>2. PICK l \in Nat : l = c % 256 /\ l < 256 /\ c = h * 256 + l  BY <2>1
    <2>3. h * 256 + l < 65536  BY <1>1, <2>2
    <2>4. h < 256  BY <2>3
    <2>5. h \in Byte /\ l \in Byte  BY <2>2, <2>4 DEF Byte
    <2> QED  BY <1>1, <2>1, <2>2, <2>5
  <1>3. 0 \in Byte  BY DEF Byte
  <1>4. /\ <<0, 0, high, low, 0, 0, tz, flags>> \in Seq(Byte)
        /\ Len(<<0, 0, high, low, 0, 0, tz, flags>>) = 8
    BY <1>3
  <1> QED  BY <1>2, <1>4 DEF Timestamp

(* A packet that is built is of the fixed size, passes, and says what it   *)
(* was built to say.                                                       *)
Built(raw, type, opcode, flags, uuid, payload) ==
    IsRaw(raw) /\ Passes(raw) /\ Carries(raw, type, opcode, flags, uuid, payload)


LEMMA HostBuilt ==
    ASSUME NEW opcode \in Byte, NEW uuid \in Uuid, NEW payload \in Seq(Byte),
           Len(payload) < PACKET_PAYLOAD_SIZE, NEW t \in Word, NEW tz \in Byte
    PROVE  /\ Built(HostPacket(opcode, uuid, payload, t, tz), 1, opcode, 1, uuid, payload)
           /\ FLEX_TS_OFFSET # ts_offset =>
                  HostPacket(opcode, uuid, payload, t, tz)[PACKET_CRC_OFFSET] = 0
  <1>1. PICK u \in Nat \ {0}, p \in Nat :
            /\ u = UUID_SIZE /\ p = PACKET_PAYLOAD_SIZE
            /\ FLEX_TS_OFFSET = 4 + u + p \/ FLEX_TS_OFFSET = 5 + u + p
            /\ ts_offset = 5 + u + p /\ PACKET_CRC_OFFSET = 13 + u + p
    BY Sizes
  <1>2. PICK l \in Nat : l = Len(payload) /\ l < p
    <2>1. PICK l \in Nat : l = Len(payload)  BY LenProperties
    <2> QED  BY <1>1, <2>1
  <1>3. Len(payload) <= PACKET_PAYLOAD_SIZE
    <2>1. l <= p  BY <1>2
    <2> QED  BY <1>1, <1>2, <2>1
  <1>4. 1 \in Byte  BY DEF Byte
  <1>5. PICK h \in Seq(Byte) :
            /\ h = Header(1, opcode, 1, uuid, payload) \o payload
            /\ Len(h) = 5 + UUID_SIZE + Len(payload)
            /\ Carries(h, 1, opcode, 1, uuid, payload)
    BY <1>3, <1>4, HeaderFacts
  <1>6. PICK a \in Nat, c \in Nat :
            /\ a = FLEX_TS_OFFSET /\ c = PACKET_CRC_OFFSET /\ a + 8 <= c
            /\ a # ts_offset => a + 9 = c
            /\ Len(h) <= a
    <2>1. PICK a \in {4 + u + p, 5 + u + p}, c \in Nat :
              a = FLEX_TS_OFFSET /\ c = 13 + u + p
      BY <1>1
    <2>2. a \in Nat /\ a + 8 <= c /\ 5 + u + l <= a  BY <1>2, <2>1
    <2>3. a # 5 + u + p => a + 9 = c  BY <2>1
    <2> QED  BY <1>1, <1>2, <1>5, <2>1, <2>2, <2>3
  <1>7. PICK x \in Seq(Byte) : x = Filled(h, a) /\ Len(x) = a /\ Leads(h, x)
    BY <1>6, FilledFacts
  <1>8. PICK s \in Seq(Byte) : s = Timestamp(t, tz, HOST_TS_FLAGS) /\ Len(s) = 8
    <2>1. PICK f \in Byte : f = HOST_TS_FLAGS  BY DEF Byte, HOST_TS_FLAGS
    <2> QED  BY <2>1, TimestampFacts
  <1>9. PICK y \in Seq(Byte) : y = x \o s /\ Len(y) = a + 8 /\ Leads(x, y)
    <2>1. x \o s \in Seq(Byte) /\ Len(x \o s) = Len(x) + Len(s)  BY ConcatProperties
    <2> QED  BY <1>7, <1>8, <2>1, LeadsJoined
  <1>10. PICK body \in Seq(Byte) :
             /\ body = Filled(y, c) /\ Len(body) = c /\ Leads(y, body)
             /\ a # ts_offset => body[c] = 0
    <2>1. Len(y) <= c /\ (a # ts_offset => Len(y) + 1 = c)
      <3>1. (a + 8) + 1 = a + 9  OBVIOUS
      <3> QED  BY <1>6, <1>9, <3>1
    <2> QED  BY <2>1, FilledFacts
  <1>11. PICK raw \in Seq(Byte) :
             raw = Sealed(body) /\ IsRaw(raw) /\ Passes(raw) /\ Leads(body, raw)
    BY <1>6, <1>10, SealedFacts DEF IsRaw
  <1>12. raw = HostPacket(opcode, uuid, payload, t, tz)
    BY <1>5, <1>6, <1>7, <1>8, <1>9, <1>10, <1>11
       DEF HostPacket, TypeCode, FLAG_ACK_REQUIRED
  <1>13. Leads(h, raw)
    <2>1. Leads(h, y)  BY <1>7, <1>9, LeadsOn
    <2>2. Leads(h, body)  BY <1>10, <2>1, LeadsOn
    <2> QED  BY <1>11, <2>2, LeadsOn
  <1>14. Carries(raw, 1, opcode, 1, uuid, payload)  BY <1>5, <1>13, CarriedOn
  <1>15. FLEX_TS_OFFSET # ts_offset => raw[PACKET_CRC_OFFSET] = 0
    <2>1. c \in 1 .. c  BY <1>6
    <2> QED  BY <1>6, <1>10, <1>11, <2>1 DEF Leads
  <1> QED  BY <1>11, <1>12, <1>14, <1>15 DEF Built

Clock == [set : BOOLEAN, time : Word, tz : Byte]

LEMMA DeviceBuilt ==
    ASSUME NEW type \in Byte, NEW opcode \in Byte, NEW uuid \in Uuid,
           NEW payload \in Seq(Byte), Len(payload) <= PACKET_PAYLOAD_SIZE, NEW now \in Clock
    PROVE  Built(DevicePacket(type, opcode, uuid, payload, now),
                 type, opcode, 0, uuid, payload)
  <1>1. PICK u \in Nat \ {0}, p \in Nat :
            /\ u = UUID_SIZE /\ p = PACKET_PAYLOAD_SIZE
            /\ ts_offset = 5 + u + p /\ PACKET_CRC_OFFSET = 13 + u + p
    BY Sizes
  <1>2. PICK l \in Nat : l = Len(payload) /\ l <= p
    <2>1. PICK l \in Nat : l = Len(payload)  BY LenProperties
    <2> QED  BY <1>1, <2>1
  <1>3. 0 \in Byte /\ 1 \in Byte  BY DEF Byte
  <1>4. PICK h \in Seq(Byte) :
            /\ h = Header(type, opcode, 0, uuid, payload) \o payload
            /\ Len(h) = 5 + UUID_SIZE + Len(payload)
            /\ Carries(h, type, opcode, 0, uuid, payload)
    BY <1>3, HeaderFacts
  <1>5. PICK a \in Nat, c \in Nat :
            a = ts_offset /\ c = PACKET_CRC_OFFSET /\ a + 8 = c /\ Len(h) <= a
    <2>1. PICK a \in Nat, c \in Nat : a = 5 + u + p /\ c = 13 + u + p  OBVIOUS
    <2>2. a + 8 = c /\ 5 + u + l <= a  BY <1>2, <2>1
    <2> QED  BY <1>1, <1>2, <1>4, <2>1, <2>2
  <1>6. PICK x \in Seq(Byte) : x = Filled(h, a) /\ Len(x) = a /\ Leads(h, x)
    BY <1>5, FilledFacts
  <1>7. PICK f \in Byte : f = IF now.set THEN TS_FLAG_VALID ELSE 0
    BY <1>3 DEF TS_FLAG_VALID
  <1>8. PICK t \in Word, tz \in Byte : t = now.time /\ tz = now.tz  BY DEF Clock
  <1>9. PICK s \in Seq(Byte) : s = Timestamp(t, tz, f) /\ Len(s) = 8  BY TimestampFacts
  <1>10. PICK body \in Seq(Byte) : body = x \o s /\ Len(body) = c /\ Leads(x, body)
    <2>1. x \o s \in Seq(Byte) /\ Len(x \o s) = Len(x) + Len(s)  BY ConcatProperties
    <2> QED  BY <1>5, <1>6, <1>9, <2>1, LeadsJoined
  <1>11. PICK raw \in Seq(Byte) :
             raw = Sealed(body) /\ IsRaw(raw) /\ Passes(raw) /\ Leads(body, raw)
    BY <1>5, <1>10, SealedFacts DEF IsRaw
  <1>12. raw = DevicePacket(type, opcode, uuid, payload, now)
    BY <1>4, <1>5, <1>6, <1>7, <1>8, <1>9, <1>10, <1>11 DEF DevicePacket
  <1>13. Leads(h, raw)
    <2>1. Leads(h, body)  BY <1>6, <1>10, LeadsOn
    <2> QED  BY <1>11, <2>1, LeadsOn
  <1>14. Carries(raw, type, opcode, 0, uuid, payload)  BY <1>4, <1>13, CarriedOn
  <1> QED  BY <1>11, <1>12, <1>14 DEF Built

(* What is read from a packet.                                             *)
Packets ==
    [taken : {TRUE}, type : Byte, opcode : Byte, flags : Byte, uuid : Uuid,
     payload_len : Nat, payload : {s \in Seq(Byte) : Len(s) = PACKET_PAYLOAD_SIZE},
     unix_timestamp : Word, timezone_offset : Byte, ts_flags : Byte]

LEMMA BytesFacts ==
    ASSUME NEW raw \in Seq(Byte), NEW from \in Nat, NEW n \in Nat, from + n <= Len(raw)
    PROVE  /\ Bytes(raw, from, n) \in Seq(Byte) /\ Len(Bytes(raw, from, n)) = n
           /\ \A k \in 1 .. n : Bytes(raw, from, n)[k] = raw[from + k]
  <1>1. PICK m \in Nat : m = Len(raw)  BY LenProperties
  <1>2. PICK b \in 0 .. Len(raw) : b = from + n /\ from <= b /\ b - from = n
    <2>1. from + n \in 0 .. m  BY <1>1
    <2>2. from <= from + n /\ (from + n) - from = n  OBVIOUS
    <2> QED  BY <1>1, <2>1, <2>2
  <1>3. /\ SubSeq(raw, from + 1, b) \in Seq(Byte)
        /\ Len(SubSeq(raw, from + 1, b)) = b - from
        /\ \A j \in 1 .. b - from : SubSeq(raw, from + 1, b)[j] = raw[from + j]
    BY <1>2, Part
  <1> QED  BY <1>2, <1>3 DEF Bytes

LEMMA FieldsType ==
    ASSUME NEW raw, IsRaw(raw)
    PROVE  Fields(raw, ts_offset) \in Packets
  <1>1. PICK u \in Nat \ {0}, p \in Nat :
            /\ u = UUID_SIZE /\ p = PACKET_PAYLOAD_SIZE
            /\ PACKET_HEADER_SIZE = 5 + u
            /\ ts_offset = 5 + u + p /\ PACKET_FIXED_SIZE = 15 + u + p
    BY Sizes
  <1>2. raw \in Seq(Byte)  BY DEF IsRaw
  <1>3. PICK n \in Nat : n = 15 + u + p /\ n = Len(raw)  BY <1>1 DEF IsRaw
  <1>4. ASSUME NEW i \in 0 .. n - 1 PROVE At(raw, i) \in Byte
    <2>1. i + 1 \in 1 .. Len(raw)  BY <1>3
    <2> QED  BY <1>2, <2>1, ElementOfSeq DEF At
  <1>5. At(raw, 0) \in Byte /\ At(raw, 1) \in Byte /\ At(raw, 2) \in Byte
    <2>1. 0 \in 0 .. n - 1 /\ 1 \in 0 .. n - 1 /\ 2 \in 0 .. n - 1  BY <1>3
    <2> QED  BY <1>4, <2>1
  <1>6. Bytes(raw, 3, UUID_SIZE) \in Uuid
    <2>1. 3 \in Nat /\ 3 + u <= Len(raw)  BY <1>3
    <2>2. Bytes(raw, 3, u) \in Seq(Byte) /\ Len(Bytes(raw, 3, u)) = u
      BY <1>2, <2>1, BytesFacts
    <2> QED  BY <1>1, <2>2 DEF Uuid
  <1>7. UInt16(At(raw, 3 + UUID_SIZE), At(raw, 4 + UUID_SIZE)) \in Nat
    <2>1. 3 + u \in 0 .. n - 1 /\ 4 + u \in 0 .. n - 1  BY <1>3
    <2>2. PICK a \in Byte, b \in Byte : a = At(raw, 3 + u) /\ b = At(raw, 4 + u)
      BY <1>4, <2>1
    <2>3. a * 256 + b \in Nat  BY DEF Byte
    <2> QED  BY <1>1, <2>2, <2>3 DEF UInt16
  <1>8. PICK s \in Seq(Byte) :
            s = Bytes(raw, PACKET_HEADER_SIZE, PACKET_PAYLOAD_SIZE)
            /\ Len(s) = PACKET_PAYLOAD_SIZE
    <2>1. PICK h \in Nat : h = 5 + u /\ h + p <= Len(raw)  BY <1>3
    <2>2. Bytes(raw, h, p) \in Seq(Byte) /\ Len(Bytes(raw, h, p)) = p
      BY <1>2, <2>1, BytesFacts
    <2> QED  BY <1>1, <2>1, <2>2
  <1>9. UInt16(At(raw, ts_offset + 2), At(raw, ts_offset + 3)) \in Word
    <2>1. PICK t \in Nat : t = ts_offset /\ t + 2 \in 0 .. n - 1 /\ t + 3 \in 0 .. n - 1
      BY <1>1, <1>3
    <2>2. PICK a \in Byte, b \in Byte : a = At(raw, t + 2) /\ b = At(raw, t + 3)
      BY <1>4, <2>1
    <2>3. a * 256 + b \in Nat /\ a * 256 + b < 65536  BY DEF Byte
    <2>4. a * 256 + b \in Word  BY <2>3, WordIs
    <2> QED  BY <2>1, <2>2, <2>4 DEF UInt16
  <1>10. At(raw, ts_offset + 6) \in Byte /\ At(raw, ts_offset + 7) \in Byte
    <2>1. PICK t \in Nat : t = ts_offset /\ t + 6 \in 0 .. n - 1 /\ t + 7 \in 0 .. n - 1
      BY <1>1, <1>3
    <2> QED  BY <1>4, <2>1
  <1> QED  BY <1>5, <1>6, <1>7, <1>8, <1>9, <1>10 DEF Fields, Packets

(* The packet says what it was built to say.                               *)
Says(p, type, opcode, uuid, payload) ==
    /\ p.taken /\ p.type = type /\ p.opcode = opcode /\ p.uuid = uuid
    /\ p.payload_len = Len(payload)
    /\ SubSeq(p.payload, 1, Len(payload)) = payload
    /\ \A k \in 1 .. Len(payload) : p.payload[k] = payload[k]

LEMMA FieldsSay ==
    ASSUME NEW type, NEW opcode, NEW flags, NEW uuid \in Uuid,
           NEW payload \in Seq(Byte), Len(payload) <= PACKET_PAYLOAD_SIZE,
           NEW raw, Built(raw, type, opcode, flags, uuid, payload), NEW ts
    PROVE  Says(Fields(raw, ts), type, opcode, uuid, payload)
  <1>1. PICK u \in Nat \ {0}, p \in Nat :
            /\ u = UUID_SIZE /\ p = PACKET_PAYLOAD_SIZE
            /\ PACKET_HEADER_SIZE = 5 + u /\ PACKET_FIXED_SIZE = 15 + u + p
    BY Sizes
  <1>2. raw \in Seq(Byte) /\ Carries(raw, type, opcode, flags, uuid, payload)
    BY DEF Built, IsRaw
  <1>3. PICK n \in Nat : n = 15 + u + p /\ n = Len(raw)  BY <1>1 DEF Built, IsRaw
  <1>4. PICK l \in Nat : l = Len(payload) /\ l <= p
    <2>1. PICK l \in Nat : l = Len(payload)  BY LenProperties
    <2> QED  BY <1>1, <2>1
  <1>5. /\ raw[1] = type /\ raw[2] = opcode
        /\ \A k \in 1 .. u : raw[3 + k] = uuid[k]
        /\ raw[4 + u] = 0 /\ raw[5 + u] = l
        /\ \A k \in 1 .. l : raw[5 + u + k] = payload[k]
    BY <1>1, <1>2, <1>4 DEF Carries
  <1>6. At(raw, 0) = type /\ At(raw, 1) = opcode
    <2>1. 0 + 1 = 1 /\ 1 + 1 = 2  OBVIOUS
    <2> QED  BY <1>5, <2>1 DEF At
  <1>7. Bytes(raw, 3, UUID_SIZE) = uuid
    <2>1. 3 \in Nat /\ 3 + u <= Len(raw)  BY <1>3
    <2>2. /\ Bytes(raw, 3, u) \in Seq(Byte) /\ Len(Bytes(raw, 3, u)) = u
          /\ \A k \in 1 .. u : Bytes(raw, 3, u)[k] = raw[3 + k]
      BY <1>2, <2>1, BytesFacts
    <2>3. PICK x \in Seq(Byte) : x = Bytes(raw, 3, u) /\ Len(x) = u  BY <2>2
    <2>4. PICK id \in Seq(Byte) : id = uuid /\ Len(id) = u  BY <1>1 DEF Uuid
    <2>5. Len(x) = Len(id) /\ \A k \in 1 .. Len(x) : x[k] = id[k]
      BY <1>5, <2>2, <2>3, <2>4
    <2>6. x = id  BY <2>5, SeqEqual
    <2> QED  BY <1>1, <2>3, <2>4, <2>6
  <1>8. UInt16(At(raw, 3 + UUID_SIZE), At(raw, 4 + UUID_SIZE)) = l
    <2>1. (3 + u) + 1 = 4 + u /\ (4 + u) + 1 = 5 + u  OBVIOUS
    <2>2. At(raw, 3 + u) = 0 /\ At(raw, 4 + u) = l  BY <1>5, <2>1 DEF At
    <2>3. 0 * 256 + l = l  OBVIOUS
    <2> QED  BY <1>1, <2>2, <2>3 DEF UInt16
  <1>9. PICK s \in Seq(Byte) :
            /\ s = Bytes(raw, PACKET_HEADER_SIZE, PACKET_PAYLOAD_SIZE) /\ Len(s) = p
            /\ \A k \in 1 .. l : s[k] = payload[k]
    <2>1. PICK h \in Nat : h = 5 + u /\ h + p <= Len(raw)  BY <1>3
    <2>2. /\ Bytes(raw, h, p) \in Seq(Byte) /\ Len(Bytes(raw, h, p)) = p
          /\ \A k \in 1 .. p : Bytes(raw, h, p)[k] = raw[h + k]
      BY <1>2, <2>1, BytesFacts
    <2>3. \A k \in 1 .. l : Bytes(raw, h, p)[k] = payload[k]
      <3> TAKE k \in 1 .. l
      <3>1. k \in 1 .. p  BY <1>4
      <3>2. raw[h + k] = payload[k]  BY <1>5, <2>1
      <3> QED  BY <2>2, <3>1, <3>2
    <2> QED  BY <1>1, <2>1, <2>2, <2>3
  <1>10. SubSeq(s, 1, l) = payload
    <2>1. 0 \in Nat /\ 0 <= l /\ l - 0 = l /\ 0 + 1 = 1 /\ l \in 0 .. Len(s)
      BY <1>4, <1>9
    <2>2. /\ SubSeq(s, 0 + 1, l) \in Seq(Byte)
          /\ Len(SubSeq(s, 0 + 1, l)) = l - 0
          /\ \A j \in 1 .. l - 0 : SubSeq(s, 0 + 1, l)[j] = s[0 + j]
      BY <2>1, Part
    <2>3. PICK x \in Seq(Byte) :
              x = SubSeq(s, 1, l) /\ Len(x) = l /\ \A j \in 1 .. l : x[j] = s[j]
      <3>1. \A j \in 1 .. l : 0 + j = j  OBVIOUS
      <3>2. /\ SubSeq(s, 1, l) \in Seq(Byte) /\ Len(SubSeq(s, 1, l)) = l
            /\ \A j \in 1 .. l : SubSeq(s, 1, l)[j] = s[j]
        BY <2>1, <2>2, <3>1
      <3> QED  BY <3>2
    <2>4. Len(x) = Len(payload) /\ \A j \in 1 .. Len(x) : x[j] = payload[j]
      BY <1>4, <1>9, <2>3
    <2>5. x = payload  BY <2>4, SeqEqual
    <2> QED  BY <2>3, <2>5
  <1>11. PICK f : f = Fields(raw, ts)  OBVIOUS
  <1>12. /\ f.taken /\ f.type = type /\ f.opcode = opcode /\ f.uuid = uuid
         /\ f.payload_len = l /\ f.payload = s
    BY <1>6, <1>7, <1>8, <1>9, <1>11 DEF Fields
  <1> QED  BY <1>4, <1>9, <1>10, <1>11, <1>12 DEF Says

LEMMA DecodeType ==
    ASSUME NEW f \in Seq(Byte)
    PROVE  Decode(f) \in Seq(Byte)
  <1>1. PICK n \in Nat : n = Len(f)  BY LenProperties
  <1>2. <<>> \in Seq(Byte)  OBVIOUS
  <1>3. CASE f = <<>> \/ f[Len(f)] # 0 \/ \E i \in 1 .. Len(f) - 1 : f[i] = 0
    BY <1>2, <1>3 DEF Decode
  <1>4. CASE ~(f = <<>> \/ f[Len(f)] # 0 \/ \E i \in 1 .. Len(f) - 1 : f[i] = 0)
    <2>1. n # 0  BY <1>1, <1>4, EmptySeq
    <2>2. ASSUME NEW j \in 1 .. n PROVE f[j] = 0 <=> j = n
      <3>1. CASE j = n  BY <1>1, <1>4, <3>1
      <3>2. CASE j # n
        <4>1. j \in 1 .. n - 1  BY <3>2
        <4> QED  BY <1>1, <1>4, <3>2, <4>1
      <3> QED  BY <3>1, <3>2
    <2>3. IsFrame(f)  BY <1>1, <1>4, <2>2 DEF IsFrame
    <2>4. \A i \in 1 .. Len(f) : Decoded(f)[i] \in Seq(Byte)  BY <2>3, DecodedFacts
    <2>5. 1 \in 1 .. Len(f)  BY <1>1, <2>1
    <2>6. Decode(f) = Decoded(f)[1]  BY <1>4 DEF Decode
    <2> QED  BY <2>4, <2>5, <2>6
  <1> QED  BY <1>3, <1>4

LEMMA DeviceReadsType ==
    ASSUME NEW f \in Seq(Byte)
    PROVE  DeviceReads(f) = Nothing \/ DeviceReads(f) \in Packets
  <1>1. PICK raw \in Seq(Byte) : raw = Decode(f)  BY DecodeType
  <1>2. CASE Passes(raw)
    <2>1. IsRaw(raw)  BY <1>2 DEF Passes, IsRaw
    <2>2. Fields(raw, ts_offset) \in Packets  BY <2>1, FieldsType
    <2> QED  BY <1>1, <1>2, <2>2 DEF DeviceReads
  <1>3. CASE ~Passes(raw)  BY <1>1, <1>3 DEF DeviceReads
  <1> QED  BY <1>2, <1>3

-----------------------------------------------------------------------------
(* Frames on the line.                                                     *)

LEMMA FirstFrameFacts ==
    ASSUME NEW s \in Seq(Byte)
    PROVE  \/ FirstFrame(s) = <<>> /\ \A i \in 1 .. Len(s) : s[i] # 0
           \/ \E z \in 1 .. Len(s) :
                 /\ s[z] = 0 /\ \A j \in 1 .. Len(s) : j < z => s[j] # 0
                 /\ FirstFrame(s) = SubSeq(s, 1, z) /\ FirstFrame(s) \in Seq(Byte)
                 /\ Len(FirstFrame(s)) = z /\ FirstFrame(s) # <<>>
                 /\ Rest(s) = SubSeq(s, z + 1, Len(s))
  <1>1. PICK n \in Nat : n = Len(s)  BY LenProperties
  <1> DEFINE zeros == {i \in 1 .. n : s[i] = 0}
  <1>2. FirstFrame(s) = IF zeros = {} THEN <<>>
                        ELSE SubSeq(s, 1, CHOOSE i \in zeros : \A j \in zeros : i <= j)
    BY <1>1 DEF FirstFrame
  <1>3. CASE zeros = {}
    <2>1. \A i \in 1 .. n : s[i] # 0  BY <1>3
    <2> QED  BY <1>1, <1>2, <1>3, <2>1
  <1>4. CASE zeros # {}
    <2>1. zeros \subseteq Nat  OBVIOUS
    <2>2. PICK p \in zeros : \A y \in zeros : ~(y < p)
      <3> HIDE DEF zeros
      <3> QED  BY <1>4, <2>1, LeastNumber, Zenon
    <2>3. \A y \in zeros : p <= y  BY <2>2
    <2>4. PICK z \in zeros :
              z = (CHOOSE i \in zeros : \A j \in zeros : i <= j) /\ \A j \in zeros : z <= j
      <3> HIDE DEF zeros
      <3> QED  BY <2>3, Zenon
    <2>5. z \in 1 .. n /\ s[z] = 0 /\ \A j \in 1 .. n : j < z => s[j] # 0
      <3>1. z \in 1 .. n /\ s[z] = 0  OBVIOUS
      <3>2. \A j \in zeros : z <= j  BY <2>4, Zenon
      <3>3. ASSUME NEW j \in 1 .. n, j < z PROVE s[j] # 0
        <4>1. s[j] = 0 => z <= j  BY <3>2
        <4>2. z \in Nat  BY <3>1
        <4> QED  BY <3>3, <4>1, <4>2
      <3> QED  BY <3>1, <3>3
    <2>6. FirstFrame(s) = SubSeq(s, 1, z)
      <3> HIDE DEF zeros
      <3> QED  BY <1>2, <1>4, <2>4
    <2>7. PICK f \in Seq(Byte) : f = SubSeq(s, 1, z) /\ Len(f) = z
      <3>1. 0 \in Nat /\ 0 <= z /\ z \in 0 .. Len(s) /\ z - 0 = z /\ 0 + 1 = 1
        BY <1>1, <2>5
      <3>2. /\ SubSeq(s, 0 + 1, z) \in Seq(Byte)
            /\ Len(SubSeq(s, 0 + 1, z)) = z - 0
            /\ \A j \in 1 .. z - 0 : SubSeq(s, 0 + 1, z)[j] = s[0 + j]
        BY <3>1, Part
      <3>3. SubSeq(s, 1, z) \in Seq(Byte) /\ Len(SubSeq(s, 1, z)) = z  BY <3>1, <3>2
      <3> QED  BY <3>3
    <2>8. f # <<>>
      <3>1. Len(<<>>) = 0 /\ z # 0  BY <2>5
      <3> QED  BY <2>7, <3>1
    <2>9. Rest(s) = SubSeq(s, z + 1, Len(s))  BY <2>6, <2>7 DEF Rest
    <2> QED  BY <1>1, <2>5, <2>6, <2>7, <2>8, <2>9
  <1> QED  BY <1>3, <1>4

(* The first frame of a frame is the frame, and nothing is left.           *)
LEMMA FrameFirst ==
    ASSUME NEW f, IsFrame(f)
    PROVE  FirstFrame(f) = f /\ FirstFrame(f) # <<>> /\ Rest(f) = <<>>
  <1>1. f \in Seq(Byte)  BY DEF IsFrame
  <1>2. PICK n \in Nat \ {0} : n = Len(f)  BY <1>1, EmptySeq DEF IsFrame
  <1>3. \A j \in 1 .. n : f[j] = 0 <=> j = n  BY <1>2 DEF IsFrame
  <1>4. n \in 1 .. n  OBVIOUS
  <1>5. PICK z \in 1 .. n :
            /\ f[z] = 0 /\ FirstFrame(f) = SubSeq(f, 1, z) /\ FirstFrame(f) # <<>>
            /\ Rest(f) = SubSeq(f, z + 1, n)
    <2>1. f[n] = 0  BY <1>3, <1>4
    <2>2. ~\A i \in 1 .. Len(f) : f[i] # 0  BY <1>2, <1>4, <2>1
    <2>3. \E z \in 1 .. Len(f) :
              /\ f[z] = 0 /\ \A j \in 1 .. Len(f) : j < z => f[j] # 0
              /\ FirstFrame(f) = SubSeq(f, 1, z) /\ FirstFrame(f) \in Seq(Byte)
              /\ Len(FirstFrame(f)) = z /\ FirstFrame(f) # <<>>
              /\ Rest(f) = SubSeq(f, z + 1, Len(f))
      BY <1>1, <2>2, FirstFrameFacts
    <2> QED  BY <1>2, <2>3
  <1>6. z = n  BY <1>3, <1>5
  <1>7. SubSeq(f, 1, n) = f
    <2>1. SubSeq(f, 1, Len(f)) = f  BY <1>1, SubSeqFull
    <2> QED  BY <1>2, <2>1
  <1>8. SubSeq(f, n + 1, n) = <<>>
    <2>1. n + 1 \in Int /\ n \in Int /\ n < n + 1  OBVIOUS
    <2> QED  BY <2>1, SubSeqEmpty
  <1> QED  BY <1>5, <1>6, <1>7, <1>8

(* Text in front of a frame is skipped, ...                                *)
LEMMA TextSkipped ==
    ASSUME NEW l \in Seq(Ascii), NEW e \in Seq(Byte), e # <<>>, e[1] \notin Ascii
    PROVE  AfterText(l \o e) = e
  <1>1. l \in Seq(Byte)
    <2>1. Ascii \subseteq Byte  BY LinkAssumption DEF Byte
    <2> QED  BY <2>1, SeqMonotonic
  <1>2. PICK m \in Nat, n \in Nat \ {0} : m = Len(l) /\ n = Len(e)
    BY <1>1, LenProperties, EmptySeq
  <1>3. PICK s \in Seq(Byte) :
            /\ s = l \o e /\ Len(s) = m + n
            /\ \A j \in 1 .. m : s[j] = l[j]
            /\ \A j \in 1 .. n : s[m + j] = e[j]
    <2>1. PICK k \in Seq(Byte) : k = l  BY <1>1
    <2>2. /\ k \o e \in Seq(Byte)
          /\ Len(k) \in Nat /\ Len(e) \in Nat
          /\ Len(k \o e) = Len(k) + Len(e)
          /\ \A j \in 1 .. Len(k) : (k \o e)[j] = k[j]
          /\ \A j \in 1 .. Len(e) : (k \o e)[Len(k) + j] = e[j]
      BY Joined
    <2> QED  BY <1>2, <2>1, <2>2
  <1>4. PICK z \in 1 .. m + n : z = m + 1  OBVIOUS
  <1> DEFINE starts == {i \in 1 .. m + n : s[i] \notin Ascii}
  <1>5. z \in starts
    <2>1. 1 \in 1 .. n  OBVIOUS
    <2> QED  BY <1>3, <1>4, <2>1
  <1>6. ASSUME NEW i \in starts PROVE z <= i
    <2>1. SUFFICES ASSUME ~(z <= i) PROVE FALSE  OBVIOUS
    <2>2. i \in 1 .. m  BY <1>4, <2>1
    <2>3. s[i] = l[i]  BY <1>3, <2>2
    <2>4. l[i] \in Ascii
      <3>1. i \in 1 .. Len(l)  BY <1>2, <2>2
      <3> QED  BY <3>1, ElementOfSeq
    <2> QED  BY <2>3, <2>4
  <1>7. PICK c \in starts :
            c = (CHOOSE i \in starts : \A j \in starts : i <= j) /\ \A j \in starts : c <= j
    <2> HIDE DEF starts
    <2> QED  BY <1>5, <1>6, Zenon
  <1>8. c = z
    <2>1. c <= z /\ z <= c  BY <1>5, <1>6, <1>7
    <2>2. c \in Nat  OBVIOUS
    <2> QED  BY <2>1, <2>2
  <1>9. AfterText(s) = SubSeq(s, z, m + n)
    <2>1. starts # {}  BY <1>5
    <2>2. AfterText(s) = IF starts = {} THEN <<>>
                         ELSE SubSeq(s, CHOOSE i \in starts : \A j \in starts : i <= j, Len(s))
      BY <1>3 DEF AfterText
    <2> HIDE DEF starts
    <2> QED  BY <1>3, <1>7, <1>8, <2>1, <2>2
  <1>10. SubSeq(s, z, m + n) = e
    <2>1. PICK b \in 0 .. Len(s) : b = m + n /\ m <= b /\ b - m = n  BY <1>3
    <2>2. /\ SubSeq(s, m + 1, b) \in Seq(Byte)
          /\ Len(SubSeq(s, m + 1, b)) = b - m
          /\ \A j \in 1 .. b - m : SubSeq(s, m + 1, b)[j] = s[m + j]
      BY <2>1, Part
    <2>3. PICK x \in Seq(Byte) :
              x = SubSeq(s, z, m + n) /\ Len(x) = n /\ \A j \in 1 .. n : x[j] = s[m + j]
      BY <1>4, <2>1, <2>2
    <2>4. Len(x) = Len(e) /\ \A j \in 1 .. Len(x) : x[j] = e[j]  BY <1>2, <1>3, <2>3
    <2>5. x = e  BY <2>4, SeqEqual
    <2> QED  BY <2>3, <2>5
  <1> QED  BY <1>3, <1>9, <1>10

(* ... because the code of an answer's first run is small: its third byte  *)
(* is zero (the flags), and no text has so small a byte.                   *)
LEMMA FirstCode ==
    ASSUME NEW raw \in Seq(Byte), 3 <= Len(raw), raw[3] = 0
    PROVE  Encode(raw)[1] \notin Ascii
  <1> DEFINE R == Collected(raw)
             Small(r) == Len(r.out) \in Nat \ {0} /\ r.out[1] < 4
  <1>1. PICK n \in Nat : n = Len(raw)  BY LenProperties
  <1>2. 3 <= n  BY <1>1
  <1>3. R[0].out = <<>> /\ R[0].run = <<>>  BY CollectedFacts DEF Fresh
  <1>4. ASSUME NEW r \in State, NEW c \in State, NEW b \in Byte,
               NEW k \in 0 .. 2, k < 2 \/ b = 0,
               Joins(r, b, c) \/ Ends(r, b, c) \/ Fills(r, b, c),
               Small(r) \/ (Len(r.out) = 0 /\ Len(r.run) = k)
        PROVE  /\ Small(c) \/ (Len(c.out) = 0 /\ Len(c.run) = k + 1)
               /\ b = 0 => Small(c)
    <2>1. /\ r.out \in Seq(Byte) /\ r.run \in Seq(Byte) /\ NonZero(r.run)
          /\ c.out \in Seq(Byte)
      BY DEF State
    <2>2. PICK m \in Nat, l \in Nat : m = Len(r.out) /\ l = Len(r.run)  BY <2>1, LenProperties
    <2>3. CASE Joins(r, b, c)
      <3>1. c.out = r.out /\ c.run = Append(r.run, b) /\ b # 0  BY <2>3 DEF Joins
      <3>2. Len(c.run) = l + 1  BY <2>1, <2>2, <3>1, Grown
      <3> QED  BY <1>4, <2>2, <3>1, <3>2
    <2>4. ASSUME NEW run \in Seq(Byte), Closes(r, b, c, run) PROVE Small(c)
      <3>1. HasBlock(r.out, run, c.out)  BY <2>4 DEF Closes
      <3>2. PICK x \in Nat : x = Len(run)  BY LenProperties
      <3>3. /\ Len(c.out) = m + x + 1 /\ \A j \in 1 .. m : c.out[j] = r.out[j]
            /\ c.out[m + 1] = x + 1
        BY <2>2, <3>1, <3>2 DEF HasBlock
      <3>4. Len(c.out) \in Nat \ {0}  BY <3>3
      <3>5. CASE Small(r)
        <4>1. m # 0 /\ r.out[1] < 4  BY <2>2, <3>5
        <4>2. 1 \in 1 .. m  BY <4>1
        <4>3. c.out[1] = r.out[1]  BY <3>3, <4>2
        <4> QED  BY <3>4, <4>1, <4>3
      <3>6. CASE Len(r.out) = 0 /\ Len(r.run) = k
        <4>1. m = 0 /\ l = k  BY <2>2, <3>6
        <4>2. c.out[1] = x + 1
          <5>1. m + 1 = 1  BY <4>1
          <5> QED  BY <3>3, <5>1
        <4>4. x + 1 < 4
          <5>1. CASE run = r.run
            <6>1. x = k  BY <2>2, <3>2, <4>1, <5>1
            <6> QED  BY <6>1
          <5>2. CASE b # 0 /\ run = Append(r.run, b)
            <6>1. Len(Append(r.run, b)) = Len(r.run) + 1  BY <2>1, AppendProperties
            <6>2. x = k + 1  BY <2>2, <3>2, <4>1, <5>2, <6>1
            <6>3. k < 2  BY <1>4, <5>2
            <6> QED  BY <6>2, <6>3
          <5> QED  BY <2>4, <5>1, <5>2 DEF Closes
        <4> QED  BY <3>4, <4>2, <4>4
      <3> QED  BY <1>4, <3>5, <3>6
    <2>5. CASE \E run \in Seq(Byte) : Closes(r, b, c, run)  BY <2>4, <2>5
    <2> QED  BY <1>4, <2>3, <2>5, ClosingStep
  <1>5. ASSUME NEW i \in 1 .. n
        PROVE  \E r \in State, c \in State, b \in Byte :
                   /\ r = R[i - 1] /\ c = R[i] /\ b = raw[i]
                   /\ Joins(r, b, c) \/ Ends(r, b, c) \/ Fills(r, b, c)
    BY <1>1, CollectStep
  <1>6. Small(R[1]) \/ (Len(R[1].out) = 0 /\ Len(R[1].run) = 1)
    <2>1. 1 \in 1 .. n /\ 1 - 1 = 0 /\ 0 \in 0 .. 2 /\ 0 + 1 = 1 /\ 0 < 2  BY <1>2
    <2>2. PICK r \in State, c \in State, b \in Byte :
              /\ r = R[0] /\ c = R[1]
              /\ Joins(r, b, c) \/ Ends(r, b, c) \/ Fills(r, b, c)
      BY <1>5, <2>1
    <2>3. Len(r.out) = 0 /\ Len(r.run) = 0
      <3>1. Len(<<>>) = 0  OBVIOUS
      <3> QED  BY <1>3, <2>2, <3>1
    <2> HIDE DEF Small, R
    <2>4. Small(c) \/ (Len(c.out) = 0 /\ Len(c.run) = 0 + 1)  BY <1>4, <2>1, <2>2, <2>3
    <2> QED  BY <2>1, <2>2, <2>4
  <1>7. Small(R[2]) \/ (Len(R[2].out) = 0 /\ Len(R[2].run) = 2)
    <2>1. 2 \in 1 .. n /\ 2 - 1 = 1 /\ 1 \in 0 .. 2 /\ 1 + 1 = 2 /\ 1 < 2  BY <1>2
    <2>2. PICK r \in State, c \in State, b \in Byte :
              /\ r = R[1] /\ c = R[2]
              /\ Joins(r, b, c) \/ Ends(r, b, c) \/ Fills(r, b, c)
      BY <1>5, <2>1
    <2> HIDE DEF Small, R
    <2>3. Small(r) \/ (Len(r.out) = 0 /\ Len(r.run) = 1)  BY <1>6, <2>2
    <2>4. Small(c) \/ (Len(c.out) = 0 /\ Len(c.run) = 1 + 1)  BY <1>4, <2>1, <2>2, <2>3
    <2> QED  BY <2>1, <2>2, <2>4
  <1>8. Small(R[3])
    <2>1. 3 \in 1 .. n /\ 3 - 1 = 2 /\ 2 \in 0 .. 2  BY <1>2
    <2>2. PICK r \in State, c \in State, b \in Byte :
              /\ r = R[2] /\ c = R[3] /\ b = 0
              /\ Joins(r, b, c) \/ Ends(r, b, c) \/ Fills(r, b, c)
      BY <1>5, <2>1
    <2> HIDE DEF Small, R
    <2>3. Small(r) \/ (Len(r.out) = 0 /\ Len(r.run) = 2)  BY <1>7, <2>2
    <2>4. Small(c)  BY <1>4, <2>1, <2>2, <2>3
    <2> QED  BY <2>2, <2>4
  <1>9. Begins(Encode(raw), R[3].out)
    <2>1. 3 \in 0 .. Len(raw)  BY <1>1, <1>2
    <2> QED  BY <2>1, EncodedBegins
  <1>10. Encode(raw)[1] < 4
    <2>1. 1 \in 1 .. Len(R[3].out)  BY <1>8
    <2>2. Encode(raw)[1] = R[3].out[1]  BY <1>9, <2>1 DEF Begins
    <2> QED  BY <1>8, <2>2
  <1>11. ASSUME Encode(raw)[1] \in Ascii PROVE FALSE
    <2>1. PICK a \in 4 .. 255 : a = Encode(raw)[1]  BY <1>11, LinkAssumption
    <2>2. a < 4  BY <1>10, <2>1
    <2> QED  BY <2>2
  <1> QED  BY <1>11

-----------------------------------------------------------------------------
(* One damaged byte.                                                       *)

LineMax == PACKET_FIXED_SIZE + 2 + PACKET_FIXED_SIZE \div (MAX_CODE - 1)

(* Nothing, or a frame that is not too long.                               *)
Short(s) == s = <<>> \/ (IsFrame(s) /\ Len(s) <= LineMax)

(* Behind the first frame there is nothing, or one frame.                  *)
Tidy(s) == FirstFrame(s) # <<>> => Short(Rest(s))

LEMMA LineMaxType == LineMax \in Nat
  <1>1. PICK u \in Nat \ {0}, p \in Nat : PACKET_FIXED_SIZE = 15 + u + p  BY Sizes
  <1>2. PICK n \in Nat, k \in Nat \ {0} : n = PACKET_FIXED_SIZE /\ k = MAX_CODE - 1
    <2>1. PICK k \in Nat \ {0} : k = MAX_CODE - 1  BY CodeAssumption
    <2>2. 15 + u + p \in Nat  OBVIOUS
    <2> QED  BY <1>1, <2>1, <2>2
  <1>3. n \div k \in Nat  OBVIOUS
  <1>4. n + 2 + n \div k \in Nat  BY <1>3
  <1> QED  BY <1>2, <1>4 DEF LineMax

LEMMA ShortIsTidy ==
    ASSUME NEW s \in Seq(Byte), Short(s)
    PROVE  Tidy(s)
  <1>1. CASE IsFrame(s)
    <2>1. Rest(s) = <<>>  BY <1>1, FrameFirst
    <2> QED  BY <2>1 DEF Tidy, Short
  <1>2. CASE s = <<>>
    <2>1. Len(s) = 0  BY <1>2
    <2>2. \A z \in 1 .. Len(s) : FALSE  BY <2>1
    <2>3. FirstFrame(s) = <<>>
      <3>1. {i \in 1 .. Len(s) : s[i] = 0} = {}  BY <2>2
      <3> QED  BY <3>1 DEF FirstFrame
    <2> QED  BY <2>3 DEF Tidy
  <1> QED  BY <1>1, <1>2 DEF Short

(* If every byte behind a zero is zero exactly at the end, then what is    *)
(* left behind the first frame is a frame.                                 *)
LEMMA TidyIfLast ==
    ASSUME NEW s \in Seq(Byte), Len(s) <= LineMax + 1,
           \A i, j \in 1 .. Len(s) : i < j /\ s[i] = 0 => (s[j] = 0 <=> j = Len(s))
    PROVE  Tidy(s)
  <1>1. PICK n \in Nat : n = Len(s)  BY LenProperties
  <1>2. SUFFICES ASSUME FirstFrame(s) # <<>> PROVE Short(Rest(s))  BY DEF Tidy
  <1>3. PICK z \in 1 .. n : s[z] = 0 /\ Rest(s) = SubSeq(s, z + 1, n)
    <2>1. \E z \in 1 .. Len(s) :
              /\ s[z] = 0 /\ \A j \in 1 .. Len(s) : j < z => s[j] # 0
              /\ FirstFrame(s) = SubSeq(s, 1, z) /\ FirstFrame(s) \in Seq(Byte)
              /\ Len(FirstFrame(s)) = z /\ FirstFrame(s) # <<>>
              /\ Rest(s) = SubSeq(s, z + 1, Len(s))
      BY <1>2, FirstFrameFacts
    <2> QED  BY <1>1, <2>1
  <1>4. PICK r \in Seq(Byte) :
            /\ r = SubSeq(s, z + 1, n) /\ Len(r) = n - z
            /\ \A j \in 1 .. n - z : r[j] = s[z + j]
    <2>1. PICK b \in 0 .. Len(s) : b = n /\ z \in Nat /\ z <= b  BY <1>1
    <2>2. /\ SubSeq(s, z + 1, b) \in Seq(Byte)
          /\ Len(SubSeq(s, z + 1, b)) = b - z
          /\ \A j \in 1 .. b - z : SubSeq(s, z + 1, b)[j] = s[z + j]
      BY <2>1, Part
    <2> QED  BY <2>1, <2>2
  <1>5. PICK k \in Nat : k = n - z /\ k <= LineMax
    <2>1. PICK m \in Nat : m = LineMax  BY LineMaxType
    <2>2. n <= m + 1  BY <1>1, <2>1
    <2>3. n - z \in Nat /\ n - z <= m  BY <2>2
    <2> QED  BY <2>1, <2>3
  <1>6. ASSUME NEW j \in 1 .. k PROVE r[j] = 0 <=> j = k
    <2>1. z + j \in 1 .. n /\ z < z + j /\ (z + j = n <=> j = k)  BY <1>5
    <2>2. s[z + j] = 0 <=> z + j = n
      <3>1. \A x, y \in 1 .. n : x < y /\ s[x] = 0 => (s[y] = 0 <=> y = n)  BY <1>1
      <3> QED  BY <1>3, <2>1, <3>1
    <2>3. r[j] = s[z + j]  BY <1>4, <1>5
    <2> QED  BY <2>1, <2>2, <2>3
  <1>7. CASE k = 0
    <2>1. r = <<>>  BY <1>4, <1>5, <1>7, EmptySeq
    <2> QED  BY <1>3, <1>4, <2>1 DEF Short
  <1>8. CASE k # 0
    <2>1. r # <<>>
      <3>1. Len(<<>>) = 0  OBVIOUS
      <3> QED  BY <1>4, <1>5, <1>8, <3>1
    <2>2. IsFrame(r)  BY <1>4, <1>5, <1>6, <2>1 DEF IsFrame
    <2> QED  BY <1>3, <1>4, <1>5, <2>2 DEF Short
  <1> QED  BY <1>7, <1>8

Changed(f, s, k) ==
    Len(s) = Len(f) /\ \A j \in 1 .. Len(f) : j # k => s[j] = f[j]
Lost(f, s, k) ==
    Len(s) = Len(f) - 1
    /\ \A j \in 1 .. Len(f) - 1 : s[j] = IF j < k THEN f[j] ELSE f[j + 1]
Doubled(f, s, k) ==
    Len(s) = Len(f) + 1
    /\ \A j \in 1 .. Len(f) + 1 : s[j] = IF j <= k THEN f[j] ELSE f[j - 1]

LEMMA DamagedShape ==
    ASSUME NEW f \in Seq(Byte), NEW s \in Damages(f)
    PROVE  /\ s \in Seq(Byte)
           /\ \E k \in 1 .. Len(f) : Changed(f, s, k) \/ Lost(f, s, k) \/ Doubled(f, s, k)
  <1>1. PICK n \in Nat : n = Len(f)  BY LenProperties
  <1>2. ASSUME NEW k \in 1 .. n, NEW b \in Noise, s = [f EXCEPT ![k] = b]
        PROVE  s \in Seq(Byte) /\ Changed(f, s, k)
    <2>1. b \in Byte /\ k \in 1 .. Len(f)  BY <1>1, LinkAssumption
    <2>2. /\ [f EXCEPT ![k] = b] \in Seq(Byte)
          /\ Len([f EXCEPT ![k] = b]) = Len(f)
          /\ \A j \in 1 .. Len(f) : [f EXCEPT ![k] = b][j] = IF j = k THEN b ELSE f[j]
      BY <2>1, ExceptSeq
    <2> QED  BY <1>2, <2>2 DEF Changed
  <1>3. ASSUME NEW a \in 0 .. n, NEW b \in 0 .. n
        PROVE  \E u \in Seq(Byte), v \in Seq(Byte) :
                   /\ u = SubSeq(f, 1, a) /\ Len(u) = a /\ \A j \in 1 .. a : u[j] = f[j]
                   /\ v = SubSeq(f, b + 1, n) /\ Len(v) = n - b
                   /\ \A j \in 1 .. n - b : v[j] = f[b + j]
    <2>1. PICK x \in 0 .. Len(f), y \in 0 .. Len(f) :
              x = a /\ y = n /\ 0 \in Nat /\ 0 <= x /\ b \in Nat /\ b <= y
      BY <1>1
    <2>2. /\ SubSeq(f, 0 + 1, x) \in Seq(Byte)
          /\ Len(SubSeq(f, 0 + 1, x)) = x - 0
          /\ \A j \in 1 .. x - 0 : SubSeq(f, 0 + 1, x)[j] = f[0 + j]
      BY <2>1, Part
    <2>3. /\ SubSeq(f, b + 1, y) \in Seq(Byte)
          /\ Len(SubSeq(f, b + 1, y)) = y - b
          /\ \A j \in 1 .. y - b : SubSeq(f, b + 1, y)[j] = f[b + j]
      BY <2>1, Part
    <2>4. 0 + 1 = 1 /\ a - 0 = a /\ \A j \in 1 .. a : 0 + j = j  OBVIOUS
    <2>5. PICK u \in Seq(Byte) :
              u = SubSeq(f, 1, a) /\ Len(u) = a /\ \A j \in 1 .. a : u[j] = f[j]
      <3>1. /\ SubSeq(f, 1, a) \in Seq(Byte) /\ Len(SubSeq(f, 1, a)) = a
            /\ \A j \in 1 .. a : SubSeq(f, 1, a)[j] = f[j]
        BY <2>1, <2>2, <2>4
      <3> QED  BY <3>1
    <2>6. PICK v \in Seq(Byte) :
              /\ v = SubSeq(f, b + 1, n) /\ Len(v) = n - b
              /\ \A j \in 1 .. n - b : v[j] = f[b + j]
      BY <2>1, <2>3
    <2> QED  BY <2>5, <2>6
  <1>4. ASSUME NEW a \in 0 .. n, NEW b \in 0 .. n,
               s = SubSeq(f, 1, a) \o SubSeq(f, b + 1, n)
        PROVE  /\ s \in Seq(Byte) /\ Len(s) = a + (n - b)
               /\ \A j \in 1 .. a : s[j] = f[j]
               /\ \A j \in 1 .. n - b : s[a + j] = f[b + j]
    <2>1. PICK u \in Seq(Byte), v \in Seq(Byte) :
              /\ u = SubSeq(f, 1, a) /\ Len(u) = a /\ \A j \in 1 .. a : u[j] = f[j]
              /\ v = SubSeq(f, b + 1, n) /\ Len(v) = n - b
              /\ \A j \in 1 .. n - b : v[j] = f[b + j]
      BY <1>3
    <2>2. /\ u \o v \in Seq(Byte)
          /\ Len(u) \in Nat /\ Len(v) \in Nat
          /\ Len(u \o v) = Len(u) + Len(v)
          /\ \A j \in 1 .. Len(u) : (u \o v)[j] = u[j]
          /\ \A j \in 1 .. Len(v) : (u \o v)[Len(u) + j] = v[j]
      BY Joined
    <2>3. s = u \o v  BY <1>4, <2>1
    <2> QED  BY <2>1, <2>2, <2>3
  <1>5. ASSUME NEW k \in 1 .. n, s = SubSeq(f, 1, k - 1) \o SubSeq(f, k + 1, n)
        PROVE  s \in Seq(Byte) /\ Lost(f, s, k)
    <2>1. PICK a \in 0 .. n : a = k - 1  OBVIOUS
    <2>2. k \in 0 .. n /\ a + (n - k) = n - 1  BY <2>1
    <2>3. /\ s \in Seq(Byte) /\ Len(s) = a + (n - k)
          /\ \A j \in 1 .. a : s[j] = f[j]
          /\ \A j \in 1 .. n - k : s[a + j] = f[k + j]
      BY <1>4, <1>5, <2>1, <2>2
    <2>4. ASSUME NEW j \in 1 .. n - 1 PROVE s[j] = IF j < k THEN f[j] ELSE f[j + 1]
      <3>1. CASE j < k
        <4>1. j \in 1 .. a  BY <2>1, <3>1
        <4> QED  BY <2>3, <3>1, <4>1
      <3>2. CASE ~(j < k)
        <4>1. PICK i \in 1 .. n - k : a + i = j /\ k + i = j + 1
          <5>1. j - a \in 1 .. n - k /\ a + (j - a) = j /\ k + (j - a) = j + 1
            BY <2>1, <3>2
          <5> QED  BY <5>1
        <4> QED  BY <2>3, <3>2, <4>1
      <3> QED  BY <3>1, <3>2
    <2> QED  BY <1>1, <2>2, <2>3, <2>4 DEF Lost
  <1>6. ASSUME NEW k \in 1 .. n, s = SubSeq(f, 1, k) \o SubSeq(f, k, n)
        PROVE  s \in Seq(Byte) /\ Doubled(f, s, k)
    <2>1. PICK b \in 0 .. n : b = k - 1 /\ b + 1 = k  OBVIOUS
    <2>2. k \in 0 .. n /\ k + (n - b) = n + 1  BY <2>1
    <2>3. /\ s \in Seq(Byte) /\ Len(s) = k + (n - b)
          /\ \A j \in 1 .. k : s[j] = f[j]
          /\ \A j \in 1 .. n - b : s[k + j] = f[b + j]
      BY <1>4, <1>6, <2>1, <2>2
    <2>4. ASSUME NEW j \in 1 .. n + 1 PROVE s[j] = IF j <= k THEN f[j] ELSE f[j - 1]
      <3>1. CASE j <= k
        <4>1. j \in 1 .. k  BY <3>1
        <4> QED  BY <2>3, <3>1, <4>1
      <3>2. CASE ~(j <= k)
        <4>1. PICK i \in 1 .. n - b : k + i = j /\ b + i = j - 1
          <5>1. j - k \in 1 .. n - b /\ k + (j - k) = j /\ b + (j - k) = j - 1
            BY <2>1, <3>2
          <5> QED  BY <5>1
        <4> QED  BY <2>3, <3>2, <4>1
      <3> QED  BY <3>1, <3>2
    <2> QED  BY <1>1, <2>2, <2>3, <2>4 DEF Doubled
  <1>7. \/ \E k \in 1 .. n, b \in Noise : s = [f EXCEPT ![k] = b]
        \/ \E k \in 1 .. n : s = SubSeq(f, 1, k - 1) \o SubSeq(f, k + 1, n)
        \/ \E k \in 1 .. n : s = SubSeq(f, 1, k) \o SubSeq(f, k, n)
    <2>1. s \in OneChanged(f) \/ s \in OneLost(f) \/ s \in OneDoubled(f)
      BY Zenon DEF Damages
    <2>2. CASE s \in OneChanged(f)
      <3>1. \E k \in 1 .. Len(f), b \in Noise : s = [f EXCEPT ![k] = b]
        BY <2>2 DEF OneChanged
      <3> QED  BY <1>1, <3>1, Zenon
    <2>3. CASE s \in OneLost(f)
      <3>1. \E k \in 1 .. Len(f) : s = SubSeq(f, 1, k - 1) \o SubSeq(f, k + 1, Len(f))
        BY <2>3, Zenon DEF OneLost
      <3> QED  BY <1>1, <3>1, Zenon
    <2>4. CASE s \in OneDoubled(f)
      <3>1. \E k \in 1 .. Len(f) : s = SubSeq(f, 1, k) \o SubSeq(f, k, Len(f))
        BY <2>4, Zenon DEF OneDoubled
      <3> QED  BY <1>1, <3>1, Zenon
    <2> QED  BY <2>1, <2>2, <2>3, <2>4, Zenon
  <1> QED  BY <1>1, <1>2, <1>5, <1>6, <1>7

LEMMA DamagedFrame ==
    ASSUME NEW f, IsFrame(f), Len(f) <= LineMax, NEW s \in Damages(f)
    PROVE  s \in Seq(Byte) /\ Tidy(s)
  <1>1. f \in Seq(Byte)  BY DEF IsFrame
  <1>2. PICK n \in Nat : n = Len(f)  BY <1>1, LenProperties
  <1>3. \A j \in 1 .. n : f[j] = 0 <=> j = n  BY <1>2 DEF IsFrame
  <1>4. s \in Seq(Byte)  BY <1>1, DamagedShape
  <1>5. PICK k \in 1 .. n : Changed(f, s, k) \/ Lost(f, s, k) \/ Doubled(f, s, k)
    BY <1>1, <1>2, DamagedShape
  <1>6. PICK max \in Nat : max = LineMax /\ n <= max  BY <1>2, LineMaxType
  <1>7. CASE Changed(f, s, k)
    <2>1. Len(s) = n /\ \A j \in 1 .. n : j # k => s[j] = f[j]
      BY <1>2, <1>7 DEF Changed
    <2>2. ASSUME NEW i \in 1 .. n, NEW j \in 1 .. n, i < j, s[i] = 0
          PROVE  s[j] = 0 <=> j = n
      <3>1. i = k  BY <1>3, <2>1, <2>2
      <3>2. j # k /\ s[j] = f[j]  BY <2>1, <2>2, <3>1
      <3> QED  BY <1>3, <3>2
    <2>3. Len(s) <= LineMax + 1  BY <1>6, <2>1
    <2>4. \A i, j \in 1 .. Len(s) : i < j /\ s[i] = 0 => (s[j] = 0 <=> j = Len(s))
      BY <2>1, <2>2
    <2> QED  BY <1>4, <2>3, <2>4, TidyIfLast
  <1>8. CASE Lost(f, s, k)
    <2>1. /\ Len(s) = n - 1
          /\ \A j \in 1 .. n - 1 : s[j] = IF j < k THEN f[j] ELSE f[j + 1]
      BY <1>2, <1>8 DEF Lost
    <2>2. ASSUME NEW i \in 1 .. n - 1, NEW j \in 1 .. n - 1, i < j, s[i] = 0 PROVE FALSE
      <3>1. s[i] = f[i] \/ s[i] = f[i + 1]  BY <2>1
      <3>2. i \in 1 .. n /\ i # n /\ i + 1 \in 1 .. n /\ i + 1 # n  BY <2>2
      <3>3. f[i] # 0 /\ f[i + 1] # 0  BY <1>3, <3>2
      <3> QED  BY <2>2, <3>1, <3>3
    <2>3. PICK m \in Nat : m = Len(s) /\ m = n - 1 /\ m <= max + 1
      <3>1. PICK m \in Nat : m = Len(s)  BY <1>4, LenProperties
      <3>2. m = n - 1  BY <2>1, <3>1
      <3>3. m <= max + 1  BY <1>6, <3>2
      <3> QED  BY <3>1, <3>2, <3>3
    <2>4. Len(s) <= LineMax + 1  BY <1>6, <2>3
    <2>5. \A i, j \in 1 .. Len(s) : i < j /\ s[i] = 0 => (s[j] = 0 <=> j = Len(s))
      BY <2>2, <2>3
    <2> QED  BY <1>4, <2>4, <2>5, TidyIfLast
  <1>9. CASE Doubled(f, s, k)
    <2>1. /\ Len(s) = n + 1
          /\ \A j \in 1 .. n + 1 : s[j] = IF j <= k THEN f[j] ELSE f[j - 1]
      BY <1>2, <1>9 DEF Doubled
    <2>2. ASSUME NEW i \in 1 .. n + 1, NEW j \in 1 .. n + 1, i < j, s[i] = 0
          PROVE  s[j] = 0 <=> j = n + 1
      <3>1. i <= k
        <4>1. SUFFICES ASSUME ~(i <= k) PROVE FALSE  OBVIOUS
        <4>2. s[i] = f[i - 1]  BY <2>1, <4>1
        <4>3. i - 1 \in 1 .. n /\ i - 1 # n  BY <2>2, <4>1
        <4> QED  BY <1>3, <2>2, <4>2, <4>3
      <3>2. i \in 1 .. n /\ s[i] = f[i]  BY <2>1, <3>1
      <3>3. i = n  BY <1>3, <2>2, <3>2
      <3>4. j = n + 1 /\ ~(j <= k)  BY <2>2, <3>3
      <3>5. s[j] = f[n]
        <4>1. j - 1 = n  BY <3>4
        <4> QED  BY <2>1, <3>4, <4>1
      <3> QED  BY <2>2, <3>2, <3>3, <3>4, <3>5
    <2>3. Len(s) <= LineMax + 1  BY <1>6, <2>1
    <2>4. \A i, j \in 1 .. Len(s) : i < j /\ s[i] = 0 => (s[j] = 0 <=> j = Len(s))
      BY <2>1, <2>2
    <2> QED  BY <1>4, <2>3, <2>4, TidyIfLast
  <1> QED  BY <1>4, <1>5, <1>7, <1>8, <1>9


-----------------------------------------------------------------------------
(* Messages: what the library puts in a payload, and what is queued of it. *)

IsMessage(payload) ==
    /\ payload \in Seq(Byte)
    /\ \E m \in 0 .. MAX_MESSAGE_IN_PROTOCOL :
          /\ Len(payload) = 3 + m /\ payload[3] = m
          /\ \A k \in 1 .. m : payload[3 + k] # 0

LEMMA Message ==
    ASSUME NEW capcode \in Byte, NEW mail_drop \in {0, 1}, NEW text \in Seq(1 .. 255)
    PROVE  IsMessage(SendFlexPayload(capcode, mail_drop, text))
  <1> DEFINE Chars == 1 .. 255
  <1>c. Chars \subseteq Byte /\ 0 \notin Chars /\ text \in Seq(Chars)  BY DEF Byte
  <1> HIDE DEF Chars
  <1>1. PICK n \in Nat : n = Len(text)  BY <1>c, LenProperties
  <1>2. PICK u \in Nat \ {0}, p \in Nat, max \in Nat :
            max = MAX_MESSAGE_IN_PROTOCOL /\ 3 + max < p /\ p < 256
    BY Sizes
  <1>3. PICK m \in Nat : m = Min2(Len(text), MAX_MESSAGE_IN_PROTOCOL) /\ m <= n /\ m <= max
    <2>1. PICK m \in Nat : m = (IF n < max THEN n ELSE max) /\ m <= n /\ m <= max
      OBVIOUS
    <2> QED  BY <1>1, <1>2, <2>1 DEF Min2
  <1>4. PICK t \in Seq(Chars) :
            t = SubSeq(text, 1, m) /\ Len(t) = m
    <2>1. 0 \in Nat /\ 0 <= m /\ m - 0 = m /\ 0 + 1 = 1 /\ m \in 0 .. Len(text)
      BY <1>1, <1>3
    <2>2. /\ SubSeq(text, 0 + 1, m) \in Seq(Chars)
          /\ Len(SubSeq(text, 0 + 1, m)) = m - 0
          /\ \A j \in 1 .. m - 0 : SubSeq(text, 0 + 1, m)[j] = text[0 + j]
      BY <1>c, <2>1, Part
    <2> QED  BY <2>1, <2>2
  <1>5. PICK h \in Seq(Byte) :
            h = <<capcode, mail_drop, m>> /\ Len(h) = 3 /\ h[3] = m
    <2>1. m \in Byte /\ mail_drop \in Byte
      <3>1. m < 256  BY <1>2, <1>3
      <3> QED  BY <3>1 DEF Byte
    <2>2. <<capcode, mail_drop, m>> \in Seq(Byte) /\ Len(<<capcode, mail_drop, m>>) = 3
          /\ <<capcode, mail_drop, m>>[3] = m
      BY <2>1
    <2> QED  BY <2>2
  <1>6. t \in Seq(Byte)
    <2> QED  BY <1>c, SeqMonotonic
  <1>7. PICK x \in Seq(Byte) :
            /\ x = h \o t /\ Len(x) = 3 + m
            /\ \A j \in 1 .. 3 : x[j] = h[j]
            /\ \A j \in 1 .. m : x[3 + j] = t[j]
    <2>1. 3 \in Nat  OBVIOUS
    <2>2. /\ h \o t \in Seq(Byte) /\ Len(h \o t) = 3 + m
          /\ \A j \in 1 .. 3 : (h \o t)[j] = h[j]
          /\ \A j \in 1 .. m : (h \o t)[3 + j] = t[j]
      BY <1>4, <1>5, <1>6, <2>1, JoinedBytes
    <2> QED  BY <2>2
  <1>8. x = SendFlexPayload(capcode, mail_drop, text)
    BY <1>3, <1>4, <1>5, <1>7 DEF SendFlexPayload
  <1>9. x[3] = m  BY <1>5, <1>7
  <1>10. ASSUME NEW k \in 1 .. m PROVE x[3 + k] # 0
    <2>1. k \in 1 .. Len(t)  BY <1>4
    <2>2. t[k] \in Chars  BY <2>1, ElementOfSeq
    <2>3. x[3 + k] = t[k]  BY <1>7
    <2> QED  BY <1>c, <2>2, <2>3
  <1>11. m \in 0 .. MAX_MESSAGE_IN_PROTOCOL  BY <1>2, <1>3
  <1> QED  BY <1>7, <1>8, <1>9, <1>10, <1>11 DEF IsMessage

LEMMA MessageSize ==
    ASSUME NEW payload, IsMessage(payload)
    PROVE  Len(payload) < PACKET_PAYLOAD_SIZE
  <1>1. PICK u \in Nat \ {0}, p \in Nat :
            /\ p = PACKET_PAYLOAD_SIZE
            /\ MAX_MESSAGE_IN_PROTOCOL \in Nat /\ 3 + MAX_MESSAGE_IN_PROTOCOL < p
    BY Sizes
  <1>2. PICK m \in 0 .. MAX_MESSAGE_IN_PROTOCOL : Len(payload) = 3 + m
    BY DEF IsMessage
  <1>3. 3 + m < p  BY <1>1, <1>2
  <1> QED  BY <1>1, <1>2, <1>3

LEMMA CStringKept ==
    ASSUME NEW s \in Seq(Byte), NonZero(s)
    PROVE  CString(s) = s
  <1>1. {i \in 1 .. Len(s) : s[i] = 0} = {}  BY DEF NonZero
  <1> QED  BY <1>1 DEF CString


(* The text of q is the one of a payload, or its beginning.                *)
TextOf(q, payload) ==
    LET text == SubSeq(payload, CMD_SEND_FLEX_ARGS_SIZE + 1, Len(payload))
    IN  \/ q = text /\ Len(text) <= MAX_FLEX_MESSAGE_LENGTH
        \/ /\ Len(q) = MAX_FLEX_MESSAGE_LENGTH
           /\ Len(text) > MAX_FLEX_MESSAGE_LENGTH
           /\ \A i \in 1 .. MAX_FLEX_MESSAGE_LENGTH - 3 : q[i] = text[i]

LEMMA TextKept ==
    ASSUME NEW payload, IsMessage(payload),
           NEW s \in Seq(Byte), Len(s) = PACKET_PAYLOAD_SIZE,
           \A k \in 1 .. Len(payload) : s[k] = payload[k]
    PROVE  TextOf(safe_message(s), payload)
  <1>1. PICK u \in Nat \ {0}, p \in Nat :
            /\ p = PACKET_PAYLOAD_SIZE
            /\ MAX_MESSAGE_IN_PROTOCOL \in Nat /\ 3 + MAX_MESSAGE_IN_PROTOCOL < p
    BY Sizes
  <1>2. PICK m \in Nat :
            /\ m <= MAX_MESSAGE_IN_PROTOCOL /\ Len(payload) = 3 + m /\ payload[3] = m
            /\ \A k \in 1 .. m : payload[3 + k] # 0
    BY <1>1 DEF IsMessage
  <1>3. payload \in Seq(Byte)  BY DEF IsMessage
  <1>4. PICK max \in Nat : max = MAX_FLEX_MESSAGE_LENGTH /\ 3 <= max
    <2>1. MAX_FLEX_MESSAGE_LENGTH \in Nat /\ 3 <= MAX_FLEX_MESSAGE_LENGTH
      BY PacketAssumption
    <2> QED  BY <2>1
  <1>5. PICK b \in Nat : b = 3 + m /\ 3 <= b /\ b - 3 = m /\ 3 + 1 = 4 /\ b <= p
    <2>1. 3 + m <= p  BY <1>1, <1>2
    <2> QED  BY <2>1
  <1>6. PICK x \in Seq(Byte) :
            /\ x = SubSeq(payload, 4, b) /\ Len(x) = m
            /\ \A j \in 1 .. m : x[j] = payload[3 + j]
    <2>1. 3 \in Nat /\ b \in 0 .. Len(payload)  BY <1>2, <1>5
    <2>2. /\ SubSeq(payload, 3 + 1, b) \in Seq(Byte)
          /\ Len(SubSeq(payload, 3 + 1, b)) = b - 3
          /\ \A j \in 1 .. b - 3 : SubSeq(payload, 3 + 1, b)[j] = payload[3 + j]
      BY <1>3, <1>5, <2>1, Part
    <2>3. /\ SubSeq(payload, 4, b) \in Seq(Byte)
          /\ Len(SubSeq(payload, 4, b)) = m
          /\ \A j \in 1 .. m : SubSeq(payload, 4, b)[j] = payload[3 + j]
      BY <1>5, <2>2
    <2> QED  BY <2>3
  <1>7. PICK y \in Seq(Byte) :
            /\ y = SubSeq(s, 4, b) /\ Len(y) = m
            /\ \A j \in 1 .. m : y[j] = s[3 + j]
    <2>1. 3 \in Nat /\ b \in 0 .. Len(s)  BY <1>1, <1>5
    <2>2. /\ SubSeq(s, 3 + 1, b) \in Seq(Byte)
          /\ Len(SubSeq(s, 3 + 1, b)) = b - 3
          /\ \A j \in 1 .. b - 3 : SubSeq(s, 3 + 1, b)[j] = s[3 + j]
      BY <1>5, <2>1, Part
    <2>3. /\ SubSeq(s, 4, b) \in Seq(Byte)
          /\ Len(SubSeq(s, 4, b)) = m
          /\ \A j \in 1 .. m : SubSeq(s, 4, b)[j] = s[3 + j]
      BY <1>5, <2>2
    <2> QED  BY <2>3
  <1>8. /\ s[3] = m
        /\ \A j \in 1 .. m : s[3 + j] = payload[3 + j]
    <2>1. 3 \in 1 .. Len(payload) /\ \A j \in 1 .. m : 3 + j \in 1 .. Len(payload)
      BY <1>2
    <2> QED  BY <1>2, <2>1
  <1>9. y = x
    <2>1. Len(y) = Len(x) /\ \A j \in 1 .. Len(y) : y[j] = x[j]  BY <1>6, <1>7, <1>8
    <2> QED  BY <2>1, SeqEqual
  <1>10. SubSeq(payload, CMD_SEND_FLEX_ARGS_SIZE + 1, Len(payload)) = x
    BY <1>2, <1>5, <1>6 DEF CMD_SEND_FLEX_ARGS_SIZE
  <1>11. safe_message(s) =
             CString(IF m > max THEN SubSeq(x, 1, max - 3) \o <<46, 46, 46>> ELSE x)
    BY <1>4, <1>5, <1>7, <1>8, <1>9 DEF safe_message, CMD_SEND_FLEX_ARGS_SIZE
  <1>12. NonZero(x)  BY <1>2, <1>6 DEF NonZero
  <1>13. CASE ~(m > max)
    <2>1. safe_message(s) = x  BY <1>11, <1>12, <1>13, CStringKept
    <2>2. Len(x) <= max  BY <1>4, <1>6, <1>13
    <2> QED  BY <1>4, <1>10, <2>1, <2>2 DEF TextOf
  <1>14. CASE m > max
    <2>1. PICK a \in Nat : a = max - 3 /\ a + 3 = max /\ a - 0 = a /\ a <= m
      BY <1>4, <1>14
    <2>2. PICK v \in Seq(Byte) :
              v = SubSeq(x, 1, a) /\ Len(v) = a /\ \A j \in 1 .. a : v[j] = x[j]
      <3>1. 0 \in Nat /\ 0 <= a /\ 0 + 1 = 1 /\ a \in 0 .. Len(x)  BY <1>6, <2>1
      <3>2. /\ SubSeq(x, 0 + 1, a) \in Seq(Byte)
            /\ Len(SubSeq(x, 0 + 1, a)) = a - 0
            /\ \A j \in 1 .. a - 0 : SubSeq(x, 0 + 1, a)[j] = x[0 + j]
        BY <3>1, Part
      <3>3. \A j \in 1 .. a : 0 + j = j  OBVIOUS
      <3>4. /\ SubSeq(x, 1, a) \in Seq(Byte) /\ Len(SubSeq(x, 1, a)) = a
            /\ \A j \in 1 .. a : SubSeq(x, 1, a)[j] = x[j]
        BY <2>1, <3>1, <3>2, <3>3
      <3> QED  BY <3>4
    <2>3. PICK d \in Seq(Byte) :
              d = <<46, 46, 46>> /\ Len(d) = 3 /\ \A j \in 1 .. 3 : d[j] # 0
      <3>1. 46 \in Byte  BY DEF Byte
      <3>2. <<46, 46, 46>> \in Seq(Byte) /\ Len(<<46, 46, 46>>) = 3  BY <3>1
      <3>3. \A j \in 1 .. 3 : <<46, 46, 46>>[j] # 0  OBVIOUS
      <3> QED  BY <3>2, <3>3, Zenon
    <2>4. PICK q \in Seq(Byte) :
              /\ q = v \o d /\ Len(q) = max
              /\ \A j \in 1 .. a : q[j] = v[j]
              /\ \A j \in 1 .. 3 : q[a + j] = d[j]
      <3>1. 3 \in Nat  OBVIOUS
      <3>2. /\ v \o d \in Seq(Byte) /\ Len(v \o d) = a + 3
            /\ \A j \in 1 .. a : (v \o d)[j] = v[j]
            /\ \A j \in 1 .. 3 : (v \o d)[a + j] = d[j]
        BY <2>2, <2>3, <3>1, JoinedBytes
      <3> QED  BY <2>1, <3>2
    <2>5. ASSUME NEW j \in 1 .. max PROVE q[j] # 0
      <3>1. CASE j <= a
        <4>1. j \in 1 .. a /\ j \in 1 .. m  BY <2>1, <3>1
        <4>2. q[j] = x[j]  BY <2>2, <2>4, <4>1
        <4> QED  BY <1>2, <1>6, <4>1, <4>2
      <3>2. CASE ~(j <= a)
        <4>1. PICK i \in 1 .. 3 : a + i = j
          <5>1. j - a \in 1 .. 3 /\ a + (j - a) = j  BY <2>1, <3>2
          <5> QED  BY <5>1
        <4> QED  BY <2>3, <2>4, <4>1
      <3> QED  BY <3>1, <3>2
    <2>6. NonZero(q)  BY <2>4, <2>5 DEF NonZero
    <2>7. safe_message(s) = q
      BY <1>11, <1>14, <2>1, <2>2, <2>3, <2>4, <2>6, CStringKept
    <2>8. \A i \in 1 .. max - 3 : q[i] = x[i]  BY <2>1, <2>2, <2>4
    <2> QED  BY <1>4, <1>6, <1>10, <1>14, <2>4, <2>7, <2>8 DEF TextOf
  <1> QED  BY <1>13, <1>14


-----------------------------------------------------------------------------
(* Answers: the library takes them, and their flags are zero.              *)

IsAnswer(raw) == IsRaw(raw) /\ Passes(raw) /\ raw[3] = 0

LEMMA DeviceAnswers ==
    ASSUME NEW type \in Byte, NEW opcode \in Byte, NEW uuid \in Uuid,
           NEW payload \in Seq(Byte), Len(payload) <= 5, NEW now \in Clock
    PROVE  IsAnswer(DevicePacket(type, opcode, uuid, payload, now))
  <1>1. Len(payload) <= PACKET_PAYLOAD_SIZE
    <2>1. PICK u \in Nat \ {0}, p \in Nat : p = PACKET_PAYLOAD_SIZE /\ 7 <= p  BY Sizes
    <2>2. PICK l \in Nat : l = Len(payload)  BY LenProperties
    <2>3. l <= p  BY <2>1, <2>2
    <2> QED  BY <2>1, <2>2, <2>3
  <1>2. Built(DevicePacket(type, opcode, uuid, payload, now),
              type, opcode, 0, uuid, payload)
    BY <1>1, DeviceBuilt
  <1> QED  BY <1>2 DEF Built, Carries, IsAnswer

LEMMA AnswerPackets ==
    ASSUME NEW uuid \in Uuid, NEW now \in Clock
    PROVE  /\ \A n \in 0 .. 3 : /\ IsAnswer(build_rsp_ack(uuid, n, now))
                                /\ IsAnswer(build_rsp_nack(uuid, n, now))
                                /\ IsAnswer(build_evt_tx_queued(uuid, n, now))
                                /\ IsAnswer(build_evt_tx_done(uuid, n, now))
                                /\ IsAnswer(build_evt_tx_failed(uuid, n, now))
           /\ IsAnswer(build_rsp_status(uuid, <<0, 1, 100, 0, 1>>, now))
           /\ IsAnswer(build_rsp_pong(uuid, now))
           /\ IsAnswer(build_evt_tx_start(uuid, now))
  <1>1. 1 \in Byte /\ 2 \in Byte /\ 3 \in Byte /\ 4 \in Byte /\ 5 \in Byte  BY DEF Byte
  <1>2. <<>> \in Seq(Byte) /\ Len(<<>>) <= 5
    <2>1. <<>> \in Seq(Byte) /\ Len(<<>>) = 0 /\ 0 <= 5  OBVIOUS
    <2> QED  BY <2>1
  <1>3. ASSUME NEW n \in 0 .. 3 PROVE <<n>> \in Seq(Byte) /\ Len(<<n>>) <= 5
    <2>1. n \in Byte  BY DEF Byte
    <2>2. <<n>> \in Seq(Byte) /\ Len(<<n>>) = 1 /\ 1 <= 5  BY <2>1
    <2> QED  BY <2>2
  <1>4. <<0, 1, 100, 0, 1>> \in Seq(Byte) /\ Len(<<0, 1, 100, 0, 1>>) <= 5
    <2>1. 0 \in Byte /\ 1 \in Byte /\ 100 \in Byte  BY DEF Byte
    <2>2. <<0, 1, 100, 0, 1>> \in Seq(Byte)  BY <2>1
    <2>3. Len(<<0, 1, 100, 0, 1>>) = 5 /\ 5 <= 5  OBVIOUS
    <2> QED  BY <2>2, <2>3
  <1>5. ASSUME NEW n \in 0 .. 3
        PROVE  /\ IsAnswer(build_rsp_ack(uuid, n, now))
               /\ IsAnswer(build_rsp_nack(uuid, n, now))
               /\ IsAnswer(build_evt_tx_queued(uuid, n, now))
               /\ IsAnswer(build_evt_tx_done(uuid, n, now))
               /\ IsAnswer(build_evt_tx_failed(uuid, n, now))
    <2>1. PICK w \in Seq(Byte) : w = <<n>> /\ Len(w) <= 5  BY <1>3
    <2>2. /\ IsAnswer(DevicePacket(2, 1, uuid, w, now))
          /\ IsAnswer(DevicePacket(2, 2, uuid, w, now))
          /\ IsAnswer(DevicePacket(3, 1, uuid, w, now))
          /\ IsAnswer(DevicePacket(3, 3, uuid, w, now))
          /\ IsAnswer(DevicePacket(3, 4, uuid, w, now))
      BY <1>1, <2>1, DeviceAnswers
    <2> QED
      BY <2>1, <2>2 DEF build_rsp_ack, build_rsp_nack, build_evt_tx_queued,
         build_evt_tx_done, build_evt_tx_failed, TypeCode, RspCode, EvtCode
  <1>6. IsAnswer(build_rsp_status(uuid, <<0, 1, 100, 0, 1>>, now))
    <2>1. PICK w \in Seq(Byte) : w = <<0, 1, 100, 0, 1>> /\ Len(w) <= 5  BY <1>4
    <2>2. IsAnswer(DevicePacket(2, 3, uuid, w, now))  BY <1>1, <2>1, DeviceAnswers
    <2> QED  BY <2>1, <2>2 DEF build_rsp_status, TypeCode, RspCode
  <1>7. /\ IsAnswer(build_rsp_pong(uuid, now))
        /\ IsAnswer(build_evt_tx_start(uuid, now))
    <2>1. PICK w \in Seq(Byte) : w = <<>> /\ Len(w) <= 5  BY <1>2
    <2>2. /\ IsAnswer(DevicePacket(2, 5, uuid, w, now))
          /\ IsAnswer(DevicePacket(3, 2, uuid, w, now))
      BY <1>1, <2>1, DeviceAnswers
    <2> QED  BY <2>1, <2>2 DEF build_rsp_pong, build_evt_tx_start, TypeCode, RspCode, EvtCode
  <1> QED  BY <1>5, <1>6, <1>7

LEMMA Answered ==
    ASSUME NEW p \in Packets, NEW room \in BOOLEAN, clock' \in Clock
    PROVE  /\ Answer(p, room) = <<>> \/ IsAnswer(Answer(p, room))
           /\ p.type = 1 => Answer(p, room) # <<>>
  <1>1. PICK uuid \in Uuid : uuid = p.uuid  BY DEF Packets
  <1>2. PICK now \in Clock : now = clock'  OBVIOUS
  <1>3. CASE p.type # 1
    <2>1. Answer(p, room) = <<>>  BY <1>3 DEF Answer, TypeCode
    <2> QED  BY <1>3, <2>1
  <1>4. CASE p.type = 1
    <2>1. /\ \A n \in 0 .. 3 : /\ IsAnswer(build_rsp_ack(uuid, n, now))
                               /\ IsAnswer(build_rsp_nack(uuid, n, now))
          /\ IsAnswer(build_rsp_status(uuid, <<0, 1, 100, 0, 1>>, now))
          /\ IsAnswer(build_rsp_pong(uuid, now))
      BY AnswerPackets
    <2>2. 0 \in 0 .. 3 /\ 1 \in 0 .. 3 /\ 2 \in 0 .. 3 /\ 3 \in 0 .. 3  OBVIOUS
    <2>3. \/ Answer(p, room) = build_rsp_pong(uuid, now)
          \/ Answer(p, room) = build_rsp_status(uuid, <<0, 1, 100, 0, 1>>, now)
          \/ Answer(p, room) = build_rsp_nack(uuid, 3, now)
          \/ Answer(p, room) = build_rsp_ack(uuid, 0, now)
          \/ Answer(p, room) = build_rsp_nack(uuid, 2, now)
          \/ Answer(p, room) = build_rsp_nack(uuid, 1, now)
      BY <1>1, <1>2, <1>4 DEF Answer, TypeCode
    <2>4. IsAnswer(Answer(p, room))  BY <2>1, <2>2, <2>3, Zenon
    <2>5. Answer(p, room) # <<>>
      <3>1. PICK a : a = Answer(p, room)  OBVIOUS
      <3>2. Len(a) = PACKET_FIXED_SIZE  BY <2>4, <3>1 DEF IsAnswer, IsRaw
      <3>3. PACKET_FIXED_SIZE # 0
        <4>1. PICK u \in Nat \ {0}, q \in Nat : PACKET_FIXED_SIZE = 15 + u + q  BY Sizes
        <4>2. 15 + u + q # 0  OBVIOUS
        <4> QED  BY <4>1, <4>2
      <3>4. Len(<<>>) = 0  OBVIOUS
      <3> QED  BY <3>1, <3>2, <3>3, <3>4
    <2> QED  BY <2>4, <2>5
  <1> QED  BY <1>3, <1>4


-----------------------------------------------------------------------------
(* The exchanges.  The inductive invariant: what the program has asked is  *)
(* a command; what is left on the line is at most one frame more; and as   *)
(* long as nothing was damaged, the line carries the packet of the program *)
(* or the answer of the device, and nothing else.                          *)

AskedFrame ==
    Encode(HostPacket(asked.opcode, asked.uuid, asked.payload, asked.time, asked.tz))

WellAsked ==
    /\ asked.opcode \in Byte /\ asked.uuid \in Uuid /\ asked.payload \in Seq(Byte)
    /\ Len(asked.payload) < PACKET_PAYLOAD_SIZE
    /\ asked.time \in Word /\ asked.tz \in Byte
    /\ asked.opcode = CmdCode.SEND_FLEX => IsMessage(asked.payload)

Types ==
    /\ phase \in {"idle", "request", "answer", "done"}
    /\ damaged \in BOOLEAN
    /\ clock \in Clock
    /\ rtc \in [there : BOOLEAN, lost : BOOLEAN, time : Word]
    /\ line \in Seq(Byte) /\ up \in Seq(Byte)
    /\ handled = Nothing \/ handled \in Packets

Phases ==
    /\ phase # "idle" => WellAsked
    /\ phase = "idle" => ~damaged /\ handled = Nothing /\ queued = <<>>
    /\ phase \in {"answer", "done"} => handled \in Packets
    /\ queued # <<>> => handled \in Packets

Lines ==
    /\ phase # "request" => Short(line)
    /\ phase = "request" /\ damaged => Tidy(line)

Requested ==
    phase = "request" =>
        /\ handled = Nothing /\ queued = <<>>
        /\ line = AskedFrame \/ (line = <<>> /\ AskedFrame[1] \in Ascii)

Delivered ==
    /\ handled \in Packets => FieldsAreAsked
    /\ queued # <<>> => TextOf(queued, asked.payload)

Replied ==
    /\ phase = "answer" =>
         /\ IsAnswer(told)
         /\ \E l \in LogLines \union {<<>>} : up = l \o Encode(told)
    /\ phase = "done" => got = Fields(told, FLEX_TS_OFFSET)

IInv ==
    Types /\ Phases /\ Lines /\ (~damaged => Requested /\ Delivered /\ Replied)


LEMMA NothingIsNoPacket == Nothing \notin Packets /\ ~Nothing.taken
  <1>1. ~Nothing.taken  BY DEF Nothing
  <1>2. \A p \in Packets : p.taken  BY DEF Packets
  <1> QED  BY <1>1, <1>2

(* The packet of the program is read as what it is.                        *)
LEMMA AskedFacts ==
    ASSUME WellAsked
    PROVE  /\ IsFrame(AskedFrame) /\ Len(AskedFrame) <= LineMax
           /\ DeviceReads(AskedFrame) \in Packets
           /\ Says(DeviceReads(AskedFrame), 1, asked.opcode, asked.uuid, asked.payload)
           /\ FLEX_TS_OFFSET # ts_offset => DeviceReads(AskedFrame).ts_flags = 0
  <1>1. PICK raw : raw = HostPacket(asked.opcode, asked.uuid, asked.payload,
                                    asked.time, asked.tz)
    OBVIOUS
  <1>2. /\ Built(raw, 1, asked.opcode, 1, asked.uuid, asked.payload)
        /\ FLEX_TS_OFFSET # ts_offset => raw[PACKET_CRC_OFFSET] = 0
    BY <1>1, HostBuilt DEF WellAsked
  <1>3. IsRaw(raw) /\ Passes(raw) /\ raw \in Seq(Byte)  BY <1>2 DEF Built, IsRaw
  <1>4. IsFrame(Encode(raw)) /\ Len(Encode(raw)) <= LineMax
    <2>1. IsFrame(Encode(raw)) /\ Len(Encode(raw)) \in Nat \ {0, 1}
          /\ Len(Encode(raw)) <= Len(raw) + 2 + Len(raw) \div (MAX_CODE - 1)
      BY <1>3, EncodeShape
    <2> QED  BY <1>3, <2>1 DEF IsRaw, LineMax
  <1>5. Decode(Encode(raw)) = raw  BY <1>3, RoundTrip
  <1>6. DeviceReads(AskedFrame) = Fields(raw, ts_offset)
    BY <1>1, <1>3, <1>5 DEF DeviceReads, AskedFrame
  <1>7. Fields(raw, ts_offset) \in Packets  BY <1>3, FieldsType
  <1>8. Says(Fields(raw, ts_offset), 1, asked.opcode, asked.uuid, asked.payload)
    <2>1. asked.uuid \in Uuid /\ asked.payload \in Seq(Byte)  BY DEF WellAsked
    <2>2. Len(asked.payload) <= PACKET_PAYLOAD_SIZE
      <3>1. PICK u \in Nat \ {0}, p \in Nat : p = PACKET_PAYLOAD_SIZE  BY Sizes
      <3>2. PICK l \in Nat : l = Len(asked.payload)  BY <2>1, LenProperties
      <3>3. l < p  BY <3>1, <3>2 DEF WellAsked
      <3> QED  BY <3>1, <3>2, <3>3
    <2> QED  BY <1>2, <2>1, <2>2, FieldsSay
  <1>9. ASSUME FLEX_TS_OFFSET # ts_offset PROVE Fields(raw, ts_offset).ts_flags = 0
    <2>1. PICK u \in Nat \ {0}, p \in Nat :
              ts_offset = 5 + u + p /\ PACKET_CRC_OFFSET = 13 + u + p
      BY Sizes
    <2>2. ((5 + u + p) + 7) + 1 = 13 + u + p  OBVIOUS
    <2>3. At(raw, ts_offset + 7) = 0  BY <1>2, <1>9, <2>1, <2>2 DEF At
    <2> QED  BY <2>3 DEF Fields
  <1> QED  BY <1>1, <1>4, <1>6, <1>7, <1>8, <1>9 DEF AskedFrame

LEMMA SameAsked ==
    ASSUME asked' = asked
    PROVE  (WellAsked' <=> WellAsked) /\ AskedFrame' = AskedFrame
  <1>1. WellAsked' <=> WellAsked  BY DEF WellAsked
  <1>2. AskedFrame' = AskedFrame  BY DEF AskedFrame
  <1> QED  BY <1>1, <1>2

LEMMA Started ==
    ASSUME Init
    PROVE  IInv
  <1>1. <<>> \in Seq(Byte)  OBVIOUS
  <1>2. 0 \in Byte /\ 0 \in Word  BY WordIs DEF Byte
  <1>3. Types  BY <1>1, <1>2 DEF Init, Types, Clock
  <1>4. Phases  BY DEF Init, Phases
  <1>5. Lines  BY DEF Init, Lines, Short
  <1>6. Requested  BY DEF Init, Requested
  <1>7. Delivered  BY NothingIsNoPacket DEF Init, Delivered
  <1>8. Replied  BY DEF Init, Replied
  <1> QED  BY <1>3, <1>4, <1>5, <1>6, <1>7, <1>8 DEF IInv

LEMMA AskStep ==
    ASSUME IInv, NEW opcode \in Byte, NEW uuid \in Uuid, NEW payload \in Seq(Byte),
           Len(payload) < PACKET_PAYLOAD_SIZE,
           opcode = CmdCode.SEND_FLEX => IsMessage(payload),
           NEW t \in Word, NEW tz \in Byte, Ask(opcode, uuid, payload, t, tz)
    PROVE  IInv'
  <1>1. phase = "idle" /\ Types /\ Phases  BY DEF Ask, IInv
  <1>2. ~damaged /\ handled = Nothing /\ queued = <<>>  BY <1>1 DEF Phases
  <1>3. PICK new : new = asked'  OBVIOUS
  <1>4. /\ new.opcode = opcode /\ new.uuid = uuid /\ new.payload = payload
        /\ new.time = t /\ new.tz = tz
    BY <1>3 DEF Ask
  <1>5. WellAsked'  BY <1>3, <1>4 DEF WellAsked
  <1>6. line' = AskedFrame'  BY <1>3, <1>4 DEF Ask, AskedFrame
  <1>7. IsFrame(AskedFrame')
    <2>1. IsFrame(AskedFrame)'  BY <1>5, AskedFacts, PTL
    <2> QED  BY <2>1
  <1>8. Types'  BY <1>1, <1>2, <1>6, <1>7 DEF Types, Ask, clockVars, IsFrame
  <1>9. Phases'  BY <1>2, <1>5 DEF Phases, Ask
  <1>10. Lines'  BY <1>2 DEF Lines, Ask
  <1>11. Requested'  BY <1>2, <1>6 DEF Requested, Ask
  <1>12. Delivered'  BY <1>2, NothingIsNoPacket DEF Delivered, Ask
  <1>13. Replied'  BY DEF Replied, Ask
  <1> QED  BY <1>8, <1>9, <1>10, <1>11, <1>12, <1>13 DEF IInv


(* The answer of the device is read as what it is, whatever text stands in *)
(* front of it.                                                            *)
LEMMA AnswerArrives ==
    ASSUME NEW raw, IsAnswer(raw), NEW l \in LogLines \union {<<>>}
    PROVE  /\ l \o Encode(raw) \in Seq(Byte)
           /\ HostReads(FirstFrame(AfterText(l \o Encode(raw)))) = Fields(raw, FLEX_TS_OFFSET)
  <1>1. IsRaw(raw) /\ Passes(raw) /\ raw \in Seq(Byte) /\ raw[3] = 0
    BY DEF IsAnswer, IsRaw
  <1>2. 3 <= Len(raw)
    <2>1. PICK u \in Nat \ {0}, p \in Nat : PACKET_FIXED_SIZE = 15 + u + p  BY Sizes
    <2>2. 3 <= 15 + u + p  OBVIOUS
    <2> QED  BY <1>1, <2>1, <2>2 DEF IsRaw
  <1>3. PICK e \in Seq(Byte) : e = Encode(raw) /\ IsFrame(e) /\ e # <<>>
    BY <1>1, EncodeShape DEF IsFrame
  <1>4. e[1] \notin Ascii  BY <1>1, <1>2, <1>3, FirstCode
  <1>5. PICK k \in Seq(Ascii) : k = l
    <2>1. <<>> \in Seq(Ascii)  OBVIOUS
    <2> QED  BY <2>1, LinkAssumption
  <1>6. k \in Seq(Byte)
    <2>1. Ascii \subseteq Byte  BY LinkAssumption DEF Byte
    <2> QED  BY <2>1, SeqMonotonic
  <1>7. k \o e \in Seq(Byte)  BY <1>6, ConcatProperties
  <1>8. AfterText(k \o e) = e  BY <1>3, <1>4, TextSkipped
  <1>9. FirstFrame(e) = e  BY <1>3, FrameFirst
  <1>10. Decode(e) = raw  BY <1>1, <1>3, RoundTrip
  <1>11. HostReads(e) = Fields(raw, FLEX_TS_OFFSET)  BY <1>1, <1>10 DEF HostReads
  <1> QED  BY <1>3, <1>5, <1>7, <1>8, <1>9, <1>11

LEMMA ReadAnswerStep ==
    ASSUME IInv, ReadAnswer
    PROVE  IInv'
  <1>1. Types /\ Phases /\ Lines /\ (~damaged => Requested /\ Delivered /\ Replied)
    BY DEF IInv
  <1>2. asked' = asked /\ (WellAsked' <=> WellAsked)  BY SameAsked DEF ReadAnswer
  <1>3. <<>> \in Seq(Byte)  OBVIOUS
  <1>4. Types'  BY <1>1, <1>3 DEF Types, ReadAnswer, clockVars
  <1>5. Phases'  BY <1>1, <1>2 DEF Phases, ReadAnswer
  <1>6. Lines'  BY <1>1 DEF Lines, Short, ReadAnswer
  <1>7. Requested'  BY DEF Requested, ReadAnswer
  <1>8. ASSUME ~damaged' PROVE Delivered' /\ Replied'
    <2>1. ~damaged /\ phase = "answer"  BY <1>8 DEF ReadAnswer
    <2>2. Delivered'  BY <1>1, <2>1 DEF Delivered, FieldsAreAsked, ReadAnswer
    <2>3. PICK l \in LogLines \union {<<>>} : up = l \o Encode(told)
      BY <1>1, <2>1 DEF Replied
    <2>4. IsAnswer(told)  BY <1>1, <2>1 DEF Replied
    <2>5. HostReads(FirstFrame(AfterText(up))) = Fields(told, FLEX_TS_OFFSET)
      BY <2>3, <2>4, AnswerArrives
    <2>6. got' = Fields(told', FLEX_TS_OFFSET) /\ phase' = "done"
      BY <2>5 DEF ReadAnswer
    <2>7. Replied'  BY <2>6 DEF Replied
    <2> QED  BY <2>2, <2>7
  <1> QED  BY <1>4, <1>5, <1>6, <1>7, <1>8 DEF IInv

LEMMA FinishStep ==
    ASSUME IInv, Finish
    PROVE  IInv'
  <1>1. Types /\ Phases /\ Lines  BY DEF IInv
  <1>2. Short(line)  BY <1>1 DEF Lines, Short, Finish
  <1>3. Types'  BY <1>1 DEF Types, Finish, clockVars
  <1>4. Phases'  BY DEF Phases, Finish
  <1>5. Lines'  BY <1>2 DEF Lines, Short, Finish
  <1>6. Requested'  BY DEF Requested, Finish
  <1>7. Delivered'  BY NothingIsNoPacket DEF Delivered, Finish
  <1>8. Replied'  BY DEF Replied, Finish
  <1> QED  BY <1>3, <1>4, <1>5, <1>6, <1>7, <1>8 DEF IInv

(* The line.                                                               *)
LEMMA DamageRequestStep ==
    ASSUME IInv, DamageRequest
    PROVE  IInv'
  <1>1. Types /\ Phases /\ Requested  BY DEF IInv, DamageRequest
  <1>2. asked' = asked /\ (WellAsked' <=> WellAsked)  BY SameAsked DEF DamageRequest
  <1>3. line = AskedFrame /\ WellAsked
    BY <1>1 DEF DamageRequest, Requested, Phases
  <1>4. IsFrame(line) /\ Len(line) <= LineMax  BY <1>3, AskedFacts
  <1>5. PICK s \in Damages(line) : s = line'  BY DEF DamageRequest
  <1>6. s \in Seq(Byte) /\ Tidy(s)  BY <1>4, DamagedFrame
  <1>7. Types'  BY <1>1, <1>5, <1>6 DEF Types, DamageRequest, clockVars
  <1>8. Phases'  BY <1>1, <1>2 DEF Phases, DamageRequest
  <1>9. Tidy(line)'
    <2>1. FirstFrame(line)' = FirstFrame(s) /\ Rest(line)' = Rest(s)
      BY <1>5 DEF FirstFrame, Rest
    <2> QED  BY <1>6, <2>1 DEF Tidy, Short
  <1>10. Lines'  BY <1>9 DEF Lines, DamageRequest
  <1> QED  BY <1>7, <1>8, <1>10 DEF IInv, DamageRequest

LEMMA DamageAnswerStep ==
    ASSUME IInv, DamageAnswer
    PROVE  IInv'
  <1>1. Types /\ Phases /\ Lines  BY DEF IInv
  <1>2. asked' = asked /\ (WellAsked' <=> WellAsked)  BY SameAsked DEF DamageAnswer
  <1>3. PICK s \in Damages(up) : s = up'  BY DEF DamageAnswer
  <1>4. s \in Seq(Byte)  BY <1>1, DamagedShape DEF Types
  <1>5. Types'  BY <1>1, <1>3, <1>4 DEF Types, DamageAnswer, clockVars
  <1>6. Phases'  BY <1>1, <1>2 DEF Phases, DamageAnswer
  <1>7. Lines'  BY <1>1 DEF Lines, Short, DamageAnswer
  <1> QED  BY <1>5, <1>6, <1>7 DEF IInv, DamageAnswer


(* The device: what it takes from an undamaged line is the program's.      *)
LEMMA AskedFrameRead ==
    ASSUME WellAsked, line = AskedFrame
    PROVE  /\ FirstFrame(line) = line /\ FirstFrame(line) # <<>> /\ Rest(line) = <<>>
           /\ DeviceReads(FirstFrame(line)) \in Packets
           /\ Says(DeviceReads(FirstFrame(line)), 1, asked.opcode, asked.uuid, asked.payload)
           /\ FLEX_TS_OFFSET # ts_offset => DeviceReads(FirstFrame(line)).ts_flags = 0
  <1>1. IsFrame(line)  BY AskedFacts
  <1>2. FirstFrame(line) = line /\ FirstFrame(line) # <<>> /\ Rest(line) = <<>>
    BY <1>1, FrameFirst
  <1> QED  BY <1>2, AskedFacts

LEMMA ReceiveTextStep ==
    ASSUME IInv, ReceiveText
    PROVE  IInv'
  <1>1. Types /\ Phases /\ (~damaged => Requested /\ Delivered)  BY DEF IInv
  <1>2. /\ asked' = asked /\ (WellAsked' <=> WellAsked) /\ AskedFrame' = AskedFrame
    BY SameAsked DEF ReceiveText
  <1>3. <<>> \in Seq(Byte)  OBVIOUS
  <1>4. Types'  BY <1>1, <1>3 DEF Types, ReceiveText, clockVars
  <1>5. Phases'  BY <1>1, <1>2 DEF Phases, ReceiveText
  <1>6. Lines'
    <2>1. PICK s \in Seq(Byte) : s = <<>>  BY <1>3
    <2>2. Tidy(s)  BY <2>1, ShortIsTidy DEF Short
    <2>3. line' = s  BY <2>1 DEF ReceiveText
    <2>4. Tidy(line)'  BY <2>2, <2>3 DEF Tidy, Short, FirstFrame, Rest
    <2>5. phase' = "request"  BY DEF ReceiveText
    <2> QED  BY <2>4, <2>5 DEF Lines
  <1>7. ASSUME ~damaged' PROVE Requested' /\ Delivered' /\ Replied'
    <2>1. ~damaged /\ phase = "request" /\ line # <<>>  BY <1>7 DEF ReceiveText
    <2>2. line = AskedFrame /\ WellAsked /\ handled = Nothing /\ queued = <<>>
      BY <1>1, <2>1 DEF Requested, Phases
    <2>3. AskedFrame[1] \in Ascii
      <3>1. FirstFrame(line) # <<>>  BY <2>2, AskedFrameRead
      <3> QED  BY <2>2, <3>1 DEF ReceiveText
    <2>4. Requested'  BY <1>2, <2>2, <2>3 DEF Requested, ReceiveText
    <2>5. Delivered'  BY <2>2, NothingIsNoPacket DEF Delivered, ReceiveText
    <2>6. Replied'  BY DEF Replied, ReceiveText
    <2> QED  BY <2>4, <2>5, <2>6
  <1> QED  BY <1>4, <1>5, <1>6, <1>7 DEF IInv

(* What is left on the line behind a frame.                                *)
LEMMA RestIsShort ==
    ASSUME IInv, ReceivesFrame
    PROVE  Rest(line) \in Seq(Byte) /\ Short(Rest(line)) /\ Tidy(Rest(line))
  <1>1. Short(Rest(line))
    <2>1. CASE damaged  BY <2>1 DEF IInv, Lines, Tidy, ReceivesFrame
    <2>2. CASE ~damaged
      <3>1. line = AskedFrame /\ WellAsked
        BY <2>2 DEF IInv, Requested, Phases, ReceivesFrame
      <3>2. Rest(line) = <<>>  BY <3>1, AskedFrameRead
      <3> QED  BY <3>2 DEF Short
    <2> QED  BY <2>1, <2>2
  <1>2. PICK s \in Seq(Byte) : s = Rest(line)
    <2>1. <<>> \in Seq(Byte)  OBVIOUS
    <2> QED  BY <1>1, <2>1 DEF Short, IsFrame
  <1>3. Tidy(s)  BY <1>1, <1>2, ShortIsTidy
  <1> QED  BY <1>1, <1>2, <1>3

LEMMA RejectFrameStep ==
    ASSUME IInv, RejectFrame
    PROVE  IInv'
  <1>1. Types /\ Phases /\ (~damaged => Requested)  BY DEF IInv
  <1>2. asked' = asked /\ (WellAsked' <=> WellAsked)  BY SameAsked DEF RejectFrame
  <1>3. PICK s \in Seq(Byte) : s = Rest(line) /\ Tidy(s)  BY RestIsShort DEF RejectFrame
  <1>4. damaged
    <2>1. SUFFICES ASSUME ~damaged PROVE FALSE  OBVIOUS
    <2>2. line = AskedFrame /\ WellAsked
      BY <1>1, <2>1 DEF RejectFrame, ReceivesFrame, Requested, Phases
    <2>3. DeviceReads(FirstFrame(line)).taken  BY <2>2, AskedFrameRead DEF Says
    <2> QED  BY <2>3 DEF RejectFrame
  <1>5. line' = s  BY <1>3 DEF RejectFrame
  <1>6. Types'  BY <1>1, <1>5 DEF Types, RejectFrame, clockVars
  <1>7. Phases'  BY <1>1, <1>2 DEF Phases, RejectFrame
  <1>8. Lines'
    <2>1. FirstFrame(line)' = FirstFrame(s) /\ Rest(line)' = Rest(s)
      BY <1>5 DEF FirstFrame, Rest
    <2>2. Tidy(line)'  BY <1>3, <2>1 DEF Tidy, Short
    <2>3. phase' = "request"  BY DEF RejectFrame, ReceivesFrame
    <2> QED  BY <2>2, <2>3 DEF Lines
  <1> QED  BY <1>4, <1>6, <1>7, <1>8 DEF IInv, RejectFrame

LEMMA AdoptType ==
    ASSUME Types, NEW p \in Packets, Adopt(p)
    PROVE  clock' \in Clock /\ rtc' \in [there : BOOLEAN, lost : BOOLEAN, time : Word]
  <1>1. clock \in Clock /\ rtc \in [there : BOOLEAN, lost : BOOLEAN, time : Word]
    BY DEF Types
  <1>2. CASE ~Odd(p.ts_flags)
    <2>1. clock' = clock /\ rtc' = rtc  BY <1>2 DEF Adopt, clockVars
    <2> QED  BY <1>1, <2>1
  <1>3. CASE Odd(p.ts_flags)
    <2>1. PICK b \in BOOLEAN :
              b <=> Odd(p.ts_flags \div 2) /\ Apart(p.unix_timestamp, clock.time)
      OBVIOUS
    <2>2. PICK t \in Word, z \in Byte : t = p.unix_timestamp /\ z = p.timezone_offset
      BY DEF Packets
    <2>3. clock' = [set |-> clock.set \/ b, tz |-> z, time |-> IF b THEN t ELSE clock.time]
      BY <1>3, <2>1, <2>2 DEF Adopt
    <2>4. clock.set \in BOOLEAN /\ clock.time \in Word  BY <1>1 DEF Clock
    <2>5. clock' \in Clock
      <3>1. PICK s \in BOOLEAN : s <=> clock.set \/ b  OBVIOUS
      <3>2. PICK n \in Word : n = IF b THEN t ELSE clock.time  BY <2>4
      <3>3. clock' = [set |-> s, tz |-> z, time |-> n]  BY <2>3, <3>1, <3>2
      <3> QED  BY <3>3 DEF Clock
    <2>6. rtc' = rtc \/ rtc' = [rtc EXCEPT !.time = t, !.lost = FALSE]
      BY <1>3, <2>2 DEF Adopt
    <2>7. [rtc EXCEPT !.time = t, !.lost = FALSE]
              \in [there : BOOLEAN, lost : BOOLEAN, time : Word]
      BY <1>1
    <2> QED  BY <1>1, <2>5, <2>6, <2>7
  <1> QED  BY <1>2, <1>3


LEMMA HandlePacketStep ==
    ASSUME IInv, NEW room \in BOOLEAN, HandlePacket(room)
    PROVE  IInv'
  <1>1. Types /\ Phases /\ (~damaged => Requested)  BY DEF IInv
  <1>2. /\ phase = "request" /\ asked' = asked /\ damaged' = damaged
        /\ line' = Rest(line) /\ line # <<>> /\ ReceivesFrame
    BY DEF HandlePacket, ReceivesFrame
  <1>3. /\ (WellAsked' <=> WellAsked) /\ WellAsked /\ AskedFrame' = AskedFrame
    BY <1>1, <1>2, SameAsked DEF Phases
  <1>4. PICK p : p = DeviceReads(FirstFrame(line))  OBVIOUS
  <1>5. /\ p.taken /\ handled' = p /\ Adopt(p) /\ told' = Answer(p, room)
        /\ queued' = IF p.opcode = CmdCode.SEND_FLEX /\ Acceptable(p) /\ room
                     THEN safe_message(p.payload) ELSE <<>>
    BY <1>4 DEF HandlePacket
  <1>6. \/ told' = <<>> /\ up' = up /\ phase' = phase
        \/ /\ told' # <<>> /\ phase' = "answer"
           /\ \E l \in LogLines : up' = l \o Encode(told')
    BY DEF HandlePacket
  <1>7. p \in Packets
    <2>1. FirstFrame(line) \in Seq(Byte)
      <3>1. line \in Seq(Byte) /\ FirstFrame(line) # <<>>
        BY <1>1, <1>2 DEF Types, ReceivesFrame
      <3>2. \E z \in 1 .. Len(line) :
                /\ line[z] = 0 /\ \A j \in 1 .. Len(line) : j < z => line[j] # 0
                /\ FirstFrame(line) = SubSeq(line, 1, z) /\ FirstFrame(line) \in Seq(Byte)
                /\ Len(FirstFrame(line)) = z /\ FirstFrame(line) # <<>>
                /\ Rest(line) = SubSeq(line, z + 1, Len(line))
        BY <3>1, FirstFrameFacts
      <3> QED  BY <3>2
    <2> QED  BY <1>4, <1>5, <2>1, DeviceReadsType, NothingIsNoPacket
  <1>8. PICK s \in Seq(Byte) : s = Rest(line) /\ Short(s) /\ Tidy(s)  BY <1>2, RestIsShort
  <1>9. clock' \in Clock /\ rtc' \in [there : BOOLEAN, lost : BOOLEAN, time : Word]
    BY <1>1, <1>5, <1>7, AdoptType
  <1>10. /\ told' = <<>> \/ IsAnswer(told')
         /\ p.type = 1 => told' # <<>>
    BY <1>5, <1>7, <1>9, Answered
  <1>11. up' \in Seq(Byte)
    <2>1. CASE up' = up  BY <1>1, <2>1 DEF Types
    <2>2. CASE told' # <<>> /\ \E l \in LogLines : up' = l \o Encode(told')
      <3>1. PICK raw : raw = told'  OBVIOUS
      <3>2. PICK l \in LogLines \union {<<>>} : up' = l \o Encode(raw)  BY <2>2, <3>1
      <3>3. IsAnswer(raw)  BY <1>10, <2>2, <3>1
      <3> QED  BY <3>2, <3>3, AnswerArrives
    <2> QED  BY <1>6, <2>1, <2>2
  <1>12. Types'
    <2>1. phase' \in {"idle", "request", "answer", "done"} /\ damaged' \in BOOLEAN
      BY <1>1, <1>2, <1>6 DEF Types
    <2>2. line' \in Seq(Byte)  BY <1>2, <1>8
    <2> QED  BY <1>5, <1>7, <1>9, <1>11, <2>1, <2>2 DEF Types
  <1>13. Phases'  BY <1>2, <1>3, <1>5, <1>6, <1>7 DEF Phases
  <1>14. Lines'
    <2>1. FirstFrame(line)' = FirstFrame(s) /\ Rest(line)' = Rest(s) /\ line' = s
      BY <1>2, <1>8 DEF FirstFrame, Rest
    <2>2. Tidy(line)' /\ Short(line)'  BY <1>8, <2>1 DEF Tidy, Short
    <2> QED  BY <2>2 DEF Lines
  <1>15. ASSUME ~damaged' PROVE Requested' /\ Delivered' /\ Replied'
    <2>1. line = AskedFrame  BY <1>1, <1>2, <1>15 DEF Requested
    <2>2. Says(p, 1, asked.opcode, asked.uuid, asked.payload)
      BY <1>3, <1>4, <2>1, AskedFrameRead
    <2>3. told' # <<>> /\ IsAnswer(told') /\ phase' = "answer"
      BY <1>6, <1>10, <2>2 DEF Says
    <2>4. Requested'  BY <2>3 DEF Requested
    <2>5. FieldsAreAsked'  BY <1>2, <1>5, <2>2 DEF FieldsAreAsked, Says
    <2>6. queued' # <<>> => TextOf(queued, asked.payload)'
      <3>1. SUFFICES ASSUME queued' # <<>> PROVE TextOf(queued', asked'.payload)
        BY DEF TextOf
      <3>2. p.opcode = CmdCode.SEND_FLEX /\ queued' = safe_message(p.payload)
        BY <1>5, <3>1
      <3>3. PICK pl, t : pl = asked.payload /\ t = p.payload  OBVIOUS
      <3>4. IsMessage(pl)  BY <1>3, <2>2, <3>2, <3>3 DEF WellAsked, Says
      <3>5. t \in Seq(Byte) /\ Len(t) = PACKET_PAYLOAD_SIZE  BY <1>7, <3>3 DEF Packets
      <3>6. \A k \in 1 .. Len(pl) : t[k] = pl[k]  BY <2>2, <3>3 DEF Says
      <3>7. TextOf(safe_message(t), pl)  BY <3>4, <3>5, <3>6, TextKept
      <3> QED  BY <1>2, <3>2, <3>3, <3>7
    <2>7. Delivered'  BY <2>5, <2>6 DEF Delivered
    <2>8. PICK l \in LogLines : up' = l \o Encode(told')  BY <1>6, <2>3
    <2>9. Replied'  BY <2>3, <2>8 DEF Replied, IsAnswer
    <2> QED  BY <2>4, <2>7, <2>9
  <1> QED  BY <1>12, <1>13, <1>14, <1>15 DEF IInv

LEMMA AnnounceStep ==
    ASSUME IInv, Announce
    PROVE  IInv'
  <1>1. Types /\ Phases /\ Lines /\ (~damaged => Requested /\ Delivered /\ Replied)
    BY DEF IInv
  <1>2. asked' = asked /\ (WellAsked' <=> WellAsked)  BY SameAsked DEF Announce
  <1>3. PICK uuid \in Uuid, now \in Clock : uuid = handled.uuid /\ now = clock
    BY <1>1 DEF Phases, Announce, Packets, Types
  <1>4. PICK raw : raw = told'  OBVIOUS
  <1>5. IsAnswer(raw)
    <2>1. /\ \A n \in 0 .. 3 : /\ IsAnswer(build_evt_tx_queued(uuid, n, now))
                               /\ IsAnswer(build_evt_tx_done(uuid, n, now))
                               /\ IsAnswer(build_evt_tx_failed(uuid, n, now))
          /\ IsAnswer(build_evt_tx_start(uuid, now))
      BY AnswerPackets
    <2>2. 0 \in 0 .. 3 /\ 1 \in 0 .. 3 /\ 2 \in 0 .. 3  OBVIOUS
    <2>3. \/ raw = build_evt_tx_queued(uuid, 1, now)
          \/ raw = build_evt_tx_start(uuid, now)
          \/ raw = build_evt_tx_done(uuid, 0, now)
          \/ raw = build_evt_tx_failed(uuid, 2, now)
      BY <1>3, <1>4 DEF Announce
    <2> QED  BY <2>1, <2>2, <2>3, Zenon
  <1>6. PICK e \in Seq(Byte) : e = Encode(raw)
    BY <1>5, EncodeShape DEF IsAnswer, IsRaw, IsFrame
  <1>7. up' = e /\ e = <<>> \o e
    <2>1. up' = e  BY <1>4, <1>6 DEF Announce
    <2> QED  BY <2>1, ConcatEmptySeq
  <1>8. Types'  BY <1>1, <1>6, <1>7 DEF Types, Announce, clockVars
  <1>9. Phases'  BY <1>1, <1>2 DEF Phases, Announce
  <1>10. Lines'  BY <1>1 DEF Lines, Short, Announce
  <1>11. Requested'  BY DEF Requested, Announce
  <1>12. Delivered' \/ damaged'  BY <1>1 DEF Delivered, FieldsAreAsked, TextOf, Announce
  <1>13. Replied'
    <2>1. phase' = "answer"  BY DEF Announce
    <2>2. IsAnswer(told')  BY <1>4, <1>5
    <2>3. up' = <<>> \o Encode(told')  BY <1>4, <1>6, <1>7
    <2> QED  BY <2>1, <2>2, <2>3 DEF Replied, IsAnswer
  <1> QED  BY <1>8, <1>9, <1>10, <1>11, <1>12, <1>13 DEF IInv


(* What leaves the exchange alone.                                         *)
LEMMA SameExchange ==
    ASSUME IInv, UNCHANGED exchange, clock' \in Clock,
           rtc' \in [there : BOOLEAN, lost : BOOLEAN, time : Word]
    PROVE  IInv'
  <1>1. Types /\ Phases /\ Lines /\ (~damaged => Requested /\ Delivered /\ Replied)
    BY DEF IInv
  <1>2. /\ phase' = phase /\ asked' = asked /\ line' = line /\ damaged' = damaged
        /\ handled' = handled /\ queued' = queued /\ up' = up /\ told' = told /\ got' = got
    BY DEF exchange
  <1>3. (WellAsked' <=> WellAsked) /\ AskedFrame' = AskedFrame  BY <1>2, SameAsked
  <1>4. Types'  BY <1>1, <1>2 DEF Types
  <1>5. Phases'  BY <1>1, <1>2, <1>3 DEF Phases
  <1>6. Lines'
    <2>1. FirstFrame(line)' = FirstFrame(line) /\ Rest(line)' = Rest(line)
      BY <1>2 DEF FirstFrame, Rest
    <2> QED  BY <1>1, <1>2, <2>1 DEF Lines, Tidy, Short
  <1>7. ASSUME ~damaged' PROVE Requested' /\ Delivered' /\ Replied'
    <2>1. Requested /\ Delivered /\ Replied  BY <1>1, <1>2, <1>7
    <2>2. Requested'  BY <1>2, <1>3, <2>1 DEF Requested
    <2>3. Delivered'  BY <1>2, <2>1 DEF Delivered, FieldsAreAsked, TextOf
    <2>4. Replied'  BY <1>2, <2>1 DEF Replied, IsAnswer
    <2> QED  BY <2>2, <2>3, <2>4
  <1> QED  BY <1>4, <1>5, <1>6, <1>7 DEF IInv

LEMMA SetClockStep ==
    ASSUME IInv, NEW t \in Times, NEW tz \in Zones, SetClock(t, tz)
    PROVE  IInv'
  <1>1. rtc \in [there : BOOLEAN, lost : BOOLEAN, time : Word]  BY DEF IInv, Types
  <1>2. t \in Word /\ tz \in Byte  BY LinkAssumption
  <1>3. clock' \in Clock  BY <1>2 DEF SetClock, Clock
  <1>4. rtc' \in [there : BOOLEAN, lost : BOOLEAN, time : Word]
    BY <1>1, <1>2 DEF SetClock
  <1> QED  BY <1>3, <1>4, SameExchange DEF SetClock

LEMMA RestartStep ==
    ASSUME IInv, Restart
    PROVE  IInv'
  <1>1. rtc \in [there : BOOLEAN, lost : BOOLEAN, time : Word]  BY DEF IInv, Types
  <1>2. 0 \in Word /\ 0 \in Byte  BY WordIs DEF Byte
  <1>3. rtc.time \in Word  BY <1>1
  <1>4. clock' \in Clock  BY <1>2, <1>3 DEF Restart, Clock
  <1>5. rtc' = rtc  BY DEF Restart
  <1> QED  BY <1>1, <1>4, <1>5, SameExchange DEF Restart

LEMMA Stuttered ==
    ASSUME IInv, UNCHANGED vars
    PROVE  IInv'
  BY SameExchange DEF IInv, Types, vars, clockVars

(* The library's commands are well-formed.                                 *)
LEMMA LibraryStep ==
    ASSUME IInv, flex_send_msg \/ flex_ping \/ flex_get_status
    PROVE  IInv'
  <1>1. \A u \in Uuids : u \in Uuid  BY LinkAssumption DEF Uuid
  <1>2. \A t \in Times, tz \in Zones : t \in Word /\ tz \in Byte  BY LinkAssumption
  <1>3. 1 \in Byte /\ 2 \in Byte /\ 6 \in Byte  BY DEF Byte
  <1>4. CASE flex_send_msg
    <2>1. PICK u \in Uuids, c \in Capcodes, m \in {0, 1}, text \in Texts,
               t \in Times, tz \in Zones :
              Ask(CmdCode.SEND_FLEX, u, SendFlexPayload(c, m, text), t, tz)
      BY <1>4 DEF flex_send_msg
    <2>2. c \in Byte /\ text \in Seq(1 .. 255)  BY LinkAssumption
    <2>3. PICK pl : pl = SendFlexPayload(c, m, text)  OBVIOUS
    <2>4. IsMessage(pl)  BY <2>2, <2>3, Message
    <2>5. pl \in Seq(Byte) /\ Len(pl) < PACKET_PAYLOAD_SIZE
      BY <2>4, MessageSize DEF IsMessage
    <2>6. Ask(1, u, pl, t, tz)  BY <2>1, <2>3 DEF CmdCode
    <2>7. u \in Uuid /\ t \in Word /\ tz \in Byte  BY <1>1, <1>2
    <2> QED  BY <1>3, <2>4, <2>5, <2>6, <2>7, AskStep
  <1>5. CASE flex_ping \/ flex_get_status
    <2>1. PICK o \in {2, 6}, u \in Uuids, t \in Times, tz \in Zones : Ask(o, u, <<>>, t, tz)
      BY <1>5 DEF flex_ping, flex_get_status, CmdCode
    <2>2. PICK pl \in Seq(Byte) : pl = <<>> /\ Len(pl) < PACKET_PAYLOAD_SIZE
      <3>1. PICK w \in Nat \ {0}, p \in Nat : p = PACKET_PAYLOAD_SIZE /\ 7 <= p  BY Sizes
      <3>2. <<>> \in Seq(Byte) /\ Len(<<>>) = 0  OBVIOUS
      <3>3. 0 < p  BY <3>1
      <3> QED  BY <3>1, <3>2, <3>3
    <2>3. u \in Uuid /\ t \in Word /\ tz \in Byte /\ o \in Byte  BY <1>1, <1>2, <1>3
    <2>4. o # CmdCode.SEND_FLEX  BY DEF CmdCode
    <2>5. Ask(o, u, pl, t, tz)  BY <2>1, <2>2
    <2> QED  BY <2>2, <2>3, <2>4, <2>5, AskStep
  <1> QED  BY <1>4, <1>5

(* The inductive invariant of the exchanges.                               *)
LEMMA Inductive == Spec => []IInv
  <1>1. Init => IInv  BY Started
  <1>2. IInv /\ [Next]_vars => IInv'
    <2> SUFFICES ASSUME IInv, [Next]_vars PROVE IInv'  OBVIOUS
    <2>1. CASE flex_send_msg \/ flex_ping \/ flex_get_status  BY <2>1, LibraryStep
    <2>2. CASE ReadAnswer  BY <2>2, ReadAnswerStep
    <2>3. CASE Finish  BY <2>3, FinishStep
    <2>4. CASE DamageRequest  BY <2>4, DamageRequestStep
    <2>5. CASE DamageAnswer  BY <2>5, DamageAnswerStep
    <2>6. CASE ReceiveText  BY <2>6, ReceiveTextStep
    <2>7. CASE RejectFrame  BY <2>7, RejectFrameStep
    <2>8. CASE \E room \in BOOLEAN : HandlePacket(room)  BY <2>8, HandlePacketStep
    <2>9. CASE Announce  BY <2>9, AnnounceStep
    <2>10. CASE \E t \in Times, tz \in Zones : SetClock(t, tz)  BY <2>10, SetClockStep
    <2>11. CASE Restart  BY <2>11, RestartStep
    <2>12. CASE UNCHANGED vars  BY <2>12, Stuttered
    <2> QED
      BY <2>1, <2>2, <2>3, <2>4, <2>5, <2>6, <2>7, <2>8, <2>9, <2>10, <2>11, <2>12
      DEF Next
  <1> QED  BY <1>1, <1>2, PTL DEF Spec

-----------------------------------------------------------------------------
(* What follows from it.                                                   *)

(* The types; and an undamaged request is a frame that fits the buffers of *)
(* both sides, whatever the packet holds (cobs_encode, PACKET_FIXED_SIZE   *)
(* + 10 bytes).                                                            *)
THEOREM TypeCorrect == Spec => []TypeOK
  <1>1. IInv => TypeOK
    <2> SUFFICES ASSUME IInv PROVE TypeOK  OBVIOUS
    <2>1. Types /\ Phases /\ Lines /\ (~damaged => Requested)  BY DEF IInv
    <2>2. ASSUME line # <<>>, ~damaged PROVE IsFrame(line) /\ Len(line) <= LineMax
      <3>1. CASE phase = "request"
        <4>1. line = AskedFrame /\ WellAsked  BY <2>1, <2>2, <3>1 DEF Requested, Phases
        <4> QED  BY <4>1, AskedFacts
      <3>2. CASE phase # "request"  BY <2>1, <2>2, <3>2 DEF Lines, Short
      <3> QED  BY <3>1, <3>2
    <2> QED  BY <2>1, <2>2 DEF TypeOK, Types, Clock, IsFrame, LineMax
  <1> QED  BY <1>1, Inductive, PTL

(* A command that the line has not damaged is handled field by field as    *)
(* the program gave it, its text queued as it is or cut for the pager,     *)
(* unless the first byte of the frame is taken for text                    *)
(* (handle_binary_packet, handle_cmd_send_flex).                           *)
THEOREM UndamagedHandled == Spec => []UndamagedIsHandled
  <1>1. IInv => UndamagedIsHandled
    <2> SUFFICES ASSUME IInv, ~damaged PROVE UndamagedIsHandled  BY DEF UndamagedIsHandled
    <2>1. Types /\ Phases /\ Requested /\ Delivered  BY DEF IInv
    <2>2. phase = "request" /\ line = <<>> => AskedFrame[1] \in Ascii
      <3> SUFFICES ASSUME phase = "request", line = <<>> PROVE AskedFrame[1] \in Ascii
        OBVIOUS
      <3>1. IsFrame(AskedFrame)  BY <2>1, AskedFacts DEF Phases
      <3> QED  BY <2>1, <3>1 DEF Requested, IsFrame
    <2>3. phase \in {"answer", "done"} => handled.taken  BY <2>1 DEF Phases, Packets
    <2>4. handled.taken => FieldsAreAsked
      BY <2>1, NothingIsNoPacket DEF Types, Delivered
    <2>5. queued # <<>> => TextIsAsked  BY <2>1 DEF Delivered, TextOf, TextIsAsked
    <2> QED  BY <2>2, <2>3, <2>4, <2>5 DEF UndamagedIsHandled, AskedFrame
  <1> QED  BY <1>1, Inductive, PTL

(* What the device answers, or announces later, is what the library reads, *)
(* field by field where the device has it and whatever was printed in      *)
(* front of it, but for the timestamp (_flex_recv_packet).                 *)
THEOREM AnswersRead == Spec => []AnswerIsRead
  <1>1. IInv => AnswerIsRead
    <2> SUFFICES ASSUME IInv, phase = "done", ~damaged
                 PROVE  got.taken /\ \A f \in Untimed : got[f] = Said[f]
      BY DEF AnswerIsRead
    <2>1. got = Fields(told, FLEX_TS_OFFSET)  BY DEF IInv, Replied
    <2> QED  BY <2>1 DEF Said, Untimed, Fields
  <1> QED  BY <1>1, Inductive, PTL

(* The offset is all that keeps the library from the timestamp too: with   *)
(* one offset at both ends it reads every field as the device wrote it.    *)
THEOREM AnswerTimesRead ==
    ASSUME FLEX_TS_OFFSET = ts_offset
    PROVE  Spec => []AnswerTimeRead
  <1>1. IInv => AnswerTimeRead
    <2> SUFFICES ASSUME IInv, phase = "done", ~damaged PROVE got = Said
      BY DEF AnswerTimeRead
    <2>1. got = Fields(told, FLEX_TS_OFFSET)  BY DEF IInv, Replied
    <2> QED  BY <2>1 DEF Said
  <1> QED  BY <1>1, Inductive, PTL

(* With the offset the libraries have, the clock is never set from their   *)
(* timestamp: the firmware looks for its flags one byte further, where the *)
(* packet is filled with zeros, so no undamaged command changes the clock  *)
(* of the device or the clock chip (handle_binary_packet; FLEX_TS_OFFSET). *)
THEOREM HostTimeIgnored ==
    ASSUME FLEX_TS_OFFSET # ts_offset
    PROVE  Spec => [][~damaged /\ (\E room \in BOOLEAN : HandlePacket(room))
                         => UNCHANGED clockVars]_vars
  <1>1. IInv /\ [Next]_vars =>
            [~damaged /\ (\E room \in BOOLEAN : HandlePacket(room))
                => UNCHANGED clockVars]_vars
    <2> SUFFICES ASSUME IInv, ~damaged, NEW room \in BOOLEAN, HandlePacket(room)
                 PROVE  UNCHANGED clockVars
      OBVIOUS
    <2>1. line = AskedFrame /\ WellAsked
      BY DEF HandlePacket, ReceivesFrame, IInv, Requested, Phases
    <2>2. PICK p : p = DeviceReads(FirstFrame(line))  OBVIOUS
    <2>3. p.ts_flags = 0  BY <2>1, <2>2, AskedFrameRead
    <2>4. Adopt(p)  BY <2>2 DEF HandlePacket
    <2>5. ~Odd(0)
      <3>1. 0 % 2 = 0  OBVIOUS
      <3> QED  BY <3>1 DEF Odd
    <2> QED  BY <2>3, <2>4, <2>5 DEF Adopt
  <1> QED  BY <1>1, Inductive, PTL DEF Spec

-----------------------------------------------------------------------------
(* What the checksum detects.  The bits of hexadecimal digits.             *)

Bit == {0, 1}
Parity(a, b) == IF a = b THEN 0 ELSE 1

Nibble == [0 .. 3 -> Bit]
Digit(x) == x[0] + 2 * x[1] + 4 * x[2] + 8 * x[3]
Differing(x, y) == [k \in 0 .. 3 |-> Parity(x[k], y[k])]

LEMMA NibbleBits ==
    \A x \in Nibble : x[0] \in Bit /\ x[1] \in Bit /\ x[2] \in Bit /\ x[3] \in Bit
  BY DEF Nibble

LEMMA DigitBits ==
    ASSUME NEW a \in 0 .. 15
    PROVE  \E x \in Nibble : a = Digit(x)
  <1>1. PICK h \in 0 .. 7, b0 \in Bit : a = 2 * h + b0  BY DEF Bit
  <1>2. PICK q \in 0 .. 3, b1 \in Bit : h = 2 * q + b1  BY DEF Bit
  <1>3. PICK b3 \in Bit, b2 \in Bit : q = 2 * b3 + b2  BY DEF Bit
  <1>4. PICK x \in Nibble : x[0] = b0 /\ x[1] = b1 /\ x[2] = b2 /\ x[3] = b3
    <2> DEFINE x == [k \in 0 .. 3 |-> IF k = 0 THEN b0 ELSE IF k = 1 THEN b1
                                      ELSE IF k = 2 THEN b2 ELSE b3]
    <2>1. x \in Nibble  BY DEF Nibble
    <2>2. x[0] = b0 /\ x[1] = b1 /\ x[2] = b2 /\ x[3] = b3  OBVIOUS
    <2> QED  BY <2>1, <2>2
  <1>5. a = b0 + 2 * b1 + 4 * b2 + 8 * b3  BY <1>1, <1>2, <1>3 DEF Bit
  <1>6. a = Digit(x)  BY <1>4, <1>5 DEF Digit
  <1> QED  BY <1>6

LEMMA DigitParity ==
    ASSUME NEW x \in Nibble, NEW y \in Nibble
    PROVE  /\ Digit(x) \in 0 .. 15
           /\ Differing(x, y) \in Nibble
           /\ digit_xor[Digit(x)][Digit(y)] = Digit(Differing(x, y))
  <1>1. PICK a0 \in Bit, a1 \in Bit, a2 \in Bit, a3 \in Bit :
            a0 = x[0] /\ a1 = x[1] /\ a2 = x[2] /\ a3 = x[3]
    BY NibbleBits
  <1>2. PICK b0 \in Bit, b1 \in Bit, b2 \in Bit, b3 \in Bit :
            b0 = y[0] /\ b1 = y[1] /\ b2 = y[2] /\ b3 = y[3]
    BY NibbleBits
  <1>3. PICK a \in 0 .. 15 : a = a0 + 2 * a1 + 4 * a2 + 8 * a3  BY DEF Bit
  <1>4. PICK b \in 0 .. 15 : b = b0 + 2 * b1 + 4 * b2 + 8 * b3  BY DEF Bit
  <1>5. a \div 2 = a1 + 2 * a2 + 4 * a3 /\ a \div 4 = a2 + 2 * a3 /\ a \div 8 = a3
    BY <1>3 DEF Bit
  <1>6. b \div 2 = b1 + 2 * b2 + 4 * b3 /\ b \div 4 = b2 + 2 * b3 /\ b \div 8 = b3
    BY <1>4 DEF Bit
  <1>7. ((a \div 1) + (b \div 1)) % 2 = Parity(a0, b0)
    <2>1. a \div 1 = a /\ b \div 1 = b  OBVIOUS
    <2>2. (a + b) % 2 = Parity(a0, b0)  BY <1>3, <1>4 DEF Bit, Parity
    <2> QED  BY <2>1, <2>2
  <1>8. ((a \div 2) + (b \div 2)) % 2 = Parity(a1, b1)  BY <1>5, <1>6 DEF Bit, Parity
  <1>9. ((a \div 4) + (b \div 4)) % 2 = Parity(a2, b2)  BY <1>5, <1>6 DEF Bit, Parity
  <1>10. ((a \div 8) + (b \div 8)) % 2 = Parity(a3, b3)  BY <1>5, <1>6 DEF Bit, Parity
  <1>11. digit_xor[a][b] = (((a \div 1) + (b \div 1)) % 2) + 2 * (((a \div 2) + (b \div 2)) % 2)
                          + 4 * (((a \div 4) + (b \div 4)) % 2)
                          + 8 * (((a \div 8) + (b \div 8)) % 2)
    BY DEF digit_xor
  <1>12. PICK z : z = Differing(x, y)  OBVIOUS
  <1>13. z[0] = Parity(a0, b0) /\ z[1] = Parity(a1, b1) /\ z[2] = Parity(a2, b2)
         /\ z[3] = Parity(a3, b3)
    BY <1>1, <1>2, <1>12 DEF Differing
  <1>14. digit_xor[a][b] = Digit(z)  BY <1>7, <1>8, <1>9, <1>10, <1>11, <1>13 DEF Digit
  <1>15. Differing(x, y) \in Nibble  BY DEF Differing, Nibble, Parity, Bit
  <1>16. a = Digit(x) /\ b = Digit(y)  BY <1>1, <1>2, <1>3, <1>4 DEF Digit
  <1> QED  BY <1>12, <1>14, <1>15, <1>16

LEMMA DigitSame ==
    ASSUME NEW x \in Nibble, NEW y \in Nibble, Digit(x) = Digit(y)
    PROVE  x = y
  <1>1. PICK a0 \in Bit, a1 \in Bit, a2 \in Bit, a3 \in Bit :
            a0 = x[0] /\ a1 = x[1] /\ a2 = x[2] /\ a3 = x[3]
    BY NibbleBits
  <1>2. PICK b0 \in Bit, b1 \in Bit, b2 \in Bit, b3 \in Bit :
            b0 = y[0] /\ b1 = y[1] /\ b2 = y[2] /\ b3 = y[3]
    BY NibbleBits
  <1>3. a0 + 2 * a1 + 4 * a2 + 8 * a3 = b0 + 2 * b1 + 4 * b2 + 8 * b3
    BY <1>1, <1>2 DEF Digit
  <1>4. a0 = b0 /\ a1 = b1 /\ a2 = b2 /\ a3 = b3  BY <1>3 DEF Bit
  <1>5. ASSUME NEW k \in 0 .. 3 PROVE x[k] = y[k]
    <2>1. k = 0 \/ k = 1 \/ k = 2 \/ k = 3  OBVIOUS
    <2>2. x[0] = y[0] /\ x[1] = y[1] /\ x[2] = y[2] /\ x[3] = y[3]  BY <1>1, <1>2, <1>4
    <2> QED  BY <2>1, <2>2
  <1> QED  BY <1>5 DEF Nibble

(* Exclusive or of digits can be undone.                                   *)
Undone(a, b, c) ==
    /\ a \in 0 .. 15 /\ b \in 0 .. 15 /\ c \in 0 .. 15
    /\ digit_xor[a][b] = digit_xor[a][c] \/ digit_xor[b][a] = digit_xor[c][a]

LEMMA DigitUndone ==
    ASSUME NEW a, NEW b, NEW c, Undone(a, b, c)
    PROVE  b = c
  <1>1. a \in 0 .. 15 /\ b \in 0 .. 15 /\ c \in 0 .. 15  BY DEF Undone
  <1>2. PICK x \in Nibble, y \in Nibble, z \in Nibble :
            a = Digit(x) /\ b = Digit(y) /\ c = Digit(z)
    BY <1>1, DigitBits
  <1>3. \A p, q, r \in Bit : /\ Parity(p, q) = Parity(p, r) => q = r
                             /\ Parity(q, p) = Parity(r, p) => q = r
    BY DEF Bit, Parity
  <1>4. \A k \in 0 .. 3 : x[k] \in Bit /\ y[k] \in Bit /\ z[k] \in Bit  BY DEF Nibble
  <1>5. CASE digit_xor[a][b] = digit_xor[a][c]
    <2>1. Differing(x, y) = Differing(x, z)  BY <1>2, <1>5, DigitParity, DigitSame
    <2>2. \A k \in 0 .. 3 : Parity(x[k], y[k]) = Parity(x[k], z[k])  BY <2>1 DEF Differing
    <2>3. \A k \in 0 .. 3 : y[k] = z[k]  BY <1>3, <1>4, <2>2
    <2>4. y = z  BY <2>3 DEF Nibble
    <2> QED  BY <1>2, <2>4
  <1>6. CASE digit_xor[b][a] = digit_xor[c][a]
    <2>1. Differing(y, x) = Differing(z, x)  BY <1>2, <1>6, DigitParity, DigitSame
    <2>2. \A k \in 0 .. 3 : Parity(y[k], x[k]) = Parity(z[k], x[k])  BY <2>1 DEF Differing
    <2>3. \A k \in 0 .. 3 : y[k] = z[k]  BY <1>3, <1>4, <2>2
    <2>4. y = z  BY <2>3 DEF Nibble
    <2> QED  BY <1>2, <2>4
  <1> QED  BY <1>5, <1>6 DEF Undone

LEMMA DigitZero ==
    ASSUME NEW a \in 0 .. 15
    PROVE  digit_xor[0][a] = a /\ digit_xor[a][0] = a
  <1>1. PICK x \in Nibble : a = Digit(x)  BY DigitBits
  <1> DEFINE o == [k \in 0 .. 3 |-> 0]
  <1>2. o \in Nibble /\ Digit(o) = 0  BY DEF Nibble, Bit, Digit
  <1>3. \A k \in 0 .. 3 : Parity(o[k], x[k]) = x[k] /\ Parity(x[k], o[k]) = x[k]
    <2>1. \A p \in Bit : Parity(0, p) = p /\ Parity(p, 0) = p  BY DEF Bit, Parity
    <2>2. \A k \in 0 .. 3 : x[k] \in Bit /\ o[k] = 0  BY DEF Nibble
    <2> HIDE DEF o
    <2> QED  BY <2>1, <2>2
  <1> HIDE DEF o
  <1>4. Differing(o, x) = x /\ Differing(x, o) = x
    <2>1. x = [k \in 0 .. 3 |-> x[k]]  BY DEF Nibble
    <2> QED  BY <1>3, <2>1 DEF Differing
  <1> QED  BY <1>1, <1>2, <1>4, DigitParity

(* And of words, digit by digit.                                           *)
Digits(w, d1, d2, d3, d4) ==
    /\ d1 \in 0 .. 15 /\ d2 \in 0 .. 15 /\ d3 \in 0 .. 15 /\ d4 \in 0 .. 15
    /\ w = d1 + 16 * d2 + 256 * d3 + 4096 * d4

LEMMA DigitsOf ==
    ASSUME NEW w \in Word
    PROVE  \E d1, d2, d3, d4 \in 0 .. 15 : Digits(w, d1, d2, d3, d4)
  <1>1. PICK n \in Nat : n = w /\ n < 65536  BY WordIs
  <1>2. PICK x \in 0 .. 4095, d1 \in 0 .. 15 : n = 16 * x + d1
    <2>1. PICK q \in Nat : q = n \div 16  OBVIOUS
    <2>2. PICK r \in 0 .. 15 : r = n % 16  OBVIOUS
    <2>3. n = 16 * q + r  BY <2>1, <2>2
    <2>4. q < 4096  BY <1>1, <2>2, <2>3
    <2>5. q \in 0 .. 4095  BY <2>4
    <2> QED  BY <2>3, <2>5
  <1>3. PICK y \in 0 .. 255, d2 \in 0 .. 15 : x = 16 * y + d2
    <2>1. PICK q \in Nat : q = x \div 16  OBVIOUS
    <2>2. PICK r \in 0 .. 15 : r = x % 16  OBVIOUS
    <2>3. x = 16 * q + r  BY <2>1, <2>2
    <2>4. q < 256  BY <2>2, <2>3
    <2>5. q \in 0 .. 255  BY <2>4
    <2> QED  BY <2>3, <2>5
  <1>4. PICK d4 \in 0 .. 15, d3 \in 0 .. 15 : y = 16 * d4 + d3
    <2>1. PICK q \in Nat : q = y \div 16  OBVIOUS
    <2>2. PICK r \in 0 .. 15 : r = y % 16  OBVIOUS
    <2>3. y = 16 * q + r  BY <2>1, <2>2
    <2>4. q < 16  BY <2>2, <2>3
    <2>5. q \in 0 .. 15  BY <2>4
    <2> QED  BY <2>3, <2>5
  <1>5. Digits(w, d1, d2, d3, d4)  BY <1>1, <1>2, <1>3, <1>4 DEF Digits
  <1> QED  BY <1>5

LEMMA DigitsRead ==
    ASSUME NEW w, NEW d1, NEW d2, NEW d3, NEW d4, Digits(w, d1, d2, d3, d4)
    PROVE  /\ w \in Word
           /\ (w \div 1) % 16 = d1 /\ (w \div 16) % 16 = d2
           /\ (w \div 256) % 16 = d3 /\ (w \div 4096) % 16 = d4
           /\ w % 256 = d1 + 16 * d2 /\ w \div 256 = d3 + 16 * d4
  <1> d1 \in 0 .. 15 /\ d2 \in 0 .. 15 /\ d3 \in 0 .. 15 /\ d4 \in 0 .. 15  BY DEF Digits
  <1>1. PICK low \in 0 .. 255 : low = d1 + 16 * d2  OBVIOUS
  <1>2. PICK high \in 0 .. 255 : high = d3 + 16 * d4  OBVIOUS
  <1>3. PICK n \in Nat : n = low + 256 * high /\ n < 65536  OBVIOUS
  <1>4. n = d1 + 16 * d2 + 256 * d3 + 4096 * d4  BY <1>1, <1>2, <1>3
  <1>5. w = n  BY <1>4 DEF Digits
  <1>6. n % 256 = low /\ n \div 256 = high  BY <1>3
  <1>7. n \div 1 = n /\ n % 16 = d1
    <2>1. PICK m \in Nat : m = d2 + 16 * d3 + 256 * d4  OBVIOUS
    <2>2. n = d1 + 16 * m  BY <1>4, <2>1
    <2>3. n \div 1 = n  OBVIOUS
    <2> QED  BY <2>2, <2>3
  <1>8. (n \div 16) % 16 = d2
    <2>1. PICK m \in Nat : m = d3 + 16 * d4  OBVIOUS
    <2>2. PICK k \in Nat : k = d2 + 16 * m  OBVIOUS
    <2>3. n = d1 + 16 * k  BY <1>4, <2>1, <2>2
    <2>4. n \div 16 = k  BY <2>3
    <2>5. k % 16 = d2  BY <2>2
    <2> QED  BY <2>4, <2>5
  <1>9. high % 16 = d3 /\ high \div 16 = d4  BY <1>2
  <1>10. n \div 4096 = d4 /\ d4 % 16 = d4
    <2>1. PICK m \in Nat : m = low + 256 * d3 /\ m < 4096  OBVIOUS
    <2>2. n = m + 4096 * d4  BY <1>1, <1>4, <2>1
    <2> QED  BY <2>1, <2>2
  <1>11. w \in Word  BY <1>3, <1>5, WordIs
  <1> QED  BY <1>1, <1>2, <1>5, <1>6, <1>7, <1>8, <1>9, <1>10, <1>11

LEMMA XorDigits ==
    ASSUME NEW v, NEW w, NEW v1, NEW v2, NEW v3, NEW v4, NEW w1, NEW w2, NEW w3, NEW w4,
           Digits(v, v1, v2, v3, v4), Digits(w, w1, w2, w3, w4)
    PROVE  Digits(Xor(v, w), digit_xor[v1][w1], digit_xor[v2][w2],
                             digit_xor[v3][w3], digit_xor[v4][w4])
  <1>1. /\ (v \div 1) % 16 = v1 /\ (v \div 16) % 16 = v2
        /\ (v \div 256) % 16 = v3 /\ (v \div 4096) % 16 = v4
    BY DigitsRead
  <1>2. /\ (w \div 1) % 16 = w1 /\ (w \div 16) % 16 = w2
        /\ (w \div 256) % 16 = w3 /\ (w \div 4096) % 16 = w4
    BY DigitsRead
  <1>3. Xor(v, w) = digit_xor[v1][w1] + 16 * digit_xor[v2][w2]
                    + 256 * digit_xor[v3][w3] + 4096 * digit_xor[v4][w4]
    BY <1>1, <1>2 DEF Xor
  <1>4. \A a, b \in 0 .. 15 : digit_xor[a][b] \in 0 .. 15  BY DigitXor
  <1> QED  BY <1>3, <1>4 DEF Digits

LEMMA XorKnown ==
    ASSUME NEW u \in Word, NEW v \in Word, NEW w \in Word
    PROVE  /\ Xor(u, v) = Xor(u, w) => v = w
           /\ Xor(v, u) = Xor(w, u) => v = w
  <1>1. PICK u1, u2, u3, u4 : Digits(u, u1, u2, u3, u4)  BY DigitsOf
  <1>2. PICK v1, v2, v3, v4 : Digits(v, v1, v2, v3, v4)  BY DigitsOf
  <1>3. PICK w1, w2, w3, w4 : Digits(w, w1, w2, w3, w4)  BY DigitsOf
  <1>4. /\ u1 \in 0 .. 15 /\ u2 \in 0 .. 15 /\ u3 \in 0 .. 15 /\ u4 \in 0 .. 15
        /\ v1 \in 0 .. 15 /\ v2 \in 0 .. 15 /\ v3 \in 0 .. 15 /\ v4 \in 0 .. 15
        /\ w1 \in 0 .. 15 /\ w2 \in 0 .. 15 /\ w3 \in 0 .. 15 /\ w4 \in 0 .. 15
    BY <1>1, <1>2, <1>3 DEF Digits
  <1>5. v1 = w1 /\ v2 = w2 /\ v3 = w3 /\ v4 = w4 => v = w  BY <1>2, <1>3 DEF Digits
  <1>6. ASSUME Xor(u, v) = Xor(u, w) PROVE v = w
    <2>1. PICK x : x = Xor(u, v) /\ x = Xor(u, w)  BY <1>6
    <2>2. Digits(x, digit_xor[u1][v1], digit_xor[u2][v2], digit_xor[u3][v3], digit_xor[u4][v4])
      BY <1>1, <1>2, <2>1, XorDigits
    <2>3. Digits(x, digit_xor[u1][w1], digit_xor[u2][w2], digit_xor[u3][w3], digit_xor[u4][w4])
      BY <1>1, <1>3, <2>1, XorDigits
    <2>4. /\ digit_xor[u1][v1] = digit_xor[u1][w1] /\ digit_xor[u2][v2] = digit_xor[u2][w2]
          /\ digit_xor[u3][v3] = digit_xor[u3][w3] /\ digit_xor[u4][v4] = digit_xor[u4][w4]
      BY <2>2, <2>3, DigitsRead
    <2>5. Undone(u1, v1, w1) /\ Undone(u2, v2, w2) /\ Undone(u3, v3, w3) /\ Undone(u4, v4, w4)
      BY <1>4, <2>4 DEF Undone
    <2> QED  BY <1>5, <2>5, DigitUndone
  <1>7. ASSUME Xor(v, u) = Xor(w, u) PROVE v = w
    <2>1. PICK x : x = Xor(v, u) /\ x = Xor(w, u)  BY <1>7
    <2>2. Digits(x, digit_xor[v1][u1], digit_xor[v2][u2], digit_xor[v3][u3], digit_xor[v4][u4])
      BY <1>1, <1>2, <2>1, XorDigits
    <2>3. Digits(x, digit_xor[w1][u1], digit_xor[w2][u2], digit_xor[w3][u3], digit_xor[w4][u4])
      BY <1>1, <1>3, <2>1, XorDigits
    <2>4. /\ digit_xor[v1][u1] = digit_xor[w1][u1] /\ digit_xor[v2][u2] = digit_xor[w2][u2]
          /\ digit_xor[v3][u3] = digit_xor[w3][u3] /\ digit_xor[v4][u4] = digit_xor[w4][u4]
      BY <2>2, <2>3, DigitsRead
    <2>5. Undone(u1, v1, w1) /\ Undone(u2, v2, w2) /\ Undone(u3, v3, w3) /\ Undone(u4, v4, w4)
      BY <1>4, <2>4 DEF Undone
    <2> QED  BY <1>5, <2>5, DigitUndone
  <1> QED  BY <1>6, <1>7

LEMMA XorLow ==
    ASSUME NEW v \in Word, v % 256 = 0, NEW w \in Word
    PROVE  Xor(v, w) % 256 = w % 256
  <1>1. PICK v1, v2, v3, v4 : Digits(v, v1, v2, v3, v4)  BY DigitsOf
  <1>2. PICK w1, w2, w3, w4 : Digits(w, w1, w2, w3, w4)  BY DigitsOf
  <1>3. v1 \in 0 .. 15 /\ v2 \in 0 .. 15 /\ w1 \in 0 .. 15 /\ w2 \in 0 .. 15
    BY <1>1, <1>2 DEF Digits
  <1>4. v1 + 16 * v2 = 0  BY <1>1, DigitsRead
  <1>5. v1 = 0 /\ v2 = 0  BY <1>3, <1>4
  <1>6. digit_xor[v1][w1] = w1 /\ digit_xor[v2][w2] = w2  BY <1>3, <1>5, DigitZero
  <1>7. Digits(Xor(v, w), w1, w2, digit_xor[v3][w3], digit_xor[v4][w4])
    BY <1>1, <1>2, <1>6, XorDigits
  <1>8. Xor(v, w) % 256 = w1 + 16 * w2 /\ w % 256 = w1 + 16 * w2
    BY <1>2, <1>7, DigitsRead
  <1> QED  BY <1>8

(* The bits of a word, and what shifting it does to them.                  *)
Bits == [0 .. 15 -> Bit]
Quad(b, k) == b[k] + 2 * b[k + 1] + 4 * b[k + 2] + 8 * b[k + 3]
HasBits(w, b) == Digits(w, Quad(b, 0), Quad(b, 4), Quad(b, 8), Quad(b, 12))

ShiftedBit(b, k) ==
    IF k = 0 THEN b[15]
    ELSE IF k = 5 \/ k = 12 THEN Parity(b[k - 1], b[15])
    ELSE b[k - 1]
ShiftedBits(b) == [k \in 0 .. 15 |-> ShiftedBit(b, k)]

HasDigit(d, b0, b1, b2, b3) ==
    /\ b0 \in Bit /\ b1 \in Bit /\ b2 \in Bit /\ b3 \in Bit
    /\ d = b0 + 2 * b1 + 4 * b2 + 8 * b3

LEMMA Flipped ==
    ASSUME NEW d, NEW b0, NEW b1, NEW b2, NEW b3, HasDigit(d, b0, b1, b2, b3)
    PROVE  /\ d \in 0 .. 15
           /\ digit_xor[d][1] = Parity(b0, 1) + 2 * b1 + 4 * b2 + 8 * b3
           /\ digit_xor[d][2] = b0 + 2 * Parity(b1, 1) + 4 * b2 + 8 * b3
           /\ digit_xor[d][0] = d
  <1> b0 \in Bit /\ b1 \in Bit /\ b2 \in Bit /\ b3 \in Bit  BY DEF HasDigit
  <1>1. PICK e \in 0 .. 15 : e = d /\ e = b0 + 2 * b1 + 4 * b2 + 8 * b3  BY DEF HasDigit, Bit
  <1>2. /\ e \div 1 = e /\ e \div 2 = b1 + 2 * b2 + 4 * b3
        /\ e \div 4 = b2 + 2 * b3 /\ e \div 8 = b3
    BY <1>1 DEF Bit
  <1>3. digit_xor[e][0] = e  BY DigitZero
  <1>4. digit_xor[e][1] = Parity(b0, 1) + 2 * b1 + 4 * b2 + 8 * b3
    <2>1. digit_xor[e][1] = (((e \div 1) + (1 \div 1)) % 2) + 2 * (((e \div 2) + (1 \div 2)) % 2)
                            + 4 * (((e \div 4) + (1 \div 4)) % 2)
                            + 8 * (((e \div 8) + (1 \div 8)) % 2)
      BY DEF digit_xor
    <2>2. 1 \div 1 = 1 /\ 1 \div 2 = 0 /\ 1 \div 4 = 0 /\ 1 \div 8 = 0  OBVIOUS
    <2>3. (e + 1) % 2 = Parity(b0, 1)  BY <1>1 DEF Bit, Parity
    <2>4. (b1 + 2 * b2 + 4 * b3 + 0) % 2 = b1 /\ (b2 + 2 * b3 + 0) % 2 = b2 /\ (b3 + 0) % 2 = b3
      BY DEF Bit
    <2> QED  BY <1>2, <2>1, <2>2, <2>3, <2>4
  <1>5. digit_xor[e][2] = b0 + 2 * Parity(b1, 1) + 4 * b2 + 8 * b3
    <2>1. digit_xor[e][2] = (((e \div 1) + (2 \div 1)) % 2) + 2 * (((e \div 2) + (2 \div 2)) % 2)
                            + 4 * (((e \div 4) + (2 \div 4)) % 2)
                            + 8 * (((e \div 8) + (2 \div 8)) % 2)
      BY DEF digit_xor
    <2>2. 2 \div 1 = 2 /\ 2 \div 2 = 1 /\ 2 \div 4 = 0 /\ 2 \div 8 = 0  OBVIOUS
    <2>3. (e + 2) % 2 = b0  BY <1>1 DEF Bit
    <2>4. (b1 + 2 * b2 + 4 * b3 + 1) % 2 = Parity(b1, 1)  BY DEF Bit, Parity
    <2>5. (b2 + 2 * b3 + 0) % 2 = b2 /\ (b3 + 0) % 2 = b3  BY DEF Bit
    <2> QED  BY <1>2, <2>1, <2>2, <2>3, <2>4, <2>5
  <1> QED  BY <1>1, <1>3, <1>4, <1>5

LEMMA BitsOf ==
    ASSUME NEW b \in Bits
    PROVE  \A k \in 0 .. 15 : b[k] \in Bit
  BY DEF Bits

LEMMA QuadType ==
    ASSUME NEW b \in Bits
    PROVE  /\ Quad(b, 0) \in 0 .. 15 /\ Quad(b, 4) \in 0 .. 15
           /\ Quad(b, 8) \in 0 .. 15 /\ Quad(b, 12) \in 0 .. 15
  <1>1. \A p, q, r, s \in Bit : p + 2 * q + 4 * r + 8 * s \in 0 .. 15  BY DEF Bit
  <1>2. \A k \in {0, 4, 8, 12} : Quad(b, k) \in 0 .. 15
    <2> TAKE k \in {0, 4, 8, 12}
    <2>1. k \in 0 .. 15 /\ k + 1 \in 0 .. 15 /\ k + 2 \in 0 .. 15 /\ k + 3 \in 0 .. 15
      OBVIOUS
    <2>2. PICK p \in Bit, q \in Bit, r \in Bit, s \in Bit :
              p = b[k] /\ q = b[k + 1] /\ r = b[k + 2] /\ s = b[k + 3]
      BY <2>1, BitsOf
    <2> QED  BY <1>1, <2>2 DEF Quad
  <1> QED  BY <1>2

Moved(b, c) ==
    /\ c[0] = b[15] /\ c[1] = b[0] /\ c[2] = b[1] /\ c[3] = b[2] /\ c[4] = b[3]
    /\ c[5] = Parity(b[4], b[15]) /\ c[6] = b[5] /\ c[7] = b[6]
    /\ c[8] = b[7] /\ c[9] = b[8] /\ c[10] = b[9] /\ c[11] = b[10]
    /\ c[12] = Parity(b[11], b[15]) /\ c[13] = b[12] /\ c[14] = b[13] /\ c[15] = b[14]

LEMMA ShiftedFacts ==
    ASSUME NEW b \in Bits
    PROVE  ShiftedBits(b) \in Bits /\ Moved(b, ShiftedBits(b))
  <1>1. PICK c : c = ShiftedBits(b)  OBVIOUS
  <1>2. \A k \in 0 .. 15 : c[k] = ShiftedBit(b, k)  BY <1>1 DEF ShiftedBits
  <1>3. \A k \in {1, 2, 3, 4, 6, 7, 8, 9, 10, 11, 13, 14, 15} : c[k] = b[k - 1]
    <2> TAKE k \in {1, 2, 3, 4, 6, 7, 8, 9, 10, 11, 13, 14, 15}
    <2>1. k \in 0 .. 15 /\ k # 0 /\ k # 5 /\ k # 12  OBVIOUS
    <2> QED  BY <1>2, <2>1 DEF ShiftedBit
  <1>4. c[1] = b[0] /\ c[2] = b[1] /\ c[3] = b[2] /\ c[4] = b[3] /\ c[6] = b[5] /\ c[7] = b[6]
    BY <1>3
  <1>5. /\ c[8] = b[7] /\ c[9] = b[8] /\ c[10] = b[9] /\ c[11] = b[10]
        /\ c[13] = b[12] /\ c[14] = b[13] /\ c[15] = b[14]
    BY <1>3
  <1>6. c[0] = b[15] /\ c[5] = Parity(b[4], b[15]) /\ c[12] = Parity(b[11], b[15])
    <2>1. 0 \in 0 .. 15 /\ 5 \in 0 .. 15 /\ 12 \in 0 .. 15 /\ 5 - 1 = 4 /\ 12 - 1 = 11  OBVIOUS
    <2>2. ShiftedBit(b, 0) = b[15]  BY DEF ShiftedBit
    <2>3. ShiftedBit(b, 5) = Parity(b[4], b[15])  BY <2>1 DEF ShiftedBit
    <2>4. ShiftedBit(b, 12) = Parity(b[11], b[15])  BY <2>1 DEF ShiftedBit
    <2> QED  BY <1>2, <2>1, <2>2, <2>3, <2>4
  <1>7. ASSUME NEW k \in 0 .. 15 PROVE ShiftedBit(b, k) \in Bit
    <2>1. CASE k = 0  BY <2>1, BitsOf DEF ShiftedBit
    <2>2. CASE k # 0
      <3>1. k - 1 \in 0 .. 15  BY <2>2
      <3>2. b[k - 1] \in Bit  BY <3>1, BitsOf
      <3>3. \A x, y : Parity(x, y) \in Bit  BY DEF Parity, Bit
      <3> QED  BY <2>2, <3>2, <3>3 DEF ShiftedBit
    <2> QED  BY <2>1, <2>2
  <1>8. ShiftedBits(b) \in Bits  BY <1>7 DEF ShiftedBits, Bits
  <1> QED  BY <1>1, <1>4, <1>5, <1>6, <1>8 DEF Moved

LEMMA ShiftedIs ==
    ASSUME NEW w, NEW b \in Bits, HasBits(w, b)
    PROVE  HasBits(Shifted(w), ShiftedBits(b))
  <1>1. PICK b0 \in Bit, b1 \in Bit, b2 \in Bit, b3 \in Bit, b4 \in Bit, b5 \in Bit :
            b0 = b[0] /\ b1 = b[1] /\ b2 = b[2] /\ b3 = b[3] /\ b4 = b[4] /\ b5 = b[5]
    BY BitsOf
  <1>2. PICK b6 \in Bit, b7 \in Bit, b8 \in Bit, b9 \in Bit, b10 \in Bit :
            b6 = b[6] /\ b7 = b[7] /\ b8 = b[8] /\ b9 = b[9] /\ b10 = b[10]
    BY BitsOf
  <1>3. PICK b11 \in Bit, b12 \in Bit, b13 \in Bit, b14 \in Bit, b15 \in Bit :
            b11 = b[11] /\ b12 = b[12] /\ b13 = b[13] /\ b14 = b[14] /\ b15 = b[15]
    BY BitsOf
  <1>4. /\ Quad(b, 0) = b0 + 2 * b1 + 4 * b2 + 8 * b3
        /\ Quad(b, 4) = b4 + 2 * b5 + 4 * b6 + 8 * b7
        /\ Quad(b, 8) = b8 + 2 * b9 + 4 * b10 + 8 * b11
        /\ Quad(b, 12) = b12 + 2 * b13 + 4 * b14 + 8 * b15
    BY <1>1, <1>2, <1>3 DEF Quad
  <1>5. PICK q1 \in 0 .. 15, q2 \in 0 .. 15, q3 \in 0 .. 15, q4 \in 0 .. 15 :
            /\ q1 = b0 + 2 * b1 + 4 * b2 + 8 * b3
            /\ q2 = b4 + 2 * b5 + 4 * b6 + 8 * b7
            /\ q3 = b8 + 2 * b9 + 4 * b10 + 8 * b11
            /\ q4 = b12 + 2 * b13 + 4 * b14 + 8 * b15
    BY <1>4, QuadType
  <1>6. w = q1 + 16 * q2 + 256 * q3 + 4096 * q4  BY <1>4, <1>5 DEF HasBits, Digits
  (* Twice the word, without its last bit                                  *)
  <1>7. PICK t1 \in 0 .. 15, t2 \in 0 .. 15, t3 \in 0 .. 15, t4 \in 0 .. 15 :
            /\ t1 = 0 + 2 * b0 + 4 * b1 + 8 * b2
            /\ t2 = b3 + 2 * b4 + 4 * b5 + 8 * b6
            /\ t3 = b7 + 2 * b8 + 4 * b9 + 8 * b10
            /\ t4 = b11 + 2 * b12 + 4 * b13 + 8 * b14
    <2>1. \A p, q, r, s \in Bit : p + 2 * q + 4 * r + 8 * s \in 0 .. 15  BY DEF Bit
    <2>2. 0 \in Bit  BY DEF Bit
    <2> QED  BY <2>1, <2>2
  <1>8. 2 * q1 = t1 + 16 * b3 /\ 2 * q2 = t2 - b3 + 16 * b7 /\ 2 * q3 = t3 - b7 + 16 * b11
        /\ 2 * q4 = t4 - b11 + 16 * b15
    BY <1>5, <1>7 DEF Bit
  <1>9. PICK twice \in Nat : twice = t1 + 16 * t2 + 256 * t3 + 4096 * t4
    OBVIOUS
  <1>10. Digits(twice, t1, t2, t3, t4)  BY <1>9 DEF Digits
  <1>11. twice \in Nat /\ twice < 65536  BY <1>10, DigitsRead, WordIs
  <1>12. w * 2 = twice + 65536 * b15  BY <1>6, <1>8, <1>9 DEF Bit
  <1>13. (w * 2) % 65536 = twice
    <2>1. PICK n \in Nat : n = twice + 65536 * b15  BY DEF Bit
    <2>2. n % 65536 = twice  BY <1>11, <2>1 DEF Bit
    <2> QED  BY <1>12, <2>1, <2>2
  <1>14. w >= 32768 <=> b15 = 1
    <2>1. PICK n \in Nat : n = w  BY <1>6
    <2>2. 2 * n = twice + 65536 * b15  BY <1>12, <2>1
    <2> QED  BY <1>11, <2>1, <2>2 DEF Bit
  <1>15. PICK c \in Bits : c = ShiftedBits(b) /\ Moved(b, c)  BY ShiftedFacts
  <1>16. /\ c[0] = b15 /\ c[1] = b0 /\ c[2] = b1 /\ c[3] = b2
         /\ c[4] = b3 /\ c[5] = Parity(b4, b15) /\ c[6] = b5 /\ c[7] = b6
    BY <1>1, <1>2, <1>3, <1>15 DEF Moved
  <1>17. /\ c[8] = b7 /\ c[9] = b8 /\ c[10] = b9 /\ c[11] = b10
         /\ c[12] = Parity(b11, b15) /\ c[13] = b12 /\ c[14] = b13 /\ c[15] = b14
    BY <1>2, <1>3, <1>15 DEF Moved
  <1>18. /\ Quad(c, 0) = b15 + 2 * b0 + 4 * b1 + 8 * b2
         /\ Quad(c, 4) = b3 + 2 * Parity(b4, b15) + 4 * b5 + 8 * b6
         /\ Quad(c, 8) = b7 + 2 * b8 + 4 * b9 + 8 * b10
         /\ Quad(c, 12) = Parity(b11, b15) + 2 * b12 + 4 * b13 + 8 * b14
    BY <1>16, <1>17 DEF Quad
  <1>19. CASE b15 = 0
    <2>1. Parity(b4, b15) = b4 /\ Parity(b11, b15) = b11  BY <1>19 DEF Bit, Parity
    <2>2. Digits(twice, Quad(c, 0), Quad(c, 4), Quad(c, 8), Quad(c, 12))
      BY <1>7, <1>10, <1>18, <1>19, <2>1
    <2>3. Shifted(w) = twice  BY <1>13, <1>14, <1>19 DEF Shifted
    <2> QED  BY <1>15, <2>2, <2>3 DEF HasBits
  <1>20. CASE b15 = 1
    <2>1. Digits(4129, 1, 2, 0, 1)  BY DEF Digits
    <2>2. Digits(Xor(twice, 4129), digit_xor[t1][1], digit_xor[t2][2], digit_xor[t3][0],
                 digit_xor[t4][1])
      BY <1>10, <2>1, XorDigits
    <2>3. PICK o \in Bit : o = 0  BY DEF Bit
    <2>4. /\ HasDigit(t1, o, b0, b1, b2) /\ HasDigit(t2, b3, b4, b5, b6)
          /\ HasDigit(t3, b7, b8, b9, b10) /\ HasDigit(t4, b11, b12, b13, b14)
      BY <1>7, <2>3 DEF HasDigit
    <2>5. /\ digit_xor[t1][1] = Parity(o, 1) + 2 * b0 + 4 * b1 + 8 * b2
          /\ digit_xor[t2][2] = b3 + 2 * Parity(b4, b15) + 4 * b5 + 8 * b6
          /\ digit_xor[t3][0] = b7 + 2 * b8 + 4 * b9 + 8 * b10
          /\ digit_xor[t4][1] = Parity(b11, b15) + 2 * b12 + 4 * b13 + 8 * b14
      BY <1>7, <1>20, <2>4, Flipped
    <2>6. Parity(o, 1) = b15  BY <1>20, <2>3 DEF Parity
    <2>7. Digits(Xor(twice, 4129), Quad(c, 0), Quad(c, 4), Quad(c, 8), Quad(c, 12))
      BY <1>18, <2>2, <2>5, <2>6
    <2>8. Shifted(w) = Xor(twice, 4129)  BY <1>13, <1>14, <1>20 DEF Shifted
    <2> QED  BY <1>15, <2>7, <2>8 DEF HasBits
  <1> QED  BY <1>19, <1>20 DEF Bit

LEMMA ByteBits ==
    ASSUME NEW i \in Byte
    PROVE  \E b \in Bits :
               /\ HasBits(i * 256, b)
               /\ b[0] = 0 /\ b[1] = 0 /\ b[2] = 0 /\ b[3] = 0
               /\ b[4] = 0 /\ b[5] = 0 /\ b[6] = 0 /\ b[7] = 0
  <1>1. PICK n \in Nat : n = i /\ n < 256  BY DEF Byte
  <1>2. PICK h \in 0 .. 15, l \in 0 .. 15 : n = 16 * h + l
    <2>1. PICK q \in Nat : q = n \div 16  OBVIOUS
    <2>2. PICK r \in 0 .. 15 : r = n % 16  OBVIOUS
    <2>3. n = 16 * q + r  BY <2>1, <2>2
    <2>4. q < 16  BY <1>1, <2>2, <2>3
    <2>5. q \in 0 .. 15  BY <2>4
    <2> QED  BY <2>3, <2>5
  <1>3. PICK x \in Nibble, y \in Nibble : l = Digit(x) /\ h = Digit(y)  BY DigitBits
  <1> DEFINE b == [k \in 0 .. 15 |->
                      IF k < 8 THEN 0 ELSE IF k < 12 THEN x[k - 8] ELSE y[k - 12]]
  <1>4. b \in Bits
    <2>1. ASSUME NEW k \in 0 .. 15
          PROVE  (IF k < 8 THEN 0 ELSE IF k < 12 THEN x[k - 8] ELSE y[k - 12]) \in Bit
      <3>1. CASE k < 8  BY <3>1 DEF Bit
      <3>2. CASE k >= 8 /\ k < 12
        <4>1. k - 8 \in 0 .. 3 /\ ~(k < 8)  BY <3>2
        <4>2. x[k - 8] \in Bit  BY <4>1 DEF Nibble
        <4> QED  BY <3>2, <4>1, <4>2
      <3>3. CASE k >= 12
        <4>1. k - 12 \in 0 .. 3 /\ ~(k < 8) /\ ~(k < 12)  BY <3>3
        <4>2. y[k - 12] \in Bit  BY <4>1 DEF Nibble
        <4> QED  BY <4>1, <4>2
      <3> QED  BY <3>1, <3>2, <3>3
    <2> QED  BY <2>1 DEF Bits
  <1>5. /\ b[0] = 0 /\ b[1] = 0 /\ b[2] = 0 /\ b[3] = 0
        /\ b[4] = 0 /\ b[5] = 0 /\ b[6] = 0 /\ b[7] = 0
    OBVIOUS
  <1>6. b[8] = x[0] /\ b[9] = x[1] /\ b[10] = x[2] /\ b[11] = x[3]
    <2>1. 8 - 8 = 0 /\ 9 - 8 = 1 /\ 10 - 8 = 2 /\ 11 - 8 = 3  OBVIOUS
    <2> QED  BY <2>1
  <1>7. b[12] = y[0] /\ b[13] = y[1] /\ b[14] = y[2] /\ b[15] = y[3]
    <2>1. 12 - 12 = 0 /\ 13 - 12 = 1 /\ 14 - 12 = 2 /\ 15 - 12 = 3  OBVIOUS
    <2> QED  BY <2>1
  <1> HIDE DEF b
  <1>8. Quad(b, 0) = 0 /\ Quad(b, 4) = 0 /\ Quad(b, 8) = l /\ Quad(b, 12) = h
    BY <1>3, <1>5, <1>6, <1>7 DEF Quad, Digit
  <1>9. HasBits(i * 256, b)
    <2>1. n * 256 = 0 + 16 * 0 + 256 * l + 4096 * h  BY <1>2
    <2>2. 0 \in 0 .. 15  OBVIOUS
    <2>3. Digits(n * 256, 0, 0, l, h)  BY <2>1, <2>2 DEF Digits
    <2> QED  BY <1>1, <1>8, <2>3 DEF HasBits
  <1> QED  BY <1>4, <1>5, <1>9

(* The low byte of an entry of the table, by the bits of the byte that it  *)
(* belongs to.                                                             *)
LowBits(b, c) ==
    /\ c[0] = Parity(b[8], b[12]) /\ c[1] = Parity(b[9], b[13])
    /\ c[2] = Parity(b[10], b[14]) /\ c[3] = Parity(b[11], b[15])
    /\ c[4] = b[12] /\ c[5] = Parity(b[13], Parity(b[8], b[12]))
    /\ c[6] = Parity(b[14], Parity(b[9], b[13])) /\ c[7] = Parity(b[15], Parity(b[10], b[14]))

LEMMA TableBits ==
    ASSUME NEW i \in Byte
    PROVE  \E b, c \in Bits : HasBits(i * 256, b) /\ HasBits(crc16_table[i], c) /\ LowBits(b, c)
  <1>1. PICK b \in Bits : /\ HasBits(i * 256, b)
                          /\ b[0] = 0 /\ b[1] = 0 /\ b[2] = 0 /\ b[3] = 0
                          /\ b[4] = 0 /\ b[5] = 0 /\ b[6] = 0 /\ b[7] = 0
    BY ByteBits
  <1> DEFINE s1 == Shifted(i * 256)
             s2 == Shifted(s1)
             s3 == Shifted(s2)
             s4 == Shifted(s3)
             s5 == Shifted(s4)
             s6 == Shifted(s5)
             s7 == Shifted(s6)
             s8 == Shifted(s7)
  <1>2. s8 = crc16_table[i]  BY DEF crc16_table, Byte
  <1>3. PICK r1 \in Bits : Moved(b, r1) /\ HasBits(s1, r1)  BY <1>1, ShiftedFacts, ShiftedIs
  <1>4. PICK r2 \in Bits : Moved(r1, r2) /\ HasBits(s2, r2)  BY <1>3, ShiftedFacts, ShiftedIs
  <1>5. PICK r3 \in Bits : Moved(r2, r3) /\ HasBits(s3, r3)  BY <1>4, ShiftedFacts, ShiftedIs
  <1>6. PICK r4 \in Bits : Moved(r3, r4) /\ HasBits(s4, r4)  BY <1>5, ShiftedFacts, ShiftedIs
  <1>7. PICK r5 \in Bits : Moved(r4, r5) /\ HasBits(s5, r5)  BY <1>6, ShiftedFacts, ShiftedIs
  <1>8. PICK r6 \in Bits : Moved(r5, r6) /\ HasBits(s6, r6)  BY <1>7, ShiftedFacts, ShiftedIs
  <1>9. PICK r7 \in Bits : Moved(r6, r7) /\ HasBits(s7, r7)  BY <1>8, ShiftedFacts, ShiftedIs
  <1>10. PICK r8 \in Bits : Moved(r7, r8) /\ HasBits(s8, r8)  BY <1>9, ShiftedFacts, ShiftedIs
  <1> HIDE DEF s1, s2, s3, s4, s5, s6, s7, s8
  <1>11. PICK i0 \in Bit, i1 \in Bit, i2 \in Bit, i3 \in Bit, i4 \in Bit, i5 \in Bit,
              i6 \in Bit, i7 \in Bit :
             /\ i0 = b[8] /\ i1 = b[9] /\ i2 = b[10] /\ i3 = b[11]
             /\ i4 = b[12] /\ i5 = b[13] /\ i6 = b[14] /\ i7 = b[15]
    BY BitsOf
  <1>12. PICK e0 \in Bit, e1 \in Bit, e2 \in Bit, e3 \in Bit :
             /\ e0 = Parity(i0, i4) /\ e1 = Parity(i1, i5)
             /\ e2 = Parity(i2, i6) /\ e3 = Parity(i3, i7)
    BY DEF Parity, Bit
  <1>13. \A x \in Bit : Parity(0, x) = x  BY DEF Parity, Bit
  <1>14. /\ r4[0] = i4 /\ r4[1] = i5 /\ r4[2] = i6 /\ r4[3] = i7
         /\ r4[4] = 0 /\ r4[5] = i4 /\ r4[6] = i5 /\ r4[7] = i6 /\ r4[8] = i7
         /\ r4[9] = 0 /\ r4[10] = 0 /\ r4[11] = 0
         /\ r4[12] = e0 /\ r4[13] = e1 /\ r4[14] = e2 /\ r4[15] = e3
    BY <1>1, <1>3, <1>4, <1>5, <1>6, <1>11, <1>12, <1>13 DEF Moved
  <1>15. /\ r8[0] = e0 /\ r8[1] = e1 /\ r8[2] = e2 /\ r8[3] = e3 /\ r8[4] = i4
         /\ r8[5] = Parity(i5, e0) /\ r8[6] = Parity(i6, e1) /\ r8[7] = Parity(i7, e2)
    BY <1>7, <1>8, <1>9, <1>10, <1>13, <1>14 DEF Moved
  <1>16. LowBits(b, r8)  BY <1>11, <1>12, <1>15 DEF LowBits
  <1> QED  BY <1>1, <1>2, <1>10, <1>16

LEMMA WordLow ==
    ASSUME NEW w, NEW b \in Bits, HasBits(w, b)
    PROVE  /\ Quad(b, 0) \in 0 .. 15 /\ Quad(b, 4) \in 0 .. 15
           /\ w % 256 = Quad(b, 0) + 16 * Quad(b, 4)
  <1>1. Quad(b, 0) \in 0 .. 15 /\ Quad(b, 4) \in 0 .. 15  BY QuadType
  <1>2. w % 256 = Quad(b, 0) + 16 * Quad(b, 4)  BY DigitsRead DEF HasBits
  <1> QED  BY <1>1, <1>2

LEMMA QuadSame ==
    ASSUME NEW b \in Bits, NEW c \in Bits, NEW k \in {0, 4, 8, 12}, Quad(b, k) = Quad(c, k)
    PROVE  b[k] = c[k] /\ b[k + 1] = c[k + 1] /\ b[k + 2] = c[k + 2] /\ b[k + 3] = c[k + 3]
  <1>1. k \in 0 .. 15 /\ k + 1 \in 0 .. 15 /\ k + 2 \in 0 .. 15 /\ k + 3 \in 0 .. 15  OBVIOUS
  <1>2. PICK p \in Bit, q \in Bit, r \in Bit, s \in Bit :
            p = b[k] /\ q = b[k + 1] /\ r = b[k + 2] /\ s = b[k + 3]
    BY <1>1, BitsOf
  <1>3. PICK x \in Bit, y \in Bit, z \in Bit, t \in Bit :
            x = c[k] /\ y = c[k + 1] /\ z = c[k + 2] /\ t = c[k + 3]
    BY <1>1, BitsOf
  <1>4. p + 2 * q + 4 * r + 8 * s = x + 2 * y + 4 * z + 8 * t  BY <1>2, <1>3 DEF Quad
  <1>5. p = x /\ q = y /\ r = z /\ s = t  BY <1>4 DEF Bit
  <1> QED  BY <1>2, <1>3, <1>5

(* The low byte of an entry says which entry it is.                        *)
LEMMA TableKnown ==
    ASSUME NEW i \in Byte, NEW j \in Byte, crc16_table[i] % 256 = crc16_table[j] % 256
    PROVE  i = j
  <1>1. PICK b \in Bits, c \in Bits :
            HasBits(i * 256, b) /\ HasBits(crc16_table[i], c) /\ LowBits(b, c)
    BY TableBits
  <1>2. PICK d \in Bits, e \in Bits :
            HasBits(j * 256, d) /\ HasBits(crc16_table[j], e) /\ LowBits(d, e)
    BY TableBits
  <1>3. Quad(c, 0) = Quad(e, 0) /\ Quad(c, 4) = Quad(e, 4)
    <2>1. PICK p \in 0 .. 15, q \in 0 .. 15 :
              p = Quad(c, 0) /\ q = Quad(c, 4) /\ crc16_table[i] % 256 = p + 16 * q
      BY <1>1, WordLow
    <2>2. PICK r \in 0 .. 15, s \in 0 .. 15 :
              r = Quad(e, 0) /\ s = Quad(e, 4) /\ crc16_table[j] % 256 = r + 16 * s
      BY <1>2, WordLow
    <2>3. p + 16 * q = r + 16 * s  BY <2>1, <2>2
    <2>4. p = r /\ q = s  BY <2>3
    <2> QED  BY <2>1, <2>2, <2>4
  <1>4. c[0] = e[0] /\ c[1] = e[1] /\ c[2] = e[2] /\ c[3] = e[3]
    <2>1. 0 + 1 = 1 /\ 0 + 2 = 2 /\ 0 + 3 = 3  OBVIOUS
    <2> QED  BY <1>3, <2>1, QuadSame
  <1>5. c[4] = e[4] /\ c[5] = e[5] /\ c[6] = e[6] /\ c[7] = e[7]
    <2>1. 4 + 1 = 5 /\ 4 + 2 = 6 /\ 4 + 3 = 7  OBVIOUS
    <2> QED  BY <1>3, <2>1, QuadSame
  <1>6. \A k \in 8 .. 15 : b[k] = d[k]
    <2>1. PICK p0 \in Bit, p1 \in Bit, p2 \in Bit, p3 \in Bit, p4 \in Bit, p5 \in Bit,
               p6 \in Bit, p7 \in Bit :
              /\ p0 = b[8] /\ p1 = b[9] /\ p2 = b[10] /\ p3 = b[11]
              /\ p4 = b[12] /\ p5 = b[13] /\ p6 = b[14] /\ p7 = b[15]
      BY BitsOf
    <2>2. PICK q0 \in Bit, q1 \in Bit, q2 \in Bit, q3 \in Bit, q4 \in Bit, q5 \in Bit,
               q6 \in Bit, q7 \in Bit :
              /\ q0 = d[8] /\ q1 = d[9] /\ q2 = d[10] /\ q3 = d[11]
              /\ q4 = d[12] /\ q5 = d[13] /\ q6 = d[14] /\ q7 = d[15]
      BY BitsOf
    <2>3. /\ p4 = q4 /\ Parity(p0, p4) = Parity(q0, q4) /\ Parity(p1, p5) = Parity(q1, q5)
          /\ Parity(p2, p6) = Parity(q2, q6) /\ Parity(p3, p7) = Parity(q3, q7)
          /\ Parity(p5, Parity(p0, p4)) = Parity(q5, Parity(q0, q4))
          /\ Parity(p6, Parity(p1, p5)) = Parity(q6, Parity(q1, q5))
          /\ Parity(p7, Parity(p2, p6)) = Parity(q7, Parity(q2, q6))
      BY <1>1, <1>2, <1>4, <1>5, <2>1, <2>2 DEF LowBits
    <2>4. p5 = q5 /\ p6 = q6 /\ p7 = q7 /\ p0 = q0 /\ p1 = q1 /\ p2 = q2 /\ p3 = q3
      BY <2>3 DEF Parity, Bit
    <2>5. /\ b[8] = d[8] /\ b[9] = d[9] /\ b[10] = d[10] /\ b[11] = d[11]
          /\ b[12] = d[12] /\ b[13] = d[13] /\ b[14] = d[14] /\ b[15] = d[15]
      BY <2>1, <2>2, <2>3, <2>4
    <2> TAKE k \in 8 .. 15
    <2>6. k \in {8, 9, 10, 11, 12, 13, 14, 15}  OBVIOUS
    <2> QED  BY <2>5, <2>6
  <1>7. Quad(b, 8) = Quad(d, 8) /\ Quad(b, 12) = Quad(d, 12)  BY <1>6 DEF Quad
  <1>8. (i * 256) \div 256 = (j * 256) \div 256
    <2>1. (i * 256) \div 256 = Quad(b, 8) + 16 * Quad(b, 12)  BY <1>1, DigitsRead DEF HasBits
    <2>2. (j * 256) \div 256 = Quad(d, 8) + 16 * Quad(d, 12)  BY <1>2, DigitsRead DEF HasBits
    <2> QED  BY <1>7, <2>1, <2>2
  <1> QED  BY <1>8 DEF Byte

(* A step of the checksum can be undone: from its result and the byte, the *)
(* checksum before it is known, and from both checksums the byte.          *)
LEMMA UpdatedParts ==
    ASSUME NEW c \in Word, NEW b \in Byte
    PROVE  \E h \in Byte, l \in Word, x \in Byte, t \in Word :
               /\ h = c \div 256 /\ l = (c * 256) % 65536 /\ x = Xor(h, b)
               /\ t = crc16_table[x] /\ Updated(c, b) = Xor(l, t)
               /\ l % 256 = 0 /\ 256 * c = l + 65536 * h
  <1>1. PICK n \in Nat : n = c /\ n < 65536  BY WordIs
  <1>2. PICK h \in Byte : h = n \div 256
    <2>1. n \div 256 \in Nat /\ n \div 256 < 256  BY <1>1
    <2> QED  BY <2>1 DEF Byte
  <1>3. PICK r \in Nat : n = 256 * h + r /\ r < 256  BY <1>2 DEF Byte
  <1>4. PICK l \in Nat : l = 256 * r /\ l < 65536 /\ l % 256 = 0  BY <1>3
  <1>5. (n * 256) % 65536 = l /\ 256 * n = l + 65536 * h
    <2>1. 256 * n = l + 65536 * h /\ n * 256 = 256 * n  BY <1>3, <1>4 DEF Byte
    <2>2. PICK m \in Nat : m = n * 256 /\ m = l + 65536 * h  BY <2>1
    <2>3. m % 65536 = l  BY <1>4, <2>2 DEF Byte
    <2> QED  BY <2>1, <2>2, <2>3
  <1>6. l \in Word  BY <1>4, WordIs
  <1>7. PICK x \in Byte : x = Xor(h, b)
    <2>1. h \in Nat /\ h < 256 /\ b \in Nat /\ b < 256  BY DEF Byte
    <2> QED  BY <2>1, XorType
  <1>8. PICK t \in Word : t = crc16_table[x]  BY TableType
  <1>9. Updated(c, b) = Xor(l, t)  BY <1>1, <1>2, <1>5, <1>7, <1>8 DEF Updated
  <1> QED  BY <1>1, <1>2, <1>4, <1>5, <1>6, <1>7, <1>8, <1>9

LEMMA UpdatedKnown ==
    ASSUME NEW c \in Word, NEW d \in Word, NEW a \in Byte, NEW b \in Byte
    PROVE  /\ Updated(c, a) = Updated(d, a) => c = d
           /\ Updated(c, a) = Updated(c, b) => a = b
  <1>1. \A n \in Byte : n \in Word
    <2>1. \A n \in Byte : n \in Nat /\ n < 65536  BY DEF Byte
    <2> QED  BY <2>1, WordIs
  <1>2. PICK h \in Byte, l \in Word, x \in Byte, t \in Word :
            /\ h = c \div 256 /\ l = (c * 256) % 65536 /\ x = Xor(h, a)
            /\ t = crc16_table[x] /\ Updated(c, a) = Xor(l, t)
            /\ l % 256 = 0 /\ 256 * c = l + 65536 * h
    BY UpdatedParts
  <1>3. ASSUME Updated(c, a) = Updated(d, a) PROVE c = d
    <2>1. PICK k \in Byte, m \in Word, y \in Byte, u \in Word :
              /\ k = d \div 256 /\ m = (d * 256) % 65536 /\ y = Xor(k, a)
              /\ u = crc16_table[y] /\ Updated(d, a) = Xor(m, u)
              /\ m % 256 = 0 /\ 256 * d = m + 65536 * k
      BY UpdatedParts
    <2>2. t % 256 = u % 256  BY <1>2, <1>3, <2>1, XorLow
    <2>3. x = y  BY <1>2, <2>1, <2>2, TableKnown
    <2>4. h = k
      <3>1. Xor(h, a) = Xor(k, a) /\ h \in Word /\ k \in Word /\ a \in Word
        BY <1>1, <1>2, <2>1, <2>3
      <3> QED  BY <3>1, XorKnown
    <2>5. l = m
      <3>1. Xor(l, t) = Xor(m, t)  BY <1>2, <1>3, <2>1, <2>3
      <3> QED  BY <3>1, XorKnown
    <2>6. 256 * c = 256 * d  BY <1>2, <2>1, <2>4, <2>5
    <2> QED  BY <2>6, WordIs
  <1>4. ASSUME Updated(c, a) = Updated(c, b) PROVE a = b
    <2>1. PICK k \in Byte, m \in Word, y \in Byte, u \in Word :
              /\ k = c \div 256 /\ m = (c * 256) % 65536 /\ y = Xor(k, b)
              /\ u = crc16_table[y] /\ Updated(c, b) = Xor(m, u)
              /\ m % 256 = 0 /\ 256 * c = m + 65536 * k
      BY UpdatedParts
    <2>2. h = k /\ l = m  BY <1>2, <2>1
    <2>3. t % 256 = u % 256  BY <1>2, <1>4, <2>1, XorLow
    <2>4. x = y  BY <1>2, <2>1, <2>3, TableKnown
    <2>5. Xor(h, a) = Xor(h, b) /\ h \in Word /\ a \in Word /\ b \in Word
      BY <1>1, <1>2, <2>1, <2>2, <2>4
    <2> QED  BY <2>5, XorKnown
  <1> QED  BY <1>3, <1>4

(* Bytes of which one is another.                                          *)
OneOffAt(s, t, p) ==
    /\ s \in Seq(Byte) /\ t \in Seq(Byte) /\ Len(s) = Len(t)
    /\ p \in 1 .. Len(s)
    /\ s[p] # t[p]
    /\ \A i \in 1 .. Len(s) : i # p => s[i] = t[i]
OneOff(s, t) == \E p \in 1 .. Len(s) : OneOffAt(s, t, p)

LEMMA ChecksumDiffers ==
    ASSUME NEW s, NEW t, OneOff(s, t)
    PROVE  crc16_ccitt(s) # crc16_ccitt(t)
  <1>1. PICK p : OneOffAt(s, t, p)  BY DEF OneOff
  <1>2. s \in Seq(Byte) /\ t \in Seq(Byte)  BY <1>1 DEF OneOffAt
  <1>3. PICK n \in Nat : n = Len(s) /\ n = Len(t)  BY <1>1, <1>2, LenProperties DEF OneOffAt
  <1>4. p \in 1 .. n /\ s[p] # t[p] /\ \A i \in 1 .. n : i # p => s[i] = t[i]
    BY <1>1, <1>3 DEF OneOffAt
  <1>5. \A i \in 1 .. n : s[i] \in Byte /\ t[i] \in Byte  BY <1>2, <1>3, ElementOfSeq
  <1>6. PICK C : /\ C = Checksums(s)
                 /\ C[0] = 65535 /\ \A i \in 1 .. n : C[i] = Updated(C[i - 1], s[i])
                 /\ \A i \in 0 .. n : C[i] \in Word
    <2>1. /\ Checksums(s)[0] = 65535
          /\ \A i \in 1 .. Len(s) : Checksums(s)[i] = Updated(Checksums(s)[i - 1], s[i])
          /\ \A i \in 0 .. Len(s) : Checksums(s)[i] \in Word
      BY <1>2, ChecksumSteps
    <2> QED  BY <1>3, <2>1
  <1>7. PICK D : /\ D = Checksums(t)
                 /\ D[0] = 65535 /\ \A i \in 1 .. n : D[i] = Updated(D[i - 1], t[i])
                 /\ \A i \in 0 .. n : D[i] \in Word
    BY <1>2, <1>3, ChecksumSteps
  <1> DEFINE T == {i \in 0 .. n : IF i < p THEN C[i] = D[i] ELSE C[i] # D[i]}
  <1>8. 0 \in T
    <2>1. 0 < p /\ 0 \in 0 .. n  BY <1>4
    <2> QED  BY <1>6, <1>7, <2>1
  <1>9. ASSUME NEW i \in 1 .. n, i - 1 \in T PROVE i \in T
    <2>1. i - 1 \in 0 .. n /\ i \in 0 .. n  OBVIOUS
    <2>2. PICK c \in Word, d \in Word : c = C[i - 1] /\ d = D[i - 1]  BY <1>6, <1>7, <2>1
    <2>3. PICK a \in Byte, b \in Byte : a = s[i] /\ b = t[i]  BY <1>5
    <2>4. C[i] = Updated(c, a) /\ D[i] = Updated(d, b)  BY <1>6, <1>7, <2>2, <2>3
    <2>5. IF i - 1 < p THEN c = d ELSE c # d  BY <1>9, <2>2
    <2>6. CASE i < p
      <3>1. i - 1 < p /\ i # p  BY <1>4, <2>6
      <3>2. c = d /\ a = b  BY <1>4, <2>3, <2>5, <3>1
      <3> QED  BY <2>1, <2>4, <2>6, <3>2
    <2>7. CASE i = p
      <3>1. i - 1 < p /\ ~(i < p)  BY <1>4, <2>7
      <3>2. c = d /\ a # b  BY <1>4, <2>3, <2>5, <2>7, <3>1
      <3>3. Updated(c, a) # Updated(c, b)  BY <3>2, UpdatedKnown
      <3> QED  BY <2>1, <2>4, <3>1, <3>2, <3>3
    <2>8. CASE i > p
      <3>1. ~(i - 1 < p) /\ ~(i < p) /\ i # p  BY <1>4, <2>8
      <3>2. c # d /\ a = b  BY <1>4, <2>3, <2>5, <3>1
      <3>3. Updated(c, a) # Updated(d, a)  BY <3>2, UpdatedKnown
      <3> QED  BY <2>1, <2>4, <3>1, <3>2, <3>3
    <2>9. i < p \/ i = p \/ i > p  BY <1>4
    <2> QED  BY <2>6, <2>7, <2>8, <2>9
  <1>10. \A i \in 0 .. n : i \in T
    <2> HIDE DEF T
    <2> QED  BY <1>8, <1>9, Induction, Zenon
  <1>11. n \in 0 .. n /\ ~(n < p)  BY <1>4
  <1>12. C[n] # D[n]  BY <1>10, <1>11
  <1> QED  BY <1>3, <1>6, <1>7, <1>12 DEF crc16_ccitt

(* The checksum tells a packet from every packet that differs in one byte: *)
(* of the two only one is accepted (crc16_ccitt and the comparisons of the *)
(* two ends, with the byte order in which the checksum is written).        *)
THEOREM OneByteDetected ==
    ASSUME NEW raw, NEW other, OneOff(raw, other), Passes(raw)
    PROVE  ~Passes(other)
  <1>1. PICK p : OneOffAt(raw, other, p)  BY DEF OneOff
  <1>2. raw \in Seq(Byte) /\ other \in Seq(Byte)  BY <1>1 DEF OneOffAt
  <1>3. PICK c \in Nat : c = PACKET_CRC_OFFSET /\ PACKET_FIXED_SIZE = c + 2
    <2>1. PICK u \in Nat, q \in Nat :
              PACKET_CRC_OFFSET = 13 + u + q /\ PACKET_FIXED_SIZE = 15 + u + q
      BY Sizes
    <2>2. 13 + u + q \in Nat /\ 15 + u + q = (13 + u + q) + 2  OBVIOUS
    <2> QED  BY <2>1, <2>2
  <1>4. PICK n \in Nat : n = c + 2 /\ n = Len(raw) /\ n = Len(other)
    <2>1. Len(raw) = PACKET_FIXED_SIZE  BY DEF Passes
    <2>2. Len(other) = Len(raw)  BY <1>1 DEF OneOffAt
    <2> QED  BY <1>3, <2>1, <2>2
  <1>5. p \in 1 .. n /\ raw[p] # other[p] /\ \A i \in 1 .. n : i # p => raw[i] = other[i]
    BY <1>1, <1>4 DEF OneOffAt
  <1>6. \A i \in 1 .. n : raw[i] \in Byte /\ other[i] \in Byte  BY <1>2, <1>4, ElementOfSeq
  <1> DEFINE A == Bytes(raw, 0, c)
             B == Bytes(other, 0, c)
  <1>7. /\ A \in Seq(Byte) /\ Len(A) = c /\ \A i \in 1 .. c : A[i] = raw[i]
        /\ B \in Seq(Byte) /\ Len(B) = c /\ \A i \in 1 .. c : B[i] = other[i]
    <2>1. 0 \in Nat /\ 0 + c <= Len(raw) /\ 0 + c <= Len(other)  BY <1>4
    <2>2. \A i \in 1 .. c : 0 + i = i  OBVIOUS
    <2>3. A \in Seq(Byte) /\ Len(A) = c /\ \A i \in 1 .. c : A[i] = raw[0 + i]
      BY <1>2, <2>1, BytesFacts
    <2>4. B \in Seq(Byte) /\ Len(B) = c /\ \A i \in 1 .. c : B[i] = other[0 + i]
      BY <1>2, <2>1, BytesFacts
    <2> HIDE DEF A, B
    <2> QED  BY <2>2, <2>3, <2>4
  <1>8. SUFFICES ASSUME Passes(other) PROVE FALSE  OBVIOUS
  <1>9. PICK l \in Byte, h \in Byte : l = raw[c + 1] /\ h = raw[c + 2]  BY <1>4, <1>6
  <1>10. PICK k \in Byte, g \in Byte : k = other[c + 1] /\ g = other[c + 2]  BY <1>4, <1>6
  <1>11. h * 256 + l = crc16_ccitt(A) /\ g * 256 + k = crc16_ccitt(B)
    <2>1. /\ At(raw, c + 1) = raw[c + 2] /\ At(raw, c) = raw[c + 1]
          /\ At(other, c + 1) = other[c + 2] /\ At(other, c) = other[c + 1]
      <3>1. (c + 1) + 1 = c + 2  OBVIOUS
      <3> QED  BY <3>1 DEF At
    <2> QED  BY <1>3, <1>8, <1>9, <1>10, <2>1 DEF Passes, UInt16
  <1> HIDE DEF A, B
  <1>12. CASE p <= c
    <2>1. p \in 1 .. c /\ c + 1 # p /\ c + 2 # p  BY <1>5, <1>12
    <2>2. OneOffAt(A, B, p)
      <3>1. \A i \in 1 .. c : i \in 1 .. n  BY <1>4
      <3> QED  BY <1>5, <1>7, <2>1, <3>1 DEF OneOffAt
    <2>3. OneOff(A, B)
      <3>1. p \in 1 .. Len(A)  BY <1>7, <2>1
      <3> QED  BY <2>2, <3>1 DEF OneOff
    <2>4. crc16_ccitt(A) # crc16_ccitt(B)  BY <2>3, ChecksumDiffers
    <2>5. l = k /\ h = g
      <3>1. c + 1 \in 1 .. n /\ c + 2 \in 1 .. n  BY <1>4
      <3> QED  BY <1>5, <1>9, <1>10, <2>1, <3>1
    <2> QED  BY <1>11, <2>4, <2>5
  <1>13. CASE p > c
    <2>1. A = B
      <3>1. \A i \in 1 .. c : i \in 1 .. n /\ i # p  BY <1>4, <1>5, <1>13
      <3>2. \A i \in 1 .. c : A[i] = B[i]  BY <1>5, <1>7, <3>1
      <3> QED  BY <1>7, <3>2, SeqEqual
    <2>2. h * 256 + l = g * 256 + k  BY <1>11, <2>1
    <2>3. h = g /\ l = k  BY <2>2 DEF Byte
    <2>4. p = c + 1 \/ p = c + 2  BY <1>4, <1>5, <1>13
    <2> QED  BY <1>5, <1>9, <1>10, <2>3, <2>4
  <1>14. p <= c \/ p > c  BY <1>5
  <1> QED  BY <1>12, <1>13, <1>14

-----------------------------------------------------------------------------
(* A changed byte of a frame.                                              *)

LEMMA OneOffJoined ==
    ASSUME NEW s \in Seq(Byte), NEW t \in Seq(Byte), OneOff(s, t), NEW u \in Seq(Byte)
    PROVE  OneOff(s \o u, t \o u) /\ OneOff(u \o s, u \o t)
  <1>1. PICK p \in 1 .. Len(s) : OneOffAt(s, t, p)  BY DEF OneOff
  <1>2. PICK n \in Nat, m \in Nat : n = Len(s) /\ n = Len(t) /\ m = Len(u)
    BY <1>1, LenProperties DEF OneOffAt
  <1>3. p \in 1 .. n /\ s[p] # t[p] /\ \A i \in 1 .. n : i # p => s[i] = t[i]
    BY <1>1, <1>2 DEF OneOffAt
  <1>4. OneOff(s \o u, t \o u)
    <2>1. PICK a : /\ a = s \o u /\ a \in Seq(Byte) /\ Len(a) = n + m
                   /\ \A j \in 1 .. n : a[j] = s[j]
                   /\ \A j \in 1 .. m : a[n + j] = u[j]
      <3>1. /\ s \o u \in Seq(Byte) /\ Len(s \o u) = Len(s) + Len(u)
            /\ \A j \in 1 .. Len(s) : (s \o u)[j] = s[j]
            /\ \A j \in 1 .. Len(u) : (s \o u)[Len(s) + j] = u[j]
        BY Joined
      <3> QED  BY <1>2, <3>1
    <2>2. PICK b : /\ b = t \o u /\ b \in Seq(Byte) /\ Len(b) = n + m
                   /\ \A j \in 1 .. n : b[j] = t[j]
                   /\ \A j \in 1 .. m : b[n + j] = u[j]
      <3>1. /\ t \o u \in Seq(Byte) /\ Len(t \o u) = Len(t) + Len(u)
            /\ \A j \in 1 .. Len(t) : (t \o u)[j] = t[j]
            /\ \A j \in 1 .. Len(u) : (t \o u)[Len(t) + j] = u[j]
        BY Joined
      <3> QED  BY <1>2, <3>1
    <2>3. p \in 1 .. n + m /\ a[p] # b[p]  BY <1>3, <2>1, <2>2
    <2>4. ASSUME NEW i \in 1 .. n + m, i # p PROVE a[i] = b[i]
      <3>1. CASE i <= n
        <4>1. i \in 1 .. n  BY <3>1
        <4> QED  BY <1>3, <2>1, <2>2, <2>4, <4>1
      <3>2. CASE i > n
        <4>1. PICK j \in 1 .. m : i = n + j
          <5>1. i - n \in 1 .. m /\ i = n + (i - n)  BY <3>2
          <5> QED  BY <5>1
        <4> QED  BY <2>1, <2>2, <4>1
      <3> QED  BY <3>1, <3>2
    <2>5. OneOffAt(a, b, p)  BY <2>1, <2>2, <2>3, <2>4 DEF OneOffAt
    <2>6. p \in 1 .. Len(a)  BY <2>1, <2>3
    <2> QED  BY <2>1, <2>2, <2>5, <2>6 DEF OneOff
  <1>5. OneOff(u \o s, u \o t)
    <2>1. PICK a : /\ a = u \o s /\ a \in Seq(Byte) /\ Len(a) = m + n
                   /\ \A j \in 1 .. m : a[j] = u[j]
                   /\ \A j \in 1 .. n : a[m + j] = s[j]
      <3>1. /\ u \o s \in Seq(Byte) /\ Len(u \o s) = Len(u) + Len(s)
            /\ \A j \in 1 .. Len(u) : (u \o s)[j] = u[j]
            /\ \A j \in 1 .. Len(s) : (u \o s)[Len(u) + j] = s[j]
        BY Joined
      <3> QED  BY <1>2, <3>1
    <2>2. PICK b : /\ b = u \o t /\ b \in Seq(Byte) /\ Len(b) = m + n
                   /\ \A j \in 1 .. m : b[j] = u[j]
                   /\ \A j \in 1 .. n : b[m + j] = t[j]
      <3>1. /\ u \o t \in Seq(Byte) /\ Len(u \o t) = Len(u) + Len(t)
            /\ \A j \in 1 .. Len(u) : (u \o t)[j] = u[j]
            /\ \A j \in 1 .. Len(t) : (u \o t)[Len(u) + j] = t[j]
        BY Joined
      <3> QED  BY <1>2, <3>1
    <2>3. PICK q \in 1 .. m + n : q = m + p  BY <1>3
    <2>4. a[q] # b[q]  BY <1>3, <2>1, <2>2, <2>3
    <2>5. ASSUME NEW i \in 1 .. m + n, i # q PROVE a[i] = b[i]
      <3>1. CASE i <= m
        <4>1. i \in 1 .. m  BY <3>1
        <4> QED  BY <2>1, <2>2, <4>1
      <3>2. CASE i > m
        <4>1. PICK j \in 1 .. n : i = m + j
          <5>1. i - m \in 1 .. n /\ i = m + (i - m)  BY <3>2
          <5> QED  BY <5>1
        <4>2. j # p  BY <2>3, <2>5, <4>1
        <4> QED  BY <1>3, <2>1, <2>2, <4>1, <4>2
      <3> QED  BY <3>1, <3>2
    <2>6. OneOffAt(a, b, q)  BY <2>1, <2>2, <2>4, <2>5 DEF OneOffAt
    <2>7. q \in 1 .. Len(a)  BY <2>1
    <2> QED  BY <2>1, <2>2, <2>6, <2>7 DEF OneOff
  <1> QED  BY <1>4, <1>5

(* The places of a frame that the decoder may read as codes: the first,    *)
(* and where a run ends.  The others hold the bytes of the runs.           *)
HoldsCodes(f, S) ==
    /\ S \subseteq 1 .. Len(f) /\ 1 \in S
    /\ \A i \in S : i < Len(f) => RunEnd(f, i) \in S
RunByte(f, p) ==
    p \in 1 .. Len(f) /\ \E S \in SUBSET (1 .. Len(f)) : HoldsCodes(f, S) /\ p \notin S

(* Two frames that differ in a byte of a run: what each code and its run   *)
(* stand for.                                                              *)
LEMMA RunsCompared ==
    ASSUME NEW f, NEW g, IsFrame(f), IsFrame(g), NEW p, OneOffAt(f, g, p),
           NEW i \in 1 .. Len(f) - 1, i # p, RunEnd(f, i) # p
    PROVE  /\ RunEnd(g, i) = RunEnd(f, i)
           /\ i < p /\ p < RunEnd(f, i) => OneOff(Run(f, i), Run(g, i))
           /\ p < i \/ RunEnd(f, i) < p => Run(f, i) = Run(g, i)
  <1>1. f \in Seq(Byte) /\ g \in Seq(Byte)  BY DEF IsFrame
  <1>2. PICK n \in Nat : n = Len(f) /\ n = Len(g)  BY <1>1, LenProperties DEF OneOffAt
  <1>3. p \in 1 .. n /\ f[p] # g[p] /\ \A j \in 1 .. n : j # p => f[j] = g[j]
    BY <1>2 DEF OneOffAt
  <1>4. i \in 1 .. n - 1 /\ i \in 1 .. n  BY <1>2
  <1>5. f[i] = g[i] /\ f[i] # 0 /\ g[i] # 0
    <2>1. f[i] = g[i]  BY <1>3, <1>4
    <2>2. i # n  BY <1>4
    <2>3. f[i] # 0  BY <1>2, <1>4, <2>2 DEF IsFrame
    <2> QED  BY <2>1, <2>3
  <1>6. RunEnd(g, i) = RunEnd(f, i)  BY <1>2, <1>5 DEF RunEnd
  <1>7. /\ RunEnd(f, i) \in i + 1 .. Len(f)
        /\ Part1(f, i) \in Seq(Byte) /\ Len(Part1(f, i)) = RunEnd(f, i) - 1 - i
        /\ \A j \in 1 .. RunEnd(f, i) - 1 - i : Part1(f, i)[j] = f[i + j]
    BY <1>1, <1>5, RunFacts
  <1>8. /\ Part1(g, i) \in Seq(Byte) /\ Len(Part1(g, i)) = RunEnd(g, i) - 1 - i
        /\ \A j \in 1 .. RunEnd(g, i) - 1 - i : Part1(g, i)[j] = g[i + j]
    <2>1. i \in 1 .. Len(g) - 1  BY <1>2
    <2> QED  BY <1>1, <1>5, <2>1, RunFacts
  <1>9. PICK e \in i + 1 .. n : e = RunEnd(f, i) /\ e = RunEnd(g, i)  BY <1>2, <1>6, <1>7
  <1>10. PICK l \in Nat : l = e - 1 - i  BY <1>4
  <1>11. PICK a \in Seq(Byte) : a = Part1(f, i) /\ Len(a) = l /\ \A j \in 1 .. l : a[j] = f[i + j]
    BY <1>7, <1>9, <1>10
  <1>12. PICK b \in Seq(Byte) : b = Part1(g, i) /\ Len(b) = l /\ \A j \in 1 .. l : b[j] = g[i + j]
    BY <1>8, <1>9, <1>10
  <1>13. PICK z \in Seq(Byte) :
             /\ z = IF f[i] < MAX_CODE /\ RunEnd(f, i) < Len(f) THEN <<0>> ELSE <<>>
             /\ z = IF g[i] < MAX_CODE /\ RunEnd(g, i) < Len(g) THEN <<0>> ELSE <<>>
    <2>1. <<0>> \in Seq(Byte) /\ <<>> \in Seq(Byte)  BY DEF Byte
    <2> QED  BY <1>2, <1>5, <1>6, <2>1
  <1>14. Run(f, i) = a \o z /\ Run(g, i) = b \o z  BY <1>11, <1>12, <1>13 DEF Run, Part1
  <1>15. ASSUME i < p, p < e PROVE OneOff(Run(f, i), Run(g, i))
    <2>1. PICK k \in 1 .. l : p = i + k
      <3>1. p - i \in 1 .. l /\ p = i + (p - i)  BY <1>3, <1>4, <1>10, <1>15
      <3> QED  BY <3>1
    <2>2. a[k] # b[k]  BY <1>3, <1>11, <1>12, <2>1
    <2>3. ASSUME NEW j \in 1 .. l, j # k PROVE a[j] = b[j]
      <3>1. i + j \in 1 .. n /\ i + j # p  BY <1>4, <1>10, <2>1, <2>3
      <3> QED  BY <1>3, <1>11, <1>12, <3>1
    <2>4. OneOffAt(a, b, k)  BY <1>11, <1>12, <2>2, <2>3 DEF OneOffAt
    <2>5. OneOff(a, b)
      <3>1. k \in 1 .. Len(a)  BY <1>11
      <3> QED  BY <2>4, <3>1 DEF OneOff
    <2> QED  BY <1>14, <2>5, OneOffJoined
  <1>16. ASSUME p < i \/ e < p PROVE Run(f, i) = Run(g, i)
    <2>1. ASSUME NEW j \in 1 .. l PROVE a[j] = b[j]
      <3>1. i + j \in 1 .. n /\ i + j # p  BY <1>3, <1>4, <1>10, <1>16
      <3> QED  BY <1>3, <1>11, <1>12, <3>1
    <2>2. a = b  BY <1>11, <1>12, <2>1, SeqEqual
    <2> QED  BY <1>14, <2>2
  <1> QED  BY <1>6, <1>9, <1>15, <1>16

LEMMA DecodedCompared ==
    ASSUME NEW f, NEW g, IsFrame(f), IsFrame(g), NEW p, OneOffAt(f, g, p), RunByte(f, p)
    PROVE  OneOff(Decode(f), Decode(g))
  <1>1. f \in Seq(Byte) /\ g \in Seq(Byte)  BY DEF IsFrame
  <1>2. PICK n \in Nat \ {0} : n = Len(f) /\ n = Len(g)
    BY <1>1, EmptySeq DEF OneOffAt, IsFrame
  <1>3. PICK S : HoldsCodes(f, S) /\ p \notin S  BY DEF RunByte
  <1>4. S \subseteq 1 .. n /\ 1 \in S /\ \A i \in S : i < n => RunEnd(f, i) \in S
    BY <1>2, <1>3 DEF HoldsCodes
  <1>5. p \in 1 .. n /\ p # n
    <2>1. p \in 1 .. n /\ f[p] # g[p]  BY <1>2 DEF OneOffAt
    <2>2. n \in 1 .. n  OBVIOUS
    <2>3. f[n] = 0 /\ g[n] = 0  BY <1>2, <2>2 DEF IsFrame
    <2> QED  BY <2>1, <2>3
  <1>6. PICK D : /\ D = Decoded(f) /\ \A i \in 1 .. n : D[i] \in Seq(Byte)
                 /\ D[n] = <<>>
                 /\ \A i \in 1 .. n - 1 : D[i] = Run(f, i) \o D[RunEnd(f, i)]
    BY <1>2, DecodedFacts
  <1>7. PICK E : /\ E = Decoded(g) /\ \A i \in 1 .. n : E[i] \in Seq(Byte)
                 /\ E[n] = <<>>
                 /\ \A i \in 1 .. n - 1 : E[i] = Run(g, i) \o E[RunEnd(g, i)]
    <2>1. /\ \A i \in 1 .. Len(g) : Decoded(g)[i] \in Seq(Byte)
          /\ Decoded(g)[Len(g)] = <<>>
          /\ \A i \in 1 .. Len(g) - 1 : Decoded(g)[i] = Run(g, i) \o Decoded(g)[RunEnd(g, i)]
      BY DecodedFacts
    <2> QED  BY <1>2, <2>1
  <1> DEFINE T == {i \in 1 .. n : i \in S =>
                      IF i < p THEN OneOff(D[i], E[i]) ELSE D[i] = E[i]}
  <1>8. ASSUME NEW i \in 1 .. n, \A j \in i + 1 .. n : j \in T PROVE i \in T
    <2>1. SUFFICES ASSUME i \in S
                   PROVE  IF i < p THEN OneOff(D[i], E[i]) ELSE D[i] = E[i]
      OBVIOUS
    <2>2. CASE i = n
      <3>1. ~(i < p)  BY <1>5, <2>2
      <3> QED  BY <1>6, <1>7, <2>2, <3>1
    <2>3. CASE i # n
      <3>1. i \in 1 .. n - 1 /\ i < n /\ i # p  BY <1>3, <2>1, <2>3
      <3>2. RunEnd(f, i) \in S /\ RunEnd(f, i) # p  BY <1>3, <1>4, <2>1, <3>1
      <3>3. i \in 1 .. Len(f) - 1  BY <1>2, <3>1
      <3>4. f[i] # 0 /\ g[i] # 0 /\ i \in 1 .. Len(g) - 1
        BY <1>2, <3>1 DEF IsFrame
      <3>5. RunEnd(f, i) \in i + 1 .. Len(f) /\ Run(f, i) \in Seq(Byte)
        BY <1>1, <3>3, <3>4, RunFacts
      <3>6. Run(g, i) \in Seq(Byte)  BY <1>1, <3>4, RunFacts
      <3>7. PICK e \in i + 1 .. n : e = RunEnd(f, i) /\ e \in S /\ e # p  BY <1>2, <3>2, <3>5
      <3>8. /\ RunEnd(g, i) = e
            /\ i < p /\ p < e => OneOff(Run(f, i), Run(g, i))
            /\ p < i \/ e < p => Run(f, i) = Run(g, i)
        BY <3>1, <3>3, <3>7, RunsCompared
      <3>9. PICK r \in Seq(Byte), s \in Seq(Byte) : r = Run(f, i) /\ s = Run(g, i)  BY <3>5, <3>6
      <3>10. PICK d \in Seq(Byte), c \in Seq(Byte) : d = D[e] /\ c = E[e]
        <4>1. e \in 1 .. n  BY <3>7
        <4> QED  BY <1>6, <1>7, <4>1
      <3>11. D[i] = r \o d /\ E[i] = s \o c  BY <1>6, <1>7, <3>1, <3>7, <3>8, <3>9, <3>10
      <3>12. IF e < p THEN OneOff(d, c) ELSE d = c  BY <1>8, <3>7, <3>10
      <3>13. CASE p < i
        <4>1. ~(i < p) /\ ~(e < p)  BY <1>5, <3>7, <3>13
        <4>2. r = s /\ d = c  BY <3>8, <3>9, <3>12, <3>13, <4>1
        <4> QED  BY <3>11, <4>1, <4>2
      <3>14. CASE i < p /\ p < e
        <4>1. ~(e < p)  BY <1>5, <3>14
        <4>2. OneOff(r, s) /\ d = c  BY <3>8, <3>9, <3>12, <3>14, <4>1
        <4>3. OneOff(r \o d, s \o d)  BY <4>2, OneOffJoined
        <4> QED  BY <3>11, <3>14, <4>2, <4>3
      <3>15. CASE e < p
        <4>1. i < p  BY <1>5, <3>7, <3>15
        <4>2. r = s /\ OneOff(d, c)  BY <3>8, <3>9, <3>12, <3>15
        <4>3. OneOff(r \o d, r \o c)  BY <4>2, OneOffJoined
        <4> QED  BY <3>11, <4>1, <4>2, <4>3
      <3>16. p < i \/ (i < p /\ p < e) \/ e < p  BY <1>5, <3>1, <3>7
      <3> QED  BY <3>13, <3>14, <3>15, <3>16
    <2> QED  BY <2>2, <2>3
  <1>9. \A i \in 1 .. n : i \in T
    <2> HIDE DEF T
    <2> QED  BY <1>8, Descent, Zenon
  <1>10. 1 \in 1 .. n /\ 1 < p
    <2>1. p # 1  BY <1>3, <1>4
    <2> QED  BY <1>5, <2>1
  <1>11. OneOff(D[1], E[1])  BY <1>4, <1>9, <1>10
  <1>12. Decode(f) = D[1] /\ Decode(g) = E[1]
    <2>1. n \in 1 .. n /\ \A j \in 1 .. n - 1 : j \in 1 .. n /\ j # n  OBVIOUS
    <2>2. f # <<>> /\ f[n] = 0 /\ ~\E j \in 1 .. n - 1 : f[j] = 0
      BY <1>2, <2>1 DEF IsFrame
    <2>3. g # <<>> /\ g[n] = 0 /\ ~\E j \in 1 .. n - 1 : g[j] = 0
      BY <1>2, <2>1 DEF IsFrame
    <2> QED  BY <1>2, <1>6, <1>7, <2>2, <2>3 DEF Decode
  <1> QED  BY <1>11, <1>12

(* A frame that a zero cuts inside a run.                                  *)
CutAt(f, g, p) ==
    /\ g \in Seq(Byte) /\ Len(g) = p
    /\ \A j \in 1 .. p : g[j] = IF j = p THEN 0 ELSE f[j]

LEMMA CutRun ==
    ASSUME NEW f, IsFrame(f), NEW p \in 1 .. Len(f) - 1, NEW g, CutAt(f, g, p), IsFrame(g),
           NEW i \in 1 .. p - 1, RunEnd(f, i) # p
    PROVE  \/ /\ RunEnd(f, i) < p /\ RunEnd(g, i) = RunEnd(f, i) /\ Run(g, i) = Run(f, i)
              /\ RunEnd(f, i) \in i + 1 .. p - 1 /\ Run(f, i) \in Seq(Byte)
           \/ /\ RunEnd(g, i) = p /\ Run(g, i) \in Seq(Byte) /\ Run(f, i) \in Seq(Byte)
              /\ RunEnd(f, i) \in 1 .. Len(f)
              /\ Len(Run(g, i)) < Len(Run(f, i))
  <1>1. f \in Seq(Byte) /\ g \in Seq(Byte)  BY DEF IsFrame
  <1>2. PICK n \in Nat : n = Len(f)  BY <1>1, LenProperties
  <1>3. p \in 1 .. n - 1 /\ Len(g) = p /\ \A j \in 1 .. p : g[j] = IF j = p THEN 0 ELSE f[j]
    BY <1>2 DEF CutAt
  <1>4. i \in 1 .. p - 1 /\ i \in 1 .. n - 1 /\ i \in 1 .. p /\ i # p /\ i \in 1 .. n /\ i # n
    BY <1>3
  <1>5. PICK c \in Nat : c = f[i] /\ c = g[i] /\ c > 0
    <2>1. f[i] # 0  BY <1>2, <1>4 DEF IsFrame
    <2>2. f[i] \in Byte  BY <1>1, <1>2, <1>4, ElementOfSeq
    <2>3. f[i] = g[i]  BY <1>3, <1>4
    <2>4. \A x \in Byte : x \in Nat /\ (x # 0 => x > 0)  BY DEF Byte
    <2> QED  BY <2>1, <2>2, <2>3, <2>4
  <1>6. /\ RunEnd(f, i) = IF i + c > n - 1 THEN n ELSE i + c
        /\ RunEnd(g, i) = IF i + c > p - 1 THEN p ELSE i + c
    BY <1>2, <1>3, <1>5 DEF RunEnd
  <1>7. PICK e \in 1 .. n, d \in 1 .. p :
            e = RunEnd(f, i) /\ d = RunEnd(g, i) /\ e # p /\ i < e /\ i < d
    <2>1. (IF i + c > n - 1 THEN n ELSE i + c) \in i + 1 .. n  BY <1>4, <1>5
    <2>2. (IF i + c > p - 1 THEN p ELSE i + c) \in i + 1 .. p  BY <1>3, <1>4, <1>5
    <2>3. RunEnd(f, i) \in i + 1 .. n /\ RunEnd(g, i) \in i + 1 .. p  BY <1>6, <2>1, <2>2
    <2>4. \A x \in i + 1 .. n : x \in 1 .. n /\ i < x  BY <1>4
    <2>5. \A x \in i + 1 .. p : x \in 1 .. p /\ i < x  BY <1>3, <1>4
    <2> QED  BY <2>3, <2>4, <2>5
  <1>8. /\ Run(f, i) \in Seq(Byte) /\ Part1(f, i) \in Seq(Byte) /\ Len(Part1(f, i)) = e - 1 - i
        /\ \A j \in 1 .. e - 1 - i : Part1(f, i)[j] = f[i + j]
    <2>1. i \in 1 .. Len(f) - 1 /\ f[i] # 0  BY <1>2, <1>4, <1>5
    <2> QED  BY <1>1, <1>7, <2>1, RunFacts
  <1>9. /\ Run(g, i) \in Seq(Byte) /\ Part1(g, i) \in Seq(Byte) /\ Len(Part1(g, i)) = d - 1 - i
        /\ \A j \in 1 .. d - 1 - i : Part1(g, i)[j] = g[i + j]
    <2>1. i \in 1 .. Len(g) - 1 /\ g[i] # 0  BY <1>3, <1>4, <1>5
    <2> QED  BY <1>1, <1>7, <2>1, RunFacts
  <1>10. CASE e < p
    <2>1. e = i + c  BY <1>3, <1>6, <1>7, <1>10
    <2>2. d = e  BY <1>3, <1>4, <1>6, <1>7, <1>10, <2>1
    <2>3. Part1(g, i) = Part1(f, i)
      <3>1. PICK l \in Nat : l = e - 1 - i  BY <1>4, <1>7
      <3>2. ASSUME NEW j \in 1 .. l PROVE Part1(f, i)[j] = Part1(g, i)[j]
        <4>1. i + j \in 1 .. p /\ i + j # p  BY <1>3, <1>4, <1>10, <3>1
        <4> QED  BY <1>3, <1>8, <1>9, <2>2, <3>1, <4>1
      <3> QED  BY <1>8, <1>9, <2>2, <3>1, <3>2, SeqEqual
    <2>4. e < n  BY <1>3, <1>7, <1>10
    <2>5. Run(g, i) = Run(f, i)
      BY <1>2, <1>3, <1>5, <1>7, <1>10, <2>2, <2>3, <2>4 DEF Run, Part1
    <2>6. e \in i + 1 .. p - 1  BY <1>3, <1>4, <1>7, <1>10
    <2> QED  BY <1>7, <1>8, <1>10, <2>2, <2>5, <2>6
  <1>11. CASE p < e
    <2>1. d = p  BY <1>3, <1>4, <1>6, <1>7, <1>11
    <2>2. Run(g, i) = Part1(g, i)
      <3>1. Run(g, i) = Part1(g, i) \o <<>>  BY <1>3, <1>7, <2>1 DEF Run, Part1
      <3> QED  BY <1>9, <3>1, ConcatEmptySeq
    <2>3. Len(Run(f, i)) >= e - 1 - i
      <3>1. PICK z \in Seq(Byte) : Run(f, i) = Part1(f, i) \o z
        <4>1. <<0>> \in Seq(Byte) /\ <<>> \in Seq(Byte)  BY DEF Byte
        <4> QED  BY <4>1 DEF Run, Part1
      <3>2. Len(Part1(f, i) \o z) = Len(Part1(f, i)) + Len(z) /\ Len(z) \in Nat
        BY <1>8, Joined
      <3> QED  BY <1>4, <1>7, <1>8, <3>1, <3>2
    <2>4. Len(Run(g, i)) = p - 1 - i  BY <1>9, <2>1, <2>2
    <2>5. PICK m \in Nat : m = Len(Run(f, i))  BY <1>8, LenProperties
    <2>6. p - 1 - i < m  BY <1>3, <1>4, <1>7, <1>11, <2>3, <2>5
    <2> QED  BY <1>2, <1>7, <1>8, <1>9, <2>1, <2>4, <2>5, <2>6
  <1> QED  BY <1>3, <1>7, <1>10, <1>11

LEMMA CutShorter ==
    ASSUME NEW f, IsFrame(f), NEW p \in 1 .. Len(f) - 1, RunByte(f, p),
           NEW g, CutAt(f, g, p), IsFrame(g)
    PROVE  Decode(g) \in Seq(Byte) /\ Len(Decode(g)) < Len(Decode(f))
  <1>1. f \in Seq(Byte) /\ g \in Seq(Byte)  BY DEF IsFrame
  <1>2. PICK n \in Nat : n = Len(f)  BY <1>1, LenProperties
  <1>3. p \in 1 .. n - 1 /\ p \in Nat /\ p < n /\ Len(g) = p  BY <1>2 DEF CutAt
  <1>4. PICK S : HoldsCodes(f, S) /\ p \notin S  BY DEF RunByte
  <1>5. S \subseteq 1 .. n /\ 1 \in S /\ \A i \in S : i < n => RunEnd(f, i) \in S
    BY <1>2, <1>4 DEF HoldsCodes
  <1>6. PICK D : /\ D = Decoded(f) /\ \A i \in 1 .. n : D[i] \in Seq(Byte)
                 /\ \A i \in 1 .. n - 1 : D[i] = Run(f, i) \o D[RunEnd(f, i)]
    BY <1>2, DecodedFacts
  <1>7. PICK E : /\ E = Decoded(g) /\ \A i \in 1 .. p : E[i] \in Seq(Byte)
                 /\ E[p] = <<>>
                 /\ \A i \in 1 .. p - 1 : E[i] = Run(g, i) \o E[RunEnd(g, i)]
    <2>1. /\ \A i \in 1 .. Len(g) : Decoded(g)[i] \in Seq(Byte)
          /\ Decoded(g)[Len(g)] = <<>>
          /\ \A i \in 1 .. Len(g) - 1 : Decoded(g)[i] = Run(g, i) \o Decoded(g)[RunEnd(g, i)]
      BY DecodedFacts
    <2> QED  BY <1>3, <2>1
  <1>8. PICK q \in Nat : q = p - 1  BY <1>3
  <1> DEFINE T == {i \in 1 .. q : i \in S => Len(E[i]) < Len(D[i])}
  <1>9. ASSUME NEW i \in 1 .. q, \A j \in i + 1 .. q : j \in T PROVE i \in T
    <2>1. SUFFICES ASSUME i \in S PROVE Len(E[i]) < Len(D[i])  OBVIOUS
    <2>2. i \in 1 .. p - 1 /\ i \in 1 .. n - 1 /\ i < n  BY <1>3, <1>8
    <2>3. RunEnd(f, i) \in S /\ RunEnd(f, i) # p  BY <1>4, <1>5, <2>1, <2>2
    <2>4. D[i] = Run(f, i) \o D[RunEnd(f, i)] /\ E[i] = Run(g, i) \o E[RunEnd(g, i)]
      BY <1>6, <1>7, <2>2
    <2>5. CASE /\ RunEnd(f, i) < p /\ RunEnd(g, i) = RunEnd(f, i) /\ Run(g, i) = Run(f, i)
               /\ RunEnd(f, i) \in i + 1 .. p - 1 /\ Run(f, i) \in Seq(Byte)
      <3>1. PICK e \in i + 1 .. q : e = RunEnd(f, i) /\ e \in S  BY <1>8, <2>3, <2>5
      <3>2. e \in 1 .. n /\ e \in 1 .. p  BY <1>3, <1>8, <3>1
      <3>3. PICK r \in Seq(Byte), d \in Seq(Byte), c \in Seq(Byte) :
                r = Run(f, i) /\ d = D[e] /\ c = E[e]
        BY <1>6, <1>7, <2>5, <3>2
      <3>4. Len(c) < Len(d)  BY <1>9, <3>1, <3>3
      <3>5. D[i] = r \o d /\ E[i] = r \o c  BY <2>4, <2>5, <3>1, <3>3
      <3>6. /\ Len(r \o d) = Len(r) + Len(d) /\ Len(r \o c) = Len(r) + Len(c)
            /\ Len(r) \in Nat /\ Len(d) \in Nat /\ Len(c) \in Nat
        BY Joined
      <3> QED  BY <3>4, <3>5, <3>6
    <2>6. CASE /\ RunEnd(g, i) = p /\ Run(g, i) \in Seq(Byte) /\ Run(f, i) \in Seq(Byte)
               /\ RunEnd(f, i) \in 1 .. Len(f)
               /\ Len(Run(g, i)) < Len(Run(f, i))
      <3>1. PICK r \in Seq(Byte), s \in Seq(Byte), d \in Seq(Byte) :
                r = Run(f, i) /\ s = Run(g, i) /\ d = D[RunEnd(f, i)]
        BY <1>2, <1>6, <2>6
      <3>2. E[i] = s
        <4>1. E[i] = s \o <<>>  BY <1>7, <2>4, <2>6, <3>1
        <4> QED  BY <4>1, ConcatEmptySeq
      <3>3. D[i] = r \o d  BY <2>4, <3>1
      <3>4. Len(r \o d) = Len(r) + Len(d) /\ Len(r) \in Nat /\ Len(d) \in Nat  BY Joined
      <3>5. Len(s) \in Nat /\ Len(s) < Len(r)  BY <2>6, <3>1, LenProperties
      <3> QED  BY <3>2, <3>3, <3>4, <3>5
    <2>7. i \in 1 .. p - 1 /\ p \in 1 .. Len(f) - 1  BY <2>2
    <2> QED  BY <2>3, <2>5, <2>6, <2>7, CutRun
  <1>10. \A i \in 1 .. q : i \in T
    <2> HIDE DEF T
    <2> QED  BY <1>9, Descent, Zenon
  <1>11. p # 1 /\ 1 \in 1 .. q  BY <1>3, <1>4, <1>5, <1>8
  <1>12. Len(E[1]) < Len(D[1])  BY <1>5, <1>10, <1>11
  <1>13. Decode(f) = D[1]
    <2>1. n \in 1 .. n /\ \A j \in 1 .. n - 1 : j \in 1 .. n /\ j # n  BY <1>3
    <2>2. f # <<>> /\ f[n] = 0 /\ ~\E j \in 1 .. n - 1 : f[j] = 0
      BY <1>2, <2>1 DEF IsFrame
    <2> QED  BY <1>2, <1>6, <2>2 DEF Decode
  <1>14. Decode(g) = E[1] /\ E[1] \in Seq(Byte)
    <2>1. p \in 1 .. p /\ 1 \in 1 .. p /\ \A j \in 1 .. p - 1 : j \in 1 .. p /\ j # p
      BY <1>3
    <2>2. g # <<>> /\ g[p] = 0 /\ ~\E j \in 1 .. p - 1 : g[j] = 0
      BY <1>3, <2>1 DEF IsFrame
    <2> QED  BY <1>3, <1>7, <2>1, <2>2 DEF Decode
  <1> QED  BY <1>12, <1>13, <1>14

LEMMA ShortRefused ==
    ASSUME NEW raw, Passes(raw), NEW s, s = <<>> \/ OneOff(raw, s) \/ Len(s) < Len(raw)
    PROVE  ~Passes(s)
  <1>1. CASE s = <<>>
    <2>1. PICK u \in Nat, q \in Nat : PACKET_FIXED_SIZE = 15 + u + q  BY Sizes
    <2>2. Len(<<>>) = 0 /\ 15 + u + q # 0  OBVIOUS
    <2>3. Len(s) # PACKET_FIXED_SIZE  BY <1>1, <2>1, <2>2
    <2> QED  BY <2>3 DEF Passes
  <1>2. CASE OneOff(raw, s)  BY <1>2, OneByteDetected
  <1>3. CASE Len(s) < Len(raw)
    <2>1. PICK u \in Nat, q \in Nat : PACKET_FIXED_SIZE = 15 + u + q  BY Sizes
    <2>2. PICK n \in Nat : n = PACKET_FIXED_SIZE  BY <2>1
    <2>3. Len(raw) = n  BY <2>2 DEF Passes
    <2>4. Len(s) # n  BY <1>3, <2>3
    <2> QED  BY <2>2, <2>4 DEF Passes
  <1> QED  BY <1>1, <1>2, <1>3

(* A packet whose frame has been changed in one byte is taken by neither   *)
(* end, whatever the byte became, unless it was a code of the framing; the *)
(* zero at its end may be the changed one.  The readers cut the frame at   *)
(* its first zero, decode what they have and compare size and checksum     *)
(* (loop, handle_binary_packet, the receivers of the libraries).           *)
THEOREM ChangedByteRejected ==
    ASSUME NEW raw, IsRaw(raw), Passes(raw),
           NEW p, RunByte(Encode(raw), p) \/ p = Len(Encode(raw)),
           NEW b \in Byte, b # Encode(raw)[p]
    PROVE  LET frame == FirstFrame([Encode(raw) EXCEPT ![p] = b])
           IN  ~DeviceReads(frame).taken /\ ~HostReads(frame).taken
  <1>1. raw \in Seq(Byte)  BY DEF IsRaw
  <1>2. PICK f \in Seq(Byte) : f = Encode(raw) /\ IsFrame(f) /\ Decode(f) = raw
    BY <1>1, EncodeShape, RoundTrip DEF IsFrame
  <1>3. PICK n \in Nat \ {0} : n = Len(f)  BY <1>2, EmptySeq DEF IsFrame
  <1>4. p \in 1 .. n
    <2>1. RunByte(f, p) => p \in 1 .. n  BY <1>3 DEF RunByte
    <2>2. n \in 1 .. n  BY <1>3
    <2> QED  BY <1>2, <1>3, <2>1, <2>2
  <1>5. PICK g \in Seq(Byte) :
            /\ g = [f EXCEPT ![p] = b] /\ Len(g) = n
            /\ \A j \in 1 .. n : g[j] = IF j = p THEN b ELSE f[j]
    <2>1. p \in 1 .. Len(f)  BY <1>3, <1>4
    <2>2. /\ [f EXCEPT ![p] = b] \in Seq(Byte)
          /\ Len([f EXCEPT ![p] = b]) = Len(f)
          /\ \A j \in 1 .. Len(f) : [f EXCEPT ![p] = b][j] = IF j = p THEN b ELSE f[j]
      BY <2>1, ExceptSeq
    <2> QED  BY <1>3, <2>2
  <1>6. g[p] = b /\ f[p] # b  BY <1>2, <1>4, <1>5
  <1>7. \A j \in 1 .. n : f[j] = 0 <=> j = n  BY <1>2, <1>3 DEF IsFrame
  <1>8. p # n => RunByte(f, p)  BY <1>2, <1>3
  <1>9. Len(<<>>) = 0  OBVIOUS
  <1>10. SUFFICES \E s : Decode(FirstFrame(g)) = s /\ ~Passes(s)
    <2>1. ASSUME NEW s, Decode(FirstFrame(g)) = s, ~Passes(s)
          PROVE  ~DeviceReads(FirstFrame(g)).taken /\ ~HostReads(FirstFrame(g)).taken
      BY <2>1 DEF DeviceReads, HostReads, Nothing
    <2>2. FirstFrame([Encode(raw) EXCEPT ![p] = b]) = FirstFrame(g)  BY <1>2, <1>5
    <2> QED  BY <2>1, <2>2
  (* Changed to what is not a zero                                         *)
  <1>11. CASE p # n /\ b # 0
    <2>1. \A j \in 1 .. n : g[j] = 0 <=> j = n  BY <1>5, <1>7, <1>11
    <2>2. IsFrame(g)  BY <1>5, <1>9, <2>1 DEF IsFrame
    <2>3. OneOffAt(f, g, p)  BY <1>3, <1>4, <1>5, <1>6 DEF OneOffAt
    <2>4. OneOff(raw, Decode(g))  BY <1>2, <1>8, <1>11, <2>2, <2>3, DecodedCompared
    <2>5. ~Passes(Decode(g))  BY <2>4, ShortRefused
    <2>6. FirstFrame(g) = g  BY <2>2, FrameFirst
    <2> QED  BY <2>5, <2>6
  (* Changed to a zero: the frame ends there                               *)
  <1>12. CASE p # n /\ b = 0
    <2>1. p \in 1 .. n - 1  BY <1>4, <1>12
    <2>2. g[p] = 0 /\ \A j \in 1 .. n : j < p => g[j] # 0
      <3>1. \A j \in 1 .. n : j < p => j # p /\ j # n  BY <2>1
      <3> QED  BY <1>5, <1>6, <1>7, <1>12, <3>1
    <2>3. PICK c \in Seq(Byte) : c = FirstFrame(g) /\ Len(c) = p /\ c = SubSeq(g, 1, p)
      <3>1. p \in 1 .. n  BY <1>4
      <3>2. \/ FirstFrame(g) = <<>> /\ \A j \in 1 .. Len(g) : g[j] # 0
            \/ \E z \in 1 .. Len(g) :
                  /\ g[z] = 0 /\ \A j \in 1 .. Len(g) : j < z => g[j] # 0
                  /\ FirstFrame(g) = SubSeq(g, 1, z) /\ FirstFrame(g) \in Seq(Byte)
                  /\ Len(FirstFrame(g)) = z /\ FirstFrame(g) # <<>>
                  /\ Rest(g) = SubSeq(g, z + 1, Len(g))
        BY FirstFrameFacts
      <3>3. PICK z \in 1 .. n :
                /\ g[z] = 0 /\ \A j \in 1 .. n : j < z => g[j] # 0
                /\ FirstFrame(g) = SubSeq(g, 1, z) /\ FirstFrame(g) \in Seq(Byte)
                /\ Len(FirstFrame(g)) = z
        BY <1>5, <2>2, <3>1, <3>2
      <3>4. ~(z < p) /\ ~(p < z)  BY <2>2, <3>1, <3>3
      <3>5. z = p  BY <3>1, <3>4
      <3> QED  BY <3>3, <3>5
    <2>4. \A j \in 1 .. p : c[j] = g[j]
      <3>1. 0 \in Nat /\ 0 <= p /\ p \in 0 .. Len(g) /\ p - 0 = p /\ 0 + 1 = 1  BY <1>5, <2>1
      <3>2. \A j \in 1 .. p - 0 : SubSeq(g, 0 + 1, p)[j] = g[0 + j]  BY <3>1, Part
      <3>3. \A j \in 1 .. p : 0 + j = j  BY <2>1
      <3> QED  BY <2>3, <3>1, <3>2, <3>3
    <2>5. \A j \in 1 .. p : j \in 1 .. n /\ j # n  BY <2>1
    <2>6. \A j \in 1 .. p : c[j] = IF j = p THEN 0 ELSE f[j]  BY <1>5, <1>12, <2>4, <2>5
    <2>7. \A j \in 1 .. p : c[j] = 0 <=> j = p
      <3> TAKE j \in 1 .. p
      <3>1. f[j] # 0  BY <1>7, <2>5
      <3>2. c[j] = IF j = p THEN 0 ELSE f[j]  BY <2>6
      <3> QED  BY <3>1, <3>2
    <2>8. IsFrame(c)
      <3>1. p # 0  BY <2>1
      <3>2. c # <<>>  BY <1>9, <2>3, <3>1
      <3> QED  BY <2>3, <2>7, <3>2 DEF IsFrame
    <2>9. CutAt(f, c, p)  BY <2>3, <2>6 DEF CutAt
    <2>10. Len(Decode(c)) < Len(raw)
      <3>1. p \in 1 .. Len(f) - 1  BY <1>3, <2>1
      <3> QED  BY <1>2, <1>8, <1>12, <2>8, <2>9, <3>1, CutShorter
    <2>11. ~Passes(Decode(c))  BY <2>10, ShortRefused
    <2> QED  BY <2>3, <2>11
  (* The end of the frame changed: nothing ends it                         *)
  <1>13. CASE p = n
    <2>1. b # 0
      <3>1. f[n] = 0  BY <1>4, <1>7, <1>13
      <3> QED  BY <1>6, <1>13, <3>1
    <2>2. \A j \in 1 .. n : g[j] # 0  BY <1>5, <1>7, <1>13, <2>1
    <2>3. FirstFrame(g) = <<>>  BY <1>5, <2>2, FirstFrameFacts
    <2>4. Decode(<<>>) = <<>>  BY DEF Decode
    <2>5. ~Passes(<<>>)  BY ShortRefused
    <2> QED  BY <2>3, <2>4, <2>5
  <1> QED  BY <1>11, <1>12, <1>13
=============================================================================
