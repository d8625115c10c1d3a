----------------------------- MODULE LogBuffer -----------------------------
(***************************************************************************)
(* The log: a buffer in memory that both cores append to without a lock,   *)
(* emptied into a file that is cut when it grows too long.  The unit of    *)
(* every length is a line with its line end.  Each load and each store of  *)
(* log_buffer_len that the compiled code makes is a step of its own.       *)
(***************************************************************************)
EXTENDS Naturals, Sequences

CONSTANTS
    Cores,                  \* 0 the transmission task, 1 loop()
    LOG_BUFFER_SIZE,
    LOG_FLUSH_THRESHOLD,
    MAX_LOG_FILE_SIZE,
    LOG_TRUNCATE_SIZE,
    MaxLines                \* bound: what is logged in a run

ASSUME LogAssumption ==
    /\ {LOG_BUFFER_SIZE, LOG_FLUSH_THRESHOLD, MAX_LOG_FILE_SIZE, LOG_TRUNCATE_SIZE,
        MaxLines} \subseteq Nat \ {0}
    /\ LOG_FLUSH_THRESHOLD < LOG_BUFFER_SIZE
    /\ LOG_TRUNCATE_SIZE < MAX_LOG_FILE_SIZE
    /\ Cores \subseteq {0, 1} /\ 1 \in Cores

VARIABLES
    log_buffer,         \* the lines at 0 .. LOG_BUFFER_SIZE - 1
    log_buffer_len,
    file,               \* the log file, a sequence of lines; <<>> when there is none
    pc,                 \* where each core is
    msg,                \* the line a core appends
    loaded,             \* the length a core has loaded
    kept,               \* what a core has read of the file to keep
    back,               \* where a core goes on after a flush
    lines,              \* how many lines were logged
    overlapped,         \* both cores have been in here at once
    lost,               \* a line may be missing: a reset, or a file that did not open
    uncut               \* a flush ended before it had cut the file it made longer

bufferVars == <<log_buffer, log_buffer_len>>
coreVars == <<pc, msg, loaded, kept, back>>
history == <<lines, overlapped, lost, uncut>>
vars == <<bufferVars, file, coreVars, history>>

Places == {"away", "check", "room", "copy", "load", "grow", "threshold",
           "flush", "empty", "size", "trim", "rewrite", "print"}

Init ==
    /\ log_buffer = [i \in 0 .. LOG_BUFFER_SIZE - 1 |-> 0]
    /\ log_buffer_len = 0
    /\ file = <<>>
    /\ pc = [c \in Cores |-> "away"]
    /\ msg = [c \in Cores |-> 0]
    /\ loaded = [c \in Cores |-> 0]
    /\ kept = [c \in Cores |-> <<>>]
    /\ back = [c \in Cores |-> "away"]
    /\ lines = 0
    /\ overlapped = FALSE
    /\ lost = FALSE
    /\ uncut = FALSE

Goes(c, from, to) == pc[c] = from /\ pc' = [pc EXCEPT ![c] = to]

Flushes(c, from, next) ==
    Goes(c, from, "flush") /\ back' = [back EXCEPT ![c] = next]

Enters(c) == overlapped' = (overlapped \/ \E d \in Cores \ {c} : pc[d] # "away")

-----------------------------------------------------------------------------
(* append_to_log_file                                                      *)

logMessage(c) ==
    /\ lines < MaxLines
    /\ Goes(c, "away", "check")
    /\ msg' = [msg EXCEPT ![c] = lines + 1]
    /\ lines' = lines + 1
    /\ Enters(c)
    /\ UNCHANGED <<bufferVars, file, loaded, kept, back, lost, uncut>>

CheckSpace(c) ==
    /\ IF log_buffer_len + 1 >= LOG_BUFFER_SIZE
       THEN Flushes(c, "check", "room")
       ELSE Goes(c, "check", "room") /\ back' = back
    /\ UNCHANGED <<bufferVars, file, msg, loaded, kept, history>>

(* The difference is unsigned: at the end of the buffer it is huge.        *)
CheckRoom(c) ==
    /\ IF log_buffer_len + 1 < LOG_BUFFER_SIZE \/ log_buffer_len >= LOG_BUFFER_SIZE
       THEN Goes(c, "room", "copy") ELSE Goes(c, "room", "threshold")
    /\ UNCHANGED <<bufferVars, file, msg, loaded, kept, back, history>>

(* The terminator stands behind the line.                                  *)
CopyText(c) ==
    /\ Goes(c, "copy", "load")
    /\ log_buffer' = [i \in DOMAIN log_buffer |->
                          IF i = log_buffer_len THEN msg[c] ELSE log_buffer[i]]
    /\ msg' = [msg EXCEPT ![c] = 0]
    /\ UNCHANGED <<log_buffer_len, file, loaded, kept, back, history>>

LoadLength(c) ==
    /\ Goes(c, "load", "grow")
    /\ loaded' = [loaded EXCEPT ![c] = log_buffer_len]
    /\ UNCHANGED <<bufferVars, file, msg, kept, back, history>>

(* The text's length, the line end and its terminator: two stores of       *)
(* values computed from one load.                                          *)
GrowLength(c) ==
    /\ Goes(c, "grow", "threshold")
    /\ log_buffer_len' = loaded[c] + 1
    /\ loaded' = [loaded EXCEPT ![c] = 0]
    /\ UNCHANGED <<log_buffer, file, msg, kept, back, history>>

CheckThreshold(c) ==
    /\ IF log_buffer_len >= LOG_FLUSH_THRESHOLD
       THEN Flushes(c, "threshold", "away")
       ELSE Goes(c, "threshold", "away") /\ back' = back
    /\ msg' = [msg EXCEPT ![c] = 0]
    /\ UNCHANGED <<bufferVars, file, loaded, kept, history>>

-----------------------------------------------------------------------------
(* flush_log_buffer_to_spiffs                                              *)

Returns(c, from) ==
    Goes(c, from, back[c]) /\ back' = [back EXCEPT ![c] = "away"]

FlushNothing(c) ==
    /\ log_buffer_len = 0
    /\ Returns(c, "flush")
    /\ UNCHANGED <<bufferVars, file, msg, loaded, kept, history>>

(* The file does not open: what the buffer holds is gone.                  *)
FlushFails(c) ==
    /\ log_buffer_len > 0
    /\ Returns(c, "flush")
    /\ log_buffer_len' = 0
    /\ lost' = TRUE
    /\ UNCHANGED <<log_buffer, file, msg, loaded, kept, lines, overlapped, uncut>>

(* What the buffer holds; behind its end there is no saying.               *)
Buffered ==
    [i \in 1 .. log_buffer_len |-> IF i <= LOG_BUFFER_SIZE THEN log_buffer[i - 1] ELSE 0]

FlushWrite(c) ==
    /\ log_buffer_len > 0
    /\ Goes(c, "flush", "empty")
    /\ file' = file \o Buffered
    /\ UNCHANGED <<bufferVars, msg, loaded, kept, back, history>>

(* Mutant: the buffer is not emptied once it is in the file.               *)
FlushEmptyForgotten(c) ==
    /\ Goes(c, "empty", "size")
    /\ UNCHANGED <<bufferVars, file, msg, loaded, kept, back, history>>

FlushEmpty(c) ==
    /\ Goes(c, "empty", "size")
    /\ log_buffer_len' = 0
    /\ UNCHANGED <<log_buffer, file, msg, loaded, kept, back, history>>

CheckSize(c) ==
    /\ IF Len(file) > MAX_LOG_FILE_SIZE
       THEN Goes(c, "size", "trim") /\ back' = back /\ uncut' = uncut
       ELSE Returns(c, "size") /\ uncut' = FALSE
    /\ UNCHANGED <<bufferVars, file, msg, loaded, kept, lines, overlapped, lost>>

(* The file does not open a second time, to be measured, to be read or to  *)
(* be written anew: it stays as long as it is.                             *)
Leaves(c, from) ==
    /\ Returns(c, from)
    /\ kept' = [kept EXCEPT ![c] = <<>>]
    /\ uncut' = TRUE
    /\ UNCHANGED <<bufferVars, file, msg, loaded, lines, overlapped, lost>>

CheckSizeFails(c) == Leaves(c, "size")

flush_log_buffer_if_due(c) ==
    /\ c = 1 /\ log_buffer_len > 0
    /\ Flushes(c, "away", "away")
    /\ Enters(c)
    /\ UNCHANGED <<bufferVars, file, msg, loaded, kept, lines, lost, uncut>>

-----------------------------------------------------------------------------
(* trim_log_file keeps what follows the first line end among the last      *)
(* LOG_TRUNCATE_SIZE, and writes the file anew.                            *)

(* Mutant: what is to be skipped is what is kept.                          *)
TailSwapped(f) == SubSeq(f, 1, Len(f) - LOG_TRUNCATE_SIZE)

(* Mutant: nothing is skipped but the first line.                          *)
TailFromStart(f) == SubSeq(f, 2, Len(f))

Tail_(f) == SubSeq(f, Len(f) - LOG_TRUNCATE_SIZE + 2, Len(f))

TrimRead(c) ==
    /\ IF Len(file) > MAX_LOG_FILE_SIZE
       THEN /\ Goes(c, "trim", "rewrite") /\ back' = back /\ uncut' = uncut
            /\ kept' = [kept EXCEPT ![c] = Tail_(file)]
       ELSE Returns(c, "trim") /\ kept' = kept /\ uncut' = FALSE
    /\ UNCHANGED <<bufferVars, file, msg, loaded, lines, overlapped, lost>>

TrimReadFails(c) == Leaves(c, "trim")

TrimOpen(c) ==
    /\ Goes(c, "rewrite", "print")
    /\ file' = <<>>
    /\ UNCHANGED <<bufferVars, msg, loaded, kept, back, history>>

TrimOpenFails(c) == Leaves(c, "rewrite")

TrimWrite(c) ==
    /\ Returns(c, "print")
    /\ file' = file \o kept[c]
    /\ kept' = [kept EXCEPT ![c] = <<>>]
    /\ uncut' = FALSE
    /\ UNCHANGED <<bufferVars, msg, loaded, lines, overlapped, lost>>

-----------------------------------------------------------------------------

(* AT+RMLOG, on Core 1 between two commands                                *)
delete_log_file ==
    /\ pc[1] = "away"
    /\ file # <<>>
    /\ file' = <<>>
    /\ UNCHANGED <<bufferVars, coreVars, history>>

(* logging_init; the file keeps what it has, be it longer than the cut     *)
(* that was to come would have left it.                                    *)
Restart ==
    /\ log_buffer' = [i \in DOMAIN log_buffer |-> 0]
    /\ log_buffer_len' = 0
    /\ pc' = [c \in Cores |-> "away"]
    /\ msg' = [c \in Cores |-> 0]
    /\ loaded' = [c \in Cores |-> 0]
    /\ kept' = [c \in Cores |-> <<>>]
    /\ back' = [c \in Cores |-> "away"]
    /\ lost' = TRUE
    /\ uncut' = (uncut \/ \E c \in Cores : pc[c] \in {"empty", "size", "trim", "rewrite"})
    /\ UNCHANGED <<file, lines, overlapped>>

Step(c) ==
    \/ logMessage(c) \/ CheckSpace(c) \/ CheckRoom(c) \/ CopyText(c)
    \/ LoadLength(c) \/ GrowLength(c) \/ CheckThreshold(c)
    \/ FlushNothing(c) \/ FlushFails(c) \/ FlushWrite(c) \/ FlushEmpty(c)
    \/ CheckSize(c) \/ CheckSizeFails(c) \/ flush_log_buffer_if_due(c)
    \/ TrimRead(c) \/ TrimReadFails(c)
    \/ TrimOpen(c) \/ TrimOpenFails(c) \/ TrimWrite(c)

Next == (\E c \in Cores : Step(c)) \/ delete_log_file \/ Restart

Spec == Init /\ [][Next]_vars

-----------------------------------------------------------------------------

(* Types, also while the cores are in each other's way: what a line is     *)
(* kept for, and that a cut keeps less than LOG_TRUNCATE_SIZE.             *)
TypeOK ==
    /\ log_buffer \in [0 .. LOG_BUFFER_SIZE - 1 -> 0 .. MaxLines]
    /\ log_buffer_len \in 0 .. 2 * MaxLines
    /\ \A i \in DOMAIN file : file[i] \in 0 .. MaxLines
    /\ pc \in [Cores -> Places] /\ back \in [Cores -> {"away", "room"}]
    /\ \A c \in Cores : msg[c] > 0 => pc[c] \in {"check", "room", "copy", "threshold"}
                                              \/ back[c] = "room"
    /\ \A c \in Cores : Len(kept[c]) < LOG_TRUNCATE_SIZE

(* As long as the cores never met in here and nothing was lost to a reset  *)
(* or to a file that did not open, what the log holds between two calls,   *)
(* file and buffer together, is the last lines logged, each once and in    *)
(* order, whatever flushes and cuts of the file came in between            *)
(* (append_to_log_file, flush_log_buffer_to_spiffs, trim_log_file).        *)
TailOfTheLog ==
    ~overlapped /\ ~lost /\ (\A c \in Cores : pc[c] = "away")
        => LET log == file \o Buffered
           IN  \A i \in DOMAIN log : log[i] = lines - (Len(log) - i)

(* Nor does the file outgrow its bound between two calls: every flush that *)
(* lengthens it looks at it, and the cut brings it below                   *)
(* (flush_log_buffer_to_spiffs, trim_log_file).  Only a flush whose second *)
(* look or cut failed, at logging.cpp:136, :157 or :181, or that a reset   *)
(* broke off, leaves it longer, and the next one that gets so far makes    *)
(* good for it, whatever else was lost before.                             *)
FileBounded ==
    ~overlapped /\ ~uncut /\ (\A c \in Cores : pc[c] = "away")
        => Len(file) <= MAX_LOG_FILE_SIZE
=============================================================================
