---------------------------- MODULE MCLogBuffer ----------------------------
EXTENDS LogBuffer
=============================================================================
