-------------------------- MODULE MCAppendLogVDev --------------------------
EXTENDS AppendLogVDev, TLC

\* Bounds the records appended.
RecBound == nextId <= MaxRecs + 1
=============================================================================
