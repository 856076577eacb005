----------------------------- MODULE MCTmpFile -----------------------------
\* Two bytes in memory, three in the buffer and up to four in the file: each border is met
\* inside a call, at its begin and at its end.
EXTENDS TmpFile
=============================================================================
