------------------------------ MODULE MCReplayDb ------------------------------
\* Four stored rows, out of order and two of them with the same stamp, in pages
\* of two.
EXTENDS ReplayDb
MCOriginal == <<2000, 1000, 2000, 3000>>
===============================================================================
