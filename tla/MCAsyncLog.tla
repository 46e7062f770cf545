----------------------------- MODULE MCAsyncLog -----------------------------
(* Small instances of AsyncLog: blocks of 4 bytes, which hold lines of up   *)
(* to 3, and lines of every kind of length.                                 *)
EXTENDS AsyncLog

CONSTANTS m1, m2, m3, m4, m5

MCSize ==
  [m \in Messages |-> CASE m = m1 -> 1        \* three of it would fit
                       [] m = m2 -> 2
                       [] m \in {m3, m4} -> 3 \* fills a block
                       [] m = m5 -> 4]        \* never fits
=============================================================================
