----------------------------- MODULE MCTxFront ------------------------------
(* Small instances of TxFront.                                             *)
EXTENDS TxFront

\* The two shortest packets, one of them without its size in the header, and
\* one that is not synchronised.
FrontPackets == [nr : {1}, dis : {FALSE}, size : {0, 4}]
                \cup [nr : {1}, dis : {TRUE}, size : {4}]
=============================================================================
