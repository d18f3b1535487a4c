--------------------------- MODULE MCConnectionLog ---------------------------
(* Three connections, of which two overlap: every race of the handlers is   *)
(* one of two threads, and a third connection may come after it.            *)
EXTENDS ConnectionLog

MCConnections == 1..3
=============================================================================
