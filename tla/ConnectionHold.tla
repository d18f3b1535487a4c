--------------------------- MODULE ConnectionHold ---------------------------
(***************************************************************************)
(* How long a call of run_s_client holds its connection open after the     *)
(* request: Connection, with the time of the request as history.           *)
(*                                                                         *)
(* The feeder starts its sleep when it has written to the pipe, while      *)
(* s_client connects and shakes hands (probe.py:262-275); s_client reads   *)
(* the pipe, and sends the request, once its handshake is over.            *)
(***************************************************************************)
EXTENDS Connection

VARIABLE sent   \* when s_client sent the request, if it did

hold_vars == <<vars, sent>>

HoldInit == Init /\ sent = 0

HoldNext ==
  /\ Next
  /\ sent' = IF requested' /\ ~requested THEN now ELSE sent

HoldSpec ==
  HoldInit /\ [][HoldNext]_hold_vars /\ WF_vars(Harness) /\ WF_vars(Tick)

\* "--hold for how long each connection is held open after the request so a
\* post-handshake NewSessionTicket has time to arrive" (README.md:118-120, also
\* probe.py:244 and 1230-1231): s_client leaves a connection that the server keeps
\* open no earlier than --hold seconds after it has sent the request.
HeldAfterRequest ==
  [][client = "open" /\ client' = "exited" /\ requested => now >= sent + Hold]_hold_vars
=============================================================================
