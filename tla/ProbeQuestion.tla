--------------------------- MODULE ProbeQuestion ---------------------------
(***************************************************************************)
(* Probe implements ResumptionQuestion.  The question is the second        *)
(* connection to a host, the verdict is the host's row once results.json   *)
(* is written.                                                             *)
(***************************************************************************)
EXTENDS Probe

\* A listener that fails the second handshake counts as a refusal: s_client
\* reports it the way it reports a full handshake.
Refusals == {"declined", "failed"}

Answer(w) ==
  IF Len(w) < 2 THEN "never"
  ELSE IF w[2].phase = "established"
       THEN IF w[2].resumed THEN "resumed" ELSE "declined"
       ELSE IF w[2].phase = "rejected" THEN "failed" ELSE "unreached"

asked == [h \in Hosts |-> Answer(wire[h])]

Published(h) ==
  LET i == CHOOSE j \in 1..Len(records) : records[j].host = h
  IN records[i].resumed

verdict == [h \in Hosts |-> IF output = "none" THEN "none" ELSE Published(h)]

Question == INSTANCE ResumptionQuestion
  WITH Hosts <- Hosts, Refusals <- Refusals, asked <- asked, verdict <- verdict

\* The harness keeps the promise of ResumptionQuestion: a host is asked at most
\* once, and results.json holds for each host a verdict that follows from the
\* answer to that question (probe.py:687-920 and 1271-1317).
ImplementsQuestion == Question!QSpec
=============================================================================
