---------------------------- MODULE ProbeReport ----------------------------
(***************************************************************************)
(* What public-endpoints/probe.py prints and writes to results.md of the   *)
(* records module Probe leaves: the table, the list of hosts whose row may *)
(* not be read as a refusal, and why not (probe.py:870-1161).  Nothing of  *)
(* it changes state; the columns no statement about resumption rests on    *)
(* are left out.                                                           *)
(***************************************************************************)
EXTENDS Probe

\* Mutation: a value that is not there is printed as a refusal.
CellNoForAbsent(value) == IF value = "null" THEN "no" ELSE value

\* cell: a value that is not there is printed as such.
Cell(value) == IF value = "null" THEN "-" ELSE value

\* A row of the table, with the outcome in place of the values of a host that
\* was not measured.
TableRow(r) ==
  IF r.outcome = "measured"
  THEN [host |-> r.host, ticket |-> Cell(r.issued), resumed |-> Cell(r.resumed),
        via |-> Cell(r.mechanism)]
  ELSE [host |-> r.host, ticket |-> r.outcome, resumed |-> "-", via |-> "-"]

\* The hosts listed as not readable as a refusal.
Listed(r) == r.readable = "no"

\* Mutation: the test for a second handshake is missing.
ReasonWithoutCompletion(r) ==
  IF r.resumed = "yes" THEN "resumed"
  ELSE IF r.written # "yes" THEN "no session was saved"
  ELSE IF r.attempted # "yes" THEN "not attempted"
  ELSE "declined"

\* build_controls: why the row may or may not be read, in the order of its tests.
Reason(r) ==
  IF r.resumed = "yes" THEN "resumed"
  ELSE IF r.written # "yes" THEN "no session was saved"
  ELSE IF r.attempted # "yes" THEN "not attempted"
  ELSE IF r.completed # "yes" THEN "not completed"
  ELSE "declined"

-----------------------------------------------------------------------------
\* A measured row has a "-" under resumed exactly when its host is in the list of
\* those that were not asked: no refusal is printed of them, and no silence is
\* left unexplained (probe.py:971-1007, 1063-1101).
BlankIsExplained ==
  \A i \in Reported :
    LET r == records[i] IN
    r.outcome = "measured" => (TableRow(r).resumed = "-" <=> Listed(r))

\* The reason given for a listed host is true of the connections that were made:
\* without a saved session there was no second one, and one that is said not to
\* have completed did not, or was killed before its line was read
\* (probe.py:881-904, 1098-1099).
ReasonsAreTrue ==
  \A i \in Reported :
    LET r == records[i] IN
    Listed(r) =>
      \/ Reason(r) = "no session was saved" /\ Len(Row(i)) <= 1
      \/ /\ Reason(r) = "not completed"
         /\ Len(Row(i)) = 2 =>
              Row(i)[2].phase # "established" \/ Row(i)[2].ended = "timeout"

\* The section per host can be written of every record: those that are called
\* measured hold the objects it indexes, so that results.md is not lost to an
\* exception with results.json already there (probe.py:1110-1140).
MeasuredRowsAreWhole ==
  \A i \in Reported :
    records[i].outcome = "measured" =>
      records[i].issued # "null" /\ records[i].attempted # "null"

\* The three together: what is printed of the records can be written of every one
\* of them, leaves no dash unexplained and gives no wrong reason.
ReportIsSound == BlankIsExplained /\ ReasonsAreTrue /\ MeasuredRowsAreWhole
-----------------------------------------------------------------------------
(***************************************************************************)
(* What makes it so: the record of a measurement holds every object that   *)
(* build_controls indexes, and either no session was saved and none was    *)
(* offered, or one was, and what completed may be read.                    *)
(***************************************************************************)
Filled(r, w) ==
  r.outcome = "measured" =>
    /\ r.issued # "null" /\ r.readable # "null"
    /\ \/ /\ r.written = "yes" /\ r.attempted = "yes"
          /\ r.completed = "yes" => r.readable = "yes"
       \/ r.written # "yes" /\ r.attempted = "no" /\ Len(w) <= 1

ReportInv ==
  /\ pc \in {"check", "offer", "offered"} => rec.issued # "null"
  /\ pc = "cleanup" => Filled(rec, wire[host])
  /\ \A i \in Reported : Filled(records[i], Row(i))
=============================================================================
