------------------------- MODULE ResumptionQuestion -------------------------
(***************************************************************************)
(* What a run of public-endpoints/probe.py promises a reader of its        *)
(* results (public-endpoints/README.md, "Method"): every host is asked at  *)
(* most once whether it resumes, nothing is published before the asking is *)
(* over, and each published verdict follows from what the host answered to *)
(* that one question.  A host that was never asked has the verdict "null". *)
(*                                                                         *)
(* How hosts are resolved, connected to and read, what can fail on the     *)
(* way, and in which order hosts are taken is left out.                    *)
(***************************************************************************)
EXTENDS Naturals

CONSTANTS
  Hosts,
  Refusals      \* the answers that may be published as "no"

Answers  == {"resumed", "declined", "failed", "unreached"}
Verdicts == {"yes", "no", "null"}

VARIABLES
  asked,        \* what each host answered, "never" until it is asked
  verdict       \* what was published of it, "none" until it is

questions == <<asked, verdict>>

Unpublished == \A h \in Hosts : verdict[h] = "none"

QInit ==
  /\ asked = [h \in Hosts |-> "never"]
  /\ verdict = [h \in Hosts |-> "none"]

Ask(h) ==
  /\ Unpublished
  /\ asked[h] = "never"
  /\ \E a \in Answers : asked' = [asked EXCEPT ![h] = a]
  /\ UNCHANGED verdict

\* An answer may go unread, but a verdict other than "null" is the answer.
Follows(v, a) ==
  /\ v = "yes" => a = "resumed"
  /\ v = "no"  => a \in Refusals

Publish ==
  /\ Unpublished
  /\ \E v \in [Hosts -> Verdicts] :
       /\ \A h \in Hosts : Follows(v[h], asked[h])
       /\ verdict' = v
  /\ UNCHANGED asked

QNext == Publish \/ \E h \in Hosts : Ask(h)

QSpec == QInit /\ [][QNext]_questions
=============================================================================
