------------------------------- MODULE Replay -------------------------------
(***************************************************************************)
(* The four replay experiments that are shell scripts: nginx-vhost-scope   *)
(* and haproxy (does a ticket of an open host open a protected one?),      *)
(* mtls-openssl and firefox-client/nonbrowser.sh (does a session outlive   *)
(* the certificate it was made under?).                                    *)
(*                                                                         *)
(* All four start a server, run a fixed list of s_client connections       *)
(* through one session file, and print what grep finds in each transcript. *)
(* None of them stops when a step fails, and none waits for its server: it *)
(* sleeps and hopes.  What can be read from the lines they print is the    *)
(* subject of this module.                                                 *)
(*                                                                         *)
(* log is the list of connections as they really went, enforces whether    *)
(* the rule under test is applied to full handshakes at all.  Certificates *)
(* were made by gen.sh, and the port is free.                              *)
(***************************************************************************)
EXTENDS Naturals, Sequences, FiniteSets

CONSTANT Scripts

Scope  == {"nginx", "haproxy"}
Expiry == {"mtls", "nonbrowser"}

ASSUME ScriptsAssumption == Scripts \subseteq Scope \cup Expiry

VARIABLES
  script,       \* which of the scripts runs
  enforces,     \* whether a full handshake is held to the rule under test
  pc,
  server,       \* the server the script started
  expired,      \* the certificate under test has expired
  warned,       \* nonbrowser.sh printed "WARNING: still valid"
  file,         \* the session file: "none", or where its session comes from
  log           \* the connections made so far

vars == <<script, enforces, pc, server, expired, warned, file, log>>

(***************************************************************************)
(* The connections of a script: the policy they go to, and whether they    *)
(* are given -sess_out and -sess_in.                                       *)
(***************************************************************************)
To(target) == [to |-> target, saves |-> FALSE, offers |-> FALSE]
Mint(target)  == [To(target) EXCEPT !.saves = TRUE]
Offer(target) == [To(target) EXCEPT !.offers = TRUE]

Plan == [s \in Scope \cup Expiry |->
           IF s \in Scope
           THEN <<To("protected"), Mint("open"), Offer("protected"), Offer("open")>>
           ELSE <<Mint("server"), Offer("server"), To("server")>>]

\* Positions in the plan of the test and of the control with a full handshake.
Test    == IF script \in Scope THEN 3 ELSE 2
Control == IF script \in Scope THEN 1 ELSE 3

\* Mutation: the control of mtls-openssl is not counted.
NAcceptOfTest == 2

\* The connections s_server takes before it exits (-naccept 3).
NAccept == 3

Reached(c) == c.handshake # "none"

Step == Plan[script][Len(log) + 1]

-----------------------------------------------------------------------------
Init ==
  /\ script \in Scripts
  /\ enforces \in BOOLEAN
  /\ pc = "start"
  /\ server = "absent"
  /\ expired \in IF script = "mtls" THEN BOOLEAN ELSE {FALSE}
  /\ warned = FALSE
  /\ file \in {"none", "earlier"}
  /\ log = <<>>

\* Mutation: the session file of an earlier run is left where it is.
StartKeepingSession ==
  /\ pc = "start"
  /\ server' = "starting"
  /\ pc' = "connect"
  /\ UNCHANGED <<script, enforces, expired, warned, file, log>>

\* rm -f, the server in the background, and a sleep that need not be enough.
Start ==
  /\ pc = "start"
  /\ file' = "none"
  /\ server' = "starting"
  /\ pc' = "connect"
  /\ UNCHANGED <<script, enforces, expired, warned, log>>

(***************************************************************************)
(* The server and the clock.  A server that is gone stays gone.            *)
(***************************************************************************)
Listens ==
  /\ server = "starting"
  /\ server' = "listening"
  /\ UNCHANGED <<script, enforces, pc, expired, warned, file, log>>

Dies ==
  /\ server \in {"starting", "listening"}
  /\ server' = "dead"
  /\ UNCHANGED <<script, enforces, pc, expired, warned, file, log>>

\* mtls-openssl has its certificate from gen.sh, nonbrowser.sh from the server.
Expires ==
  /\ script \in Expiry
  /\ script = "nonbrowser" => server # "absent"
  /\ ~expired
  /\ expired' = TRUE
  /\ UNCHANGED <<script, enforces, pc, server, warned, file, log>>

(***************************************************************************)
(* One connection.  s_client that cannot open its -sess_in file ends       *)
(* before it connects.  A full handshake is held to the rule if anything   *)
(* enforces it; what a resumed one is held to is the question.             *)
(***************************************************************************)
Handshakes(s) ==
  IF server # "listening" \/ (s.offers /\ file = "none") THEN {"none"}
  ELSE {"failed", "full"} \cup (IF s.offers THEN {"resumed"} ELSE {})

Passes(s, handshake) ==
  \/ handshake = "resumed"
  \/ /\ handshake = "full"
     /\ enforces => s.to # "protected" /\ ~expired

\* accepted: the content was served, or the certificate found good.
Connections(s) ==
  { c \in [to : {s.to}, offered : {IF s.offers THEN file ELSE "none"},
           handshake : Handshakes(s), accepted : BOOLEAN, late : {expired}] :
      /\ c.accepted => Passes(s, c.handshake)
      /\ c.handshake = "full" /\ Passes(s, "full") => c.accepted }

\* A server that rejects its client gives it no ticket.  In nonbrowser.sh it is the
\* client that finds the certificate bad, and it keeps its session all the same.
Saves(s, c) ==
  /\ s.saves
  /\ c.handshake = "full"
  /\ script # "nonbrowser" => Passes(s, "full")

Connect ==
  /\ pc = "connect"
  /\ \E c \in Connections(Step) :
       /\ log' = Append(log, c)
       /\ file' \in IF Saves(Step, c) THEN {file, Step.to} ELSE {file}
       /\ server' = IF /\ script = "mtls"
                       /\ Cardinality({i \in DOMAIN log' : Reached(log'[i])}) = NAccept
                    THEN "finished" ELSE server
  /\ pc' = IF Len(log') = Len(Plan[script]) THEN "stop"
           ELSE IF script \in Expiry /\ Len(log') = 1 THEN "wait" ELSE "connect"
  /\ UNCHANGED <<script, enforces, expired, warned>>

\* mtls-openssl looks at the certificate until it has expired.
WaitMtls ==
  /\ pc = "wait"
  /\ script = "mtls"
  /\ expired
  /\ pc' = "connect"
  /\ UNCHANGED <<script, enforces, server, expired, warned, file, log>>

\* Mutation: nonbrowser.sh does not look at the certificate after its wait.
WaitNonbrowserBlind ==
  /\ pc = "wait"
  /\ script = "nonbrowser"
  /\ pc' = "connect"
  /\ UNCHANGED <<script, enforces, server, expired, warned, file, log>>

\* nonbrowser.sh waits by its own clock, then looks and goes on either way.  It
\* reads the certificate of its server if that got as far as making one.
WaitNonbrowser ==
  /\ pc = "wait"
  /\ script = "nonbrowser"
  /\ \E made \in BOOLEAN :
       /\ Reached(log[1]) => made
       /\ warned' = (made /\ ~expired)
  /\ pc' = "connect"
  /\ UNCHANGED <<script, enforces, server, expired, file, log>>

\* kill: of a server that is still there.
Stop ==
  /\ pc = "stop"
  /\ server' = IF server = "dead" THEN "dead" ELSE "finished"
  /\ pc' = "done"
  /\ UNCHANGED <<script, enforces, expired, warned, file, log>>

\* The loop of mtls-openssl while the certificate is valid.
StillValid ==
  /\ pc = "wait"
  /\ script = "mtls"
  /\ ~expired
  /\ UNCHANGED vars

Terminated == pc = "done" /\ UNCHANGED vars

Next ==
  \/ Start \/ Connect \/ WaitMtls \/ WaitNonbrowser \/ Stop
  \/ Listens \/ Dies \/ Expires \/ StillValid \/ Terminated

Spec == Init /\ [][Next]_vars

-----------------------------------------------------------------------------
(***************************************************************************)
(* What grep finds in a transcript, and what is printed of it.             *)
(***************************************************************************)
Grep(c) ==
  (IF c.handshake = "resumed" THEN {"Reused"} ELSE {})
    \cup (IF c.accepted THEN {"content"} ELSE {"error"})

SaysReused(i)   == "Reused" \in Grep(log[i])
SaysContent(i)  == "content" \in Grep(log[i])

\* mtls-openssl: "SERVER REJECTED".
SaysRejected(i) == "error" \in Grep(log[i])

\* The test shows what it looks for: content served ("RESULT: VULNERABLE"),
\* "SERVER ACCEPTED THE CONNECTION", or a Reused line with verify code 0.  Of any
\* other test the scope scripts print "RESULT: not vulnerable." or "not served.",
\* one that reached no server or had no session to offer included.
SaysFinding ==
  CASE script \in Scope      -> SaysContent(Test)
    [] script = "mtls"       -> ~SaysRejected(Test)
    [] script = "nonbrowser" -> SaysContent(Test) /\ SaysReused(Test)

\* "ticket RESUMED at its own host, so it was valid and offerable".
SaysOfferable == script \in Scope /\ SaysReused(4)

\* nginx-vhost-scope: "=> step 3's full handshake is nginx declining it".
SaysDeclined == script = "nginx" /\ SaysReused(4)

-----------------------------------------------------------------------------
\* When the ticket resumed at its own host, the test reached the server and
\* offered it a session that this run minted at the open host: the question was
\* posed (the second control, README.md:39-43).  Only this tells a "not vulnerable"
\* that answers it from one of a test that never asked.
OfferableMeansPosed ==
  Len(log) = 4 /\ SaysOfferable => Reached(log[3]) /\ log[3].offered = "open"

\* When the control completed a full handshake and was refused, a finding is of
\* a resumption: the rule was enforced and the test went round it, and for the
\* expiry scripts it did so after the expiry unless the warning was printed (the
\* first control, README.md:34-37).
FindingIsOfResumption ==
  /\ pc = "done"
  /\ SaysFinding
  /\ log[Control].handshake = "full" /\ ~log[Control].accepted
  => /\ log[Test].handshake = "resumed"
     /\ script \in Expiry => log[Test].late \/ warned

\* The control of mtls-openssl finds its server, unless the server was not up
\* for the first connection or died of itself: -naccept counts all of them.
ControlFindsServer ==
  script = "mtls" /\ Len(log) = 3 /\ Reached(log[1]) /\ server # "dead"
    => Reached(log[3])

\* nginx-vhost-scope/run.sh:54: "step 3's full handshake is nginx declining it"
\* is printed of a third step that was a full handshake.
DeclinedMeansFullHandshake ==
  pc = "done" /\ SaysDeclined => log[3].handshake = "full"
-----------------------------------------------------------------------------
(***************************************************************************)
(* The inductive invariant behind the properties above: what the lines     *)
(* that were printed tell of the server, the session and the time.         *)
(***************************************************************************)
Connection ==
  [to : {"protected", "open", "server"}, offered : {"none", "open", "server"},
   handshake : {"none", "failed", "full", "resumed"},
   accepted : BOOLEAN, late : BOOLEAN]

\* The connection that mints the session, and where the session comes from.
Minting == IF script \in Scope THEN 2 ELSE 1
Origin  == IF script \in Scope THEN "open" ELSE "server"

TypeOK ==
  /\ script \in Scope \cup Expiry
  /\ enforces \in BOOLEAN /\ expired \in BOOLEAN /\ warned \in BOOLEAN
  /\ pc \in {"start", "connect", "wait", "stop", "done"}
  /\ server \in {"absent", "starting", "listening", "dead", "finished"}
  /\ file \in {"none", "earlier", "open", "server"}
  /\ log \in Seq(Connection)

\* How far the script is.
ProgressInv ==
  /\ pc = "start" => log = <<>>
  /\ pc = "connect" => Len(log) < Len(Plan[script])
  /\ pc = "wait" => script \in Expiry /\ Len(log) = 1
  /\ pc \in {"stop", "done"} => Len(log) = Len(Plan[script])
  /\ script \in Scope => ~expired

\* A server that was reached was up, and finishes no earlier than the script.
ServerInv ==
  /\ server = "absent" <=> pc = "start"
  /\ \A i \in DOMAIN log : Reached(log[i]) => server # "starting"
  /\ server = "finished" => Len(log) = Len(Plan[script])

\* A session in the file is of this run.
FileInv ==
  /\ pc # "start" => file \in {"none", Origin}
  /\ pc # "start" /\ file # "none" =>
       Len(log) >= Minting /\ log[Minting].handshake = "full"

\* What a full handshake with these fields is held to.
Permitted(c) == enforces => c.to # "protected" /\ ~c.late

\* Each connection is the one the script makes at its place.
LogInv ==
  \A i \in DOMAIN log :
    LET c == log[i]
        s == Plan[script][i]
    IN /\ c.to = s.to
       /\ c.offered # "none" => s.offers
       /\ Reached(c) /\ s.offers => c.offered = Origin
       /\ c.handshake = "resumed" => s.offers
       /\ c.accepted => c.handshake = "resumed" \/ (c.handshake = "full" /\ Permitted(c))
       /\ c.handshake = "full" /\ Permitted(c) => c.accepted
       /\ c.late => expired

\* The session outlives the test, and an expiry script tests late, or says so.
TestInv ==
  /\ script \in Scope /\ Len(log) >= Test /\ file = "open" /\ server = "listening" =>
       Reached(log[Test])
  /\ script \in Expiry /\ Len(log) = 1 /\ pc = "connect" =>
       \/ expired
       \/ script = "nonbrowser" /\ (warned \/ file = "none")
  /\ script \in Expiry /\ Len(log) >= Test =>
       \/ log[Test].late
       \/ script = "nonbrowser" /\ (warned \/ ~Reached(log[Test]))

ReplayInv ==
  /\ TypeOK /\ ProgressInv /\ ServerInv /\ FileInv /\ LogInv /\ TestInv
  /\ OfferableMeansPosed /\ ControlFindsServer
=============================================================================
