---------------------------- MODULE ReplayProofs ----------------------------
(***************************************************************************)
(* Proofs about the four replay scripts, whichever of them runs: what the  *)
(* two controls buy a reader of their lines.                               *)
(***************************************************************************)
EXTENDS Replay, FiniteSetTheorems, TLAPS

\* The plans, written out.
LEMMA Plans ==
  ASSUME script \in Scope \cup Expiry
  PROVE  /\ script \in Scope =>
              /\ Len(Plan[script]) = 4 /\ Test = 3 /\ Control = 1 /\ Minting = 2
              /\ Origin = "open" /\ script \notin Expiry
              /\ Plan[script][1] = [to |-> "protected", saves |-> FALSE, offers |-> FALSE]
              /\ Plan[script][2] = [to |-> "open", saves |-> TRUE, offers |-> FALSE]
              /\ Plan[script][3] = [to |-> "protected", saves |-> FALSE, offers |-> TRUE]
              /\ Plan[script][4] = [to |-> "open", saves |-> FALSE, offers |-> TRUE]
         /\ script \in Expiry =>
              /\ Len(Plan[script]) = 3 /\ Test = 2 /\ Control = 3 /\ Minting = 1
              /\ Origin = "server" /\ script \notin Scope
              /\ Plan[script][1] = [to |-> "server", saves |-> TRUE, offers |-> FALSE]
              /\ Plan[script][2] = [to |-> "server", saves |-> FALSE, offers |-> TRUE]
              /\ Plan[script][3] = [to |-> "server", saves |-> FALSE, offers |-> FALSE]
<1>1. CASE script \in Scope
  <2>1. script \notin Expiry
    BY <1>1 DEF Scope, Expiry
  <2>2. Plan[script] = <<To("protected"), Mint("open"), Offer("protected"), Offer("open")>>
    BY <1>1 DEF Plan
  <2> QED
    <3>1. Test = 3 /\ Control = 1 /\ Minting = 2 /\ Origin = "open"
      BY <1>1 DEF Test, Control, Minting, Origin
    <3>2. /\ Len(Plan[script]) = 4
          /\ Plan[script][1] = To("protected") /\ Plan[script][2] = Mint("open")
          /\ Plan[script][3] = Offer("protected") /\ Plan[script][4] = Offer("open")
      BY <2>2
    <3> QED
      BY <1>1, <2>1, <3>1, <3>2 DEF To, Mint, Offer
<1>2. CASE script \in Expiry
  <2>1. script \notin Scope
    BY <1>2 DEF Scope, Expiry
  <2>2. Plan[script] = <<Mint("server"), Offer("server"), To("server")>>
    BY <1>2, <2>1 DEF Plan
  <2> QED
    <3>1. Test = 2 /\ Control = 3 /\ Minting = 1 /\ Origin = "server"
      BY <2>1 DEF Test, Control, Minting, Origin
    <3>2. /\ Len(Plan[script]) = 3
          /\ Plan[script][1] = Mint("server") /\ Plan[script][2] = Offer("server")
          /\ Plan[script][3] = To("server")
      BY <2>2
    <3> QED
      BY <1>2, <2>1, <3>1, <3>2 DEF To, Mint, Offer
<1> QED
  BY <1>1, <1>2

\* At every place of its plan a script connects to a policy it knows; the session
\* is minted at one place, and is offered at later ones.
LEMMA Places ==
  ASSUME script \in Scope \cup Expiry, NEW i \in 1..Len(Plan[script])
  PROVE  /\ Plan[script][i].to \in {"protected", "open", "server"}
         /\ Plan[script][i].saves => i = Minting /\ Plan[script][i].to = Origin
         /\ Plan[script][i].offers => i > Minting
<1>1. CASE script \in Scope
  <2>1. i = 1 \/ i = 2 \/ i = 3 \/ i = 4
    <3>1. Len(Plan[script]) = 4
      BY <1>1, Plans
    <3> QED
      BY <3>1
  <2>2. CASE i = 1
    BY <1>1, <2>2, Plans
  <2>3. CASE i = 2
    BY <1>1, <2>3, Plans
  <2>4. CASE i = 3
    BY <1>1, <2>4, Plans
  <2>5. CASE i = 4
    BY <1>1, <2>5, Plans
  <2> QED
    BY <2>1, <2>2, <2>3, <2>4, <2>5
<1>2. CASE script \in Expiry
  <2>1. i = 1 \/ i = 2 \/ i = 3
    <3>1. Len(Plan[script]) = 3
      BY <1>2, Plans
    <3> QED
      BY <3>1
  <2>2. CASE i = 1
    BY <1>2, <2>2, Plans
  <2>3. CASE i = 2
    BY <1>2, <2>3, Plans
  <2>4. CASE i = 3
    BY <1>2, <2>4, Plans
  <2> QED
    BY <2>1, <2>2, <2>3, <2>4
<1> QED
  BY <1>1, <1>2

\* What the steps below need of a state of the invariant.
LEMMA Shape ==
  ASSUME ReplayInv
  PROVE  /\ log \in Seq(Connection) /\ Len(log) \in Nat /\ DOMAIN log = 1..Len(log)
         /\ script \in Scope \cup Expiry /\ Len(Plan[script]) \in {3, 4}
         /\ \A i \in 1..Len(log) : log[i] \in Connection
<1>1. log \in Seq(Connection) /\ script \in Scope \cup Expiry
  BY DEF ReplayInv, TypeOK
<1>2. Len(Plan[script]) \in {3, 4}
  BY <1>1, Plans
<1> QED
  BY <1>1, <1>2

\* A script starts in the invariant.
LEMMA InitReplay == Init => ReplayInv
<1> SUFFICES ASSUME Init PROVE ReplayInv
  OBVIOUS
<1>1. /\ script \in Scope \cup Expiry /\ log = <<>> /\ pc = "start"
      /\ server = "absent" /\ Len(log) = 0 /\ DOMAIN log = {}
  BY ScriptsAssumption DEF Init
<1>2. script \in Scope => ~expired
  BY DEF Init, Scope
<1>3. TypeOK
  <2>1. log \in Seq(Connection)
    BY <1>1
  <2>2. expired \in BOOLEAN
    BY DEF Init
  <2> QED
    BY <1>1, <2>1, <2>2 DEF Init, TypeOK
<1>4. Test \in {2, 3} /\ Len(Plan[script]) \in {3, 4}
  BY <1>1, Plans
<1> QED
  BY <1>1, <1>2, <1>3, <1>4
     DEF ReplayInv, ProgressInv, ServerInv, FileInv, LogInv, TestInv,
         OfferableMeansPosed, ControlFindsServer

\* Only a connection adds to the log.
LEMMA SameLog ==
  ASSUME ReplayInv, UNCHANGED <<script, enforces, log>>, expired => expired',
         script \in Scope => ~expired'
  PROVE  LogInv' /\ OfferableMeansPosed'
<1>1. LogInv /\ OfferableMeansPosed
  BY DEF ReplayInv
<1>2. Plan' = Plan /\ Origin' = Origin /\ DOMAIN log' = DOMAIN log
  BY DEF Plan, Origin
<1>3. LogInv'
  BY <1>1, <1>2 DEF LogInv, Permitted
<1> QED
  BY <1>1, <1>3 DEF OfferableMeansPosed, SaysOfferable, SaysReused, Grep

\* The steps of the server and the clock.
LEMMA AroundStep ==
  ASSUME ReplayInv, Listens \/ Dies \/ Expires
  PROVE  ReplayInv'
<1> USE DEF ReplayInv
<1>1. /\ UNCHANGED <<script, enforces, pc, warned, file, log>>
      /\ expired => expired'
      /\ script \in Scope => ~expired'
  BY Shape, Plans DEF Listens, Dies, Expires, ProgressInv
<1>2. /\ expired' \in BOOLEAN
      /\ server' \in {"absent", "starting", "listening", "dead", "finished"}
      /\ server' # server =>
           \/ server = "starting" /\ server' = "listening"
           \/ server \in {"starting", "listening"} /\ server' = "dead"
  BY DEF Listens, Dies, Expires, TypeOK
<1>3. TypeOK'
  BY <1>1, <1>2 DEF TypeOK
<1>4. ProgressInv'
  BY <1>1 DEF ProgressInv
<1>5. ServerInv'
  <2>1. ServerInv
    OBVIOUS
  <2>2. \A i \in DOMAIN log' : Reached(log'[i]) => server' # "starting"
    BY <1>1, <1>2, <2>1 DEF ServerInv
  <2> QED
    BY <1>1, <1>2, <2>1, <2>2 DEF ServerInv
<1>6. FileInv'
  BY <1>1 DEF FileInv, Origin, Minting
<1>7. LogInv' /\ OfferableMeansPosed'
  BY <1>1, SameLog
<1>8. TestInv'
  <2>1. Len(log) >= 2 => 1 \in DOMAIN log
    BY Shape
  <2>2. script \in Scope /\ Len(log) >= Test /\ file = "open" => server # "starting"
    <3> SUFFICES ASSUME script \in Scope, Len(log) >= 3, file = "open"
                 PROVE  server # "starting"
      BY Shape, Plans
    <3>1. pc # "start"
      BY Shape DEF ProgressInv
    <3>2. 2 \in DOMAIN log /\ log[2].handshake = "full"
      BY <3>1, Shape, Plans DEF FileInv
    <3> QED
      BY <3>2 DEF ServerInv, Reached
  <2>3. Test' = Test
    BY <1>1 DEF Test
  <2> QED
    BY <1>1, <1>2, <2>2, <2>3 DEF TestInv
<1>9. ControlFindsServer'
  BY <1>1, <1>2, Shape DEF ControlFindsServer, ServerInv
<1> QED
  BY <1>3, <1>4, <1>5, <1>6, <1>7, <1>8, <1>9

\* The script clears its session file and starts its server.
LEMMA StartStep ==
  ASSUME ReplayInv, Start
  PROVE  ReplayInv'
<1> USE DEF ReplayInv
<1>1. /\ pc = "start" /\ pc' = "connect" /\ server' = "starting" /\ file' = "none"
      /\ UNCHANGED <<script, enforces, expired, warned, log>>
  BY DEF Start
<1>2. log = <<>> /\ Len(log) = 0 /\ DOMAIN log = {}
  BY <1>1 DEF ProgressInv
<1>3. TypeOK'
  BY <1>1 DEF TypeOK
<1>4. ProgressInv'
  <2>1. Plan' = Plan /\ Len(Plan[script]) > 0
    BY Shape DEF Plan
  <2> QED
    BY <1>1, <1>2, <2>1 DEF ProgressInv
<1>5. ServerInv' /\ FileInv'
  BY <1>1, <1>2 DEF ServerInv, FileInv
<1>6. LogInv' /\ OfferableMeansPosed'
  <2>1. script \in Scope => ~expired'
    BY <1>1 DEF ProgressInv
  <2> QED
    BY <1>1, <2>1, SameLog
<1>7. TestInv'
  <2>1. Test' = Test /\ Test \in {2, 3}
    BY <1>1, Shape, Plans DEF Test
  <2> QED
    BY <1>1, <1>2, <2>1 DEF TestInv
<1>8. ControlFindsServer'
  BY <1>1, <1>2 DEF ControlFindsServer
<1> QED
  BY <1>3, <1>4, <1>5, <1>6, <1>7, <1>8

\* An expiry script has waited: it goes on after the expiry, or says that it does not.
LEMMA WaitStep ==
  ASSUME ReplayInv, WaitMtls \/ WaitNonbrowser
  PROVE  ReplayInv'
<1> USE DEF ReplayInv
<1>1. /\ pc = "wait" /\ pc' = "connect" /\ warned' \in BOOLEAN
      /\ UNCHANGED <<script, enforces, server, expired, file, log>>
      /\ script \in Expiry /\ Len(log) = 1
  BY DEF WaitMtls, WaitNonbrowser, ProgressInv, TypeOK
<1>2. /\ script = "mtls" => expired
      /\ script # "mtls" => script = "nonbrowser" /\ (expired \/ warned' \/ ~Reached(log[1]))
  BY <1>1 DEF WaitMtls, WaitNonbrowser, Expiry
<1>3. ~Reached(log[1]) => file = "none"
  BY <1>1, Shape, Plans DEF FileInv, Reached
<1>4. TypeOK'
  BY <1>1 DEF TypeOK
<1>5. ProgressInv'
  <2>1. Plan' = Plan /\ Len(Plan[script]) > 1
    BY Shape DEF Plan
  <2> QED
    BY <1>1, <2>1 DEF ProgressInv
<1>6. ServerInv' /\ FileInv'
  BY <1>1 DEF ServerInv, FileInv, Origin, Minting, Plan
<1>7. LogInv' /\ OfferableMeansPosed'
  <2>1. script \in Scope => ~expired'
    BY <1>1 DEF ProgressInv
  <2> QED
    BY <1>1, <2>1, SameLog
<1>8. TestInv'
  <2>1. Test' = 2 /\ script' \notin Scope
    BY <1>1, Shape, Plans DEF Test
  <2> QED
    BY <1>1, <1>2, <1>3, <2>1 DEF TestInv
<1>9. ControlFindsServer'
  BY <1>1 DEF ControlFindsServer
<1> QED
  BY <1>4, <1>5, <1>6, <1>7, <1>8, <1>9

\* The script kills its server, after its last connection.
LEMMA StopStep ==
  ASSUME ReplayInv, Stop
  PROVE  ReplayInv'
<1> USE DEF ReplayInv
<1>1. /\ pc = "stop" /\ pc' = "done"
      /\ server' = IF server = "dead" THEN "dead" ELSE "finished"
      /\ UNCHANGED <<script, enforces, expired, warned, file, log>>
  BY DEF Stop
<1>2. Len(log) = Len(Plan[script]) /\ Plan' = Plan /\ Len(log) \in {3, 4}
  BY <1>1, Shape DEF ProgressInv, Plan
<1>3. TypeOK'
  BY <1>1 DEF TypeOK
<1>4. ProgressInv'
  BY <1>1, <1>2 DEF ProgressInv
<1>5. ServerInv' /\ FileInv'
  BY <1>1, <1>2 DEF ServerInv, FileInv, Origin, Minting
<1>6. LogInv' /\ OfferableMeansPosed'
  <2>1. script \in Scope => ~expired'
    BY <1>1 DEF ProgressInv
  <2> QED
    BY <1>1, <2>1, SameLog
<1>7. TestInv'
  BY <1>1 DEF TestInv, Test
<1>8. ControlFindsServer'
  BY <1>1 DEF ControlFindsServer
<1> QED
  BY <1>3, <1>4, <1>5, <1>6, <1>7, <1>8

\* The connection that Connect adds, and what it leaves of the log.
LEMMA Added ==
  ASSUME ReplayInv, NEW c \in Connections(Step), pc = "connect",
         log' = Append(log, c)
  PROVE  /\ c \in Connection /\ c.to = Step.to
         /\ c.offered = IF Step.offers THEN file ELSE "none"
         /\ c.handshake \in Handshakes(Step) /\ c.late = expired
         /\ c.accepted => Passes(Step, c.handshake)
         /\ c.handshake = "full" /\ Passes(Step, "full") => c.accepted
         /\ log' \in Seq(Connection) /\ Len(log') = Len(log) + 1
         /\ DOMAIN log' = 1..Len(log) + 1
         /\ \A i \in 1..Len(log) : log'[i] = log[i]
         /\ log'[Len(log) + 1] = c
         /\ Len(log) < Len(Plan[script])
<1> USE DEF ReplayInv
<1>1. /\ c \in [to : {Step.to}, offered : {IF Step.offers THEN file ELSE "none"},
                handshake : Handshakes(Step), accepted : BOOLEAN, late : {expired}]
      /\ c.accepted => Passes(Step, c.handshake)
      /\ c.handshake = "full" /\ Passes(Step, "full") => c.accepted
  BY DEF Connections
<1>2. Len(log) < Len(Plan[script])
  BY DEF ProgressInv
<1>3. Step.to \in {"protected", "open", "server"}
  <2>1. Len(log) + 1 \in 1..Len(Plan[script])
    BY <1>2, Shape
  <2>2. \A i \in 1..Len(Plan[script]) : Plan[script][i].to \in {"protected", "open", "server"}
    BY Shape, Places
  <2> QED
    BY <2>1, <2>2 DEF Step
<1>4. file \in {"none", "open", "server"}
  BY DEF FileInv, Origin
<1>5. Handshakes(Step) \subseteq {"none", "failed", "full", "resumed"} /\ expired \in BOOLEAN
  BY DEF Handshakes, TypeOK
<1>6. c \in Connection
  BY <1>1, <1>3, <1>4, <1>5 DEF Connection
<1>7. log \in Seq(Connection) /\ Len(log) \in Nat
  BY Shape
<1>8. /\ log' \in Seq(Connection) /\ Len(log') = Len(log) + 1
      /\ DOMAIN log' = 1..Len(log) + 1
      /\ \A i \in 1..Len(log) : log'[i] = log[i]
      /\ log'[Len(log) + 1] = c
  BY <1>6, <1>7
<1> QED
  BY <1>1, <1>2, <1>6, <1>8

\* A script makes its next connection.
LEMMA ConnectStep ==
  ASSUME ReplayInv, Connect
  PROVE  ReplayInv'
<1> USE DEF ReplayInv
<1> DEFINE n == Len(log)
           reached == {i \in DOMAIN log' : Reached(log'[i])}
<1>1. PICK c \in Connections(Step) :
        /\ pc = "connect" /\ log' = Append(log, c)
        /\ file' \in IF Saves(Step, c) THEN {file, Step.to} ELSE {file}
        /\ server' = IF script = "mtls" /\ Cardinality(reached) = NAccept
                     THEN "finished" ELSE server
        /\ pc' = IF Len(log') = Len(Plan[script]) THEN "stop"
                 ELSE IF script \in Expiry /\ Len(log') = 1 THEN "wait" ELSE "connect"
        /\ UNCHANGED <<script, enforces, expired, warned>>
  BY DEF Connect
<1>2. /\ c \in Connection /\ c.to = Step.to
      /\ c.offered = IF Step.offers THEN file ELSE "none"
      /\ c.handshake \in Handshakes(Step) /\ c.late = expired
      /\ c.accepted => Passes(Step, c.handshake)
      /\ c.handshake = "full" /\ Passes(Step, "full") => c.accepted
  BY <1>1, Added
<1>3. /\ log' \in Seq(Connection) /\ Len(log') = n + 1 /\ DOMAIN log' = 1..n + 1
      /\ \A i \in 1..n : log'[i] = log[i]
      /\ log'[n + 1] = c
      /\ n \in Nat /\ n < Len(Plan[script]) /\ Len(Plan[script]) \in {3, 4}
      /\ DOMAIN log = 1..n /\ Step = Plan[script][n + 1]
  BY <1>1, Added, Shape DEF Step
<1> HIDE DEF n
<1>4. /\ Plan' = Plan /\ Origin' = Origin /\ Minting' = Minting /\ Test' = Test
      /\ UNCHANGED <<script, enforces, expired, warned>>
  BY <1>1 DEF Plan, Origin, Minting, Test
\* The server is there, and finishes after its last connection.
<1>5. server # "finished" /\ server # "absent" /\ pc' \in {"connect", "wait", "stop"}
  BY <1>1, <1>3 DEF ServerInv, n
<1>6. server' = "finished" => Len(log') = Len(Plan[script]) /\ Reached(c)
  <2> SUFFICES ASSUME server' = "finished" PROVE n + 1 = Len(Plan[script]) /\ Reached(c)
    BY <1>3
  <2>1. script = "mtls" /\ Cardinality(reached) = 3
    BY <1>1, <1>5 DEF NAccept
  <2>2. IsFiniteSet(1..n + 1) /\ Cardinality(1..n + 1) = n + 1
    <3>1. 1 \in Int /\ n + 1 \in Int /\ n + 1 - 1 + 1 = n + 1 /\ 1 <= n + 1
      BY <1>3
    <3> HIDE DEF reached
    <3> QED
      BY <3>1, FS_Interval
  <2>3. /\ Cardinality(reached) <= n + 1
        /\ Cardinality(reached) = n + 1 => reached = 1..n + 1
    <3>1. reached \subseteq 1..n + 1
      BY <1>3
    <3> HIDE DEF reached
    <3> QED
      BY <2>2, <3>1, FS_Subset
  <2>4. Len(Plan[script]) = 3
    BY <2>1, Shape, Plans DEF Expiry
  <2>5. n + 1 = 3
    BY <1>3, <2>1, <2>3, <2>4
  <2>6. n + 1 \in reached
    <3> HIDE DEF reached
    <3> QED
      BY <2>1, <2>3, <2>5
  <2> QED
    BY <1>3, <2>4, <2>5, <2>6
<1>7. server' \in {server, "finished"}
  BY <1>1
<1> HIDE DEF reached
<1>8. /\ server # "listening" => c.handshake = "none"
      /\ Step.offers /\ file = "none" => c.handshake = "none"
      /\ Step.offers /\ Reached(c) => c.offered = file
      /\ c.handshake = "resumed" => Step.offers
      /\ server = "listening" /\ ~(Step.offers /\ file = "none") => Reached(c)
  BY <1>2 DEF Handshakes, Reached
<1>9. file \in {"none", Origin}
  BY <1>1 DEF FileInv
\* Only the connection that mints writes the session file.
<1>10. Saves(Step, c) =>
         n + 1 = Minting /\ c.handshake = "full" /\ Step.to = Origin /\ ~Step.offers
  <2>1. n + 1 \in 1..Len(Plan[script])
    BY <1>3
  <2>2. /\ Step.saves => n + 1 = Minting /\ Step.to = Origin
        /\ Step.offers => n + 1 > Minting
    BY <1>3, <2>1, Shape, Places
  <2>3. Minting \in {1, 2}
    BY DEF Minting
  <2> QED
    BY <1>3, <2>2, <2>3 DEF Saves
<1>11. TypeOK'
  <2>1. file' \in {"none", "open", "server"}
    <3>1. Step.to \in {"protected", "open", "server"} /\ Origin \in {"open", "server"}
      BY <1>3, Shape, Places DEF Origin
    <3>2. file' \in {"none", Origin}
      BY <1>1, <1>9, <1>10
    <3> QED
      BY <3>1, <3>2
  <2> QED
    BY <1>3, <1>4, <1>5, <1>7, <2>1 DEF TypeOK
<1>12. ProgressInv'
  <2>1. Len(log') <= Len(Plan[script]) /\ Len(log') # 0 /\ log' # <<>>
    BY <1>3
  <2>2. script \in Scope => ~expired
    BY DEF ProgressInv
  <2> QED
    BY <1>1, <1>3, <1>4, <1>5, <2>1, <2>2 DEF ProgressInv
<1>13. ServerInv'
  <2>1. \A i \in 1..n + 1 : Reached(log'[i]) => server' # "starting"
    <3> SUFFICES ASSUME NEW i \in 1..n + 1, Reached(log'[i]) PROVE server # "starting"
      BY <1>7
    <3>1. CASE i \in 1..n
      BY <1>3, <3>1 DEF ServerInv
    <3>2. CASE i = n + 1
      BY <1>3, <1>8, <3>2 DEF Reached
    <3> QED
      BY <1>3, <3>1, <3>2
  <2> QED
    BY <1>3, <1>4, <1>5, <1>6, <1>7, <2>1 DEF ServerInv
<1>14. FileInv'
  <2>1. file' \in {"none", Origin}
    BY <1>1, <1>9, <1>10
  <2>2. file' # "none" => n + 1 >= Minting /\ log'[Minting].handshake = "full"
    <3>1. CASE Saves(Step, c)
      BY <1>3, <1>10, <3>1
    <3>2. CASE ~Saves(Step, c)
      <4>1. file' = file /\ pc # "start"
        BY <1>1, <3>2
      <4>2. file # "none" => n >= Minting /\ log[Minting].handshake = "full"
        BY <4>1 DEF FileInv, n
      <4>3. n >= Minting => Minting \in 1..n /\ n + 1 >= Minting
        BY <1>3 DEF Minting
      <4> QED
        BY <1>3, <4>1, <4>2, <4>3
    <3> QED
      BY <3>1, <3>2
  <2> QED
    BY <1>3, <1>4, <2>1, <2>2 DEF FileInv
<1>15. LogInv'
  <2>1. ASSUME NEW i \in 1..n
        PROVE  LET l == log'[i]
                   s == Plan[script][i]
               IN /\ l.to = s.to
                  /\ l.offered # "none" => s.offers
                  /\ Reached(l) /\ s.offers => l.offered = Origin
                  /\ l.handshake = "resumed" => s.offers
                  /\ l.accepted =>
                       l.handshake = "resumed" \/ (l.handshake = "full" /\ Permitted(l))
                  /\ l.handshake = "full" /\ Permitted(l) => l.accepted
                  /\ l.late => expired
    BY <1>3 DEF LogInv
  <2>2. /\ c.to = Step.to
        /\ c.offered # "none" => Step.offers
        /\ Reached(c) /\ Step.offers => c.offered = Origin
        /\ c.handshake = "resumed" => Step.offers
        /\ c.accepted =>
             c.handshake = "resumed" \/ (c.handshake = "full" /\ Permitted(c))
        /\ c.handshake = "full" /\ Permitted(c) => c.accepted
        /\ c.late => expired
    <3>1. /\ c.to = Step.to /\ c.late = expired
          /\ c.offered # "none" => Step.offers
          /\ c.handshake = "resumed" => Step.offers
      BY <1>2, <1>8
    <3>2. Reached(c) /\ Step.offers => c.offered = Origin
      BY <1>8, <1>9 DEF Reached
    <3>3. Passes(Step, "full") <=> Permitted(c)
      BY <3>1 DEF Passes, Permitted
    <3>4. c.accepted => c.handshake = "resumed" \/ (c.handshake = "full" /\ Permitted(c))
      BY <1>2, <3>3 DEF Passes
    <3> QED
      BY <1>2, <3>1, <3>2, <3>3, <3>4
  <2>3. \A i \in 1..n + 1 : i \in 1..n \/ i = n + 1
    BY <1>3
  <2> QED
    BY <1>3, <1>4, <2>1, <2>2, <2>3 DEF LogInv, Permitted
<1>16. TestInv'
  <2>1. ASSUME script \in Scope, n + 1 >= 3, file' = "open", server' = "listening"
        PROVE  Reached(log'[3])
    <3>1. server = "listening" /\ Minting = 2
      BY <1>7, <2>1, Shape, Plans
    <3>2. file = "open"
      <4>1. ~Saves(Step, c)
        BY <1>3, <1>10, <2>1, <3>1
      <4> QED
        BY <1>1, <2>1, <4>1
    <3>3. CASE n + 1 = 3
      BY <1>3, <1>8, <3>1, <3>2, <3>3
    <3>4. CASE n + 1 # 3
      <4>1. n >= 3 /\ 3 \in 1..n
        BY <1>3, <2>1, <3>4
      <4>2. Reached(log[3])
        BY <2>1, <3>1, <3>2, <4>1, Shape, Plans DEF TestInv, n
      <4> QED
        BY <1>3, <4>1, <4>2
    <3> QED
      BY <3>3, <3>4
  <2>2. script \in Expiry => ~(Len(log') = 1 /\ pc' = "connect")
    BY <1>1, Shape, Plans
  <2>3. ASSUME script \in Expiry, n + 1 >= 2
        PROVE  \/ log'[2].late
               \/ script = "nonbrowser" /\ (warned \/ ~Reached(log'[2]))
    <3>1. CASE n + 1 = 2
      <4>1. \/ expired
            \/ script = "nonbrowser" /\ (warned \/ file = "none")
        <5>1. Len(log) = 1
          BY <1>3, <3>1 DEF n
        <5> QED
          BY <1>1, <2>3, <5>1 DEF TestInv
      <4>2. Step.offers
        BY <1>3, <2>3, <3>1, Shape, Plans
      <4> QED
        BY <1>2, <1>3, <1>8, <3>1, <4>1, <4>2 DEF Reached
    <3>2. CASE n + 1 # 2
      <4>1. n >= 2 /\ 2 \in 1..n
        BY <1>3, <2>3, <3>2
      <4>2. \/ log[2].late
            \/ script = "nonbrowser" /\ (warned \/ ~Reached(log[2]))
        BY <2>3, <4>1, Shape, Plans DEF TestInv, n
      <4> QED
        BY <1>3, <4>1, <4>2
    <3> QED
      BY <3>1, <3>2
  <2>4. /\ script \in Scope => Test = 3
        /\ script \in Expiry => Test = 2
    BY Shape, Plans
  <2> QED
    BY <1>3, <1>4, <2>1, <2>2, <2>3, <2>4 DEF TestInv
<1>17. OfferableMeansPosed'
  <2> SUFFICES ASSUME n + 1 = 4, script \in Scope, c.handshake = "resumed"
               PROVE  Reached(log'[3]) /\ log'[3].offered = "open"
    BY <1>3, <1>4 DEF OfferableMeansPosed, SaysOfferable, SaysReused, Grep
  <2>1. n = 3 /\ 3 \in 1..n /\ log'[3] = log[3]
    BY <1>3
  <2>2. server = "listening" /\ file = "open"
    BY <1>8, <1>9, Shape, Plans
  <2>3. Reached(log[3])
    BY <2>1, <2>2, Shape, Plans DEF TestInv, n
  <2>4. Plan[script][3].offers /\ Origin = "open"
    BY Shape, Plans
  <2>5. log[3].offered = "open"
    BY <1>3, <2>1, <2>3, <2>4 DEF LogInv
  <2> QED
    BY <2>1, <2>3, <2>5
<1>18. ControlFindsServer'
  <2> SUFFICES ASSUME script = "mtls", n + 1 = 3, Reached(log'[1]), server' # "dead"
               PROVE  Reached(c)
    BY <1>3, <1>4 DEF ControlFindsServer
  <2>1. CASE server' = "finished"
    BY <1>6, <2>1
  <2>2. CASE server' # "finished"
    <3>1. server' = server
      BY <1>7, <2>2
    <3>2. 1 \in 1..n /\ Reached(log[1])
      BY <1>3
    <3>3. server = "listening"
      <4>1. server # "starting"
        BY <1>3, <3>2 DEF ServerInv
      <4> QED
        BY <1>5, <3>1, <4>1 DEF TypeOK
    <3>4. ~Step.offers
      BY <1>3, Shape, Plans DEF Expiry
    <3> QED
      BY <1>8, <3>3, <3>4
  <2> QED
    BY <2>1, <2>2
<1> QED
  BY <1>11, <1>12, <1>13, <1>14, <1>15, <1>16, <1>17, <1>18

\* Every step keeps the invariant.
LEMMA NextReplay == ReplayInv /\ [Next]_vars => ReplayInv'
<1> SUFFICES ASSUME ReplayInv, [Next]_vars PROVE ReplayInv'
  OBVIOUS
<1>1. CASE Start
  BY <1>1, StartStep
<1>2. CASE Connect
  BY <1>2, ConnectStep
<1>3. CASE WaitMtls \/ WaitNonbrowser
  BY <1>3, WaitStep
<1>4. CASE Stop
  BY <1>4, StopStep
<1>5. CASE Listens \/ Dies \/ Expires
  BY <1>5, AroundStep
<1>6. CASE UNCHANGED vars
  <2>1. UNCHANGED <<script, enforces, pc, server, expired, warned, file, log>>
    BY <1>6 DEF vars
  <2>2. Plan' = Plan /\ Test' = Test /\ Minting' = Minting /\ Origin' = Origin
    BY <2>1 DEF Plan, Test, Minting, Origin
  <2>3. LogInv' /\ OfferableMeansPosed'
    <3>1. script \in Scope => ~expired'
      BY <2>1 DEF ReplayInv, ProgressInv
    <3> QED
      BY <2>1, <3>1, SameLog
  <2>4. TypeOK' /\ ProgressInv' /\ ServerInv' /\ FileInv'
    BY <2>1, <2>2 DEF ReplayInv, TypeOK, ProgressInv, ServerInv, FileInv
  <2>5. TestInv' /\ ControlFindsServer'
    BY <2>1, <2>2 DEF ReplayInv, TestInv, ControlFindsServer
  <2> QED
    BY <2>3, <2>4, <2>5 DEF ReplayInv
<1> QED
  BY <1>1, <1>2, <1>3, <1>4, <1>5, <1>6 DEF Next, StillValid, Terminated

\* What the first control buys, in a state of the invariant.
LEMMA Finding ==
  ASSUME ReplayInv, pc = "done", SaysFinding,
         log[Control].handshake = "full", ~log[Control].accepted
  PROVE  /\ log[Test].handshake = "resumed"
         /\ script \in Expiry => log[Test].late \/ warned
<1> USE DEF ReplayInv
<1>1. Len(log) = Len(Plan[script])
  BY DEF ProgressInv
<1>2. CASE script \in Scope
  <2>1. /\ Len(log) = 4 /\ Test = 3 /\ Control = 1 /\ script \notin Expiry
        /\ 1 \in DOMAIN log /\ 3 \in DOMAIN log
        /\ Plan[script][3].to = "protected"
    BY <1>1, <1>2, Shape, Plans
  <2>2. enforces
    BY <2>1 DEF LogInv, Permitted
  <2>3. log[3].accepted
    BY <1>2, <2>1 DEF SaysFinding, SaysContent, Grep, Scope
  <2>4. ~Permitted(log[3])
    BY <2>1, <2>2 DEF LogInv, Permitted
  <2> QED
    BY <2>1, <2>3, <2>4 DEF LogInv
<1>3. CASE script \in Expiry
  <2>1. /\ Len(log) = 3 /\ Test = 2 /\ Control = 3 /\ script \notin Scope
        /\ 2 \in DOMAIN log /\ 3 \in DOMAIN log
    BY <1>1, <1>3, Shape, Plans
  <2>2. \/ log[2].late
        \/ script = "nonbrowser" /\ (warned \/ ~Reached(log[2]))
    BY <1>3, <2>1 DEF TestInv
  <2>3. CASE script = "mtls"
    <3>1. log[2].late
      BY <2>2, <2>3
    <3>2. enforces
      BY <2>1 DEF LogInv, Permitted
    <3>3. log[2].accepted
      BY <2>1, <2>3 DEF SaysFinding, SaysRejected, Grep, Scope
    <3> QED
      BY <2>1, <3>1, <3>2, <3>3 DEF LogInv, Permitted
  <2>4. CASE script = "nonbrowser"
    <3>1. log[2].handshake = "resumed"
      BY <2>1, <2>4 DEF SaysFinding, SaysReused, Grep, Scope
    <3> QED
      BY <2>1, <2>2, <3>1 DEF Reached
  <2> QED
    BY <1>3, <2>3, <2>4 DEF Expiry
<1> QED
  BY <1>2, <1>3, Shape

-----------------------------------------------------------------------------
\* The inductive invariant holds throughout a script.
THEOREM ReplayInvariance == Spec => []ReplayInv
BY InitReplay, NextReplay, PTL DEF Spec

\* A ticket that resumed at its own host had been offered to the test, of a server
\* that answered (nginx-vhost-scope/run.sh:40-57).
THEOREM SecondControl == Spec => []OfferableMeansPosed
<1>1. ReplayInv => OfferableMeansPosed
  BY DEF ReplayInv
<1> QED
  BY <1>1, ReplayInvariance, PTL

\* The control of mtls-openssl finds its server, if the first connection did
\* (mtls-openssl/run.sh:12-14).
THEOREM ControlReaches == Spec => []ControlFindsServer
<1>1. ReplayInv => ControlFindsServer
  BY DEF ReplayInv
<1> QED
  BY <1>1, ReplayInvariance, PTL

\* With a control that was refused, a finding is of a resumption, and of one after
\* the expiry if the script does not warn (README.md:34-37).
THEOREM FirstControl == Spec => []FindingIsOfResumption
<1>1. ReplayInv => FindingIsOfResumption
  BY Finding DEF FindingIsOfResumption
<1> QED
  BY <1>1, ReplayInvariance, PTL
=============================================================================
