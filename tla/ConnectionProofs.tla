-------------------------- MODULE ConnectionProofs --------------------------
(***************************************************************************)
(* Proofs about one call of run_s_client, for any hold, timeout and        *)
(* horizon, any number of tickets and every interleaving of the processes: *)
(* none of them outlives the call, the call returns an outcome that module *)
(* Probe counts on, and the lifetime hint is that of the saved session.    *)
(***************************************************************************)
EXTENDS Connection, SequenceTheorems, TLAPS

\* What s_client may print.
Printable == Lines \cup Hints

-----------------------------------------------------------------------------
(***************************************************************************)
(* Lines, and what is read from them.                                      *)
(***************************************************************************)
\* Lines of different kinds are different.
LEMMA LineKinds ==
  /\ Banner # Material
  /\ \A t \in 1..MaxTickets :
       Hint(t) # Banner /\ Hint(t) # Material /\ Hint(t) \in Hints /\ Hint(t)[2] = t
  /\ Banner \notin Hints /\ Material \notin Hints
  /\ \A v : New(v) \notin Hints \cup {Banner, Material}
            /\ Reused(v) \notin Hints \cup {Banner, Material}
BY DEF Banner, Material, Hint, Hints, New, Reused

\* The headline of an exchange is one line, and no other line.
LEMMA Headlines ==
  ASSUME NEW x
  PROVE  /\ Headline(x) = {} \/ Headline(x) = {HeadlineOf(x)}
         /\ x.phase \notin {"none", "unreached"} => Headline(x) = {HeadlineOf(x)}
         /\ HeadlineOf(x) \notin Hints \cup {Banner, Material}
BY LineKinds DEF Headline, HeadlineOf

\* An exchange that a server can have is an exchange, and its headline a line.
LEMMA ExchangeLines ==
  ASSUME NEW session, NEW x \in Exchanges(session)
  PROVE  /\ x \in Exchange
         /\ x.phase = "established" => HeadlineOf(x) \in Lines
<1>1. NoExchange \in Exchange
  BY MaxTicketsAssumption DEF NoExchange, Exchange, Phases
<1>2. x \in Exchange
  BY <1>1 DEF Exchanges
<1>3. x.phase = "established" => x.version \in Versions
  BY <1>2 DEF Exchanges, Exchange, NoExchange
<1> QED
  BY <1>2, <1>3 DEF HeadlineOf, Lines

\* Which of the ticket lines are printed of an exchange.
LEMMA TicketLines ==
  ASSUME NEW x \in Exchange
  PROVE  /\ Headline(x) \subseteq Printed(x)
         /\ Printed(x) \subseteq Headline(x) \cup {Banner, Material}
         /\ Material \in Printed(x) <=> x.tickets > 0
         /\ Banner \in Printed(x) <=> x.tickets > 0 /\ x.version = "TLSv1.3"
<1>1. Headline(x) \cap {Banner, Material} = {}
  BY Headlines
<1> QED
  BY <1>1, LineKinds DEF Printed, Banners

\* A line before others, and two lists of lines one after the other.
LEMMA OneBefore ==
  ASSUME NEW S, NEW a \in S, NEW t \in Seq(S)
  PROVE  /\ <<a>> \o t \in Seq(S) /\ Len(t) \in Nat
         /\ Len(<<a>> \o t) = 1 + Len(t)
         /\ (<<a>> \o t)[1] = a
         /\ \A i \in 2..1 + Len(t) : (<<a>> \o t)[i] = t[i - 1]
<1>1. <<a>> \in Seq(S) /\ Len(<<a>>) = 1 /\ <<a>>[1] = a
  OBVIOUS
<1>2. Len(t) \in Nat
  OBVIOUS
<1> DEFINE s == <<a>>
<1> HIDE DEF s
<1>3. /\ s \o t \in Seq(S) /\ Len(s \o t) = Len(s) + Len(t)
      /\ \A i \in 1 .. Len(s) + Len(t) :
           (s \o t)[i] = IF i <= Len(s) THEN s[i] ELSE t[i - Len(s)]
  BY <1>1, ConcatProperties DEF s
<1>4. Len(s) = 1 /\ s[1] = a
  BY <1>1 DEF s
<1>5. (s \o t)[1] = a /\ \A i \in 2..1 + Len(t) : (s \o t)[i] = t[i - 1]
  BY <1>2, <1>3, <1>4
<1> QED
  BY <1>2, <1>3, <1>4, <1>5 DEF s

\* The elements of two sequences one after the other.
LEMMA Joined ==
  ASSUME NEW S, NEW s \in Seq(S), NEW t \in Seq(S)
  PROVE  /\ s \o t \in Seq(S) /\ Len(s) \in Nat /\ Len(t) \in Nat
         /\ Len(s \o t) = Len(s) + Len(t)
         /\ \A i \in 1..Len(s) : (s \o t)[i] = s[i]
         /\ \A i \in 1..Len(t) : (s \o t)[Len(s) + i] = t[i]
OBVIOUS

\* The beginning of an ordered transcript is ordered.
LEMMA OrderedPrefix ==
  ASSUME NEW x, NEW s \in Seq(Printable), NEW t \in Seq(Printable),
         Ordered(s \o t, x)
  PROVE  Ordered(s, x)
<1>1. \A i \in 1..Len(s) : i \in 1..Len(s \o t) /\ (s \o t)[i] = s[i]
  OBVIOUS
<1>2. \A i \in 1..Len(s) : s[i] \in Printed(x) \cup Hints
  BY <1>1 DEF Ordered
<1>3. s # <<>> => s[1] \in Headline(x)
  <2>1. s # <<>> => 1 \in 1..Len(s)
    OBVIOUS
  <2>2. 1 \in 1..Len(s) => s \o t # <<>>
    OBVIOUS
  <2> QED
    BY <1>1, <2>1, <2>2 DEF Ordered
<1>4. ASSUME NEW i \in 1..Len(s), s[i] = Material, x.version = "TLSv1.3"
      PROVE  \E j \in 1..i-1 : s[j] = Banner
  <2>1. PICK j \in 1..i-1 : (s \o t)[j] = Banner
    BY <1>1, <1>4 DEF Ordered
  <2>2. j \in 1..Len(s)
    OBVIOUS
  <2> QED
    BY <1>1, <2>1, <2>2
<1> QED
  BY <1>2, <1>3, <1>4 DEF Ordered

\* A transcript cut short anywhere is one of the cuts of its exchange, for all
\* that is looked for in it.
LEMMA CutTranscript ==
  ASSUME NEW x \in Exchange, NEW s \in Seq(Printable), Ordered(s, x),
         NEW n \in 0..Len(s)
  PROVE  LinesOf(SubSeq(s, 1, n)) \in Cuts(x)
<1> DEFINE p == SubSeq(s, 1, n)
           text == LinesOf(p)
<1>1. Len(p) = n /\ \A i \in 1..n : p[i] = s[i]
  OBVIOUS
<1>2. \A l : l \in text <=> l \notin Hints /\ \E i \in 1..n : s[i] = l
  BY <1>1 DEF LinesOf
<1>3. CASE n = 0
  <2>1. text = {}
    BY <1>2, <1>3
  <2> QED
    BY <2>1 DEF Cuts
<1>4. CASE n # 0
  <2>1. 1 \in 1..n /\ s # <<>>
    BY <1>4
  <2>2. s[1] \in Headline(x)
    BY <2>1 DEF Ordered
  <2>3. Headline(x) = {s[1]} /\ s[1] \notin Hints \cup {Banner, Material}
    BY <2>2, Headlines
  <2>4. Headline(x) \subseteq text
    BY <1>2, <2>1, <2>3
  <2>5. text \subseteq Printed(x)
    BY <1>2 DEF Ordered
  <2>6. Material \in text /\ x.version = "TLSv1.3" => Banner \in text
    <3> SUFFICES ASSUME Material \in text, x.version = "TLSv1.3"
                 PROVE  Banner \in text
      OBVIOUS
    <3>1. PICK i \in 1..n : s[i] = Material
      BY <1>2
    <3>2. PICK j \in 1..i-1 : s[j] = Banner
      BY <3>1 DEF Ordered
    <3>3. j \in 1..n
      OBVIOUS
    <3> QED
      BY <1>2, <3>2, <3>3, LineKinds
  <2>7. text \subseteq Headline(x) \cup {Banner, Material}
    BY <2>5, TicketLines
  <2> HIDE DEF text
  <2>8. CASE Material \in text
    <3>1. Material \in Printed(x)
      BY <2>5, <2>8
    <3>2. Printed(x) \subseteq text
      BY <2>4, <2>6, <2>8, TicketLines
    <3>3. text = Printed(x)
      BY <2>5, <3>2
    <3> QED
      BY <3>3 DEF Cuts, text
  <2>9. CASE Material \notin text /\ Banner \in text
    <3>1. Banners(x) = {Banner}
      BY <2>5, <2>9, TicketLines DEF Banners
    <3>2. text = Headline(x) \cup Banners(x)
      BY <2>4, <2>7, <2>9, <3>1
    <3> QED
      BY <3>2 DEF Cuts, text
  <2>10. CASE Material \notin text /\ Banner \notin text
    <3>1. text = Headline(x)
      BY <2>4, <2>7, <2>10
    <3> QED
      BY <3>1 DEF Cuts, text
  <2> QED
    BY <2>8, <2>9, <2>10
<1> QED
  BY <1>3, <1>4

\* What is returned of an s_client that is killed before it has connected.
KilledEarly ==
  [ended |-> "timeout", text |-> {}, saved |-> "none", exchange |-> NoExchange]

LEMMA EarlyIsOutcome ==
  ASSUME NEW session, NEW sess_out
  PROVE  KilledEarly \in Outcomes(session, sess_out)
<1> DEFINE later ==
      UNION { { [ended |-> e, text |-> t, saved |-> s, exchange |-> x] :
                  t \in Texts(x, e), s \in Saves(x, e, sess_out) } :
              x \in Exchanges(session), e \in {"exited", "timeout"} }
<1>1. Outcomes(session, sess_out) = {SpawnFailure} \cup {KilledEarly} \cup later
  BY SMTT(60) DEF Outcomes, KilledEarly
<1> HIDE DEF later
<1> QED
  BY <1>1

\* What is read of an exchange is an outcome.
LEMMA IsOutcome ==
  ASSUME NEW session, NEW sess_out, NEW e \in {"exited", "timeout"},
         NEW x \in Exchanges(session), NEW t \in Texts(x, e),
         NEW s \in Saves(x, e, sess_out)
  PROVE  [ended |-> e, text |-> t, saved |-> s, exchange |-> x]
           \in Outcomes(session, sess_out)
<1> DEFINE o(y, f) == { [ended |-> f, text |-> u, saved |-> v, exchange |-> y] :
                          u \in Texts(y, f), v \in Saves(y, f, sess_out) }
<1>1. [ended |-> e, text |-> t, saved |-> s, exchange |-> x] \in o(x, e)
  OBVIOUS
<1>2. o(x, e) \in {o(y, f) : y \in Exchanges(session), f \in {"exited", "timeout"}}
  <2> HIDE DEF o
  <2> QED
    OBVIOUS
<1>3. [ended |-> e, text |-> t, saved |-> s, exchange |-> x] \in
        UNION {o(y, f) : y \in Exchanges(session), f \in {"exited", "timeout"}}
  <2> HIDE DEF o
  <2> QED
    BY <1>1, <1>2
<1> QED
  BY <1>3 DEF Outcomes

\* A session block, and the banner before it: its last line is the material, and
\* the hint, if the ticket has one, stands before it.
LEMMA Block ==
  ASSUME NEW t \in 1..MaxTickets
  PROVE  /\ TicketBlock(t) \in Seq(Printable)
         /\ \A i \in 1..Len(TicketBlock(t)) : TicketBlock(t)[i] \in {Hint(t), Material}
         /\ Len(TicketBlock(t)) > 0 /\ TicketBlock(t)[Len(TicketBlock(t))] = Material
         /\ t \in server.hinted =>
              Len(TicketBlock(t)) = 2 /\ TicketBlock(t)[1] = Hint(t)
<1>1. Hint(t) \in Printable /\ Material \in Printable
  BY LineKinds DEF Printable, Lines
<1>2. CASE t \in server.hinted
  <2> HIDE DEF Hint, Material
  <2>1. TicketBlock(t) = <<Hint(t)>> \o <<Material>>
    BY <1>2 DEF TicketBlock
  <2>2. /\ <<Hint(t)>> \o <<Material>> \in Seq(Printable)
        /\ Len(<<Hint(t)>> \o <<Material>>) = 2
        /\ (<<Hint(t)>> \o <<Material>>)[1] = Hint(t)
        /\ (<<Hint(t)>> \o <<Material>>)[2] = Material
    BY <1>1
  <2> QED
    BY <2>1, <2>2
<1>3. CASE t \notin server.hinted
  <2>1. TicketBlock(t) = <<>> \o <<Material>>
    BY <1>3 DEF TicketBlock
  <2>2. /\ <<>> \o <<Material>> \in Seq(Printable)
        /\ Len(<<>> \o <<Material>>) = 1
        /\ (<<>> \o <<Material>>)[1] = Material
    BY <1>1
  <2> QED
    BY <1>3, <2>1, <2>2
<1> QED
  BY <1>2, <1>3

-----------------------------------------------------------------------------
(***************************************************************************)
(* The inductive invariant.                                                *)
(***************************************************************************)
\* What the types say of the server and of the processes.
LEMMA Types ==
  ASSUME TypeOK
  PROVE  /\ server.intends \in Exchanges(call.session)
         /\ server.intends \in Exchange /\ server.intends.tickets \in 0..MaxTickets
         /\ server.hinted \subseteq 1..server.intends.tickets
         /\ server.prompted_by \in {"handshake", "request"}
         /\ printed \in Seq(Printable) /\ pending \in Seq(Printable)
         /\ transcript \in Seq(Printable)
         /\ exchange \in Exchange /\ exchange.tickets \in 0..MaxTickets
         /\ {now, deadline, wake, Hold, Timeout, Horizon} \subseteq Nat
         /\ now <= Horizon /\ deadline <= Horizon /\ wake <= Horizon + Hold
<1>1. server \in Servers(call.session)
  BY DEF TypeOK
<1>2. /\ server.intends \in Exchanges(call.session)
      /\ server.hinted \subseteq 1..server.intends.tickets
      /\ server.prompted_by \in {"handshake", "request"}
  BY <1>1 DEF Servers
<1>3. server.intends \in Exchange
  BY <1>2, ExchangeLines
<1>4. exchange \in Exchange
  BY DEF TypeOK
<1>5. server.intends.tickets \in 0..MaxTickets /\ exchange.tickets \in 0..MaxTickets
  BY <1>3, <1>4 DEF Exchange
<1>6. printed \in Seq(Printable) /\ pending \in Seq(Printable)
  BY DEF TypeOK, Printable
<1>7. transcript \in Seq(Printable)
  BY <1>6 DEF transcript
<1>8. now \in 0..Horizon /\ deadline \in 0..Horizon /\ wake \in 0..Horizon + Hold
  BY DEF TypeOK
<1>9. /\ {now, deadline, wake, Hold, Timeout, Horizon} \subseteq Nat
      /\ now <= Horizon /\ deadline <= Horizon /\ wake <= Horizon + Hold
  BY <1>8, TimesAssumption
<1> QED
  BY <1>2, <1>3, <1>4, <1>5, <1>6, <1>7, <1>9

\* The first state satisfies the invariant.
LEMMA InitConnection == Init => ConnectionInv
<1> SUFFICES ASSUME Init PROVE ConnectionInv
  OBVIOUS
<1>1. printed = <<>> /\ pending = <<>> /\ transcript = <<>>
  BY DEF Init, transcript
<1>2. exchange = NoExchange /\ NoExchange \in Exchange
  BY MaxTicketsAssumption DEF Init, NoExchange, Exchange, Phases
<1>3. TypeOK
  <2>1. printed \in Seq(Lines \cup Hints) /\ pending \in Seq(Lines \cup Hints)
    BY <1>1
  <2>2. now \in 0..Horizon /\ deadline \in 0..Horizon /\ wake \in 0..Horizon + Hold
    BY TimesAssumption DEF Init
  <2>3. file \in [state : SaveStates, ticket : 0..MaxTickets]
    BY MaxTicketsAssumption DEF Init, SaveStates
  <2>4. result.ended \in {"spawn_failure", "exited", "timeout"}
    BY DEF Init, SpawnFailure
  <2> QED
    BY <1>2, <2>1, <2>2, <2>3, <2>4 DEF Init, TypeOK, ClientStates
<1>4. ClockInv /\ ProcessInv
  BY TimesAssumption DEF Init, ClockInv, ProcessInv
<1>5. ExchangeInv /\ FileInv
  BY DEF Init, ExchangeInv, FileInv, Connected
<1>6. ResultInv
  BY DEF Init, ResultInv, SpawnFailure
<1>7. TranscriptInv
  <2>1. Ordered(<<>>, exchange)
    BY DEF Ordered
  <2>2. ~Complete
    BY DEF Init, Complete, Connected
  <2> QED
    BY <1>1, <2>1, <2>2 DEF TranscriptInv
<1> QED
  BY <1>3, <1>4, <1>5, <1>6, <1>7 DEF ConnectionInv

\* A step that prints nothing and does not come nearer to an exit.
LEMMA SameTranscript ==
  ASSUME TranscriptInv, UNCHANGED <<printed, pending, exchange, server>>,
         Complete' => Complete,
         client' \in {"absent", "connecting", "handshaking"} =>
           client \in {"absent", "connecting", "handshaking"},
         client' \notin {"saving", "reaped"} => client \notin {"saving", "reaped"}
  PROVE  TranscriptInv'
<1>1. transcript' = transcript
  BY DEF transcript
<1>2. Ordered(transcript, exchange)' = Ordered(transcript, exchange)
  BY <1>1 DEF Ordered
<1>3. LastHint(transcript, exchange)' = LastHint(transcript, exchange)
  BY <1>1 DEF LastHint
<1>4. LinesOf(transcript') = LinesOf(transcript) /\ Printed(exchange') = Printed(exchange)
  BY <1>1
<1> QED
  BY <1>1, <1>2, <1>3, <1>4 DEF TranscriptInv

\* run_s_client starts its two processes, or fails to.
LEMMA SpawnStep ==
  ASSUME ConnectionInv, SpawnFeeder \/ SpawnClient
  PROVE  ConnectionInv'
<1> USE DEF ConnectionInv
<1>1. UNCHANGED <<call, server, now, wake, requested, exchange, printed, pending,
                  file, result>>
  BY DEF SpawnFeeder, SpawnClient
<1>2. /\ harness \in {"start", "spawned"} /\ client = "absent"
      /\ client' \in {"absent", "connecting"}
      /\ harness' \in {"spawned", "returned", "waiting", "finally"}
      /\ result = SpawnFailure /\ exchange = NoExchange
  BY DEF SpawnFeeder, SpawnClient, ProcessInv, ResultInv, ExchangeInv
<1>3. now + Timeout <= Horizon
  BY <1>2 DEF ClockInv
<1>4. TypeOK'
  <2>1. deadline' \in 0..Horizon
    <3>1. deadline' \in {deadline, now + Timeout}
      BY DEF SpawnFeeder, SpawnClient
    <3> QED
      BY <1>3, <3>1, Types
  <2>2. feeder' \in {"absent", "starting", "sleeping", "exited", "reaped"}
    BY DEF SpawnFeeder, SpawnClient, TypeOK
  <2> QED
    BY <1>1, <1>2, <2>1, <2>2 DEF TypeOK, ClientStates
<1>5. ClockInv' /\ ProcessInv'
  <2>1. ClockInv'
    BY <1>1, <1>2, <1>3 DEF SpawnFeeder, SpawnClient, ClockInv
  <2>2. ProcessInv'
    BY <1>2 DEF SpawnFeeder, SpawnClient, ProcessInv
  <2> QED
    BY <2>1, <2>2
<1>6. ExchangeInv' /\ FileInv'
  BY <1>1, <1>2 DEF ExchangeInv, FileInv, Connected
<1>7. ResultInv'
  <2>1. SpawnFailure \in Outcomes(call.session, call.sess_out)
    BY DEF Outcomes
  <2>2. SpawnFailure.ended # "exited"
    BY DEF SpawnFailure
  <2> QED
    BY <1>1, <1>2, <2>1, <2>2 DEF ResultInv
<1>8. TranscriptInv'
  <2>1. ~Complete'
    BY <1>2 DEF Complete, Connected
  <2> QED
    BY <1>1, <1>2, <2>1, SameTranscript
<1> QED
  BY <1>4, <1>5, <1>6, <1>7, <1>8

\* s_client has ended, or is killed at the deadline: what is returned is an outcome.
LEMMA DecideStep ==
  ASSUME ConnectionInv, ClientEnded \/ TimeoutExpired
  PROVE  ConnectionInv'
<1> USE DEF ConnectionInv
<1>1. /\ UNCHANGED <<call, server, now, deadline, feeder, wake, requested,
                     exchange, printed, pending, file>>
      /\ harness = "waiting" /\ harness' = "finally" /\ client' = "reaped"
      /\ client \notin {"absent", "reaped"}
  BY DEF ClientEnded, TimeoutExpired, ProcessInv
<1>2. result' \in Outcomes(call.session, call.sess_out)
  <2>1. Ordered(printed, exchange)
    BY Types, OrderedPrefix DEF TranscriptInv, transcript
  <2>2. client # "connecting" => exchange \in Exchanges(call.session)
    BY <1>1 DEF ExchangeInv, Connected, TypeOK, ClientStates
  <2>3. file.state \in SaveStates
    BY DEF TypeOK
  <2>4. CASE ClientEnded
    <3>1. client = "exited" /\ result' = Returned("exited", LinesOf(printed))
      BY <2>4 DEF ClientEnded
    <3>2. LinesOf(printed) = Printed(exchange)
      <4>1. pending = <<>> /\ Complete
        BY <3>1 DEF TranscriptInv, Complete
      <4>2. transcript = printed
        BY <4>1, Types DEF transcript
      <4>3. Printed(exchange) \subseteq LinesOf(printed)
        BY <4>1, <4>2 DEF TranscriptInv
      <4>4. LinesOf(printed) \subseteq Printed(exchange)
        BY <2>1 DEF Ordered, LinesOf
      <4> QED
        BY <4>3, <4>4
    <3>3. file.state \in Saves(exchange, "exited", call.sess_out)
      BY <2>3, <3>1 DEF FileInv, Saves, SaveStates
    <3>4. LinesOf(printed) \in Texts(exchange, "exited")
      BY <3>2 DEF Texts
    <3> QED
      BY <2>2, <3>1, <3>3, <3>4, IsOutcome DEF Returned
  <2>5. CASE TimeoutExpired
    <3>1. PICK n \in 0..Len(printed) :
            result' = Returned("timeout", LinesOf(SubSeq(printed, 1, n)))
      BY <2>5 DEF TimeoutExpired
    <3>2. LinesOf(SubSeq(printed, 1, n)) \in Cuts(exchange)
      BY <2>1, Types, CutTranscript
    <3>3. LinesOf(SubSeq(printed, 1, n)) \in Texts(exchange, "timeout")
      BY <3>2 DEF Texts
    <3>4. file.state \in Saves(exchange, "timeout", call.sess_out)
      BY <2>3 DEF FileInv, Saves, SaveStates
    <3>5. CASE client # "connecting"
      BY <2>2, <3>1, <3>3, <3>4, <3>5, IsOutcome DEF Returned
    <3>6. CASE client = "connecting"
      <4>1. exchange = NoExchange /\ file.state = "none"
        BY <2>3, <3>6 DEF ExchangeInv, FileInv, NoExchange
      <4>2. LinesOf(SubSeq(printed, 1, n)) = {}
        BY <3>2, <4>1 DEF Cuts, Printed, Headline, Banners, NoExchange
      <4>3. result' = KilledEarly
        BY <3>1, <4>1, <4>2 DEF Returned, KilledEarly
      <4> QED
        BY <4>3, EarlyIsOutcome
    <3> QED
      BY <3>5, <3>6
  <2> QED
    BY <2>4, <2>5
<1>3. result'.ended \in {"exited", "timeout"}
      /\ (result'.ended = "exited" => client = "exited")
  BY DEF ClientEnded, TimeoutExpired, Returned
<1>4. TypeOK'
  BY <1>1, <1>3 DEF TypeOK, ClientStates
<1>5. ClockInv' /\ ProcessInv'
  BY <1>1 DEF ClockInv, ProcessInv
<1>6. ExchangeInv' /\ FileInv'
  BY <1>1 DEF ExchangeInv, FileInv, Connected
<1>7. ResultInv'
  BY <1>1, <1>2, <1>3 DEF ResultInv, TranscriptInv
<1>8. TranscriptInv'
  <2>1. Complete' => Complete
    BY <1>1, <1>3 DEF Complete, Connected
  <2> QED
    BY <1>1, <2>1, SameTranscript
<1> QED
  BY <1>4, <1>5, <1>6, <1>7, <1>8

\* The finally clause, the feeder and the clock leave s_client alone.
LEMMA OtherStep ==
  ASSUME ConnectionInv, Finally \/ FeederWrites \/ FeederExits \/ Tick \/ UNCHANGED vars
  PROVE  ConnectionInv'
<1> USE DEF ConnectionInv
<1>1. UNCHANGED <<call, server, deadline, client, requested, exchange, printed,
                  pending, file, result>>
  BY DEF Finally, FeederWrites, FeederExits, Tick, vars
<1>2. /\ now' \in {now, now + 1} /\ now' <= Horizon
      /\ harness \in {"start", "spawned"} => now' + Timeout <= Horizon
      /\ wake' \in {wake, now + Hold}
  BY Types DEF ClockInv, Finally, FeederWrites, FeederExits, Tick, vars
<1>3. /\ harness' = harness \/ (harness = "finally" /\ harness' = "returned")
      /\ feeder' \in {feeder, "sleeping", "exited", "reaped"}
  BY DEF Finally, FeederWrites, FeederExits, Tick, vars
<1>4. TypeOK'
  <2>1. now' \in 0..Horizon /\ wake' \in 0..Horizon + Hold
    BY <1>2, Types
  <2>2. /\ feeder' \in {"absent", "starting", "sleeping", "exited", "reaped"}
        /\ harness' \in {"start", "spawned", "waiting", "finally", "returned"}
    BY <1>3 DEF TypeOK
  <2> QED
    BY <1>1, <2>1, <2>2 DEF TypeOK
<1>5. ClockInv'
  BY <1>2, <1>3 DEF ClockInv
<1>6. ProcessInv'
  BY DEF ProcessInv, Finally, FeederWrites, FeederExits, Tick, vars
<1>7. ExchangeInv' /\ FileInv'
  BY <1>1 DEF ExchangeInv, FileInv
<1>8. ResultInv'
  BY <1>1, <1>3 DEF ResultInv
<1>9. TranscriptInv'
  BY <1>1, SameTranscript DEF Complete
<1> QED
  BY <1>4, <1>5, <1>6, <1>7, <1>8, <1>9

\* A step of s_client leaves the harness, the feeder and the clock alone.
LEMMA ClientAlone ==
  ASSUME ConnectionInv, UNCHANGED client_only,
         client \in Connected \cup {"connecting", "handshaking"},
         client' \in Connected \cup {"handshaking", "exited"},
         requested' \in BOOLEAN, exchange' \in Exchange,
         printed' \in Seq(Printable), pending' \in Seq(Printable),
         file' \in [state : SaveStates, ticket : 0..MaxTickets]
  PROVE  /\ TypeOK' /\ ClockInv' /\ ProcessInv' /\ ResultInv'
         /\ harness = "waiting" /\ result = SpawnFailure /\ ~(result'.ended = "exited")
<1> USE DEF ConnectionInv
<1>1. UNCHANGED <<call, server, now, harness, deadline, feeder, wake, result>>
  BY DEF client_only
<1>2. harness = "waiting"
  BY DEF ProcessInv, TypeOK, Connected
<1>3. result = SpawnFailure /\ result.ended = "spawn_failure"
  BY <1>2 DEF ResultInv, SpawnFailure
<1>4. TypeOK'
  BY <1>1 DEF TypeOK, ClientStates, Connected, Printable
<1>5. ClockInv' /\ ProcessInv'
  BY <1>1, <1>2 DEF ClockInv, ProcessInv, Connected
<1>6. ResultInv'
  BY <1>1, <1>2, <1>3 DEF ResultInv
<1> QED
  BY <1>1, <1>2, <1>3, <1>4, <1>5, <1>6

\* A connection that sends, or is closed, prints nothing and gets no ticket.
LEMMA IdleStep ==
  ASSUME ConnectionInv, SendRequest \/ StdinCloses \/ ServerCloses \/ HungUp
  PROVE  ConnectionInv'
<1> USE DEF ConnectionInv
<1>1. /\ UNCHANGED <<exchange, printed, pending, file, client_only>>
      /\ client \in {"open", "hung_up"} /\ client' \in {"open", "hung_up", "exited"}
      /\ requested' \in {requested, TRUE}
  BY DEF SendRequest, StdinCloses, ServerCloses, HungUp
<1>2. UNCHANGED <<call, server, result>>
  BY <1>1 DEF client_only
<1>3. TypeOK' /\ ClockInv' /\ ProcessInv' /\ ResultInv'
  <2>1. /\ requested' \in BOOLEAN /\ exchange' \in Exchange
        /\ printed' \in Seq(Printable) /\ pending' \in Seq(Printable)
        /\ file' \in [state : SaveStates, ticket : 0..MaxTickets]
    BY <1>1 DEF TypeOK, Printable
  <2> QED
    BY <1>1, <2>1, ClientAlone DEF Connected
<1>4. ExchangeInv' /\ FileInv'
  BY <1>1, <1>2 DEF ExchangeInv, FileInv, Connected
<1>5. TranscriptInv'
  <2>1. Complete
    BY <1>1 DEF Complete, Connected
  <2> QED
    BY <1>1, <1>2, <2>1, SameTranscript
<1> QED
  BY <1>3, <1>4, <1>5

\* s_client reaches a listener, or ends for want of one or of a session to load.
LEMMA ConnectStep ==
  ASSUME ConnectionInv, Connect
  PROVE  ConnectionInv'
<1> USE DEF ConnectionInv
<1> DEFINE reached == server.intends.phase \in {"rejected", "established"}
           phase == IF reached THEN "rejected" ELSE server.intends.phase
<1>1. /\ client = "connecting"
      /\ client' = IF reached THEN "handshaking" ELSE "exited"
      /\ exchange' = [NoExchange EXCEPT !.phase = phase]
      /\ UNCHANGED <<requested, printed, pending, file, client_only>>
  BY DEF Connect
<1>2. UNCHANGED <<call, server, result>>
  BY <1>1 DEF client_only
<1>3. phase \in Phases
  BY Types DEF Exchange, Phases
<1>4. /\ exchange' \in Exchange
      /\ exchange'.phase = phase /\ exchange'.version = NoVersion
      /\ exchange'.resumed = FALSE /\ exchange'.tickets = 0
      /\ exchange'.session_id = FALSE
  <2> HIDE DEF phase
  <2>1. exchange' = [phase |-> phase, version |-> NoVersion, resumed |-> FALSE,
                     tickets |-> 0, session_id |-> FALSE]
    BY <1>1 DEF NoExchange
  <2> QED
    BY <1>3, <2>1, MaxTicketsAssumption DEF Exchange
<1>5. exchange' \in Exchanges(call.session)
  <2>1. CASE call.session = "partial"
    <3>1. server.intends = NoExchange
      BY <2>1, Types DEF Exchanges
    <3>2. phase = "none"
      BY <3>1 DEF NoExchange
    <3>3. exchange' = NoExchange
      BY <1>1, <3>2 DEF NoExchange
    <3> QED
      BY <2>1, <3>3 DEF Exchanges
  <2>2. CASE call.session # "partial"
    <3>1. phase \notin {"none", "established"}
      BY <2>2, Types DEF Exchanges
    <3> HIDE DEF phase
    <3>2. NoVersion # "TLSv1.3" /\ NoVersion # "TLSv1.2"
      BY DEF NoVersion
    <3> QED
      BY <1>4, <2>2, <3>1, <3>2 DEF Exchanges
  <2> QED
    BY <2>1, <2>2
<1>6. file.state = "none"
  BY <1>1 DEF FileInv, ExchangeInv, NoExchange, TypeOK, SaveStates
<1>7. TypeOK' /\ ClockInv' /\ ProcessInv' /\ ResultInv'
  <2>1. /\ requested' \in BOOLEAN
        /\ printed' \in Seq(Printable) /\ pending' \in Seq(Printable)
        /\ file' \in [state : SaveStates, ticket : 0..MaxTickets]
    BY <1>1 DEF TypeOK, Printable
  <2> QED
    BY <1>1, <1>4, <2>1, ClientAlone DEF Connected
<1>8. ExchangeInv'
  BY <1>1, <1>2, <1>5 DEF ExchangeInv, Connected
<1>9. FileInv'
  BY <1>1, <1>6 DEF FileInv
<1>10. TranscriptInv'
  <2>1. /\ transcript = <<>> /\ transcript' = <<>> /\ pending' = <<>>
    BY <1>1 DEF TranscriptInv, transcript
  <2>2. Ordered(<<>>, exchange')
    BY DEF Ordered
  <2>3. client' = "exited" => Printed(exchange') = {}
    <3>1. client' = "exited" => phase \in {"none", "unreached"}
      BY <1>1, <1>3 DEF Phases
    <3> QED
      BY <1>4, <3>1 DEF Printed, Headline, Banners
  <2>4. Complete' => client' = "exited"
    BY <1>1 DEF Complete, Connected
  <2> QED
    BY <1>1, <1>4, <2>1, <2>2, <2>3, <2>4 DEF TranscriptInv
<1> QED
  BY <1>7, <1>8, <1>9, <1>10

\* A listener turns the client down.
LEMMA HandshakeFailsStep ==
  ASSUME ConnectionInv, HandshakeFails
  PROVE  ConnectionInv'
<1> USE DEF ConnectionInv
<1>1. /\ client = "handshaking" /\ client' = "exited"
      /\ printed' = <<New(NoVersion)>>
      /\ UNCHANGED <<requested, exchange, pending, file, client_only>>
  BY DEF HandshakeFails
<1>2. UNCHANGED <<call, server, result>>
  BY <1>1 DEF client_only
<1>3. New(NoVersion) \in Lines
  BY DEF Lines
<1>4. exchange = [NoExchange EXCEPT !.phase = "rejected"]
  BY <1>1 DEF ExchangeInv
<1>5. Headline(exchange) = {New(NoVersion)} /\ Printed(exchange) = {New(NoVersion)}
  BY <1>4 DEF Headline, Printed, Banners, NoExchange
<1>6. TypeOK' /\ ClockInv' /\ ProcessInv' /\ ResultInv'
  <2>1. /\ requested' \in BOOLEAN /\ exchange' \in Exchange
        /\ pending' \in Seq(Printable)
        /\ file' \in [state : SaveStates, ticket : 0..MaxTickets]
    BY <1>1 DEF TypeOK, Printable
  <2>2. printed' \in Seq(Printable)
    BY <1>1, <1>3 DEF Printable
  <2> QED
    BY <1>1, <2>1, <2>2, ClientAlone DEF Connected
<1>7. ExchangeInv' /\ FileInv'
  BY <1>1, <1>2 DEF ExchangeInv, FileInv, Connected
<1>8. TranscriptInv'
  <2>1. pending' = <<>>
    BY <1>1 DEF TranscriptInv
  <2>2. transcript' = <<New(NoVersion)>>
    BY <1>1, <2>1 DEF transcript
  <2>3. /\ Len(transcript') = 1 /\ transcript' # <<>>
        /\ transcript'[1] = New(NoVersion)
        /\ New(NoVersion) # Material
    BY <2>2, LineKinds
  <2>4. Ordered(transcript', exchange')
    BY <1>1, <1>5, <2>3 DEF Ordered
  <2>5. Printed(exchange') \subseteq LinesOf(transcript')
    BY <1>1, <1>5, <2>3, LineKinds DEF LinesOf
  <2>6. exchange'.tickets = 0
    BY <1>1, <1>4 DEF NoExchange
  <2> QED
    BY <1>1, <2>1, <2>4, <2>5, <2>6 DEF TranscriptInv
<1> QED
  BY <1>6, <1>7, <1>8

\* The exchange a connected client takes part in.
LEMMA Established ==
  ASSUME TypeOK, server.intends.phase = "established"
  PROVE  /\ HeadlineOf(server.intends) \in Printable
         /\ call.session # "partial"
         /\ server.intends.version \in {"TLSv1.2", "TLSv1.3"}
         /\ server.intends.version = "TLSv1.2" => server.intends.tickets <= 1
         /\ server.intends.version = "TLSv1.3" => server.intends.session_id = FALSE
         /\ \A n \in 0..server.intends.tickets :
              server.intends.version = "TLSv1.3" =>
                [server.intends EXCEPT !.tickets = n] \in Exchanges(call.session)
<1>1. HeadlineOf(server.intends) \in Printable
  BY Types, ExchangeLines DEF Printable
<1>2. call.session # "partial"
  BY Types DEF Exchanges, NoExchange
<1>3. server.intends.version \in {"TLSv1.2", "TLSv1.3"}
  BY <1>2, Types, VersionsAssumption DEF Exchanges, Exchange
<1>4. /\ server.intends.version = "TLSv1.2" => server.intends.tickets <= 1
      /\ server.intends.version = "TLSv1.3" => server.intends.session_id = FALSE
  BY <1>2, Types DEF Exchanges, Exchange
<1>5. ASSUME NEW n \in 0..server.intends.tickets, server.intends.version = "TLSv1.3"
      PROVE  [server.intends EXCEPT !.tickets = n] \in Exchanges(call.session)
  <2> DEFINE x == [server.intends EXCEPT !.tickets = n]
  <2>1. n \in 0..MaxTickets
    BY Types, MaxTicketsAssumption
  <2>2. x \in Exchange
    BY <2>1, Types DEF Exchange
  <2>3. /\ x.phase = "established" /\ x.version = "TLSv1.3"
        /\ x.resumed = server.intends.resumed
        /\ x.session_id = server.intends.session_id
    BY <1>5, Types DEF Exchange
  <2>4. /\ server.intends.resumed => call.session = "whole"
    BY <1>2, Types DEF Exchanges
  <2>5. NoVersion # "TLSv1.3"
    BY DEF NoVersion
  <2> HIDE DEF x
  <2>6. x \in Exchanges(call.session)
    BY <1>2, <1>4, <1>5, <2>2, <2>3, <2>4, <2>5 DEF Exchanges
  <2> QED
    BY <2>6 DEF x
<1> QED
  BY <1>1, <1>2, <1>3, <1>4, <1>5

\* A TLS 1.3 handshake is over before any ticket has come.
LEMMA Handshake13Step ==
  ASSUME ConnectionInv, Handshake13
  PROVE  ConnectionInv'
<1> USE DEF ConnectionInv
<1> DEFINE line == HeadlineOf(server.intends)
<1>1. /\ client = "handshaking" /\ client' = "open"
      /\ server.intends.phase = "established" /\ server.intends.version = "TLSv1.3"
      /\ exchange' = [server.intends EXCEPT !.tickets = 0]
      /\ printed' = <<line>>
      /\ UNCHANGED <<requested, pending, file, client_only>>
  BY DEF Handshake13
<1>2. UNCHANGED <<call, server, result>>
  BY <1>1 DEF client_only
<1>3. exchange' \in Exchanges(call.session) /\ exchange' \in Exchange
  BY <1>1, Types, Established, ExchangeLines
<1>4. /\ exchange'.phase = "established" /\ exchange'.version = "TLSv1.3"
      /\ exchange'.resumed = server.intends.resumed
      /\ exchange'.tickets = 0
  BY <1>1, Types DEF Exchange
<1>5. Printed(exchange') = {line} /\ Headline(exchange') = {line}
  BY <1>1, <1>4 DEF Headline, Printed, Banners, HeadlineOf
<1>6. line \in Printable /\ line \notin Hints \cup {Banner, Material}
  BY <1>1, Established, Headlines
<1> HIDE DEF line
<1>7. TypeOK' /\ ClockInv' /\ ProcessInv' /\ ResultInv'
  <2>1. /\ requested' \in BOOLEAN /\ pending' \in Seq(Printable)
        /\ file' \in [state : SaveStates, ticket : 0..MaxTickets]
    BY <1>1 DEF TypeOK, Printable
  <2>2. printed' \in Seq(Printable)
    BY <1>1, <1>6
  <2> QED
    BY <1>1, <1>3, <2>1, <2>2, ClientAlone DEF Connected
<1>8. ExchangeInv'
  BY <1>1, <1>2, <1>3, <1>4, Types DEF ExchangeInv, Connected
<1>9. FileInv'
  <2>1. file.state = "none"
    BY <1>1 DEF FileInv, ExchangeInv, NoExchange
  <2> QED
    BY <1>1, <2>1 DEF FileInv
<1>10. TranscriptInv'
  <2>1. pending' = <<>>
    BY <1>1 DEF TranscriptInv
  <2>2. transcript' = <<line>>
    BY <1>1, <2>1 DEF transcript
  <2>3. Len(transcript') = 1 /\ transcript' # <<>> /\ transcript'[1] = line
    BY <2>2
  <2>4. Ordered(transcript', exchange')
    BY <1>5, <1>6, <2>3 DEF Ordered
  <2>5. Printed(exchange') \subseteq LinesOf(transcript')
    BY <1>5, <1>6, <2>3 DEF LinesOf
  <2> QED
    BY <1>1, <1>4, <2>1, <2>4, <2>5 DEF TranscriptInv
<1> QED
  BY <1>7, <1>8, <1>9, <1>10

\* The lines of a TLS 1.2 handshake: the headline, and the block of its ticket.
LEMMA Lines12 ==
  ASSUME NEW x \in Exchange, x.phase = "established", x.version = "TLSv1.2",
         x.tickets <= 1, HeadlineOf(x) \in Printable,
         NEW lines,
         lines = <<HeadlineOf(x)>> \o (IF x.tickets > 0 THEN TicketBlock(1) ELSE <<>>)
  PROVE  /\ lines \in Seq(Printable)
         /\ Ordered(lines, x)
         /\ Printed(x) \subseteq LinesOf(lines)
         /\ x.tickets > 0 /\ 1 \in server.hinted => LastHint(lines, x)
<1> DEFINE line == HeadlineOf(x)
           block == IF x.tickets > 0 THEN TicketBlock(1) ELSE <<>>
<1>1. line \in Printable /\ line \notin Hints \cup {Banner, Material}
  BY Headlines
<1>2. Headline(x) = {line}
  BY Headlines
<1>3. Printed(x) = IF x.tickets > 0 THEN {line, Material} ELSE {line}
  BY <1>2 DEF Printed, Banners
<1>4. 1 \in 1..MaxTickets /\ x.tickets \in {0, 1}
  BY MaxTicketsAssumption DEF Exchange
<1>5. /\ block \in Seq(Printable)
      /\ \A i \in 1..Len(block) : block[i] \in {Hint(1), Material}
      /\ x.tickets > 0 => Len(block) > 0 /\ block[Len(block)] = Material
      /\ x.tickets > 0 /\ 1 \in server.hinted => Len(block) = 2 /\ block[1] = Hint(1)
      /\ x.tickets = 0 => Len(block) = 0
  <2>1. CASE x.tickets > 0
    BY <1>4, <2>1, Block
  <2>2. CASE ~(x.tickets > 0)
    <3>1. block = <<>>
      BY <2>2
    <3> QED
      BY <1>4, <2>2, <3>1
  <2> QED
    BY <2>1, <2>2
<1>6. lines = <<line>> \o block
  OBVIOUS
<1> HIDE DEF line, block
<1>7. /\ lines \in Seq(Printable) /\ Len(lines) = 1 + Len(block)
      /\ Len(block) \in Nat /\ lines[1] = line
      /\ \A i \in 2..1 + Len(block) : lines[i] = block[i - 1]
  <2>1. block \in Seq(Printable) /\ line \in Printable
    BY <1>1, <1>5
  <2>2. /\ <<line>> \o block \in Seq(Printable) /\ Len(block) \in Nat
        /\ Len(<<line>> \o block) = 1 + Len(block)
        /\ (<<line>> \o block)[1] = line
        /\ \A i \in 2..1 + Len(block) : (<<line>> \o block)[i] = block[i - 1]
    BY <2>1, OneBefore
  <2> QED
    BY <1>6, <2>2
<1>8. \A i \in 2..Len(lines) : lines[i] \in {Hint(1), Material} /\ x.tickets > 0
  <2> SUFFICES ASSUME NEW i \in 2..Len(lines)
               PROVE  lines[i] \in {Hint(1), Material} /\ x.tickets > 0
    OBVIOUS
  <2>1. i - 1 \in 1..Len(block)
    BY <1>7
  <2>2. lines[i] = block[i - 1]
    BY <1>7
  <2>3. x.tickets > 0
    BY <1>4, <1>5, <2>1
  <2> QED
    BY <1>5, <2>1, <2>2, <2>3
<1>9. Ordered(lines, x)
  <2>1. \A i \in 1..Len(lines) : i = 1 \/ i \in 2..Len(lines)
    OBVIOUS
  <2>2. Hint(1) \in Hints
    BY <1>4, LineKinds
  <2>3. \A i \in 1..Len(lines) : lines[i] \in Printed(x) \cup Hints
    BY <1>3, <1>7, <1>8, <2>1, <2>2
  <2> QED
    BY <1>2, <1>7, <2>3 DEF Ordered
<1>10. Printed(x) \subseteq LinesOf(lines)
  <2>0. Len(block) \in Nat /\ 1 \in 1..Len(lines)
    BY <1>5, <1>7
  <2>1. line \in LinesOf(lines)
    BY <1>1, <1>7, <2>0 DEF LinesOf
  <2>2. x.tickets > 0 => Material \in LinesOf(lines)
    <3> SUFFICES ASSUME x.tickets > 0 PROVE Material \in LinesOf(lines)
      OBVIOUS
    <3>1. Len(block) + 1 \in 1..Len(lines) /\ lines[Len(block) + 1] = Material
      BY <1>5, <1>7, <2>0
    <3> QED
      BY <3>1, LineKinds DEF LinesOf
  <2> QED
    BY <1>3, <2>1, <2>2
<1>11. ASSUME x.tickets > 0, 1 \in server.hinted
       PROVE  LastHint(lines, x)
  <2>1. Len(block) = 2 /\ block[1] = Hint(1) /\ block[2] = Material
    BY <1>5, <1>11
  <2>2. Len(lines) = 3 /\ lines[2] = Hint(1) /\ lines[3] = Material
    BY <1>7, <2>1
  <2>3. x.tickets = 1
    BY <1>4, <1>11
  <2> QED
    BY <2>2, <2>3, LineKinds DEF LastHint
<1> QED
  BY <1>7, <1>9, <1>10, <1>11

\* A TLS 1.2 handshake gives its session, which is saved before it is printed.
LEMMA Handshake12Step ==
  ASSUME ConnectionInv, Handshake12
  PROVE  ConnectionInv'
<1> USE DEF ConnectionInv
<1> DEFINE x == server.intends
           lines == <<HeadlineOf(x)>> \o
                      (IF x.tickets > 0 THEN TicketBlock(1) ELSE <<>>)
<1>1. /\ client = "handshaking"
      /\ x.phase = "established" /\ x.version = "TLSv1.2"
      /\ exchange' = x
      /\ UNCHANGED <<requested, client_only>>
      /\ IF x.tickets > 0 \/ x.session_id
         THEN Saving(lines)
         ELSE client' = "open" /\ printed' = lines /\ UNCHANGED <<pending, file>>
  BY DEF Handshake12
<1>2. UNCHANGED <<call, server, result>>
  BY <1>1 DEF client_only
<1>3. x \in Exchanges(call.session) /\ x \in Exchange /\ x.tickets <= 1
  BY <1>1, Types, Established
<1>4. /\ lines \in Seq(Printable)
      /\ Ordered(lines, x)
      /\ Printed(x) \subseteq LinesOf(lines)
      /\ x.tickets > 0 /\ 1 \in server.hinted => LastHint(lines, x)
  BY <1>1, <1>3, Lines12, Established
<1> HIDE DEF lines
<1>5. printed = <<>> /\ pending = <<>>
  <2>1. pending = <<>> /\ transcript = <<>>
    BY <1>1 DEF TranscriptInv
  <2> QED
    BY <2>1, Types DEF transcript
<1>6. /\ client' \in {"saving", "open"}
      /\ client' = "open" => pending' = <<>>
      /\ printed' \in Seq(Printable) /\ pending' \in Seq(Printable)
      /\ transcript' = lines
  <2>1. <<>> \in Seq(Printable) /\ <<>> \o lines = lines /\ lines \o <<>> = lines
    BY <1>4
  <2> QED
    BY <1>1, <1>4, <1>5, <2>1 DEF Saving, transcript
<1>7. /\ file.state = "none"
      /\ \/ file' = file
         \/ /\ file' = [file EXCEPT !.state = "partial"]
            /\ call.sess_out /\ (x.tickets > 0 \/ x.session_id)
            /\ client' = "saving"
  <2>1. file.state = "none"
    BY <1>1 DEF FileInv, ExchangeInv, NoExchange
  <2> QED
    BY <1>1, <2>1 DEF Saving
<1>8. file' \in [state : SaveStates, ticket : 0..MaxTickets]
  BY <1>7 DEF TypeOK, SaveStates
<1>9. TypeOK' /\ ClockInv' /\ ProcessInv' /\ ResultInv'
  <2>1. requested' \in BOOLEAN
    BY <1>1 DEF TypeOK
  <2> QED
    BY <1>1, <1>3, <1>6, <1>8, <2>1, ClientAlone DEF Connected
<1>10. ExchangeInv'
  <2>1. x = [x EXCEPT !.tickets = x.tickets]
    BY <1>3 DEF Exchange
  <2> QED
    BY <1>1, <1>2, <1>3, <1>6, <2>1, Types DEF ExchangeInv, Connected
<1>11. FileInv'
  <2>1. file'.state # "none" => /\ file'.state = "partial" /\ client' = "saving"
                                /\ call.sess_out /\ (x.tickets > 0 \/ x.session_id)
    BY <1>7 DEF TypeOK
  <2> QED
    BY <1>1, <1>2, <2>1 DEF FileInv
<1>12. TranscriptInv'
  <2>1. x.tickets > 0 /\ server.hinted = 1..x.tickets => 1 \in server.hinted
    BY <1>3 DEF Exchange
  <2> QED
    BY <1>1, <1>2, <1>4, <1>6, <2>1 DEF TranscriptInv
<1> QED
  BY <1>9, <1>10, <1>11, <1>12

\* A ticket that arrives is printed after all that was printed before.
LEMMA LinesOfTicket ==
  ASSUME NEW x \in Exchange, NEW y \in Exchange, NEW s \in Seq(Printable),
         x.phase = "established", y.phase = "established",
         x.version = "TLSv1.3", y.version = "TLSv1.3",
         x.resumed = y.resumed, y.tickets > 0,
         Ordered(s, x), Printed(x) \subseteq LinesOf(s),
         NEW lines, lines = <<Banner>> \o TicketBlock(y.tickets)
  PROVE  /\ lines \in Seq(Printable)
         /\ Ordered(s \o lines, y)
         /\ Printed(y) \subseteq LinesOf(s \o lines)
         /\ y.tickets \in server.hinted => LastHint(s \o lines, y)
<1> DEFINE t == y.tickets
           block == TicketBlock(t)
           all == s \o lines
           n == Len(s)
           m == Len(lines)
<1>1. /\ y.version = "TLSv1.3" /\ y.resumed = x.resumed
      /\ x.version = "TLSv1.3" /\ t \in 1..MaxTickets
  BY DEF Exchange
<1>2. /\ Headline(y) = Headline(x) /\ Headline(x) = {HeadlineOf(x)}
      /\ HeadlineOf(x) \notin Hints \cup {Banner, Material}
  BY <1>1, Headlines DEF Headline
<1>3. Printed(y) = Headline(x) \cup {Banner, Material} /\ Headline(x) \subseteq Printed(x)
      /\ Printed(x) \subseteq Printed(y)
  <2>1. Headline(x) \subseteq Printed(x)
        /\ Printed(x) \subseteq Headline(x) \cup {Banner, Material}
    BY TicketLines
  <2>2. Banner \in Printed(y) /\ Material \in Printed(y)
    <3>1. y.tickets > 0
      BY <1>1
    <3> QED
      BY <1>1, <3>1, TicketLines
  <2>3. Headline(y) \subseteq Printed(y)
        /\ Printed(y) \subseteq Headline(y) \cup {Banner, Material}
    BY TicketLines
  <2> QED
    BY <1>2, <2>1, <2>2, <2>3
<1>4. /\ block \in Seq(Printable) /\ Len(block) \in Nat
      /\ \A i \in 1..Len(block) : block[i] \in {Hint(t), Material}
      /\ Len(block) > 0 /\ block[Len(block)] = Material
      /\ t \in server.hinted => Len(block) = 2 /\ block[1] = Hint(t)
  BY <1>1, Block
<1>5. Banner \in Printable
  BY DEF Printable, Lines
<1> HIDE DEF block
<1>6. lines = <<Banner>> \o block
  BY DEF block
<1>7. /\ lines \in Seq(Printable) /\ m = 1 + Len(block)
      /\ lines[1] = Banner
      /\ \A i \in 2..1 + Len(block) : lines[i] = block[i - 1]
  <2>1. /\ <<Banner>> \o block \in Seq(Printable)
        /\ Len(<<Banner>> \o block) = 1 + Len(block)
        /\ (<<Banner>> \o block)[1] = Banner
        /\ \A i \in 2..1 + Len(block) : (<<Banner>> \o block)[i] = block[i - 1]
    BY <1>4, <1>5, OneBefore
  <2> QED
    BY <1>6, <2>1
<1>8. \A i \in 2..m : lines[i] \in {Hint(t), Material}
  <2> SUFFICES ASSUME NEW i \in 2..m PROVE lines[i] \in {Hint(t), Material}
    OBVIOUS
  <2>1. i - 1 \in 1..Len(block)
    BY <1>4, <1>7
  <2> QED
    BY <1>4, <1>7, <2>1
<1>9. /\ n \in Nat /\ m \in Nat /\ m >= 2
      /\ all \in Seq(Printable) /\ Len(all) = n + m
      /\ \A i \in 1..n : all[i] = s[i]
      /\ \A i \in 1..m : all[n + i] = lines[i]
  <2>1. Len(lines) >= 2
    BY <1>4, <1>7
  <2> QED
    BY <1>7, <2>1, Joined
<1> HIDE DEF all, n, m
<1>10. all[n + 1] = Banner
  BY <1>7, <1>9
<1>11. \A i \in n+2..n+m : all[i] \in {Hint(t), Material}
  <2> SUFFICES ASSUME NEW i \in n+2..n+m PROVE all[i] \in {Hint(t), Material}
    OBVIOUS
  <2>1. i - n \in 2..m /\ i - n \in 1..m /\ n + (i - n) = i
    BY <1>9
  <2> QED
    BY <1>8, <1>9, <2>1
<1>12. s # <<>> /\ n > 0
  <2>1. HeadlineOf(x) \in LinesOf(s)
    BY <1>2, <1>3
  <2>2. \E i \in 1..n : s[i] = HeadlineOf(x)
    BY <2>1 DEF LinesOf, n
  <2> QED
    BY <1>9, <2>2 DEF n
<1>13. Ordered(all, y)
  <2>1. \A i \in 1..n+m : i \in 1..n \/ i = n + 1 \/ i \in n+2..n+m
    BY <1>9
  <2>2. \A i \in 1..n : s[i] \in Printed(x) \cup Hints
    BY DEF Ordered, n
  <2>3. Hint(t) \in Hints
    BY <1>1, LineKinds
  <2>4. \A i \in 1..Len(all) : all[i] \in Printed(y) \cup Hints
    BY <1>3, <1>9, <1>10, <1>11, <2>1, <2>2, <2>3
  <2>5. all[1] \in Headline(y)
    <3>1. s[1] \in Headline(x)
      BY <1>12 DEF Ordered
    <3>2. all[1] = s[1]
      BY <1>9, <1>12
    <3> QED
      BY <1>2, <3>1, <3>2
  <2>6. ASSUME NEW i \in 1..Len(all), all[i] = Material
        PROVE  \E j \in 1..i-1 : all[j] = Banner
    <3>1. CASE i \in 1..n
      <4>1. PICK j \in 1..i-1 : s[j] = Banner
        BY <1>9, <2>6, <3>1 DEF Ordered, n
      <4>2. j \in 1..n
        BY <3>1, <1>9
      <4> QED
        BY <1>9, <4>1, <4>2
    <3>2. CASE i \notin 1..n
      <4>1. i # n + 1
        BY <1>10, <2>6, LineKinds
      <4>2. n + 1 \in 1..i-1
        BY <1>9, <3>2, <4>1
      <4> QED
        BY <1>10, <4>2
    <3> QED
      BY <3>1, <3>2
  <2> QED
    BY <2>4, <2>5, <2>6 DEF Ordered
<1>14. Printed(y) \subseteq LinesOf(all)
  <2>1. Banner \in LinesOf(all)
    BY <1>9, <1>10, LineKinds DEF LinesOf
  <2>2. Material \in LinesOf(all)
    <3>1. m \in 2..1 + Len(block) /\ m - 1 = Len(block) /\ m \in 1..m
      BY <1>4, <1>7
    <3>2. lines[m] = Material
      BY <1>4, <1>7, <3>1
    <3>3. n + m \in 1..Len(all)
      BY <1>9
    <3>4. all[n + m] = Material
      BY <1>9, <3>1, <3>2
    <3> QED
      BY <3>3, <3>4, LineKinds DEF LinesOf
  <2>3. HeadlineOf(x) \in LinesOf(all)
    <3>1. HeadlineOf(x) \in LinesOf(s)
      BY <1>2, <1>3
    <3>2. PICK i \in 1..n : s[i] = HeadlineOf(x)
      BY <3>1 DEF LinesOf, n
    <3>3. i \in 1..Len(all) /\ all[i] = HeadlineOf(x)
      BY <1>9, <3>2
    <3> QED
      BY <1>2, <3>3 DEF LinesOf
  <2> QED
    BY <1>2, <1>3, <2>1, <2>2, <2>3
<1>15. ASSUME t \in server.hinted
       PROVE  LastHint(all, y)
  <2>1. Len(block) = 2 /\ block[1] = Hint(t) /\ block[2] = Material
    BY <1>4, <1>15
  <2>2. m = 3 /\ lines[2] = Hint(t) /\ lines[3] = Material
    <3>1. 2 \in 2..1 + Len(block) /\ 3 \in 2..1 + Len(block)
      BY <2>1
    <3>2. lines[2] = block[2 - 1] /\ lines[3] = block[3 - 1]
      BY <1>7, <3>1
    <3>3. m = 3
      BY <1>7, <2>1
    <3>4. 2 - 1 = 1 /\ 3 - 1 = 2
      OBVIOUS
    <3>5. lines[2] = block[1] /\ lines[3] = block[2]
      BY <3>2, <3>4
    <3> QED
      BY <2>1, <3>3, <3>5
  <2>3. all[n + 2] = Hint(t) /\ all[n + 3] = Material /\ Len(all) = n + 3
    <3>1. 2 \in 1..m /\ 3 \in 1..m
      BY <2>2
    <3> QED
      BY <1>9, <2>2, <3>1
  <2>4. n + 2 \in 2..Len(all) /\ (n + 2) - 1 = n + 1
    BY <1>9, <2>3
  <2>5. \A j \in (n + 2) + 1..Len(all) : all[j] \notin Hints
    <3>1. \A j \in (n + 2) + 1..Len(all) : j = n + 3
      BY <1>9, <2>3
    <3> QED
      BY <2>3, <3>1, LineKinds
  <2> QED
    BY <1>10, <2>3, <2>4, <2>5 DEF LastHint
<1> QED
  BY <1>7, <1>13, <1>14, <1>15 DEF all

\* A session ticket arrives, to be printed when it is saved.
LEMMA TicketStep ==
  ASSUME ConnectionInv, TicketArrives
  PROVE  ConnectionInv'
<1> USE DEF ConnectionInv
<1> DEFINE lines == <<Banner>> \o TicketBlock(exchange.tickets + 1)
<1>1. /\ client = "open" /\ client' = "saving"
      /\ exchange.version = "TLSv1.3"
      /\ exchange.tickets < server.intends.tickets
      /\ exchange' = [exchange EXCEPT !.tickets = exchange.tickets + 1]
      /\ UNCHANGED <<requested, client_only>>
      /\ pending' = lines /\ printed' = printed
      /\ file' \in IF call.sess_out THEN {file, [file EXCEPT !.state = "partial"]}
                   ELSE {file}
  BY DEF TicketArrives, Saving
<1>2. UNCHANGED <<call, server, result>>
  BY <1>1 DEF client_only
<1>3. /\ server.intends.phase = "established"
      /\ exchange = [server.intends EXCEPT !.tickets = exchange.tickets]
      /\ exchange.phase = "established" /\ server.intends.version = "TLSv1.3"
      /\ exchange \in Exchange
  <2>1. /\ server.intends.phase = "established"
        /\ exchange = [server.intends EXCEPT !.tickets = exchange.tickets]
    BY <1>1 DEF ExchangeInv, Connected
  <2> QED
    BY <1>1, <2>1, Types DEF Exchange
<1>4. /\ exchange.tickets + 1 \in 1..server.intends.tickets
      /\ exchange.tickets + 1 \in 0..server.intends.tickets
  BY <1>1, Types
<1>5. /\ exchange' = [server.intends EXCEPT !.tickets = exchange.tickets + 1]
      /\ exchange'.tickets = exchange.tickets + 1
      /\ exchange'.phase = "established" /\ exchange'.version = "TLSv1.3"
      /\ exchange'.resumed = exchange.resumed
  BY <1>1, <1>3, Types DEF Exchange
<1>6. exchange' \in Exchanges(call.session) /\ exchange' \in Exchange
  BY <1>3, <1>4, <1>5, Established, ExchangeLines
<1>7. pending = <<>> /\ transcript = printed
  <2>1. pending = <<>>
    BY <1>1 DEF TranscriptInv
  <2> QED
    BY <2>1, Types DEF transcript
<1>8. Ordered(printed, exchange) /\ Printed(exchange) \subseteq LinesOf(printed)
  BY <1>1, <1>7 DEF TranscriptInv, Complete, Connected
<1>9. lines = <<Banner>> \o TicketBlock(exchange'.tickets)
  BY <1>5
<1> HIDE DEF lines
<1>10. /\ lines \in Seq(Printable)
       /\ Ordered(printed \o lines, exchange')
       /\ Printed(exchange') \subseteq LinesOf(printed \o lines)
       /\ exchange'.tickets \in server.hinted => LastHint(printed \o lines, exchange')
  <2>1. printed \in Seq(Printable)
    BY Types
  <2>2. /\ exchange \in Exchange /\ exchange' \in Exchange
        /\ exchange.phase = "established" /\ exchange'.phase = "established"
        /\ exchange.version = "TLSv1.3"
        /\ exchange' = [exchange EXCEPT !.tickets = exchange.tickets + 1]
    BY <1>1, <1>3, <1>5, <1>6
  <2>3. PICK y : y = exchange'
    OBVIOUS
  <2>4. /\ y \in Exchange /\ y.phase = "established"
        /\ y.version = "TLSv1.3" /\ exchange.resumed = y.resumed /\ y.tickets > 0
        /\ lines = <<Banner>> \o TicketBlock(y.tickets)
    <3>1. exchange'.tickets > 0
      BY <1>5, Types
    <3> QED
      BY <1>5, <1>9, <2>2, <2>3, <3>1
  <2>5. /\ exchange \in Exchange /\ printed \in Seq(Printable)
        /\ exchange.phase = "established" /\ exchange.version = "TLSv1.3"
        /\ Ordered(printed, exchange) /\ Printed(exchange) \subseteq LinesOf(printed)
    BY <1>8, <2>1, <2>2
  <2>6. /\ lines \in Seq(Printable)
        /\ Ordered(printed \o lines, y)
        /\ Printed(y) \subseteq LinesOf(printed \o lines)
        /\ y.tickets \in server.hinted => LastHint(printed \o lines, y)
    <3>1. lines \in Seq(Printable)
      <4>1. y.tickets \in 1..MaxTickets
        BY <2>4 DEF Exchange
      <4>2. TicketBlock(y.tickets) \in Seq(Printable)
        BY <4>1, Block
      <4>3. Banner \in Printable
        BY DEF Printable, Lines
      <4>4. <<Banner>> \o TicketBlock(y.tickets) \in Seq(Printable)
        BY <4>2, <4>3, OneBefore
      <4> QED
        BY <2>4, <4>4
    <3>2. Ordered(printed \o lines, y)
      BY <2>4, <2>5, LinesOfTicket
    <3>3. Printed(y) \subseteq LinesOf(printed \o lines)
      BY <2>4, <2>5, LinesOfTicket
    <3>4. y.tickets \in server.hinted => LastHint(printed \o lines, y)
      BY <2>4, <2>5, LinesOfTicket
    <3> QED
      BY <3>1, <3>2, <3>3, <3>4
  <2> QED
    BY <2>3, <2>6
<1>11. TypeOK' /\ ClockInv' /\ ProcessInv' /\ ResultInv'
  <2>1. /\ requested' \in BOOLEAN /\ printed' \in Seq(Printable)
        /\ pending' \in Seq(Printable)
    BY <1>1, <1>10, Types DEF TypeOK
  <2>2. file' \in [state : SaveStates, ticket : 0..MaxTickets]
    BY <1>1 DEF TypeOK, SaveStates
  <2> QED
    BY <1>1, <1>6, <2>1, <2>2, ClientAlone DEF Connected
<1>12. ExchangeInv'
  <2>1. exchange'.tickets <= server.intends.tickets
    BY <1>4, <1>5, Types
  <2> QED
    BY <1>1, <1>2, <1>3, <1>5, <1>6, <2>1 DEF ExchangeInv, Connected
<1>13. FileInv'
  <2>1. file'.state # "none" => call.sess_out
    BY <1>1 DEF FileInv
  <2>2. exchange'.tickets > 0
    BY <1>5, Types
  <2> QED
    BY <1>1, <1>2, <2>1, <2>2 DEF FileInv
<1>14. TranscriptInv'
  <2>1. transcript' = printed \o lines
    BY <1>1 DEF transcript
  <2>2. server.hinted = 1..server.intends.tickets => exchange'.tickets \in server.hinted
    BY <1>4, <1>5
  <2> QED
    BY <1>1, <1>2, <1>10, <2>1, <2>2 DEF TranscriptInv
<1> QED
  BY <1>11, <1>12, <1>13, <1>14

\* The session is saved, and what was to be printed is.
LEMMA SavedStep ==
  ASSUME ConnectionInv, Saved
  PROVE  ConnectionInv'
<1> USE DEF ConnectionInv
<1>1. /\ client = "saving" /\ client' = "open"
      /\ file' = IF file.state = "partial"
                 THEN [state |-> "whole", ticket |-> exchange.tickets] ELSE file
      /\ printed' = transcript /\ pending' = <<>>
      /\ UNCHANGED <<requested, exchange, client_only>>
  BY DEF Saved, transcript
<1>2. UNCHANGED <<call, server, result>>
  BY <1>1 DEF client_only
<1>3. transcript' = transcript
  <2>1. transcript' = printed' \o pending'
    BY DEF transcript
  <2> QED
    BY <1>1, <2>1, Types
<1>4. TypeOK' /\ ClockInv' /\ ProcessInv' /\ ResultInv'
  <2>1. /\ requested' \in BOOLEAN /\ exchange' \in Exchange
        /\ file' \in [state : SaveStates, ticket : 0..MaxTickets]
    BY <1>1, Types DEF TypeOK, SaveStates
  <2>2. printed' \in Seq(Printable) /\ pending' \in Seq(Printable)
    BY <1>1, Types
  <2> QED
    BY <1>1, <2>1, <2>2, ClientAlone DEF Connected
<1>5. ExchangeInv'
  BY <1>1, <1>2 DEF ExchangeInv, Connected
<1>6. FileInv'
  <2>1. file'.state # "none" => file.state # "none"
    BY <1>1
  <2>2. file'.state # "partial"
    BY <1>1
  <2> QED
    BY <1>1, <1>2, <2>1, <2>2 DEF FileInv
<1>7. TranscriptInv'
  <2>1. Complete
    BY <1>1 DEF Complete, Connected
  <2> QED
    BY <1>1, <1>2, <1>3, <2>1 DEF TranscriptInv
<1> QED
  BY <1>4, <1>5, <1>6, <1>7

\* Every step of the processes of a call keeps the invariant.
LEMMA NextConnection == ConnectionInv /\ [Next]_vars => ConnectionInv'
<1> SUFFICES ASSUME ConnectionInv, [Next]_vars PROVE ConnectionInv'
  OBVIOUS
<1>1. CASE SpawnFeeder \/ SpawnClient
  BY <1>1, SpawnStep
<1>2. CASE ClientEnded \/ TimeoutExpired
  BY <1>2, DecideStep
<1>3. CASE Finally \/ FeederWrites \/ FeederExits \/ Tick \/ UNCHANGED vars
  BY <1>3, OtherStep
<1>4. CASE SendRequest \/ StdinCloses \/ ServerCloses \/ HungUp
  BY <1>4, IdleStep
<1>5. CASE Connect \/ HandshakeFails
  BY <1>5, ConnectStep, HandshakeFailsStep
<1>6. CASE Handshake13 \/ Handshake12
  BY <1>6, Handshake13Step, Handshake12Step
<1>7. CASE TicketArrives \/ Saved
  BY <1>7, TicketStep, SavedStep
<1> QED
  BY <1>1, <1>2, <1>3, <1>4, <1>5, <1>6, <1>7
     DEF Next, Harness, Feeder, Client, Terminated

-----------------------------------------------------------------------------
\* The inductive invariant holds whatever order the processes run in.
THEOREM ConnectionInvariance == Spec => []ConnectionInv
BY InitConnection, NextConnection, PTL DEF Spec

\* Every state of the harness, the feeder and s_client is well typed.
THEOREM ConnectionTypes == Spec => []TypeOK
<1>1. ConnectionInv => TypeOK
  BY DEF ConnectionInv
<1> QED
  BY <1>1, ConnectionInvariance, PTL

\* When run_s_client has returned, neither process of the call is left
\* (the finally clause, probe.py:302-309).
THEOREM NothingLeft == Spec => []NoProcessLeft
<1>1. ConnectionInv => NoProcessLeft
  BY DEF ConnectionInv, ProcessInv, NoProcessLeft
<1> QED
  BY <1>1, ConnectionInvariance, PTL

\* run_s_client returns an outcome of SClient, and nothing else: module Probe,
\* which takes one outcome per call, leaves none out (probe.py:241-318).
THEOREM OutcomeReturned == Spec => []ReturnsAnOutcome
<1>1. ConnectionInv => ReturnsAnOutcome
  BY DEF ConnectionInv, ResultInv, ReturnsAnOutcome
<1> QED
  BY <1>1, ConnectionInvariance, PTL

\* The hint that is recorded is that of the session which is offered back
\* (probe.py:449-451).
THEOREM HintOfSavedSession == Spec => []HintIsOfSavedSession
<1>1. ConnectionInv => HintIsOfSavedSession
  <2> SUFFICES ASSUME ConnectionInv, harness = "returned", result.ended = "exited",
                      file.ticket = exchange.tickets,
                      server.hinted = 1..server.intends.tickets
               PROVE  LifetimeHint(printed) = exchange.tickets
    BY DEF HintIsOfSavedSession
  <2> USE DEF ConnectionInv
  <2>1. client = "reaped" /\ pending = <<>> /\ Complete
    BY DEF ResultInv, Complete
  <2>2. transcript = printed
    BY <2>1, Types DEF transcript
  <2>3. /\ Ordered(printed, exchange)
        /\ Printed(exchange) \subseteq LinesOf(printed)
        /\ exchange.tickets > 0 => LastHint(printed, exchange)
    BY <2>1, <2>2 DEF TranscriptInv
  <2>4. LinesOf(printed) = Printed(exchange)
    BY <2>3 DEF Ordered, LinesOf
  <2>5. exchange \in Exchange /\ exchange.tickets \in 0..MaxTickets
    BY Types
  <2>6. CASE exchange.tickets = 0
    <3>1. Banner \notin LinesOf(printed) /\ Material \notin LinesOf(printed)
      BY <2>4, <2>5, <2>6, TicketLines
    <3> QED
      BY <2>6, <3>1 DEF LifetimeHint
  <2>7. CASE exchange.tickets > 0
    <3>1. PICK i \in 2..Len(printed) :
            /\ printed[i] = Hint(exchange.tickets)
            /\ exchange.version = "TLSv1.3" => printed[i - 1] = Banner
            /\ \A j \in i+1..Len(printed) : printed[j] \notin Hints
      BY <2>3, <2>7 DEF LastHint
    <3>2. /\ exchange.tickets \in 1..MaxTickets
          /\ printed[i] \in Hints /\ printed[i][2] = exchange.tickets
      BY <2>5, <2>7, <3>1, LineKinds
    <3> DEFINE after == {j \in 1..Len(printed) : HintAfterBanner(printed, j)}
               hints == {j \in 1..Len(printed) : printed[j] \in Hints}
               found == IF exchange.version = "TLSv1.3" THEN after ELSE hints
    <3>3. i \in found
      <4>1. i \in 1..Len(printed) /\ i - 1 \in 1..i-1
        OBVIOUS
      <4>2. \A j \in (i-1)+1..i-1 : FALSE
        OBVIOUS
      <4>3. exchange.version = "TLSv1.3" => HintAfterBanner(printed, i)
        BY <3>1, <3>2, <4>1, <4>2 DEF HintAfterBanner
      <4> QED
        BY <3>2, <4>1, <4>3
    <3>4. \A j \in found : j \in 1..Len(printed) /\ printed[j] \in Hints
      BY DEF HintAfterBanner
    <3>5. \A j \in found : j <= i
      <4> SUFFICES ASSUME NEW j \in found PROVE j <= i
        OBVIOUS
      <4>1. j \in 1..Len(printed) /\ printed[j] \in Hints
        BY <3>4
      <4>2. j \notin i+1..Len(printed)
        BY <3>1, <4>1
      <4> QED
        BY <4>1, <4>2
    <3>6. LifetimeHint(printed) =
            IF found = {} THEN 0
            ELSE printed[CHOOSE l \in found : \A j \in found : j <= l][2]
      <4>1. Material \in LinesOf(printed)
        BY <2>4, <2>5, <2>7, TicketLines
      <4>2. Banner \in LinesOf(printed) <=> exchange.version = "TLSv1.3"
        BY <2>4, <2>5, <2>7, TicketLines
      <4> DEFINE read == CASE Banner \in LinesOf(printed) -> after
                           [] Banner \notin LinesOf(printed)
                              /\ Material \in LinesOf(printed) -> hints
                           [] OTHER -> {}
      <4>3. LifetimeHint(printed) =
              IF read = {} THEN 0
              ELSE printed[CHOOSE l \in read : \A j \in read : j <= l][2]
        BY DEF LifetimeHint
      <4> HIDE DEF after, hints
      <4>4. read = found
        BY <4>1, <4>2
      <4> HIDE DEF read, found
      <4> QED
        BY <4>3, <4>4
    <3>7. (CHOOSE l \in found : \A j \in found : j <= l) = i
      <4>1. \A l \in found : (\A j \in found : j <= l) => l = i
        BY <3>3, <3>4, <3>5
      <4> HIDE DEF found
      <4> QED
        BY <3>3, <3>5, <4>1
    <3> HIDE DEF found
    <3> QED
      BY <3>2, <3>3, <3>6, <3>7
  <2> QED
    BY <2>5, <2>6, <2>7
<1> QED
  BY <1>1, ConnectionInvariance, PTL

-----------------------------------------------------------------------------
(***************************************************************************)
(* The safety half of Returns.                                             *)
(***************************************************************************)
\* What is left falls when one of its parts does and none rises.
LEMMA PartFalls ==
  ASSUME NEW h \in Nat, NEW f \in Nat, NEW c \in Nat, NEW r \in Nat, NEW t \in Nat,
         NEW h1 \in 0..h, NEW f1 \in 0..f, NEW c1 \in 0..c, NEW r1 \in 0..r,
         NEW t1 \in 0..t,
         h1 < h \/ f1 < f \/ c1 < c \/ r1 < r \/ t1 < t
  PROVE  h1 + f1 + c1 + r1 + t1 \in 0..(h + f + c + r + t) - 1
OBVIOUS

\* The tickets that may still arrive are a number of tickets, and before the
\* handshake all those of the server.
LEMMA TicketsToCome ==
  ASSUME ConnectionInv
  PROVE  /\ ToCome \in Nat
         /\ client \in {"absent", "connecting", "handshaking"} =>
              ToCome = server.intends.tickets
<1> DEFINE all == server.intends.tickets
           seen == exchange.tickets
<1>1. all \in Nat /\ seen \in Nat
  <2>1. all \in 0..MaxTickets /\ seen \in 0..MaxTickets
    BY Types DEF ConnectionInv
  <2> QED
    BY <2>1, MaxTicketsAssumption
<1>2. client \in {"absent", "connecting", "handshaking"} => seen = 0
  BY DEF ConnectionInv, ExchangeInv, NoExchange
<1>3. client \in {"saving", "open"} => seen <= all
  BY DEF ConnectionInv, ExchangeInv, Connected
<1>4. client \in ClientStates
  BY DEF ConnectionInv, TypeOK
<1> HIDE DEF all, seen
<1>5. \A x \in Nat, y \in Nat : x - 0 = x /\ (y <= x => x - y \in Nat)
  OBVIOUS
<1>6. ToCome = IF client \in {"hung_up", "exited", "reaped"} THEN 0 ELSE all - seen
  BY DEF ToCome, all, seen
<1>7. client \in {"absent", "connecting", "handshaking"} => ToCome = all
  BY <1>1, <1>2, <1>5, <1>6
<1>8. ToCome \in Nat
  <2>1. CASE client \in {"saving", "open"}
    BY <1>1, <1>3, <1>5, <1>6, <2>1
  <2>2. CASE client \in {"hung_up", "exited", "reaped"}
    BY <1>6, <2>2
  <2>3. CASE client \in {"absent", "connecting", "handshaking"}
    BY <1>1, <1>7, <2>3
  <2> QED
    BY <1>4, <2>1, <2>2, <2>3 DEF ClientStates
<1> QED
  BY <1>7, <1>8 DEF all

\* What each process has left is a number of steps.
LEMMA LeftTypes ==
  ASSUME ConnectionInv
  PROVE  /\ HarnessSteps[harness] \in Nat /\ FeederSteps[feeder] \in Nat
         /\ ClientLeft \in Nat
         /\ (IF requested THEN 0 ELSE 1) \in Nat
         /\ Horizon - now \in Nat
<1>1. HarnessSteps[harness] \in Nat /\ FeederSteps[feeder] \in Nat
  BY DEF ConnectionInv, TypeOK, HarnessSteps, FeederSteps
<1>2. ClientSteps[client] \in Nat
  BY DEF ConnectionInv, TypeOK, ClientStates, ClientSteps
<1>3. ClientLeft \in Nat
  BY <1>2, TicketsToCome DEF ClientLeft
<1>4. Horizon - now \in Nat
  <2>1. now \in Nat /\ Horizon \in Nat /\ now <= Horizon
    BY Types DEF ConnectionInv
  <2> QED
    BY <2>1
<1> QED
  BY <1>1, <1>3, <1>4

\* A step of run_s_client is one that it has not to make again, and starts no process
\* that was started before.
LEMMA HarnessRunsDown ==
  ASSUME ConnectionInv, Harness
  PROVE  /\ HarnessSteps[harness'] < HarnessSteps[harness]
         /\ FeederSteps[feeder'] <= FeederSteps[feeder]
         /\ ClientLeft' = ClientLeft \/ ClientLeft' = 0 \/ ClientLeft' = ClientLeft - 1
         /\ UNCHANGED <<requested, now>>
<1> USE DEF ConnectionInv
<1>1. UNCHANGED <<requested, now, server, exchange>>
  BY DEF Harness, SpawnFeeder, SpawnClient, ClientEnded, TimeoutExpired, Finally
<1>2. HarnessSteps[harness'] < HarnessSteps[harness]
  BY DEF Harness, SpawnFeeder, SpawnClient, ClientEnded, TimeoutExpired, Finally,
         HarnessSteps
<1>3. FeederSteps[feeder'] <= FeederSteps[feeder]
  <2>1. CASE SpawnFeeder
    BY <2>1 DEF SpawnFeeder, ProcessInv, FeederSteps
  <2>2. CASE SpawnClient \/ ClientEnded \/ TimeoutExpired
    <3>1. feeder' = feeder
      BY <2>2 DEF SpawnClient, ClientEnded, TimeoutExpired
    <3>2. FeederSteps[feeder] \in Nat
      BY LeftTypes
    <3> QED
      BY <3>1, <3>2
  <2>3. CASE Finally
    <3>1. FeederSteps[feeder'] = 0
      BY <2>3 DEF Finally, FeederSteps
    <3>2. FeederSteps[feeder] \in Nat
      BY LeftTypes
    <3> QED
      BY <3>1, <3>2
  <2> QED
    BY <2>1, <2>2, <2>3 DEF Harness
<1>4. \/ UNCHANGED client
      \/ client = "absent" /\ client' = "connecting"
      \/ client' = "reaped"
  BY DEF Harness, SpawnFeeder, SpawnClient, ClientEnded, TimeoutExpired, Finally,
         ProcessInv
<1>5. CASE UNCHANGED client
  BY <1>1, <1>2, <1>3, <1>5 DEF ClientLeft, ToCome
<1>6. CASE client = "absent" /\ client' = "connecting"
  <2>1. ToCome' = ToCome
    BY <1>1, <1>6 DEF ToCome
  <2>2. \A n \in Nat : 5 + n = (6 + n) - 1
    OBVIOUS
  <2>3. ClientLeft = 6 + 2 * ToCome /\ ClientLeft' = 5 + 2 * ToCome
    BY <1>6, <2>1 DEF ClientLeft, ClientSteps
  <2>4. 2 * ToCome \in Nat
    BY TicketsToCome
  <2> QED
    BY <1>1, <1>2, <1>3, <1>6, <2>2, <2>3, <2>4
<1>7. CASE client' = "reaped"
  <2>1. ClientLeft' = 0
    BY <1>7 DEF ClientLeft, ToCome, ClientSteps
  <2> QED
    BY <1>1, <1>2, <1>3, <2>1
<1> QED
  BY <1>4, <1>5, <1>6, <1>7

\* So is a step of s_client, which goes back to where it was only with one ticket
\* less to come.
LEMMA ClientRunsDown ==
  ASSUME ConnectionInv, ConnectionInv', Client
  PROVE  /\ UNCHANGED <<harness, feeder, now>>
         /\ \/ ClientLeft' < ClientLeft /\ requested' = requested
            \/ ClientLeft' = ClientLeft /\ ~requested /\ requested'
<1> USE DEF client_only
<1> DEFINE all == server.intends.tickets
           seen == exchange.tickets
<1>1. UNCHANGED <<harness, feeder, now, server>>
  BY DEF Client, Connect, HandshakeFails, Handshake13, Handshake12, TicketArrives,
         Saved, SendRequest, StdinCloses, ServerCloses, HungUp
<1>2. /\ all \in Nat /\ seen \in Nat /\ all' = all
      /\ ToCome \in Nat
      /\ client \in {"connecting", "handshaking"} => ToCome = all
  <2>1. all \in 0..MaxTickets /\ seen \in 0..MaxTickets
    BY Types DEF ConnectionInv
  <2>2. all \in Nat /\ seen \in Nat
    BY <2>1, MaxTicketsAssumption
  <2> QED
    BY <1>1, <2>2, TicketsToCome
<1>3. CASE client' = "exited"
  <2>1. /\ client \in {"connecting", "handshaking", "open", "hung_up"}
        /\ requested' = requested
    BY <1>3 DEF Client, Connect, HandshakeFails, Handshake13, Handshake12,
       TicketArrives, Saved, Saving, SendRequest, StdinCloses, ServerCloses, HungUp
  <2>2. ClientLeft' = 0
    BY <1>3 DEF ClientLeft, ToCome, ClientSteps
  <2>3. ClientSteps[client] \in Nat \ {0}
    BY <2>1 DEF ClientSteps
  <2>4. ClientLeft' < ClientLeft
    BY <1>2, <2>2, <2>3 DEF ClientLeft
  <2> QED
    BY <1>1, <2>1, <2>4
<1>4. CASE client' = "hung_up"
  <2>1. client = "open" /\ requested' = requested
    BY <1>4 DEF Client, Connect, HandshakeFails, Handshake13, Handshake12,
       TicketArrives, Saved, Saving, SendRequest, StdinCloses, ServerCloses, HungUp
  <2>2. ClientLeft' = 1 /\ ClientLeft = 2 + 2 * ToCome
    BY <1>4, <2>1 DEF ClientLeft, ToCome, ClientSteps
  <2> QED
    BY <1>1, <1>2, <2>1, <2>2
<1>5. CASE client' = "handshaking"
  <2>1. /\ client = "connecting" /\ requested' = requested
        /\ exchange' = [NoExchange EXCEPT !.phase = "rejected"]
    BY <1>5 DEF Client, Connect, HandshakeFails, Handshake13, Handshake12,
       TicketArrives, Saved, Saving, SendRequest, StdinCloses, ServerCloses, HungUp
  <2>2. ToCome' = all
    <3>1. client' \in {"absent", "connecting", "handshaking"} =>
            ToCome' = server'.intends.tickets
      <4>1. seen' = 0
        BY <2>1 DEF NoExchange
      <4>2. client' = "handshaking" => ToCome' = all' - seen'
        BY DEF ToCome
      <4>3. \A n \in Nat : n - 0 = n
        OBVIOUS
      <4> QED
        BY <1>2, <1>5, <4>1, <4>2, <4>3
    <3> QED
      BY <1>1, <1>5, <3>1
  <2>3. ClientLeft' = 4 + 2 * all /\ ClientLeft = 5 + 2 * all
    BY <1>2, <1>5, <2>1, <2>2 DEF ClientLeft, ClientSteps
  <2> HIDE DEF all
  <2>4. ClientLeft' < ClientLeft
    BY <1>2, <2>3
  <2> QED
    BY <1>1, <2>1, <2>4
<1>6. CASE Handshake13 \/ Handshake12
  <2>1. /\ client = "handshaking" /\ client' \in {"open", "saving"}
        /\ requested' = requested
    BY <1>6 DEF Handshake13, Handshake12, Saving
  <2>2. ToCome' \in 0..all
    <3>1. seen' = 0 \/ seen' = all
      BY <1>6, Types DEF Handshake13, Handshake12, ConnectionInv, Exchange
    <3>2. ToCome' = all - seen'
      BY <1>2, <2>1 DEF ToCome
    <3>3. \A n \in Nat : n - 0 \in 0..n /\ n - n \in 0..n
      OBVIOUS
    <3> HIDE DEF all, seen
    <3> QED
      BY <1>2, <3>1, <3>2, <3>3
  <2>3. /\ ClientLeft = 4 + 2 * all
        /\ ClientLeft' = 2 + 2 * ToCome' \/ ClientLeft' = 3 + 2 * ToCome'
    BY <1>2, <2>1 DEF ClientLeft, ClientSteps
  <2>4. \A n \in Nat : \A m \in 0..n : 2 + 2 * m < 4 + 2 * n /\ 3 + 2 * m < 4 + 2 * n
    OBVIOUS
  <2>5. ClientLeft' < ClientLeft
    <3> HIDE DEF all
    <3> QED
      BY <1>2, <2>2, <2>3, <2>4
  <2> QED
    BY <1>1, <2>1, <2>5
<1>7. CASE TicketArrives
  <2>1. /\ client = "open" /\ client' = "saving" /\ requested' = requested
        /\ exchange' = [exchange EXCEPT !.tickets = @ + 1]
        /\ seen < all
    BY <1>7 DEF TicketArrives, Saving
  <2>2. seen' = seen + 1
    BY <2>1, Types DEF ConnectionInv, Exchange
  <2>3. ToCome = all - seen /\ ToCome' = all - (seen + 1)
    BY <1>2, <2>1, <2>2 DEF ToCome
  <2>4. /\ ClientLeft = 2 + 2 * (all - seen)
        /\ ClientLeft' = 3 + 2 * (all - (seen + 1))
    BY <2>1, <2>3 DEF ClientLeft, ClientSteps
  <2>5. \A x, y \in Nat : 3 + 2 * (x - (y + 1)) < 2 + 2 * (x - y)
    OBVIOUS
  <2>6. ClientLeft' < ClientLeft
    <3> HIDE DEF all, seen
    <3> QED
      BY <1>2, <2>4, <2>5
  <2> QED
    BY <1>1, <2>1, <2>6
<1>8. CASE Saved
  <2>1. /\ client = "saving" /\ client' = "open" /\ requested' = requested
        /\ exchange' = exchange
    BY <1>8 DEF Saved
  <2>2. ToCome' = ToCome
    BY <1>1, <2>1 DEF ToCome
  <2>3. ClientLeft = 3 + 2 * ToCome /\ ClientLeft' = 2 + 2 * ToCome
    BY <2>1, <2>2 DEF ClientLeft, ClientSteps
  <2>4. \A n \in Nat : 2 + 2 * n < 3 + 2 * n
    OBVIOUS
  <2> QED
    BY <1>1, <1>2, <2>1, <2>3, <2>4
<1>9. CASE SendRequest
  <2>1. UNCHANGED <<client, exchange>> /\ ~requested /\ requested'
    BY <1>9 DEF SendRequest
  <2>2. ClientLeft' = ClientLeft
    BY <1>1, <2>1 DEF ClientLeft, ToCome
  <2> QED
    BY <1>1, <2>1, <2>2
<1>10. \/ client' \in {"exited", "hung_up", "handshaking"}
       \/ Handshake13 \/ Handshake12 \/ TicketArrives \/ Saved \/ SendRequest
  BY DEF Client, Connect, HandshakeFails, StdinCloses, ServerCloses, HungUp
<1> QED
  BY <1>3, <1>4, <1>5, <1>6, <1>7, <1>8, <1>9, <1>10

\* A call makes a bounded number of steps, whatever the order of its processes: none of
\* them is started twice, and s_client goes back only for a ticket that it has
\* not been given yet (probe.py:241-318).
THEOREM CallRunsDown == Spec => RunsDown
<1> DEFINE h == HarnessSteps[harness]
           f == FeederSteps[feeder]
           c == ClientLeft
           r == IF requested THEN 0 ELSE 1
           t == Horizon - now
           Counts == h \in Nat /\ f \in Nat /\ c \in Nat /\ r \in Nat /\ t \in Nat
<1>1. ConnectionInv => Counts
  BY LeftTypes
<1>2. ConnectionInv' => Counts'
  <2> HIDE DEF Counts
  <2> QED
    BY <1>1, PTL
<1>3. ConnectionInv /\ ConnectionInv' /\ [Next]_vars =>
        [StepsLeft' \in 0..StepsLeft - 1]_vars
  <2> SUFFICES ASSUME ConnectionInv, ConnectionInv', Next
               PROVE  StepsLeft' \in 0..StepsLeft - 1 \/ UNCHANGED vars
    OBVIOUS
  <2>t. h \in Nat /\ f \in Nat /\ c \in Nat /\ r \in Nat /\ t \in Nat
    BY <1>1
  <2>u. h' \in Nat /\ f' \in Nat /\ c' \in Nat /\ r' \in Nat /\ t' \in Nat
    BY <1>2
  <2>s. StepsLeft = h + f + c + r + t /\ StepsLeft' = h' + f' + c' + r' + t'
    BY DEF StepsLeft
  <2>z. \A n \in Nat : \A m \in Nat : m <= n => m \in 0..n
    OBVIOUS
  <2>1. CASE Harness
    <3>1. h' < h /\ f' <= f /\ r' = r /\ t' = t
      BY <2>1, HarnessRunsDown
    <3>2. c' = c \/ c' = 0 \/ c' = c - 1
      BY <2>1, HarnessRunsDown
    <3> HIDE DEF h, f, c, r, t
    <3>3. \A n \in Nat : 0 <= n /\ n - 1 <= n /\ n <= n
      OBVIOUS
    <3>4. c' <= c /\ h' <= h /\ r' <= r /\ t' <= t
      BY <2>t, <2>u, <3>1, <3>2, <3>3
    <3>5. h' \in 0..h /\ f' \in 0..f /\ c' \in 0..c /\ r' \in 0..r /\ t' \in 0..t
      BY <2>t, <2>u, <2>z, <3>1, <3>4
    <3> QED
      BY <2>t, <2>s, <3>1, <3>5, PartFalls
  <2>2. CASE Feeder
    <3>1. /\ UNCHANGED <<harness, client, server, exchange, requested, now>>
          /\ \/ feeder = "starting" /\ feeder' = "sleeping"
             \/ feeder = "sleeping" /\ feeder' = "exited"
      BY <2>2 DEF Feeder, FeederWrites, FeederExits
    <3>2. h' = h /\ c' = c /\ r' = r /\ t' = t
      BY <3>1 DEF ClientLeft, ToCome
    <3>3. f' < f
      BY <3>1 DEF FeederSteps
    <3> HIDE DEF h, f, c, r, t
    <3>4. f' <= f /\ h' <= h /\ c' <= c /\ r' <= r /\ t' <= t
      BY <2>t, <2>u, <3>2, <3>3
    <3>5. h' \in 0..h /\ f' \in 0..f /\ c' \in 0..c /\ r' \in 0..r /\ t' \in 0..t
      BY <2>t, <2>u, <2>z, <3>4
    <3> QED
      BY <2>t, <2>s, <3>3, <3>5, PartFalls
  <2>3. CASE Client
    <3>1. /\ h' = h /\ f' = f /\ t' = t
          /\ (c' < c /\ r' = r) \/ (c' = c /\ r' < r)
      <4>1. h' = h /\ f' = f /\ t' = t
        BY <2>3, ClientRunsDown
      <4>2. CASE ClientLeft' < ClientLeft /\ requested' = requested
        BY <4>1, <4>2
      <4>3. CASE ClientLeft' = ClientLeft /\ ~requested /\ requested'
        <5>1. r = 1 /\ r' = 0
          BY <4>3
        <5> QED
          BY <4>1, <4>3, <5>1
      <4> QED
        BY <2>3, <4>2, <4>3, ClientRunsDown
    <3> HIDE DEF h, f, c, r, t
    <3>2. f' <= f /\ h' <= h /\ c' <= c /\ r' <= r /\ t' <= t
      BY <2>t, <2>u, <3>1
    <3>3. h' \in 0..h /\ f' \in 0..f /\ c' \in 0..c /\ r' \in 0..r /\ t' \in 0..t
      BY <2>t, <2>u, <2>z, <3>2
    <3> QED
      BY <2>t, <2>s, <3>1, <3>3, PartFalls
  <2>4. CASE Tick
    <3>1. /\ UNCHANGED <<harness, feeder, client, server, exchange, requested>>
          /\ now' = now + 1
      BY <2>4 DEF Tick
    <3>2. h' = h /\ f' = f /\ c' = c /\ r' = r
      BY <3>1 DEF ClientLeft, ToCome
    <3>3. t' < t
      <4>1. now \in Nat /\ Horizon \in Nat
        BY Types DEF ConnectionInv
      <4>2. \A n, m \in Nat : m - (n + 1) < m - n
        OBVIOUS
      <4> QED
        BY <3>1, <4>1, <4>2
    <3> HIDE DEF h, f, c, r, t
    <3>4. f' <= f /\ h' <= h /\ c' <= c /\ r' <= r /\ t' <= t
      BY <2>t, <2>u, <3>2, <3>3
    <3>5. h' \in 0..h /\ f' \in 0..f /\ c' \in 0..c /\ r' \in 0..r /\ t' \in 0..t
      BY <2>t, <2>u, <2>z, <3>4
    <3> QED
      BY <2>t, <2>s, <3>3, <3>5, PartFalls
  <2>5. CASE Terminated
    BY <2>5 DEF Terminated
  <2> QED
    BY <2>1, <2>2, <2>3, <2>4, <2>5 DEF Next
<1> QED
  BY <1>3, ConnectionInvariance, PTL DEF Spec, RunsDown

\* Until the call has returned its next step is one of run_s_client, whose guard is
\* true, or the clock's: nothing that s_client, the server or the feeder do or
\* fail to do is waited for past the deadline (probe.py:272-296).
THEOREM CallNeverStuck == Spec => []NeverStuck
<1>1. ConnectionInv => NeverStuck
  <2> SUFFICES ASSUME ConnectionInv PROVE NeverStuck
    OBVIOUS
  <2>1. harness \in {"start", "spawned", "waiting", "finally", "returned"}
    BY DEF ConnectionInv, TypeOK
  <2>2. {now, deadline, Horizon} \subseteq Nat /\ deadline <= Horizon
    BY Types DEF ConnectionInv
  <2>3. now >= deadline \/ (now < Horizon /\ deadline <= Horizon)
    BY <2>2
  <2> QED
    BY <2>1, <2>3 DEF NeverStuck
<1> QED
  BY <1>1, ConnectionInvariance, PTL
=============================================================================
