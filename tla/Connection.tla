----------------------------- MODULE Connection -----------------------------
(***************************************************************************)
(* One call of run_s_client (public-endpoints/probe.py:241-318), process   *)
(* by process: the harness, the feeder that holds s_client's stdin open,   *)
(* s_client, and the server it talks to.                                   *)
(*                                                                         *)
(* The call is the first connection (-sess_out, no -sess_in) or the second *)
(* (-sess_in, no -sess_out).  Time is counted in ticks; a process may take *)
(* any number of them over a step, and only a sleep and the timeout are    *)
(* bound to the clock.                                                     *)
(***************************************************************************)
EXTENDS SClient, Sequences

CONSTANTS
  Hold,         \* --hold
  Timeout,      \* --timeout
  Horizon       \* the clock stops here

ASSUME TimesAssumption ==
  /\ Hold \in Nat
  /\ Timeout \in Nat
  /\ Horizon \in Nat
  /\ Timeout <= Horizon

\* The calls probe_host makes: what is in the -sess_in file, whether -sess_out
\* is given, and whether --request sends anything.
Calls ==
  [session : {"none"}, sess_out : {TRUE}, payload : BOOLEAN] \cup
  [session : {"whole", "partial"}, sess_out : {FALSE}, payload : BOOLEAN]

\* A server: the exchange it takes part in when it is given the time, what
\* prompts its TLS 1.3 tickets, and which of its tickets carry a lifetime hint.
Servers(session) ==
  { s \in [intends : Exchanges(session), prompted_by : {"handshake", "request"},
           hinted : SUBSET (1..MaxTickets)] : s.hinted \subseteq 1..s.intends.tickets }

\* The line with the lifetime hint of a ticket.
Hint(ticket) == <<"Hint", ticket>>

Hints == {Hint(t) : t \in 1..MaxTickets}

VARIABLES
  call,         \* the arguments of run_s_client
  server,       \* the server at the pinned address
  now,
  harness,      \* where run_s_client is
  deadline,     \* when subprocess.run gives up
  feeder,       \* the feeder process
  wake,         \* when the feeder's sleep ends
  client,       \* the s_client process
  requested,    \* s_client has sent the request
  exchange,     \* the exchange so far
  printed,      \* what s_client has printed, flushed or not
  pending,      \* what it prints once the session is saved
  file,         \* the -sess_out file, and the ticket its session came with
  result        \* what run_s_client returns

vars == <<call, server, now, harness, deadline, feeder, wake, client,
          requested, exchange, printed, pending, file, result>>

Init ==
  /\ call \in Calls
  /\ server \in Servers(call.session)
  /\ now = 0
  /\ harness = "start"
  /\ deadline = 0
  /\ feeder = "absent"
  /\ wake = 0
  /\ client = "absent"
  /\ requested = FALSE
  /\ exchange = NoExchange
  /\ printed = <<>>
  /\ pending = <<>>
  /\ file = [state |-> "none", ticket |-> 0]
  /\ result = SpawnFailure

-----------------------------------------------------------------------------
(***************************************************************************)
(* The harness.                                                            *)
(***************************************************************************)

\* Popen starts the feeder, or run_s_client returns at once.
SpawnFeeder ==
  /\ harness = "start"
  /\ \/ feeder' = "starting" /\ harness' = "spawned"
     \/ feeder' = "absent" /\ harness' = "returned"
  /\ UNCHANGED <<call, server, now, deadline, wake, client, requested,
                 exchange, printed, pending, file, result>>

\* Mutation: an s_client that cannot be started ends the call at once.
SpawnClientUncaught ==
  /\ harness = "spawned"
  /\ \/ /\ client' = "connecting"
        /\ deadline' = now + Timeout
        /\ harness' = "waiting"
     \/ /\ harness' = "returned"
        /\ UNCHANGED <<client, deadline>>
  /\ UNCHANGED <<call, server, now, feeder, wake, requested, exchange,
                 printed, pending, file, result>>

\* Mutation: the time of the hold is added to the timeout.
SpawnClientHolding ==
  /\ harness = "spawned"
  /\ \/ /\ client' = "connecting"
        /\ deadline' = now + Hold + Timeout
        /\ harness' = "waiting"
     \/ /\ harness' = "finally"
        /\ UNCHANGED <<client, deadline>>
  /\ UNCHANGED <<call, server, now, feeder, wake, requested, exchange,
                 printed, pending, file, result>>

\* subprocess.run starts s_client, or fails with the feeder already running.
SpawnClient ==
  /\ harness = "spawned"
  /\ \/ /\ client' = "connecting"
        /\ deadline' = now + Timeout
        /\ harness' = "waiting"
     \/ /\ harness' = "finally"
        /\ UNCHANGED <<client, deadline>>
  /\ UNCHANGED <<call, server, now, feeder, wake, requested, exchange,
                 printed, pending, file, result>>

LinesOf(lines) == {lines[i] : i \in 1..Len(lines)} \ Hints

Returned(ended, text) ==
  [ended |-> ended, text |-> text, saved |-> file.state, exchange |-> exchange]

ClientEnded ==
  /\ harness = "waiting"
  /\ client = "exited"
  /\ client' = "reaped"
  /\ result' = Returned("exited", LinesOf(printed))
  /\ harness' = "finally"
  /\ UNCHANGED <<call, server, now, deadline, feeder, wake, requested,
                 exchange, printed, pending, file>>

\* Mutation: a killed s_client is taken for one that ended.
TimeoutExpiredUnmarked ==
  /\ harness = "waiting"
  /\ now >= deadline
  /\ client' = "reaped"
  /\ \E n \in 0..Len(printed) :
       result' = Returned("exited", LinesOf(SubSeq(printed, 1, n)))
  /\ harness' = "finally"
  /\ UNCHANGED <<call, server, now, deadline, feeder, wake, requested,
                 exchange, printed, pending, file>>

\* Mutation: the timeout covers the connecting and the handshake only.
TimeoutExpiredHandshake ==
  /\ harness = "waiting"
  /\ now >= deadline
  /\ client \in {"connecting", "handshaking"}
  /\ client' = "reaped"
  /\ result' = Returned("timeout", LinesOf(printed))
  /\ harness' = "finally"
  /\ UNCHANGED <<call, server, now, deadline, feeder, wake, requested,
                 exchange, printed, pending, file>>

\* TimeoutExpired: s_client is killed, which may have exited just then.  Of what
\* it printed a prefix was flushed and read.
TimeoutExpired ==
  /\ harness = "waiting"
  /\ now >= deadline
  /\ client' = "reaped"
  /\ \E n \in 0..Len(printed) :
       result' = Returned("timeout", LinesOf(SubSeq(printed, 1, n)))
  /\ harness' = "finally"
  /\ UNCHANGED <<call, server, now, deadline, feeder, wake, requested,
                 exchange, printed, pending, file>>

\* The finally clause closes the feeder's stdout, kills it and waits for it.
Finally ==
  /\ harness = "finally"
  /\ feeder' = "reaped"
  /\ harness' = "returned"
  /\ UNCHANGED <<call, server, now, deadline, wake, client, requested,
                 exchange, printed, pending, file, result>>

(***************************************************************************)
(* The feeder writes the payload, sleeps, and closes s_client's stdin by   *)
(* exiting.                                                                *)
(***************************************************************************)
FeederWrites ==
  /\ feeder = "starting"
  /\ feeder' = "sleeping"
  /\ wake' = now + Hold
  /\ UNCHANGED <<call, server, now, harness, deadline, client, requested,
                 exchange, printed, pending, file, result>>

FeederExits ==
  /\ feeder = "sleeping"
  /\ now >= wake
  /\ feeder' = "exited"
  /\ UNCHANGED <<call, server, now, harness, deadline, wake, client,
                 requested, exchange, printed, pending, file, result>>

(***************************************************************************)
(* s_client and the server.                                                *)
(***************************************************************************)
client_only == <<call, server, now, harness, deadline, feeder, wake, result>>

\* A -sess_in file that cannot be loaded, or an address nobody listens at.
Connect ==
  /\ client = "connecting"
  /\ LET reached == server.intends.phase \in {"rejected", "established"} IN
     /\ client' = IF reached THEN "handshaking" ELSE "exited"
     /\ exchange' = [NoExchange EXCEPT !.phase = IF reached THEN "rejected"
                                                 ELSE server.intends.phase]
  /\ UNCHANGED <<requested, printed, pending, file, client_only>>

HandshakeFails ==
  /\ client = "handshaking"
  /\ server.intends.phase = "rejected"
  /\ client' = "exited"
  /\ printed' = <<New(NoVersion)>>
  /\ UNCHANGED <<requested, exchange, pending, file, client_only>>

\* s_client hands a session to its callback, which opens -sess_out, writes it
\* and only then lets the lines be printed.
Saving(lines) ==
  /\ client' = "saving"
  /\ file' \in IF call.sess_out THEN {file, [file EXCEPT !.state = "partial"]}
               ELSE {file}
  /\ pending' = lines
  /\ printed' = printed

\* A session block names the lifetime hint if there is one, then the ticket.
TicketBlock(ticket) ==
  (IF ticket \in server.hinted THEN <<Hint(ticket)>> ELSE <<>>) \o <<Material>>

HeadlineOf(x) == IF x.resumed THEN Reused(x.version) ELSE New(x.version)

Handshake13 ==
  /\ client = "handshaking"
  /\ server.intends.phase = "established"
  /\ server.intends.version = "TLSv1.3"
  /\ exchange' = [server.intends EXCEPT !.tickets = 0]
  /\ printed' = <<HeadlineOf(server.intends)>>
  /\ client' = "open"
  /\ UNCHANGED <<requested, pending, file, client_only>>

\* In TLS 1.2 the session, and its ticket, come with the handshake.
Handshake12 ==
  /\ client = "handshaking"
  /\ server.intends.phase = "established"
  /\ server.intends.version = "TLSv1.2"
  /\ exchange' = server.intends
  /\ LET lines == <<HeadlineOf(server.intends)>> \o
                  (IF server.intends.tickets > 0 THEN TicketBlock(1) ELSE <<>>)
     IN IF server.intends.tickets > 0 \/ server.intends.session_id
        THEN Saving(lines)
        ELSE client' = "open" /\ printed' = lines /\ UNCHANGED <<pending, file>>
  /\ UNCHANGED <<requested, client_only>>

TicketArrives ==
  /\ client = "open"
  /\ exchange.version = "TLSv1.3"
  /\ exchange.tickets < server.intends.tickets
  /\ server.prompted_by = "request" => requested
  /\ exchange' = [exchange EXCEPT !.tickets = @ + 1]
  /\ Saving(<<Banner>> \o TicketBlock(exchange.tickets + 1))
  /\ UNCHANGED <<requested, client_only>>

Saved ==
  /\ client = "saving"
  /\ client' = "open"
  /\ file' = IF file.state = "partial"
             THEN [state |-> "whole", ticket |-> exchange.tickets] ELSE file
  /\ printed' = printed \o pending
  /\ pending' = <<>>
  /\ UNCHANGED <<requested, exchange, client_only>>

\* s_client reads its stdin only once the handshake is over.
SendRequest ==
  /\ client = "open"
  /\ call.payload
  /\ ~requested
  /\ feeder \in {"sleeping", "exited"}
  /\ requested' = TRUE
  /\ UNCHANGED <<client, exchange, printed, pending, file, client_only>>

StdinCloses ==
  /\ client = "open"
  /\ feeder = "exited"
  /\ call.payload => requested
  /\ client' = "exited"
  /\ UNCHANGED <<requested, exchange, printed, pending, file, client_only>>

\* The server closes, and s_client finds its connection closed.
ServerCloses ==
  /\ client = "open"
  /\ client' = "hung_up"
  /\ UNCHANGED <<requested, exchange, printed, pending, file, client_only>>

HungUp ==
  /\ client = "hung_up"
  /\ client' = "exited"
  /\ UNCHANGED <<requested, exchange, printed, pending, file, client_only>>

-----------------------------------------------------------------------------
\* now is the time since run_s_client was called.  s_client is started early
\* enough for its deadline to come before the clock stops.
Tick ==
  /\ harness # "start"
  /\ now < IF harness = "spawned" THEN Horizon - Timeout ELSE Horizon
  /\ now' = now + 1
  /\ UNCHANGED <<call, server, harness, deadline, feeder, wake, client,
                 requested, exchange, printed, pending, file, result>>

Terminated == harness = "returned" /\ UNCHANGED vars

Harness == SpawnFeeder \/ SpawnClient \/ ClientEnded \/ TimeoutExpired \/ Finally
Feeder  == FeederWrites \/ FeederExits
Client  == \/ Connect \/ HandshakeFails \/ Handshake13 \/ Handshake12
           \/ TicketArrives \/ Saved \/ SendRequest \/ StdinCloses
           \/ ServerCloses \/ HungUp

Next == Harness \/ Feeder \/ Client \/ Tick \/ Terminated

\* The harness runs and the clock advances; nothing is asked of s_client, the
\* server or the feeder.
Spec == Init /\ [][Next]_vars /\ WF_vars(Harness) /\ WF_vars(Tick)

-----------------------------------------------------------------------------
(***************************************************************************)
(* How parse_tickets reads the lifetime hint: the first hint after each    *)
(* banner and before the next, and of these the last; without a banner the *)
(* last hint anywhere.  0 is no hint.                                      *)
(***************************************************************************)
\* Mutation: the first of the hints is taken.
FirstHint(text) ==
  LET found == {i \in 1..Len(text) : text[i] \in Hints}
  IN IF found = {} THEN 0
     ELSE text[CHOOSE i \in found : \A j \in found : i <= j][2]

HintAfterBanner(text, i) ==
  /\ text[i] \in Hints
  /\ \E b \in 1..i-1 :
       /\ text[b] = Banner
       /\ \A j \in b+1..i-1 : text[j] \notin Hints \cup {Banner}

LifetimeHint(text) ==
  LET found == CASE Banner \in LinesOf(text) ->
                      {i \in 1..Len(text) : HintAfterBanner(text, i)}
                 [] Banner \notin LinesOf(text) /\ Material \in LinesOf(text) ->
                      {i \in 1..Len(text) : text[i] \in Hints}
                 [] OTHER -> {}
  IN IF found = {} THEN 0
     ELSE text[CHOOSE i \in found : \A j \in found : j <= i][2]

-----------------------------------------------------------------------------
ClientStates == {"absent", "connecting", "handshaking", "saving", "open",
                 "hung_up", "exited", "reaped"}

\* The type invariant of one call of run_s_client.
TypeOK ==
  /\ call \in Calls
  /\ server \in Servers(call.session)
  /\ now \in 0..Horizon
  /\ harness \in {"start", "spawned", "waiting", "finally", "returned"}
  /\ deadline \in 0..Horizon
  /\ feeder \in {"absent", "starting", "sleeping", "exited", "reaped"}
  /\ wake \in 0..Horizon + Hold
  /\ client \in ClientStates
  /\ requested \in BOOLEAN
  /\ exchange \in Exchange
  /\ printed \in Seq(Lines \cup Hints)
  /\ pending \in Seq(Lines \cup Hints)
  /\ file \in [state : SaveStates, ticket : 0..MaxTickets]
  /\ result.ended \in {"spawn_failure", "exited", "timeout"}

\* Whatever the processes do and wherever a failure or the timeout falls,
\* run_s_client returns one of the outcomes module Probe works with: the
\* transcript, the -sess_out file and the exchange agree.
ReturnsAnOutcome ==
  harness = "returned" => result \in Outcomes(call.session, call.sess_out)

\* The recorded lifetime hint is that of the session the second connection will
\* offer back (probe.py:449-451), if s_client ended by itself, could save the last
\* session it was given and every ticket carried a hint.
HintIsOfSavedSession ==
  /\ harness = "returned"
  /\ result.ended = "exited"
  /\ file.state = "whole" /\ file.ticket = exchange.tickets
  /\ server.hinted = 1..server.intends.tickets
  => LifetimeHint(printed) = file.ticket

\* No process outlives the call, the feeder of an s_client that could not be
\* started included (the finally clause, probe.py:302-309).
NoProcessLeft ==
  harness = "returned" => {feeder, client} \subseteq {"absent", "reaped"}

\* The timeout ends the call whatever s_client, the server and the feeder do or
\* fail to do.
Returns == <>(harness = "returned")

-----------------------------------------------------------------------------
(***************************************************************************)
(* The inductive invariant.                                                *)
(***************************************************************************)
\* An s_client that is started yet has its deadline before the clock stops.
ClockInv == harness \in {"start", "spawned"} => now + Timeout <= Horizon

\* Which processes there are at each place of run_s_client.
ProcessInv ==
  /\ harness = "start" => feeder = "absent"
  /\ harness \in {"start", "spawned"} => client = "absent"
  /\ harness = "waiting" => client \notin {"absent", "reaped"}
  /\ harness = "finally" => client \in {"absent", "reaped"}
  /\ harness = "returned" => {feeder, client} \subseteq {"absent", "reaped"}

\* The states of s_client once its handshake is over.
Connected == {"saving", "open", "hung_up"}

\* The exchange is one that the server could have, of which the tickets arrive
\* one by one in TLS 1.3.
ExchangeInv ==
  /\ client \in {"absent", "connecting"} => exchange = NoExchange
  /\ client = "handshaking" =>
       /\ server.intends.phase \in {"rejected", "established"}
       /\ exchange = [NoExchange EXCEPT !.phase = "rejected"]
  /\ client \in Connected =>
       /\ server.intends.phase = "established"
       /\ exchange.tickets <= server.intends.tickets
       /\ exchange = [server.intends EXCEPT !.tickets = exchange.tickets]
  /\ client \in Connected \cup {"handshaking", "exited"} =>
       exchange \in Exchanges(call.session)

\* There is something in the -sess_out file only of a session that arrived, and
\* it is whole when s_client goes on.
FileInv ==
  /\ file.state # "none" =>
       call.sess_out /\ (exchange.tickets > 0 \/ exchange.session_id)
  /\ file.state = "partial" => client \in {"saving", "reaped"}

\* What s_client has printed and what it is about to.
transcript == printed \o pending

\* The lines of an exchange in the order of their printing: the headline first,
\* and in TLS 1.3 a banner before the first session block.
Ordered(lines, x) ==
  /\ \A i \in 1..Len(lines) : lines[i] \in Printed(x) \cup Hints
  /\ lines # <<>> => lines[1] \in Headline(x)
  /\ \A i \in 1..Len(lines) :
       lines[i] = Material /\ x.version = "TLSv1.3" =>
         \E j \in 1..i-1 : lines[j] = Banner

\* s_client ended by itself, or may yet.
Complete ==
  \/ client \in Connected \cup {"exited"}
  \/ client = "reaped" /\ result.ended = "exited"

\* The last hint is that of the given ticket, with its banner before it in TLS 1.3.
LastHint(lines, x) ==
  \E i \in 2..Len(lines) :
    /\ lines[i] = Hint(x.tickets)
    /\ x.version = "TLSv1.3" => lines[i - 1] = Banner
    /\ \A j \in i+1..Len(lines) : lines[j] \notin Hints

\* The transcript is that of the exchange.
TranscriptInv ==
  /\ client \in {"absent", "connecting", "handshaking"} => transcript = <<>>
  /\ client \notin {"saving", "reaped"} => pending = <<>>
  /\ Ordered(transcript, exchange)
  /\ Complete =>
       /\ Printed(exchange) \subseteq LinesOf(transcript)
       /\ exchange.tickets > 0 /\ server.hinted = 1..server.intends.tickets =>
            LastHint(transcript, exchange)

\* What run_s_client returns, once it is decided, is an outcome, and of an
\* s_client that ended by itself nothing is pending.
ResultInv ==
  /\ harness \in {"start", "spawned", "waiting"} => result = SpawnFailure
  /\ harness \in {"finally", "returned"} =>
       result \in Outcomes(call.session, call.sess_out)
  /\ result.ended = "exited" => client = "reaped" /\ pending = <<>>

ConnectionInv ==
  /\ TypeOK /\ ClockInv /\ ProcessInv
  /\ ExchangeInv /\ FileInv /\ TranscriptInv /\ ResultInv

-----------------------------------------------------------------------------
(***************************************************************************)
(* The safety half of Returns.                                             *)
(***************************************************************************)
HarnessSteps == [start |-> 4, spawned |-> 3, waiting |-> 2, finally |-> 1, returned |-> 0]

FeederSteps == [absent |-> 3, starting |-> 2, sleeping |-> 1, exited |-> 0, reaped |-> 0]

ClientSteps == [absent |-> 6, connecting |-> 5, handshaking |-> 4, saving |-> 3,
                open |-> 2, hung_up |-> 1, exited |-> 0, reaped |-> 0]

\* The tickets that may still arrive; each is two steps, its arrival and its saving.
ToCome == IF client \in {"hung_up", "exited", "reaped"} THEN 0
          ELSE server.intends.tickets - exchange.tickets

ClientLeft == ClientSteps[client] + 2 * ToCome

\* How many steps the call has left at most, those of the clock included.
StepsLeft ==
  HarnessSteps[harness] + FeederSteps[feeder] + ClientLeft
    + (IF requested THEN 0 ELSE 1) + (Horizon - now)

\* Every step of a process and of the clock brings the call nearer to its end.
RunsDown == [][StepsLeft' \in 0..StepsLeft - 1]_vars

\* Until the call has returned run_s_client can go on, or the clock can, and then
\* the deadline is still to come.  Of s_client, the server and the feeder nothing
\* is asked.
NeverStuck ==
  \/ harness \in {"start", "spawned", "finally", "returned"}
  \/ harness = "waiting" /\ (now >= deadline \/ (now < Horizon /\ deadline <= Horizon))
=============================================================================
