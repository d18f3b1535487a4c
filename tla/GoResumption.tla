---------------------------- MODULE GoResumption ----------------------------
(***************************************************************************)
(* go-crypto-tls/main.go: eight dials of one process to its own TLS 1.3    *)
(* listener, four about a client certificate that expires (A) and four     *)
(* about a root that is removed (B).                                       *)
(*                                                                         *)
(* In TLS 1.3 the client is through with its handshake before the server   *)
(* has judged its certificate, so every connection is two processes: main, *)
(* which dials and then reads, and a goroutine of the server, which reads  *)
(* the roots, judges, answers, sleeps and closes.  The clock runs between  *)
(* any two of their steps.                                                 *)
(***************************************************************************)
EXTENDS Integers, Sequences, FiniteSets

CONSTANTS
  Life,         \* shortLife
  Margin,       \* what main sleeps beyond shortLife
  Horizon       \* the clock stops here

ASSUME TimesAssumption ==
  /\ {Life, Margin, Horizon} \subseteq Nat
  /\ Margin > 0
  /\ Life + Margin < Horizon

Dials == 1..8

VARIABLES
  now,
  pc,           \* where main is
  wake,         \* when its sleep ends
  dropRoot,     \* the flag the server reads at every ClientHello
  cached,       \* the dial that left the session in the cache in use, or 0
  conns,        \* the connections, both ends
  reports       \* the lines main has printed

vars == <<now, pc, wake, dropRoot, cached, conns, reports>>

\* The dial main is at.
k == Len(reports) + 1

\* Dials made with a cache that was made just before them.
FreshCache == {1, 4, 5, 8}

\* Mutation: the root goes before the baseline.
RootDroppedEarly == 6..8

\* Dials made after dropRoot.Store(true).
RootDropped == 7..8

\* Dials made with test-client-2, which outlives the program.
SecondCertificate == 5..8

CertificateValid(d) == d \in SecondCertificate \/ now <= Life

Last == Len(conns)

-----------------------------------------------------------------------------
Init ==
  /\ now = 0
  /\ pc = "dial"
  /\ wake = 0
  /\ dropRoot = FALSE
  /\ cached = 0
  /\ conns = <<>>
  /\ reports = <<>>

\* What main sets before a dial, the dial, and the ClientHello at the other
\* end: GetConfigForClient takes the roots in force and the server decides
\* whether it resumes, which is its own affair.
Dial ==
  /\ pc = "dial"
  /\ dropRoot' = (k \in RootDropped)
  /\ cached' = IF k \in FreshCache THEN 0 ELSE cached
  /\ \E resumed \in {FALSE, cached' # 0} :
       conns' = Append(conns, [offered |-> cached', resumed |-> resumed,
                               roots |-> ~dropRoot', server |-> "handshake",
                               sent |-> "nothing", ticket |-> FALSE])
  /\ pc' = "read"
  /\ UNCHANGED <<now, wake, reports>>

\* Mutation: the listener serves one connection after the other.
JudgeInTurn(c) ==
  /\ conns[c].server = "handshake"
  /\ \A d \in 1..c-1 : conns[d].server = "closed"
  /\ LET accepted == conns[c].resumed \/ (conns[c].roots /\ CertificateValid(c))
     IN conns' = [conns EXCEPT
          ![c] = [@ EXCEPT !.server = IF accepted THEN "sleeping" ELSE "closed",
                           !.sent = IF accepted THEN "ok" ELSE "alert",
                           !.ticket = accepted]]
  /\ UNCHANGED <<now, pc, wake, dropRoot, cached, reports>>

\* The goroutine of connection c judges the client and answers: a ticket and
\* then "ok", or an alert.  A full handshake verifies the certificate against
\* the roots it took; a resumption was decided with the ClientHello.
Judge(c) ==
  /\ conns[c].server = "handshake"
  /\ LET accepted == conns[c].resumed \/ (conns[c].roots /\ CertificateValid(c))
     IN conns' = [conns EXCEPT
          ![c] = [@ EXCEPT !.server = IF accepted THEN "sleeping" ELSE "closed",
                           !.sent = IF accepted THEN "ok" ELSE "alert",
                           !.ticket = accepted]]
  /\ UNCHANGED <<now, pc, wake, dropRoot, cached, reports>>

\* The 150 ms are over and the deferred Close runs.
Close(c) ==
  /\ conns[c].server = "sleeping"
  /\ conns' = [conns EXCEPT ![c].server = "closed"]
  /\ UNCHANGED <<now, pc, wake, dropRoot, cached, reports>>

\* Mutation: a dial that was rejected prints no line.
ReportOfAccepted(accepted) ==
  /\ reports' = IF accepted
                THEN Append(reports, [resumed |-> conns[Last].resumed,
                                      accepted |-> accepted])
                ELSE reports
  /\ pc' = CASE k = 2 -> "sleep" [] k = 8 -> "done" [] OTHER -> "dial"

\* A line, and where main goes from there.
Report(accepted) ==
  /\ reports' = Append(reports, [resumed |-> conns[Last].resumed,
                                 accepted |-> accepted])
  /\ pc' = CASE k = 2 -> "sleep" [] k = 8 -> "done" [] OTHER -> "dial"

\* Mutation: the dial is over with the handshake, and nothing is read.
ReadNothing ==
  /\ pc = "read"
  /\ Report(TRUE)
  /\ UNCHANGED <<now, wake, dropRoot, cached, conns>>

\* Read returns with what the server sent; the ticket before it goes to the
\* cache on the way.
Read ==
  /\ pc = "read"
  /\ conns[Last].sent # "nothing"
  /\ cached' = IF conns[Last].ticket THEN Last ELSE cached
  /\ Report(conns[Last].sent = "ok")
  /\ UNCHANGED <<now, wake, dropRoot, conns>>

\* Mutation: main sleeps for the life of the certificate and no longer.
SleepForLife ==
  /\ pc = "sleep"
  /\ wake' = now + Life
  /\ pc' = "asleep"
  /\ UNCHANGED <<now, dropRoot, cached, conns, reports>>

Sleep ==
  /\ pc = "sleep"
  /\ wake' = now + Life + Margin
  /\ pc' = "asleep"
  /\ UNCHANGED <<now, dropRoot, cached, conns, reports>>

Wake ==
  /\ pc = "asleep"
  /\ now >= wake
  /\ pc' = "dial"
  /\ UNCHANGED <<now, wake, dropRoot, cached, conns, reports>>

\* The bound leaves room for the sleep.
Tick ==
  /\ now < IF wake = 0 THEN Horizon - Life - Margin ELSE Horizon
  /\ now' = now + 1
  /\ UNCHANGED <<pc, wake, dropRoot, cached, conns, reports>>

Terminated == pc = "done" /\ UNCHANGED vars

Main == Dial \/ Read \/ Sleep \/ Wake

Next == Main \/ (\E c \in 1..Last : Judge(c) \/ Close(c)) \/ Tick \/ Terminated

\* main and the goroutines run and the clock advances.
Spec ==
  /\ Init /\ [][Next]_vars
  /\ WF_vars(Main) /\ WF_vars(Tick)
  /\ \A c \in Dials : WF_vars(c \in 1..Last /\ Judge(c))

-----------------------------------------------------------------------------
Conn == [offered : 0..8, resumed : BOOLEAN, roots : BOOLEAN,
         server : {"handshake", "sleeping", "closed"},
         sent : {"nothing", "ok", "alert"}, ticket : BOOLEAN]

Line == [resumed : BOOLEAN, accepted : BOOLEAN]

\* The type invariant of the program: one line for every connection that is over.
TypeOK ==
  /\ now \in 0..Horizon
  /\ pc \in {"dial", "read", "sleep", "asleep", "done"}
  /\ wake \in 0..Horizon
  /\ dropRoot \in BOOLEAN
  /\ cached \in 0..8
  /\ conns \in Seq(Conn)
  /\ reports \in Seq(Line)
  /\ Len(conns) \in Len(reports)..Len(reports) + 1

\* Every line says what the server did: ACCEPTED of a connection it accepted,
\* although the dial returns before the server has judged the client ("TLS 1.3
\* surfaces server alerts on first read", main.go:127).
ReportsAreTrue ==
  \A i \in 1..Len(reports) :
    /\ reports[i].resumed = conns[i].resumed
    /\ reports[i].accepted <=> conns[i].sent = "ok"

\* The controls bite and the baseline stands, whatever time the dials take: the
\* fourth dial of A and of B is a full handshake and is rejected, and those of B
\* that are made while the root is there are accepted, so that its removal is the
\* only thing that changes (main.go:157-158, 162-173 and 71-73).
ControlsBite ==
  \A i \in 1..Len(reports) :
    /\ i \in {4, 8} => ~reports[i].resumed /\ ~reports[i].accepted
    /\ i \in {5, 6} => reports[i].accepted

\* The question is posed: the baseline and the test of each experiment offer
\* the session of the last connection of that experiment, and of no other, that
\* was accepted (main.go:145-173).
TestOffersLastSession ==
  \A i \in {2, 3, 6, 7} :
    Len(conns) >= i =>
      LET first == IF i < 4 THEN 1 ELSE 5
          taken == {j \in first..i-1 : reports[j].accepted}
      IN conns[i].offered = IF taken = {} THEN 0
                            ELSE CHOOSE j \in taken : \A l \in taken : l <= j

\* The program ends: no dial waits for an answer that does not come.
Ends == <>(pc = "done")

-----------------------------------------------------------------------------
(***************************************************************************)
(* The inductive invariant.                                                *)
(***************************************************************************)
\* Where main is, against what it has dialled and printed.
CountInv ==
  /\ Len(reports) <= 8
  /\ Len(conns) = IF pc = "read" THEN Len(reports) + 1 ELSE Len(reports)
  /\ pc = "done" <=> Len(reports) = 8
  /\ pc \in {"sleep", "asleep"} => Len(reports) = 2

\* The sleep fits before the clock stops, and the certificate of A has expired
\* when main goes on after it.
ClockInv ==
  /\ wake = 0 => now + Life + Margin <= Horizon
  /\ Len(reports) < 2 \/ pc = "sleep" => wake = 0
  /\ pc = "asleep" => wake >= Life + Margin
  /\ Len(conns) > 2 \/ (pc = "dial" /\ Len(reports) = 2) => now > Life

\* What a connection can come to, by the dial it is of.
ConnInv ==
  \A c \in 1..Len(conns) :
    /\ conns[c].server = "handshake" <=> conns[c].sent = "nothing"
    /\ c \in {4, 8} => ~conns[c].resumed /\ conns[c].sent # "ok"
    /\ c = 8 => ~conns[c].roots
    /\ c \in {5, 6} => conns[c].roots /\ conns[c].sent # "alert"

\* A line is of a connection that was judged.
LineInv == \A i \in 1..Len(reports) : conns[i].sent # "nothing"

GoInv == TypeOK /\ CountInv /\ ClockInv /\ ConnInv /\ LineInv /\ ReportsAreTrue

\* The dial before which the cache in use at dial i was made.
Made(i) == IF i < 4 THEN 1 ELSE IF i = 4 THEN 4 ELSE IF i < 8 THEN 5 ELSE 8

\* x is the last of these dials that was accepted, or 0.
IsLastAccepted(x, first, last) ==
  /\ \A j \in first..last : reports[j].accepted => j <= x
  /\ x = 0 \/ (x \in first..last /\ reports[x].accepted)

\* A ticket is of a connection that was accepted, and a dial offers the last one that
\* came to its cache.
OfferInv ==
  /\ \A c \in 1..Last :
       /\ conns[c].ticket <=> conns[c].sent = "ok"
       /\ IsLastAccepted(conns[c].offered, Made(c), c - 1)
  /\ IsLastAccepted(cached, Made(Last), Len(reports))

-----------------------------------------------------------------------------
(***************************************************************************)
(* The safety half of Ends.                                                *)
(***************************************************************************)
\* What main has left with n lines printed: a dial and a read for each line to come,
\* and the sleep.
MainLeftAt(place, n) ==
  2 * (8 - n) + (CASE place = "read"            -> IF n < 2 THEN 1 ELSE -1
                   [] place = "sleep"           -> 2
                   [] place = "asleep"          -> 1
                   [] place \in {"dial", "done"} -> IF n < 2 THEN 2 ELSE 0)

MainLeft == MainLeftAt(pc, Len(reports))

\* The connections the server has still to judge, and to close.
Unjudged == {c \in Dials : c <= Last => conns[c].server = "handshake"}
Unclosed == {c \in Dials : c <= Last => conns[c].server # "closed"}

\* How many steps the program has left at most, those of the clock included.
StepsLeft ==
  MainLeft + Cardinality(Unjudged) + Cardinality(Unclosed) + (Horizon - now)

\* Every step of main, of the server and of the clock brings the program nearer
\* to its end: no dial is repeated and no connection is judged twice.
RunsDown == [][StepsLeft' \in 0..StepsLeft - 1]_vars

\* Until the program has ended the guard of a step that is fair is true: of main, of
\* the judging of the one connection main reads from, or of the clock it sleeps by.
NeverStuck ==
  \/ pc \in {"done", "dial", "sleep"}
  \/ pc = "read" /\ (conns[Last].sent # "nothing" \/ conns[Last].server = "handshake")
  \/ pc = "asleep" /\ (now >= wake \/ (wake # 0 /\ now < Horizon))
=============================================================================
