--------------------------- MODULE ConnectionLog ---------------------------
(***************************************************************************)
(* firefox-client/server.py: one thread per connection, a shared counter   *)
(* and a shared log, and a certificate that expires while the server runs. *)
(*                                                                         *)
(* A step of a handler is one access to something shared: the counter,     *)
(* which n += 1 reads and writes in two, the clock and the log.  What the  *)
(* client makes of the expiry is what the experiment asks, so a handshake  *)
(* may end in any way at any time.  finished, since and crowded are        *)
(* history.                                                                *)
(***************************************************************************)
EXTENDS Naturals, Sequences, FiniteSets, SequencesExt

CONSTANTS
  Connections,  \* bound: the connections the clients open, numbered
  AtOnce        \* bound: how many of them have a thread and no line at a time

ASSUME ConnectionsAssumption == Connections \subseteq Nat /\ IsFiniteSet(Connections)

VARIABLES
  listening,    \* the accept loop runs; the handlers are daemons and end with it
  expired,      \* whether the clock is past expiry
  n,            \* the counter
  handler,      \* where the thread of each connection is
  result,       \* how wrap_socket ended, and session_reused
  local,        \* what each thread has read of n
  valid,        \* what each thread has found of the certificate
  log,          \* connections.log
  finished,     \* whether the certificate was valid when the handshake ended
  since,        \* how many lines there were by then
  crowded       \* whether two threads were ever between handshake and log

vars == <<listening, expired, n, handler, result, local, valid, log, finished,
          since, crowded>>

Steps   == {"none", "wrap", "load", "store", "clock", "format", "append",
            "answer", "done"}
Results == {"pending", "full", "resumed", "failed"}

\* From the end of the handshake to the line in the log.
Counting(c) == handler[c] \in {"load", "store", "clock", "format", "append"}

Line(c) == [conn |-> c, number |-> local[c], result |-> result[c], valid |-> valid[c]]

Logged(c) == \E i \in DOMAIN log : log[i].conn = c

Init ==
  /\ listening = TRUE
  /\ expired = FALSE
  /\ n = 0
  /\ handler = [c \in Connections |-> "none"]
  /\ result = [c \in Connections |-> "pending"]
  /\ local = [c \in Connections |-> 0]
  /\ valid = [c \in Connections |-> TRUE]
  /\ log = <<>>
  /\ finished = [c \in Connections |-> TRUE]
  /\ since = [c \in Connections |-> 0]
  /\ crowded = FALSE

\* A handler at `from` goes on to `to`.
Goes(c, from, to) ==
  /\ listening
  /\ handler[c] = from
  /\ handler' = [handler EXCEPT ![c] = to]
  /\ UNCHANGED <<listening, expired>>

history == <<finished, since, crowded>>

\* The main loop accepts one connection after the other.
Accept(c) ==
  /\ \A d \in Connections : d < c => handler[d] # "none"
  /\ Cardinality({d \in Connections : handler[d] = "wrap" \/ Counting(d)}) < AtOnce
  /\ Goes(c, "none", "wrap")
  /\ UNCHANGED <<n, result, local, valid, log, history>>

\* A session can be resumed once another connection has been given one.
Handshake(c, r) ==
  /\ r = "resumed" => \E d \in Connections : result[d] \in {"full", "resumed"}
  /\ Goes(c, "wrap", "load")
  /\ result' = [result EXCEPT ![c] = r]
  /\ finished' = [finished EXCEPT ![c] = ~expired]
  /\ since' = [since EXCEPT ![c] = Len(log)]
  /\ crowded' = (crowded \/ \E d \in Connections : Counting(d))
  /\ UNCHANGED <<n, local, valid, log>>

\* Mutation: an exception of wrap_socket that is not caught ends the thread.
LoadNUncaught(c) ==
  /\ Goes(c, "load", IF result[c] = "failed" THEN "done" ELSE "store")
  /\ local' = [local EXCEPT ![c] = n]
  /\ UNCHANGED <<n, result, valid, log, history>>

\* Mutation: a connection that failed is logged without being counted.
LoadNOfFinished(c) ==
  /\ Goes(c, "load", IF result[c] = "failed" THEN "clock" ELSE "store")
  /\ local' = [local EXCEPT ![c] = n]
  /\ UNCHANGED <<n, result, valid, log, history>>

LoadN(c) ==
  /\ Goes(c, "load", "store")
  /\ local' = [local EXCEPT ![c] = n]
  /\ UNCHANGED <<n, result, valid, log, history>>

\* Mutation: the counter is stored as it was loaded.
StoreNKeeping(c) ==
  /\ Goes(c, "store", "clock")
  /\ n' = local[c]
  /\ UNCHANGED <<result, local, valid, log, history>>

StoreN(c) ==
  /\ Goes(c, "store", "clock")
  /\ n' = local[c] + 1
  /\ UNCHANGED <<result, local, valid, log, history>>

\* Mutation: the validity found for the line before is taken over.
ReadClockCached(c) ==
  /\ Goes(c, "clock", "format")
  /\ valid' = [valid EXCEPT ![c] = IF log = <<>> THEN ~expired ELSE Last(log).valid]
  /\ UNCHANGED <<n, result, local, log, history>>

\* Mutation: a handshake that failed is logged as one with an expired certificate.
ReadClockOfFailure(c) ==
  /\ Goes(c, "clock", "format")
  /\ valid' = [valid EXCEPT ![c] = result[c] # "failed" /\ ~expired]
  /\ UNCHANGED <<n, result, local, log, history>>

ReadClock(c) ==
  /\ Goes(c, "clock", "format")
  /\ valid' = [valid EXCEPT ![c] = ~expired]
  /\ UNCHANGED <<n, result, local, log, history>>

\* The line carries n as it is now.
Format(c) ==
  /\ Goes(c, "format", "append")
  /\ local' = [local EXCEPT ![c] = n]
  /\ UNCHANGED <<n, result, valid, log, history>>

\* Mutation: the return after a failed handshake is missing.
AppendNoReturn(c) ==
  /\ Goes(c, "append", IF result[c] = "failed" THEN "load" ELSE "answer")
  /\ log' = Append(log, Line(c))
  /\ UNCHANGED <<n, result, local, valid, history>>

AppendLine(c) ==
  /\ Goes(c, "append", IF result[c] = "failed" THEN "done" ELSE "answer")
  /\ log' = Append(log, Line(c))
  /\ UNCHANGED <<n, result, local, valid, history>>

\* recv, the page, close; recv has no timeout.
Answer(c) ==
  /\ Goes(c, "answer", "done")
  /\ UNCHANGED <<n, result, local, valid, log, history>>

Expire ==
  /\ listening
  /\ expired' = TRUE
  /\ UNCHANGED <<listening, n, handler, result, local, valid, log, history>>

\* KeyboardInterrupt in accept.
Stop ==
  /\ listening' = FALSE
  /\ UNCHANGED <<expired, n, handler, result, local, valid, log, history>>

Count(c) == LoadN(c) \/ StoreN(c) \/ ReadClock(c) \/ Format(c) \/ AppendLine(c)

Next ==
  \/ \E c \in Connections :
       \/ Accept(c)
       \/ \E r \in Results \ {"pending"} : Handshake(c, r)
       \/ Count(c)
       \/ Answer(c)
  \/ Expire
  \/ Stop

\* A thread that need not wait for its client is scheduled.
Fairness == \A c \in Connections : WF_vars(Count(c))

Spec == Init /\ [][Next]_vars /\ Fairness

-----------------------------------------------------------------------------
\* Types; the counter and the log never outgrow the connections.
TypeOK ==
  /\ listening \in BOOLEAN /\ expired \in BOOLEAN /\ crowded \in BOOLEAN
  /\ n \in 0..Cardinality(Connections)
  /\ handler \in [Connections -> Steps]
  /\ result \in [Connections -> Results]
  /\ local \in [Connections -> 0..Cardinality(Connections)]
  /\ valid \in [Connections -> BOOLEAN] /\ finished \in [Connections -> BOOLEAN]
  /\ since \in [Connections -> Nat]
  /\ log \in Seq([conn : Connections, number : 1..Cardinality(Connections),
                  result : Results \ {"pending"}, valid : BOOLEAN])

\* A line with cert_valid=True is of a handshake that ended while the certificate
\* was valid, however late the thread was scheduled (server.py:102, 111-115).
ValidLinesAreTrue ==
  \A i \in DOMAIN log : log[i].valid => finished[log[i].conn]

\* An expired line divides the connections, however the threads overlap: one whose
\* handshake ended when the line was there ended it after the expiry, and is logged
\* so (server.py:103-116).  A handshake from before the expiry may be logged as
\* expired, and a valid line may follow an expired one, but only of a thread that
\* was at work already; "connections after expiry" (server.py:12-15) are therefore
\* those that come after an expired line, and this line need not be one of them.
ExpiredLineDivides ==
  \A c \in Connections : \A i \in 1..since[c] :
    ~log[i].valid =>
      /\ ~finished[c]
      /\ \A j \in DOMAIN log : log[j].conn = c => ~log[j].valid

\* Every handler that is through has written one line, with its own result, and
\* no other (server.py:101-116), in whatever order the threads run.
OneLineEach ==
  /\ \A c \in Connections : handler[c] \in {"answer", "done"} => Logged(c)
  /\ \A i, j \in DOMAIN log : log[i].conn = log[j].conn => i = j
  /\ \A i \in DOMAIN log : log[i].result = result[log[i].conn]

\* As long as no two threads were between handshake and log at once, which a
\* client that opens its connections one by one sees to (server.py:5-9), the lines
\* are numbered as they stand and no valid line follows an expired one.  Without
\* it, lines may share a number or be out of order.
AloneInOrder ==
  ~crowded =>
    /\ \A i \in DOMAIN log : log[i].number = i
    /\ \A i, j \in DOMAIN log : i < j /\ log[j].valid => log[i].valid

\* A handshake that ended is logged unless the server is stopped, also when the
\* client never sends a request (server.py:116-118).
HandshakesAreLogged ==
  \A c \in Connections : Counting(c) ~> (Logged(c) \/ ~listening)

-----------------------------------------------------------------------------
\* The inductive invariant, in five parts.

\* The threads that have counted their connection.
Stored == {c \in Connections :
             handler[c] \in {"clock", "format", "append", "answer", "done"}}

\* The counter may lose updates, and is never ahead of the threads.
CountInv ==
  /\ n <= Cardinality(Stored)
  /\ n = 0 => Stored = {}
  /\ \A c \in Connections :
       /\ handler[c] = "store" => local[c] <= Cardinality(Stored)
       /\ handler[c] = "append" => local[c] # 0
       /\ Counting(c) => result[c] # "pending"

\* A thread that is to write that the certificate is valid is right, and before
\* the expiry every thread and every line says so.
ClockInv ==
  /\ ~expired => \A c \in Connections : finished[c]
  /\ \A c \in Connections : handler[c] \in {"format", "append"} =>
       /\ valid[c] => finished[c]
       /\ ~expired => valid[c]
  /\ ~expired => \A i \in DOMAIN log : log[i].valid

\* A handshake that ended before the expiry found valid lines only.
SinceInv ==
  \A c \in Connections :
    /\ since[c] <= Len(log)
    /\ finished[c] => \A i \in 1..since[c] : log[i].valid

\* The lines are of the threads that are past their append.
LineInv ==
  /\ \A c \in Connections : handler[c] \in {"answer", "done"} => Logged(c)
  /\ \A i \in DOMAIN log :
       /\ handler[log[i].conn] \in {"answer", "done"}
       /\ log[i].result = result[log[i].conn]
       /\ log[i].valid => finished[log[i].conn]
  /\ \A i, j \in DOMAIN log : log[i].conn = log[j].conn => i = j

\* With one thread at a time the counter is the length of the log, or one ahead.
AloneInv ==
  ~crowded =>
    /\ \A c, d \in Connections : Counting(c) /\ Counting(d) => c = d
    /\ (\A c \in Connections : ~Counting(c)) => n = Len(log)
    /\ \A c \in Connections :
         /\ handler[c] \in {"load", "store"} => n = Len(log)
         /\ handler[c] \in {"clock", "format", "append"} => n = Len(log) + 1
         /\ handler[c] \in {"store", "append"} => local[c] = n
         /\ handler[c] \in {"format", "append"} /\ valid[c] =>
              \A i \in DOMAIN log : log[i].valid

LogInv ==
  /\ TypeOK /\ CountInv /\ ClockInv /\ SinceInv /\ LineInv
  /\ AloneInv /\ AloneInOrder

-----------------------------------------------------------------------------
(***************************************************************************)
(* The safety half of HandshakesAreLogged.                                 *)
(***************************************************************************)
\* The steps of a thread that are still to come.
StepsOf == [none |-> 8, wrap |-> 7, load |-> 6, store |-> 5, clock |-> 4,
            format |-> 3, append |-> 2, answer |-> 1, done |-> 0]

Undone == {step \in Connections \X (1..8) : step[2] <= StepsOf[handler[step[1]]]}

\* How many steps the server has left at most, its expiry and its end included.
StepsLeft ==
  Cardinality(Undone) + (IF expired THEN 0 ELSE 1) + (IF listening THEN 1 ELSE 0)

\* Every step brings the server nearer to a state in which all is done: no thread
\* goes back, and none undoes what another has done.
RunsDown == [][StepsLeft' \in 0..StepsLeft - 1]_vars
=============================================================================
