------------------------ MODULE ConnectionLogProofs ------------------------
(***************************************************************************)
(* What connections.log says, proved for any number of connections and     *)
(* every interleaving of their threads.                                    *)
(***************************************************************************)
EXTENDS ConnectionLog, FiniteSetTheorems, TLAPS

\* The lines of connections.log.
Entry == [conn : Connections, number : 1..Cardinality(Connections),
          result : Results \ {"pending"}, valid : BOOLEAN]

\* The lines of a log that has been given one more.
LEMMA Appended ==
  ASSUME NEW T, NEW s \in Seq(T), NEW e \in T
  PROVE  /\ Append(s, e) \in Seq(T)
         /\ Len(s) \in Nat
         /\ Len(Append(s, e)) = Len(s) + 1
         /\ DOMAIN Append(s, e) = 1..(Len(s) + 1)
         /\ DOMAIN s = 1..Len(s)
         /\ \A i \in DOMAIN s : Append(s, e)[i] = s[i]
         /\ Append(s, e)[Len(s) + 1] = e
  OBVIOUS

\* The threads that have counted are no more than the connections.
LEMMA StoredCount ==
  /\ IsFiniteSet(Stored)
  /\ Cardinality(Stored) \in Nat
  /\ Cardinality(Connections) \in Nat
  /\ Cardinality(Stored) <= Cardinality(Connections)
<1>1. Stored \subseteq Connections
  BY DEF Stored
<1> QED
  BY <1>1, ConnectionsAssumption, FS_Subset, FS_CardinalityType

\* One more thread has counted once it has stored.
LEMMA StoredOneMore ==
  ASSUME TypeOK, NEW c \in Connections, StoreN(c)
  PROVE  Cardinality(Stored') = Cardinality(Stored) + 1 /\ Stored' # {}
<1>1. Stored' = Stored \cup {c} /\ c \notin Stored
  BY DEF TypeOK, StoreN, Goes, Stored
<1> QED
  BY <1>1, StoredCount, FS_AddElement

\* No other step of a thread changes who has counted.
LEMMA StoredSame ==
  ASSUME TypeOK, NEW c \in Connections,
         \/ Accept(c)
         \/ \E r \in Results \ {"pending"} : Handshake(c, r)
         \/ LoadN(c) \/ ReadClock(c) \/ Format(c) \/ AppendLine(c) \/ Answer(c)
  PROVE  Stored' = Stored
BY DEF TypeOK, Accept, Handshake, LoadN, ReadClock, Format, AppendLine, Answer,
       Goes, Stored

\* The server starts in the invariant.
LEMMA InitLog == Init => LogInv
<1> SUFFICES ASSUME Init PROVE LogInv
  OBVIOUS
<1>1. Cardinality(Connections) \in Nat /\ Cardinality(Stored) \in Nat
  BY StoredCount
<1>2. TypeOK
  <2>1. log \in Seq(Entry)
    BY DEF Init
  <2>2. /\ handler \in [Connections -> Steps]
        /\ result \in [Connections -> Results]
        /\ valid \in [Connections -> BOOLEAN] /\ finished \in [Connections -> BOOLEAN]
        /\ since \in [Connections -> Nat]
    BY DEF Init, Steps, Results
  <2>3. /\ n \in 0..Cardinality(Connections)
        /\ local \in [Connections -> 0..Cardinality(Connections)]
    BY <1>1 DEF Init
  <2>4. listening \in BOOLEAN /\ expired \in BOOLEAN /\ crowded \in BOOLEAN
    BY DEF Init
  <2> QED
    BY <2>1, <2>2, <2>3, <2>4 DEF TypeOK, Entry
<1>3. Stored = {}
  BY DEF Init, Stored
<1>4. CountInv /\ ClockInv /\ SinceInv /\ LineInv
  BY <1>1, <1>3 DEF Init, CountInv, Counting, ClockInv, SinceInv, LineInv
<1>5. AloneInv /\ AloneInOrder
  BY DEF Init, AloneInv, AloneInOrder, Counting
<1> QED
  BY <1>2, <1>4, <1>5 DEF LogInv

\* A step that changes no thread and none of what they share.
LEMMA Elsewhere ==
  ASSUME LogInv, Expire \/ Stop \/ UNCHANGED vars
  PROVE  LogInv'
<1>1. UNCHANGED <<n, handler, result, local, valid, log, finished, since, crowded>>
  BY DEF Expire, Stop, vars, history
<1>2. listening' \in BOOLEAN /\ expired' \in BOOLEAN /\ (~expired' => ~expired)
  BY DEF Expire, Stop, vars, LogInv, TypeOK
<1>3. TypeOK'
  BY <1>1, <1>2 DEF LogInv, TypeOK
<1>4. CountInv'
  BY <1>1 DEF LogInv, CountInv, Counting, Stored
<1>5. ClockInv' /\ SinceInv'
  BY <1>1, <1>2 DEF LogInv, ClockInv, SinceInv
<1>6. LineInv'
  BY <1>1 DEF LogInv, LineInv, Logged
<1>7. AloneInv' /\ AloneInOrder'
  BY <1>1 DEF LogInv, AloneInv, AloneInOrder, Counting
<1> QED
  BY <1>3, <1>4, <1>5, <1>6, <1>7 DEF LogInv

\* An accepted connection has a thread, which has done nothing yet.
LEMMA AcceptLog ==
  ASSUME LogInv, NEW c \in Connections, Accept(c)
  PROVE  LogInv'
<1>t. TypeOK
  BY DEF LogInv
<1>1. TypeOK'
  BY <1>t DEF Accept, Goes, history, TypeOK, Steps
<1>2. CountInv'
  BY <1>t, StoredSame DEF LogInv, CountInv, Counting, Accept, Goes, TypeOK
<1>3. ClockInv' /\ SinceInv'
  BY <1>t DEF LogInv, ClockInv, SinceInv, Accept, Goes, history, TypeOK
<1>4. LineInv'
  BY <1>t DEF LogInv, LineInv, Logged, Accept, Goes, history, TypeOK
<1>5. AloneInv' /\ AloneInOrder'
  BY <1>t DEF LogInv, AloneInv, AloneInOrder, Counting, Accept, Goes, history, TypeOK
<1> QED
  BY <1>1, <1>2, <1>3, <1>4, <1>5 DEF LogInv

\* A handshake that ends is noted with its result and its time.
LEMMA HandshakeLog ==
  ASSUME LogInv, NEW c \in Connections, NEW r \in Results \ {"pending"}, Handshake(c, r)
  PROVE  LogInv'
<1>t. TypeOK
  BY DEF LogInv
<1>1. TypeOK'
  BY <1>t DEF Handshake, Goes, TypeOK, Steps
<1>2. CountInv'
  BY <1>t, StoredSame DEF LogInv, CountInv, Counting, Handshake, Goes, TypeOK
<1>3. ClockInv' /\ SinceInv'
  <2>1. ClockInv'
    BY <1>t DEF LogInv, ClockInv, Handshake, Goes, TypeOK
  <2>2. /\ log' = log /\ Len(log) \in Nat /\ DOMAIN log = 1..Len(log)
        /\ since'[c] = Len(log) /\ finished'[c] = ~expired
        /\ \A d \in Connections \ {c} : since'[d] = since[d] /\ finished'[d] = finished[d]
    BY <1>t DEF Handshake, TypeOK
  <2>3. ~expired => \A i \in DOMAIN log : log[i].valid
    BY DEF LogInv, ClockInv
  <2>4. ASSUME NEW d \in Connections
        PROVE  /\ since'[d] <= Len(log')
               /\ finished'[d] => \A i \in 1..since'[d] : log'[i].valid
    <3>1. CASE d = c
      <4>1. since'[d] = Len(log) /\ log' = log
        BY <2>2, <3>1
      <4>2. finished'[d] => ~expired
        BY <2>2, <3>1, Zenon
      <4> QED
        BY <2>2, <2>3, <4>1, <4>2
    <3>2. CASE d # c
      BY <2>2, <3>2 DEF LogInv, SinceInv
    <3> QED
      BY <3>1, <3>2
  <2> QED
    BY <2>1, <2>4 DEF SinceInv
<1>4. LineInv'
  <2>1. handler[c] = "wrap" /\ \A i \in DOMAIN log : log[i].conn # c
    BY DEF LogInv, LineInv, Handshake, Goes
  <2> QED
    BY <2>1, <1>t DEF LogInv, LineInv, Logged, Handshake, Goes, TypeOK
<1>5. AloneInv' /\ AloneInOrder'
  <2> SUFFICES ASSUME ~crowded' PROVE AloneInv' /\ AloneInOrder'
    BY DEF AloneInv, AloneInOrder
  <2>1. ~crowded /\ \A d \in Connections : ~Counting(d)
    BY DEF Handshake
  <2>2. /\ n' = n /\ log' = log /\ valid' = valid /\ local' = local
        /\ handler'[c] = "load"
        /\ \A d \in Connections \ {c} : handler'[d] = handler[d]
    BY <1>t DEF Handshake, Goes, TypeOK
  <2>3. AloneInOrder'
    BY <2>1, <2>2 DEF LogInv, AloneInOrder
  <2>4. n = Len(log)
    BY <2>1 DEF LogInv, AloneInv
  <2>5. \A d \in Connections \ {c} : ~Counting(d)'
    BY <2>1, <2>2 DEF Counting
  <2> QED
    BY <2>2, <2>3, <2>4, <2>5 DEF AloneInv, Counting
<1> QED
  BY <1>1, <1>2, <1>3, <1>4, <1>5 DEF LogInv

\* A thread reads the counter, which is never ahead of the threads that stored it.
LEMMA LoadNLog ==
  ASSUME LogInv, NEW c \in Connections, LoadN(c)
  PROVE  LogInv'
<1>t. TypeOK
  BY DEF LogInv
<1>1. TypeOK'
  BY <1>t DEF LoadN, Goes, history, TypeOK, Steps
<1>2. CountInv'
  BY <1>t, StoredSame DEF LogInv, CountInv, Counting, LoadN, Goes, TypeOK
<1>3. ClockInv' /\ SinceInv'
  BY <1>t DEF LogInv, ClockInv, SinceInv, LoadN, Goes, history, TypeOK
<1>4. LineInv'
  BY <1>t DEF LogInv, LineInv, Logged, LoadN, Goes, history, TypeOK
<1>5. AloneInv' /\ AloneInOrder'
  BY <1>t DEF LogInv, AloneInv, AloneInOrder, Counting, LoadN, Goes, history, TypeOK
<1> QED
  BY <1>1, <1>2, <1>3, <1>4, <1>5 DEF LogInv

\* A thread stores what it read and one, and counts as one that has stored.
LEMMA StoreNLog ==
  ASSUME LogInv, NEW c \in Connections, StoreN(c)
  PROVE  LogInv'
<1>t. TypeOK
  BY DEF LogInv
<1>s. /\ Cardinality(Stored') = Cardinality(Stored) + 1
      /\ Cardinality(Stored) \in Nat
      /\ Cardinality(Stored') <= Cardinality(Connections)
      /\ Stored' # {}
  <2>1. IsFiniteSet(Connections) /\ Stored' \subseteq Connections
    BY ConnectionsAssumption DEF Stored
  <2>2. Cardinality(Stored') <= Cardinality(Connections)
    BY <2>1, FS_Subset
  <2> QED
    BY <1>t, <2>2, StoredOneMore, StoredCount
<1>n. n' = local[c] + 1 /\ local[c] <= Cardinality(Stored) /\ local[c] \in Nat
  BY <1>t DEF LogInv, CountInv, StoreN, Goes, TypeOK
<1>1. TypeOK'
  <2>1. n' \in 0..Cardinality(Connections)
    BY <1>s, <1>n, StoredCount
  <2> QED
    BY <1>t, <2>1 DEF StoreN, Goes, history, TypeOK, Steps
<1>2. CountInv'
  <2>1. n' <= Cardinality(Stored') /\ n' # 0
    BY <1>s, <1>n
  <2>2. \A d \in Connections : handler'[d] \in {"store", "append"} =>
          handler'[d] = handler[d] /\ local'[d] = local[d] /\ local[d] \in Nat
    BY <1>t DEF StoreN, Goes, TypeOK
  <2>3. \A d \in Connections : handler[d] = "store" => local[d] <= Cardinality(Stored')
    BY <1>s, <1>t DEF LogInv, CountInv, TypeOK
  <2>4. \A d \in Connections : handler[d] = "append" => local[d] # 0
    BY DEF LogInv, CountInv
  <2>5. \A d \in Connections : Counting(d)' => result'[d] # "pending"
    BY <1>t DEF LogInv, CountInv, Counting, StoreN, Goes, TypeOK
  <2> QED
    BY <2>1, <2>2, <2>3, <2>4, <2>5 DEF CountInv
<1>3. ClockInv' /\ SinceInv'
  BY <1>t DEF LogInv, ClockInv, SinceInv, StoreN, Goes, history, TypeOK
<1>4. LineInv'
  BY <1>t DEF LogInv, LineInv, Logged, StoreN, Goes, history, TypeOK
<1>5. AloneInv' /\ AloneInOrder'
  BY <1>t DEF LogInv, AloneInv, AloneInOrder, Counting, StoreN, Goes, history, TypeOK
<1> QED
  BY <1>1, <1>2, <1>3, <1>4, <1>5 DEF LogInv

\* A certificate found valid was valid when the handshake ended.
LEMMA ReadClockLog ==
  ASSUME LogInv, NEW c \in Connections, ReadClock(c)
  PROVE  LogInv'
<1>t. TypeOK
  BY DEF LogInv
<1>1. TypeOK'
  BY <1>t DEF ReadClock, Goes, history, TypeOK, Steps
<1>2. CountInv'
  BY <1>t, StoredSame DEF LogInv, CountInv, Counting, ReadClock, Goes, TypeOK
<1>3. ClockInv' /\ SinceInv'
  BY <1>t DEF LogInv, ClockInv, SinceInv, ReadClock, Goes, history, TypeOK
<1>4. LineInv'
  BY <1>t DEF LogInv, LineInv, Logged, ReadClock, Goes, history, TypeOK
<1>5. AloneInv' /\ AloneInOrder'
  BY <1>t DEF LogInv, ClockInv, AloneInv, AloneInOrder, Counting, ReadClock, Goes,
              history, TypeOK
<1> QED
  BY <1>1, <1>2, <1>3, <1>4, <1>5 DEF LogInv

\* The number in a line is that of the counter, which is not 0 any more.
LEMMA FormatLog ==
  ASSUME LogInv, NEW c \in Connections, Format(c)
  PROVE  LogInv'
<1>t. TypeOK
  BY DEF LogInv
<1>1. TypeOK'
  BY <1>t DEF Format, Goes, history, TypeOK, Steps
<1>2. CountInv'
  <2>1. n # 0
    BY DEF LogInv, CountInv, Format, Goes, Stored
  <2> QED
    BY <1>t, <2>1, StoredSame DEF LogInv, CountInv, Counting, Format, Goes, TypeOK
<1>3. ClockInv' /\ SinceInv'
  BY <1>t DEF LogInv, ClockInv, SinceInv, Format, Goes, history, TypeOK
<1>4. LineInv'
  BY <1>t DEF LogInv, LineInv, Logged, Format, Goes, history, TypeOK
<1>5. AloneInv' /\ AloneInOrder'
  BY <1>t DEF LogInv, AloneInv, AloneInOrder, Counting, Format, Goes, history, TypeOK
<1> QED
  BY <1>1, <1>2, <1>3, <1>4, <1>5 DEF LogInv

\* The answer to the request changes nothing that is shared.
LEMMA AnswerLog ==
  ASSUME LogInv, NEW c \in Connections, Answer(c)
  PROVE  LogInv'
<1>t. TypeOK
  BY DEF LogInv
<1>1. TypeOK'
  BY <1>t DEF Answer, Goes, history, TypeOK, Steps
<1>2. CountInv'
  BY <1>t, StoredSame DEF LogInv, CountInv, Counting, Answer, Goes, TypeOK
<1>3. ClockInv' /\ SinceInv'
  BY <1>t DEF LogInv, ClockInv, SinceInv, Answer, Goes, history, TypeOK
<1>4. LineInv'
  BY <1>t DEF LogInv, LineInv, Logged, Answer, Goes, history, TypeOK
<1>5. AloneInv' /\ AloneInOrder'
  BY <1>t DEF LogInv, AloneInv, AloneInOrder, Counting, Answer, Goes, history, TypeOK
<1> QED
  BY <1>1, <1>2, <1>3, <1>4, <1>5 DEF LogInv

\* A line is the first of its thread, and says of it what the thread found.
LEMMA AppendLineLog ==
  ASSUME LogInv, NEW c \in Connections, AppendLine(c)
  PROVE  LogInv'
<1>t. TypeOK
  BY DEF LogInv
<1>h. /\ handler[c] = "append"
      /\ handler'[c] \in {"done", "answer"}
      /\ \A d \in Connections \ {c} : handler'[d] = handler[d]
      /\ handler' \in [Connections -> Steps]
      /\ log' = Append(log, Line(c))
      /\ UNCHANGED <<listening, expired, n, result, local, valid, finished, since,
                     crowded>>
  BY <1>t DEF AppendLine, Goes, history, TypeOK, Steps
<1>e. Line(c) \in Entry
  <2>1. local[c] \in 1..Cardinality(Connections)
    BY <1>t, <1>h, StoredCount DEF LogInv, CountInv, TypeOK
  <2>2. result[c] \in Results \ {"pending"}
    BY <1>t, <1>h DEF LogInv, CountInv, Counting, TypeOK
  <2> QED
    BY <2>1, <2>2, <1>t DEF Entry, Line, TypeOK
<1>l. /\ log \in Seq(Entry) /\ log' \in Seq(Entry)
      /\ Len(log) \in Nat /\ Len(log') = Len(log) + 1
      /\ DOMAIN log' = 1..(Len(log) + 1) /\ DOMAIN log = 1..Len(log)
      /\ \A i \in DOMAIN log : log'[i] = log[i]
      /\ log'[Len(log) + 1] = Line(c)
  BY <1>t, <1>e, <1>h, Appended DEF TypeOK, Entry
<1>f. /\ Line(c).conn = c /\ Line(c).number = local[c]
      /\ Line(c).result = result[c] /\ Line(c).valid = valid[c]
  BY DEF Line
<1>1. TypeOK'
  BY <1>t, <1>h, <1>l DEF TypeOK, Entry
<1>2. CountInv'
  BY <1>t, <1>h, StoredSame DEF LogInv, CountInv, Counting
<1>3. ClockInv' /\ SinceInv'
  <2>1. ~expired => \A i \in DOMAIN log' : log'[i].valid
    BY <1>h, <1>l, <1>f DEF LogInv, ClockInv
  <2>2. ClockInv'
    BY <1>h, <2>1 DEF LogInv, ClockInv
  <2>3. \A d \in Connections : since[d] \in Nat /\ since[d] <= Len(log)
    BY <1>t DEF LogInv, SinceInv, TypeOK
  <2>4. \A d \in Connections : \A i \in 1..since[d] : log'[i] = log[i]
    BY <1>l, <2>3
  <2> QED
    BY <1>h, <1>l, <2>2, <2>3, <2>4 DEF LogInv, SinceInv
<1>4. LineInv'
  <2>1. \A i \in DOMAIN log : log[i].conn \in Connections \ {c}
    <3> SUFFICES ASSUME NEW i \in DOMAIN log PROVE log[i].conn \in Connections \ {c}
      OBVIOUS
    <3>1. log[i] \in Entry
      BY <1>l
    <3>2. log[i].conn \in Connections
      BY <3>1 DEF Entry
    <3>3. handler[log[i].conn] \in {"answer", "done"}
      BY DEF LogInv, LineInv
    <3> QED
      BY <3>2, <3>3, <1>h
  <2>2. Logged(c)'
    BY <1>l, <1>f DEF Logged
  <2>3. \A d \in Connections : Logged(d) => Logged(d)'
    BY <1>l DEF Logged
  <2>4. valid[c] => finished[c]
    BY <1>h DEF LogInv, ClockInv
  <2>5. \A i \in DOMAIN log' :
          /\ handler'[log'[i].conn] \in {"answer", "done"}
          /\ log'[i].result = result'[log'[i].conn]
          /\ log'[i].valid => finished'[log'[i].conn]
    BY <1>h, <1>l, <1>f, <2>1, <2>4 DEF LogInv, LineInv
  <2>6. \A i, j \in DOMAIN log' : log'[i].conn = log'[j].conn => i = j
    BY <1>l, <1>f, <2>1 DEF LogInv, LineInv
  <2>7. \A d \in Connections : handler'[d] \in {"answer", "done"} => Logged(d)'
    BY <1>h, <2>2, <2>3 DEF LogInv, LineInv
  <2> QED
    BY <2>5, <2>6, <2>7 DEF LineInv
<1>5. AloneInv' /\ AloneInOrder'
  <2> SUFFICES ASSUME ~crowded PROVE AloneInv' /\ AloneInOrder'
    BY <1>h DEF AloneInv, AloneInOrder
  <2>1. /\ n = Len(log) + 1 /\ local[c] = n
        /\ valid[c] => \A i \in DOMAIN log : log[i].valid
    BY <1>h DEF LogInv, AloneInv
  <2>2. \A d \in Connections : ~Counting(d)'
    <3>1. \A d \in Connections \ {c} : ~Counting(d)
      BY <1>h DEF LogInv, AloneInv, Counting
    <3> QED
      BY <3>1, <1>h DEF Counting
  <2>3. AloneInOrder'
    <3>1. \A i \in DOMAIN log' : log'[i].number = i
      BY <1>l, <1>f, <2>1 DEF LogInv, AloneInOrder
    <3>2. \A i, j \in DOMAIN log' : i < j /\ log'[j].valid => log'[i].valid
      BY <1>l, <1>f, <2>1 DEF LogInv, AloneInOrder
    <3> QED
      BY <3>1, <3>2 DEF AloneInOrder
  <2>4. n' = Len(log')
    BY <1>h, <1>l, <2>1
  <2> QED
    BY <2>2, <2>3, <2>4 DEF AloneInv, Counting
<1> QED
  BY <1>1, <1>2, <1>3, <1>4, <1>5 DEF LogInv

\* Every step of the threads and of the clock keeps the invariant.
LEMMA NextLog == LogInv /\ [Next]_vars => LogInv'
<1> SUFFICES ASSUME LogInv, [Next]_vars PROVE LogInv'
  OBVIOUS
<1>1. CASE Expire \/ Stop \/ UNCHANGED vars
  BY <1>1, Elsewhere
<1>2. ASSUME NEW c \in Connections,
             \/ Accept(c)
             \/ \E r \in Results \ {"pending"} : Handshake(c, r)
             \/ Count(c)
             \/ Answer(c)
      PROVE  LogInv'
  BY <1>2, AcceptLog, HandshakeLog, LoadNLog, StoreNLog, ReadClockLog, FormatLog,
     AppendLineLog, AnswerLog DEF Count
<1> QED
  BY <1>1, <1>2 DEF Next

\* The inductive invariant of the log holds in every reachable state.
THEOREM LogInvariance == Spec => []LogInv
BY InitLog, NextLog, PTL DEF Spec

\* Every state of server.py's threads, counter and log is well typed.
THEOREM LogTypes == Spec => []TypeOK
<1>1. LogInv => TypeOK
  BY DEF LogInv
<1> QED
  BY <1>1, LogInvariance, PTL

\* No line with cert_valid=True is of a handshake that ended after the expiry.
THEOREM ValidLines == Spec => []ValidLinesAreTrue
<1>1. LogInv => ValidLinesAreTrue
  BY DEF LogInv, LineInv, ValidLinesAreTrue
<1> QED
  BY <1>1, LogInvariance, PTL

\* A connection that comes after an expired line is one after the expiry, and is
\* logged so (server.py:12-15, 103-116).
THEOREM DividingLine == Spec => []ExpiredLineDivides
<1>1. LogInv => ExpiredLineDivides
  BY DEF LogInv, SinceInv, LineInv, ExpiredLineDivides
<1> QED
  BY <1>1, LogInvariance, PTL

\* Every handler that is through has written one line, with its own result.
THEOREM OneLine == Spec => []OneLineEach
<1>1. LogInv => OneLineEach
  BY DEF LogInv, LineInv, OneLineEach
<1> QED
  BY <1>1, LogInvariance, PTL

\* Connections that do not overlap are numbered and dated in order.
THEOREM InOrder == Spec => []AloneInOrder
<1>1. LogInv => AloneInOrder
  BY DEF LogInv
<1> QED
  BY <1>1, LogInvariance, PTL

-----------------------------------------------------------------------------
(***************************************************************************)
(* The safety half of HandshakesAreLogged.                                 *)
(***************************************************************************)
\* What is left is a finite number of steps.
LEMMA UndoneCount == IsFiniteSet(Undone) /\ Cardinality(Undone) \in Nat
<1>1. IsFiniteSet(Connections \X (1..8))
  <2>1. 1 \in Int /\ 8 \in Int
    OBVIOUS
  <2>2. IsFiniteSet(1..8)
    BY <2>1, FS_Interval, Zenon
  <2> QED
    BY <2>2, ConnectionsAssumption, FS_Product, Zenon
<1>2. Undone \subseteq Connections \X (1..8)
  BY DEF Undone
<1> QED
  BY <1>1, <1>2, FS_Subset, FS_CardinalityType

\* Where a thread may go from each place it is at.
LEMMA StepOfThread ==
  ASSUME TypeOK, NEW c \in Connections,
         \/ Accept(c)
         \/ \E r \in Results \ {"pending"} : Handshake(c, r)
         \/ Count(c)
         \/ Answer(c)
  PROVE  /\ listening /\ UNCHANGED <<listening, expired>>
         /\ \E to \in Steps : /\ handler' = [handler EXCEPT ![c] = to]
                              /\ StepsOf[to] < StepsOf[handler[c]]
<1> USE DEF Goes, StepsOf, Steps
<1>1. CASE Accept(c)
  BY <1>1 DEF Accept
<1>2. ASSUME NEW r \in Results \ {"pending"}, Handshake(c, r)
      PROVE  /\ listening /\ UNCHANGED <<listening, expired>>
             /\ \E to \in Steps : /\ handler' = [handler EXCEPT ![c] = to]
                                  /\ StepsOf[to] < StepsOf[handler[c]]
  BY <1>2 DEF Handshake
<1>3. CASE LoadN(c) \/ StoreN(c) \/ ReadClock(c) \/ Format(c)
  BY <1>3 DEF LoadN, StoreN, ReadClock, Format
<1>4. CASE AppendLine(c)
  <2>1. /\ listening /\ handler[c] = "append" /\ UNCHANGED <<listening, expired>>
        /\ handler' = [handler EXCEPT
                         ![c] = IF result[c] = "failed" THEN "done" ELSE "answer"]
    BY <1>4 DEF AppendLine
  <2>2. CASE result[c] = "failed"
    BY <2>1, <2>2
  <2>3. CASE result[c] # "failed"
    BY <2>1, <2>3
  <2> QED
    BY <2>2, <2>3
<1>5. CASE Answer(c)
  BY <1>5 DEF Answer
<1> QED
  BY <1>1, <1>2, <1>3, <1>4, <1>5 DEF Count

\* A step of a thread is not to be done any more.
LEMMA ThreadRunsDown ==
  ASSUME TypeOK, NEW c \in Connections, NEW to \in Steps,
         handler' = [handler EXCEPT ![c] = to],
         StepsOf[to] < StepsOf[handler[c]]
  PROVE  Cardinality(Undone') \in Nat /\ Cardinality(Undone') < Cardinality(Undone)
<1> DEFINE step == <<c, StepsOf[handler[c]]>>
<1>1. handler \in [Connections -> Steps]
  BY DEF TypeOK
<1>2. \A s \in Steps : StepsOf[s] \in 0..8
  BY DEF Steps, StepsOf
<1>3. step \in Undone /\ step \notin Undone'
  <2>1. handler[c] \in Steps /\ handler'[c] = to
    BY <1>1
  <2>2. StepsOf[handler[c]] \in 1..8
    BY <1>2, <2>1
  <2> QED
    BY <2>1, <2>2, <1>2 DEF Undone
<1>4. Undone' \subseteq Undone
  <2> SUFFICES ASSUME NEW s \in Connections \X (1..8),
                      s[2] <= StepsOf[handler'[s[1]]]
               PROVE  s[2] <= StepsOf[handler[s[1]]]
    BY DEF Undone
  <2>1. s[1] \in Connections /\ s[2] \in 1..8
    OBVIOUS
  <2>2. CASE s[1] = c
    BY <1>1, <1>2, <2>1, <2>2
  <2>3. CASE s[1] # c
    BY <1>1, <2>1, <2>3
  <2> QED
    BY <2>2, <2>3
<1>5. Undone' \subseteq Undone \ {step}
  BY <1>3, <1>4
<1> HIDE DEF step
<1>6. /\ IsFiniteSet(Undone \ {step})
      /\ Cardinality(Undone \ {step}) = Cardinality(Undone) - 1
  BY <1>3, UndoneCount, FS_RemoveElement
<1>7. IsFiniteSet(Undone') /\ Cardinality(Undone') <= Cardinality(Undone \ {step})
  BY <1>5, <1>6, FS_Subset
<1>8. Cardinality(Undone') \in Nat
  BY <1>7, FS_CardinalityType
<1> QED
  BY <1>6, <1>7, <1>8, UndoneCount

\* The server makes at most eight steps for each connection and two more, and
\* none of a thread undoes or repeats what another has done.  Since each of
\* the steps of Count is possible as soon as its own thread is there, a thread
\* that is scheduled comes to its line (server.py:94-118).
THEOREM LogProgress == Spec => RunsDown
<1>1. LogInv /\ [Next]_vars => [StepsLeft' \in 0..StepsLeft - 1]_vars
  <2> SUFFICES ASSUME TypeOK, Next
               PROVE  StepsLeft' \in 0..StepsLeft - 1 \/ UNCHANGED vars
    BY DEF LogInv
  <2>t. listening \in BOOLEAN /\ expired \in BOOLEAN /\ Cardinality(Undone) \in Nat
    BY UndoneCount DEF TypeOK
  <2>1. ASSUME NEW c \in Connections,
               \/ Accept(c)
               \/ \E r \in Results \ {"pending"} : Handshake(c, r)
               \/ Count(c)
               \/ Answer(c)
        PROVE  StepsLeft' \in 0..StepsLeft - 1
    <3>1. PICK to \in Steps : /\ handler' = [handler EXCEPT ![c] = to]
                              /\ StepsOf[to] < StepsOf[handler[c]]
      BY <2>1, StepOfThread
    <3>2. UNCHANGED <<listening, expired>>
      BY <2>1, StepOfThread
    <3>3. Cardinality(Undone') \in Nat /\ Cardinality(Undone') < Cardinality(Undone)
      BY <3>1, ThreadRunsDown
    <3> QED
      BY <2>t, <3>2, <3>3 DEF StepsLeft
  <2>2. CASE Expire
    <3>1. Undone' = Undone
      BY <2>2 DEF Expire, Undone
    <3>2. CASE expired
      BY <2>2, <2>t, <3>2 DEF Expire, vars, history
    <3>3. CASE ~expired
      BY <2>2, <2>t, <3>1, <3>3 DEF Expire, StepsLeft
    <3> QED
      BY <3>2, <3>3
  <2>3. CASE Stop
    <3>1. Undone' = Undone
      BY <2>3 DEF Stop, Undone
    <3>2. CASE ~listening
      BY <2>3, <2>t, <3>2 DEF Stop, vars, history
    <3>3. CASE listening
      BY <2>3, <2>t, <3>1, <3>3 DEF Stop, StepsLeft
    <3> QED
      BY <3>2, <3>3
  <2> QED
    BY <2>1, <2>2, <2>3 DEF Next
<1> QED
  BY <1>1, LogInvariance, PTL DEF Spec, RunsDown
=============================================================================
