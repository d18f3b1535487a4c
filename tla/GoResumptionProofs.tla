------------------------ MODULE GoResumptionProofs ------------------------
(***************************************************************************)
(* Proofs about GoResumption: for any life of the certificate and any      *)
(* positive margin of the sleep, and however the goroutines of the         *)
(* listener and the clock run, the lines of main are true, the controls of *)
(* both experiments bite, and each test offers the session it should.      *)
(***************************************************************************)
EXTENDS GoResumption, FiniteSetTheorems, TLAPS

\* What the steps below need of a state of the invariant.
LEMMA Shape ==
  ASSUME GoInv
  PROVE  /\ conns \in Seq(Conn) /\ reports \in Seq(Line)
         /\ Len(reports) \in Nat /\ Len(reports) <= 8
         /\ Len(conns) = IF pc = "read" THEN Len(reports) + 1 ELSE Len(reports)
         /\ \A c \in 1..Len(conns) : conns[c] \in Conn
         /\ {now, wake, Life, Margin, Horizon} \subseteq Nat
         /\ 0 < Margin /\ Life + Margin < Horizon
<1>1. conns \in Seq(Conn) /\ reports \in Seq(Line)
  BY DEF GoInv, TypeOK
<1>2. /\ Len(reports) <= 8
      /\ Len(conns) = IF pc = "read" THEN Len(reports) + 1 ELSE Len(reports)
  BY DEF GoInv, CountInv
<1>3. Len(reports) \in Nat /\ \A c \in 1..Len(conns) : conns[c] \in Conn
  BY <1>1
<1>4. now \in 0..Horizon /\ wake \in 0..Horizon
  BY DEF GoInv, TypeOK
<1>5. {Life, Margin, Horizon} \subseteq Nat /\ 0 < Margin /\ Life + Margin < Horizon
  BY TimesAssumption
<1> QED
  BY <1>1, <1>2, <1>3, <1>4, <1>5

\* The program starts in the invariant.
LEMMA InitGo == Init => GoInv
<1> SUFFICES ASSUME Init PROVE GoInv
  OBVIOUS
<1>1. Len(conns) = 0 /\ Len(reports) = 0
  BY DEF Init
<1>2. TypeOK
  <2>1. conns \in Seq(Conn) /\ reports \in Seq(Line)
    BY DEF Init
  <2>2. now \in 0..Horizon /\ wake \in 0..Horizon /\ cached \in 0..8
    BY TimesAssumption DEF Init
  <2>3. Len(conns) \in Len(reports)..Len(reports) + 1
    BY <1>1
  <2>4. pc \in {"dial", "read", "sleep", "asleep", "done"} /\ dropRoot \in BOOLEAN
    BY DEF Init
  <2> QED
    BY <2>1, <2>2, <2>3, <2>4 DEF TypeOK
<1>3. CountInv
  BY <1>1 DEF Init, CountInv
<1>4. ClockInv
  BY <1>1, TimesAssumption DEF Init, ClockInv
<1>5. ConnInv /\ LineInv /\ ReportsAreTrue
  BY <1>1 DEF ConnInv, LineInv, ReportsAreTrue
<1> QED
  BY <1>2, <1>3, <1>4, <1>5 DEF GoInv

\* A dial adds a connection that the server has not judged.
LEMMA DialStep ==
  ASSUME GoInv, Dial
  PROVE  GoInv'
<1> DEFINE n == Len(reports)
           new == conns'[n + 1]
<1>1. pc = "dial" /\ pc' = "read" /\ UNCHANGED <<now, wake, reports>>
  BY DEF Dial
<1>2. n \in 0..7 /\ Len(conns) = n
  <2>1. n # 8
    BY <1>1 DEF GoInv, CountInv
  <2>2. n \in Nat /\ n <= 8 /\ Len(conns) = IF pc = "read" THEN n + 1 ELSE n
    BY Shape
  <2> HIDE DEF n
  <2> QED
    BY <1>1, <2>1, <2>2
<1>3. cached' \in 0..8 /\ dropRoot' \in BOOLEAN
  <2>1. cached \in 0..8
    BY DEF GoInv, TypeOK
  <2>2. cached' \in {0, cached}
    BY DEF Dial
  <2>3. dropRoot' \in BOOLEAN
    BY DEF Dial
  <2> QED
    BY <2>1, <2>2, <2>3
<1>4. PICK resumed \in {FALSE, cached' # 0} :
        conns' = Append(conns, [offered |-> cached', resumed |-> resumed,
                                roots |-> ~dropRoot', server |-> "handshake",
                                sent |-> "nothing", ticket |-> FALSE])
  BY DEF Dial
<1> DEFINE added == [offered |-> cached', resumed |-> resumed,
                     roots |-> ~dropRoot', server |-> "handshake",
                     sent |-> "nothing", ticket |-> FALSE]
<1>5. added \in Conn
  BY <1>3 DEF Conn
<1>6. /\ conns' \in Seq(Conn) /\ Len(conns') = n + 1
      /\ \A c \in 1..n : conns'[c] = conns[c]
      /\ new = added
  <2> HIDE DEF added
  <2>1. conns \in Seq(Conn) /\ conns' = Append(conns, added)
    BY <1>4, Shape DEF added
  <2> QED
    BY <1>2, <1>5, <2>1
<1>7. /\ new.server = "handshake" /\ new.sent = "nothing"
      /\ new.resumed = resumed /\ new.roots = ~dropRoot'
  BY <1>6
<1> HIDE DEF added, n, new
<1>8. TypeOK'
  <2>1. conns' \in Seq(Conn) /\ reports' \in Seq(Line)
    BY <1>1, <1>6, Shape
  <2>2. now' \in 0..Horizon /\ wake' \in 0..Horizon
    BY <1>1 DEF GoInv, TypeOK
  <2>3. Len(conns') \in Len(reports')..Len(reports') + 1
    BY <1>1, <1>2, <1>6 DEF n
  <2>4. pc' \in {"dial", "read", "sleep", "asleep", "done"}
    BY <1>1
  <2> QED
    BY <1>3, <2>1, <2>2, <2>3, <2>4 DEF TypeOK
<1>9. CountInv'
  BY <1>1, <1>2, <1>6 DEF CountInv, n
<1>10. ClockInv'
  <2>1. ClockInv
    BY DEF GoInv
  <2> QED
    BY <1>1, <1>2, <1>6, <2>1 DEF ClockInv, n
<1>11. ConnInv'
  <2>1. n + 1 \in {4, 8} => ~new.resumed
    <3>1. n + 1 \in {4, 8} => cached' = 0
      BY DEF Dial, k, FreshCache, n
    <3> QED
      BY <1>7, <3>1
  <2>2. /\ n + 1 = 8 => dropRoot'
        /\ n + 1 \in {5, 6} => ~dropRoot'
    <3>1. dropRoot' <=> n + 1 \in 7..8
      BY DEF Dial, k, RootDropped, n
    <3>2. /\ n + 1 = 8 => n + 1 \in 7..8
          /\ n + 1 \in {5, 6} => n + 1 \notin 7..8
      BY <1>2
    <3> QED
      BY <3>1, <3>2
  <2>3. n + 1 = 8 => ~new.roots
    BY <1>7, <2>2
  <2>4. n + 1 \in {5, 6} => new.roots
    BY <1>7, <2>2
  <2>5. \A c \in 1..Len(conns') : c \in 1..n \/ c = n + 1
    BY <1>2, <1>6
  <2>6. ConnInv
    BY DEF GoInv
  <2> SUFFICES ASSUME NEW c \in 1..Len(conns')
               PROVE  /\ conns'[c].server = "handshake" <=> conns'[c].sent = "nothing"
                      /\ c \in {4, 8} => ~conns'[c].resumed /\ conns'[c].sent # "ok"
                      /\ c = 8 => ~conns'[c].roots
                      /\ c \in {5, 6} => conns'[c].roots /\ conns'[c].sent # "alert"
    BY DEF ConnInv
  <2>7. CASE c \in 1..n
    BY <1>2, <1>6, <2>6, <2>7 DEF ConnInv
  <2>8. CASE c = n + 1
    BY <1>7, <2>1, <2>3, <2>4, <2>8 DEF new
  <2> QED
    BY <2>5, <2>7, <2>8
<1>12. LineInv' /\ ReportsAreTrue'
  <2>1. \A i \in 1..n : conns'[i] = conns[i] /\ reports'[i] = reports[i]
    BY <1>1, <1>6
  <2>2. LineInv /\ ReportsAreTrue /\ Len(reports') = n
    BY <1>1 DEF GoInv, n
  <2> QED
    BY <2>1, <2>2 DEF LineInv, ReportsAreTrue, n
<1> QED
  BY <1>8, <1>9, <1>10, <1>11, <1>12 DEF GoInv

\* The goroutine of c judges: a control of either experiment is turned away, the
\* baseline of B is not.
LEMMA JudgeStep ==
  ASSUME GoInv, NEW c \in 1..Last, Judge(c)
  PROVE  GoInv'
<1> DEFINE accepted == conns[c].resumed \/ (conns[c].roots /\ CertificateValid(c))
           n == Len(reports)
           new == conns'[c]
<1>1. /\ conns' = [conns EXCEPT
            ![c] = [@ EXCEPT !.server = IF accepted THEN "sleeping" ELSE "closed",
                             !.sent = IF accepted THEN "ok" ELSE "alert",
                             !.ticket = accepted]]
      /\ conns[c].server = "handshake"
      /\ UNCHANGED <<now, pc, wake, dropRoot, cached, reports>>
  BY DEF Judge
<1>2. /\ n \in 0..8 /\ Len(conns) \in n..n + 1 /\ c \in 1..Len(conns)
      /\ Len(conns) = IF pc = "read" THEN n + 1 ELSE n
  <2>1. n \in Nat /\ n <= 8 /\ Len(conns) = IF pc = "read" THEN n + 1 ELSE n
    BY Shape
  <2>2. c \in 1..Len(conns)
    BY DEF Last
  <2> HIDE DEF n
  <2> QED
    BY <2>1, <2>2
<1>3. conns \in Seq(Conn) /\ reports \in Seq(Line) /\ conns[c] \in Conn
  BY <1>2, Shape
<1>4. accepted \in BOOLEAN
  BY <1>3 DEF Conn
<1> HIDE DEF accepted
<1>5. /\ conns' \in Seq(Conn) /\ Len(conns') = Len(conns)
      /\ \A d \in 1..Len(conns) : d # c => conns'[d] = conns[d]
  <2> DEFINE judged == [conns[c] EXCEPT
                          !.server = IF accepted THEN "sleeping" ELSE "closed",
                          !.sent = IF accepted THEN "ok" ELSE "alert",
                          !.ticket = accepted]
  <2>1. judged \in Conn
    BY <1>3, <1>4 DEF Conn
  <2>2. conns' = [conns EXCEPT ![c] = judged]
    BY <1>1
  <2> HIDE DEF judged
  <2> QED
    BY <1>2, <1>3, <2>1, <2>2
<1>6. /\ new.resumed = conns[c].resumed
      /\ new.roots = conns[c].roots
      /\ new.server # "handshake"
      /\ new.sent = IF accepted THEN "ok" ELSE "alert"
  BY <1>1, <1>2, <1>3 DEF Conn
<1>7. ConnInv /\ LineInv /\ ReportsAreTrue
  BY DEF GoInv
<1>8. c \in {4, 8} => ~accepted
  <2>1. c = 4 => ~CertificateValid(c)
    <3>1. c = 4 => now > Life
      BY <1>2 DEF GoInv, ClockInv
    <3>2. now \in Nat /\ Life \in Nat
      BY Shape
    <3> QED
      BY <3>1, <3>2 DEF CertificateValid, SecondCertificate
  <2>2. /\ c \in {4, 8} => ~conns[c].resumed
        /\ c = 8 => ~conns[c].roots
    BY <1>2, <1>7 DEF ConnInv
  <2> QED
    BY <2>1, <2>2 DEF accepted
<1>9. c \in {5, 6} => accepted
  <2>1. c \in {5, 6} => conns[c].roots
    BY <1>2, <1>7 DEF ConnInv
  <2>2. c \in {5, 6} => CertificateValid(c)
    BY DEF CertificateValid, SecondCertificate
  <2> QED
    BY <2>1, <2>2 DEF accepted
<1>10. \A i \in 1..n : i # c /\ i \in 1..Len(conns)
  <2>1. conns[c].sent = "nothing"
    BY <1>1, <1>2, <1>7 DEF ConnInv
  <2>2. \A i \in 1..n : conns[i].sent # "nothing"
    BY <1>7 DEF LineInv
  <2>3. \A i \in 1..n : i \in 1..Len(conns)
    BY <1>2
  <2> QED
    BY <2>1, <2>2, <2>3
<1>11. n' = n
  BY <1>1
<1> HIDE DEF n, new
<1>12. TypeOK'
  <2>1. Len(conns') \in n'..n' + 1
    BY <1>2, <1>5, <1>11
  <2>2. /\ now' \in 0..Horizon /\ wake' \in 0..Horizon
        /\ pc' \in {"dial", "read", "sleep", "asleep", "done"}
        /\ dropRoot' \in BOOLEAN /\ cached' \in 0..8
    BY <1>1 DEF GoInv, TypeOK
  <2>3. conns' \in Seq(Conn) /\ reports' \in Seq(Line)
    BY <1>1, <1>3, <1>5
  <2> QED
    BY <2>1, <2>2, <2>3 DEF TypeOK, n
<1>13. CountInv' /\ ClockInv'
  BY <1>1, <1>5 DEF GoInv, CountInv, ClockInv
<1>14. ConnInv'
  <2> SUFFICES ASSUME NEW d \in 1..Len(conns')
               PROVE  /\ conns'[d].server = "handshake" <=> conns'[d].sent = "nothing"
                      /\ d \in {4, 8} => ~conns'[d].resumed /\ conns'[d].sent # "ok"
                      /\ d = 8 => ~conns'[d].roots
                      /\ d \in {5, 6} => conns'[d].roots /\ conns'[d].sent # "alert"
    BY DEF ConnInv
  <2>1. CASE d # c
    BY <1>5, <1>7, <2>1 DEF ConnInv
  <2>2. CASE d = c
    <3>1. /\ c \in {4, 8} => ~conns[c].resumed
          /\ c = 8 => ~conns[c].roots
          /\ c \in {5, 6} => conns[c].roots
      BY <1>2, <1>7 DEF ConnInv
    <3> QED
      BY <1>6, <1>8, <1>9, <2>2, <3>1 DEF new
  <2> QED
    BY <2>1, <2>2
<1>15. LineInv' /\ ReportsAreTrue'
  <2>1. \A i \in 1..n : conns'[i] = conns[i] /\ reports'[i] = reports[i]
    BY <1>1, <1>5, <1>10
  <2> QED
    BY <1>7, <1>11, <2>1 DEF LineInv, ReportsAreTrue, n
<1> QED
  BY <1>12, <1>13, <1>14, <1>15 DEF GoInv

\* A close changes nothing main will ever see.
LEMMA CloseStep ==
  ASSUME GoInv, NEW c \in 1..Last, Close(c)
  PROVE  GoInv'
<1>1. /\ conns' = [conns EXCEPT ![c].server = "closed"]
      /\ conns[c].server = "sleeping"
      /\ UNCHANGED <<now, pc, wake, dropRoot, cached, reports>>
  BY DEF Close
<1>2. c \in 1..Len(conns) /\ conns \in Seq(Conn) /\ reports \in Seq(Line)
  BY Shape DEF Last
<1>3. conns[c] \in Conn
  BY <1>2, Shape
<1>4. /\ conns' \in Seq(Conn) /\ Len(conns') = Len(conns)
      /\ \A d \in 1..Len(conns) : d # c => conns'[d] = conns[d]
      /\ conns'[c] = [conns[c] EXCEPT !.server = "closed"]
  <2> DEFINE closed == [conns[c] EXCEPT !.server = "closed"]
  <2>1. closed \in Conn
    BY <1>3 DEF Conn
  <2>2. conns' = [conns EXCEPT ![c] = closed]
    BY <1>1
  <2> HIDE DEF closed
  <2>3. /\ conns' \in Seq(Conn) /\ Len(conns') = Len(conns)
        /\ \A d \in 1..Len(conns) : d # c => conns'[d] = conns[d]
        /\ conns'[c] = closed
    BY <1>2, <2>1, <2>2
  <2> QED
    BY <2>3 DEF closed
<1>5. /\ conns'[c].resumed = conns[c].resumed
      /\ conns'[c].roots = conns[c].roots
      /\ conns'[c].sent = conns[c].sent
      /\ conns'[c].server = "closed"
  BY <1>3, <1>4 DEF Conn
<1>6. \A d \in 1..Len(conns) :
        /\ conns'[d].resumed = conns[d].resumed
        /\ conns'[d].roots = conns[d].roots
        /\ conns'[d].sent = conns[d].sent
        /\ conns'[d].server = "handshake" <=> conns[d].server = "handshake"
  BY <1>1, <1>4, <1>5
<1>7. TypeOK' /\ CountInv' /\ ClockInv'
  BY <1>1, <1>2, <1>4 DEF GoInv, TypeOK, CountInv, ClockInv
<1>8. ConnInv'
  BY <1>4, <1>6 DEF GoInv, ConnInv
<1>9. LineInv' /\ ReportsAreTrue'
  <2>1. \A i \in 1..Len(reports) : i \in 1..Len(conns)
    BY Shape
  <2> QED
    BY <1>1, <1>6, <2>1 DEF GoInv, LineInv, ReportsAreTrue
<1> QED
  BY <1>7, <1>8, <1>9 DEF GoInv

\* The line that is printed is of a connection that was judged.
LEMMA ReadStep ==
  ASSUME GoInv, Read
  PROVE  GoInv'
<1> DEFINE n == Len(reports)
           line == [resumed |-> conns[Last].resumed,
                    accepted |-> (conns[Last].sent = "ok")]
<1>1. /\ reports' = Append(reports, line)
      /\ pc' = CASE k = 2 -> "sleep" [] k = 8 -> "done" [] OTHER -> "dial"
      /\ conns[Last].sent # "nothing"
      /\ cached' = IF conns[Last].ticket THEN Last ELSE cached
      /\ UNCHANGED <<now, wake, dropRoot, conns>>
      /\ pc = "read"
  BY DEF Read, Report
<1>2. n \in 0..7 /\ Len(conns) = n + 1 /\ Last = n + 1 /\ k = n + 1
  <2>1. n # 8
    BY <1>1 DEF GoInv, CountInv
  <2>2. n \in Nat /\ n <= 8 /\ Len(conns) = IF pc = "read" THEN n + 1 ELSE n
    BY Shape
  <2>3. Last = Len(conns) /\ k = n + 1
    BY DEF Last, k
  <2> HIDE DEF n
  <2> QED
    BY <1>1, <2>1, <2>2, <2>3
<1>3. conns \in Seq(Conn) /\ reports \in Seq(Line)
  BY Shape
<1>4. line \in Line
  <2>1. conns[Last] \in Conn
    BY <1>2, Shape
  <2> QED
    BY <2>1 DEF Line, Conn
<1>5. line.resumed = conns[Last].resumed /\ (line.accepted <=> conns[Last].sent = "ok")
  OBVIOUS
<1> HIDE DEF line
<1>6. /\ reports' \in Seq(Line) /\ Len(reports') = n + 1
      /\ \A i \in 1..n : reports'[i] = reports[i]
      /\ reports'[n + 1] = line
  BY <1>1, <1>2, <1>3, <1>4
<1> HIDE DEF n
<1>7. /\ n = 1 => pc' = "sleep"
      /\ n = 7 => pc' = "done"
      /\ n \notin {1, 7} => pc' = "dial"
  <2>1. /\ k = 2 => pc' = "sleep"
        /\ k = 8 => pc' = "done"
        /\ k \notin {2, 8} => pc' = "dial"
    BY <1>1
  <2> QED
    BY <1>2, <2>1
<1>8. TypeOK'
  <2>1. Len(conns') \in Len(reports')..Len(reports') + 1
    BY <1>1, <1>2, <1>6
  <2>2. cached' \in 0..8
    <3>1. cached \in 0..8
      BY DEF GoInv, TypeOK
    <3> QED
      BY <1>1, <1>2, <3>1
  <2>3. /\ now' \in 0..Horizon /\ wake' \in 0..Horizon /\ dropRoot' \in BOOLEAN
    BY <1>1 DEF GoInv, TypeOK
  <2>4. pc' \in {"dial", "read", "sleep", "asleep", "done"}
    BY <1>7
  <2>5. conns' \in Seq(Conn) /\ reports' \in Seq(Line)
    BY <1>1, <1>3, <1>6
  <2> QED
    BY <2>1, <2>2, <2>3, <2>4, <2>5 DEF TypeOK
<1>9. CountInv'
  <2>1. Len(conns') = Len(reports') /\ Len(reports') \in 1..8
    BY <1>1, <1>2, <1>6
  <2>2. pc' = "done" <=> Len(reports') = 8
    BY <1>2, <1>6, <1>7
  <2>3. pc' \in {"sleep", "asleep"} => Len(reports') = 2
    BY <1>2, <1>6, <1>7
  <2>4. pc' # "read"
    BY <1>7
  <2> QED
    BY <2>1, <2>2, <2>3, <2>4 DEF CountInv
<1>10. ClockInv'
  <2>1. /\ wake = 0 => now + Life + Margin <= Horizon
        /\ n < 2 => wake = 0
        /\ n + 1 > 2 => now > Life
    BY <1>2 DEF GoInv, ClockInv, n
  <2>2. wake' = wake /\ now' = now /\ conns' = conns
    BY <1>1
  <2>3. Len(reports') < 2 \/ pc' = "sleep" => wake' = 0
    BY <1>2, <1>6, <1>7, <2>1, <2>2
  <2>4. pc' # "asleep"
    BY <1>7
  <2>5. Len(conns') > 2 \/ (pc' = "dial" /\ Len(reports') = 2) => now' > Life
    BY <1>2, <1>6, <1>7, <2>1, <2>2
  <2> QED
    BY <2>1, <2>2, <2>3, <2>4, <2>5 DEF ClockInv
<1>11. ConnInv'
  BY <1>1 DEF GoInv, ConnInv
<1>12. LineInv' /\ ReportsAreTrue'
  <2>1. \A i \in 1..Len(reports') : i \in 1..n \/ i = n + 1
    BY <1>2, <1>6
  <2>2. \A i \in 1..n : /\ conns[i].sent # "nothing"
                        /\ reports[i].resumed = conns[i].resumed
                        /\ reports[i].accepted <=> conns[i].sent = "ok"
    BY DEF GoInv, LineInv, ReportsAreTrue, n
  <2> SUFFICES ASSUME NEW i \in 1..Len(reports')
               PROVE  /\ conns[i].sent # "nothing"
                      /\ reports'[i].resumed = conns[i].resumed
                      /\ reports'[i].accepted <=> conns[i].sent = "ok"
    BY <1>1 DEF LineInv, ReportsAreTrue
  <2>3. CASE i \in 1..n
    BY <1>6, <2>2, <2>3
  <2>4. CASE i = n + 1
    BY <1>1, <1>2, <1>5, <1>6, <2>4
  <2> QED
    BY <2>1, <2>3, <2>4
<1> QED
  BY <1>8, <1>9, <1>10, <1>11, <1>12 DEF GoInv

\* Main goes to sleep, wakes up, and time passes.
LEMMA ClockStep ==
  ASSUME GoInv, Sleep \/ Wake \/ Tick \/ UNCHANGED vars
  PROVE  GoInv'
<1> DEFINE n == Len(reports)
           m == Len(conns)
<1>1. UNCHANGED <<conns, reports, cached, dropRoot, n, m>>
  BY DEF Sleep, Wake, Tick, vars
<1>2. ConnInv' /\ LineInv' /\ ReportsAreTrue'
  BY <1>1 DEF GoInv, ConnInv, LineInv, ReportsAreTrue
<1>3. /\ {now, wake, Life, Margin, Horizon} \subseteq Nat
      /\ 0 < Margin /\ Life + Margin < Horizon
      /\ now <= Horizon /\ wake <= Horizon
  <2>1. now \in 0..Horizon /\ wake \in 0..Horizon
    BY DEF GoInv, TypeOK
  <2> QED
    BY <2>1, Shape
<1>4. n \in Nat /\ m = IF pc = "read" THEN n + 1 ELSE n
  BY Shape
<1>5. /\ pc = "done" <=> n = 8
      /\ pc \in {"sleep", "asleep"} => n = 2
  BY DEF GoInv, CountInv
<1>6. /\ wake = 0 => now + Life + Margin <= Horizon
      /\ n < 2 \/ pc = "sleep" => wake = 0
      /\ pc = "asleep" => wake >= Life + Margin
      /\ m > 2 \/ (pc = "dial" /\ n = 2) => now > Life
  BY DEF GoInv, ClockInv
<1> HIDE DEF n, m
<1>7. /\ now' \in 0..Horizon /\ wake' \in 0..Horizon
      /\ pc' = pc \/ <<pc, pc'>> \in {<<"sleep", "asleep">>, <<"asleep", "dial">>}
  BY <1>3, <1>6 DEF Sleep, Wake, Tick, vars
<1>8. TypeOK'
  <2>1. /\ pc \in {"dial", "read", "sleep", "asleep", "done"}
        /\ dropRoot' \in BOOLEAN /\ cached' \in 0..8
        /\ conns' \in Seq(Conn) /\ reports' \in Seq(Line)
        /\ Len(conns') \in Len(reports')..Len(reports') + 1
    BY <1>1 DEF GoInv, TypeOK
  <2>2. pc' \in {"dial", "read", "sleep", "asleep", "done"}
    BY <1>7, <2>1
  <2> QED
    BY <1>7, <2>1, <2>2 DEF TypeOK
<1>9. CountInv'
  <2>1. n <= 8 /\ m' = IF pc' = "read" THEN n' + 1 ELSE n'
    BY <1>1, <1>4, <1>7, Shape DEF n
  <2>2. /\ pc' = "done" <=> n' = 8
        /\ pc' \in {"sleep", "asleep"} => n' = 2
    BY <1>1, <1>5, <1>7
  <2> QED
    BY <1>1, <2>1, <2>2 DEF CountInv, n, m
<1>10. ClockInv'
  <2>1. /\ wake' = 0 => now' + Life + Margin <= Horizon
        /\ n' < 2 \/ pc' = "sleep" => wake' = 0
        /\ pc' = "asleep" => wake' >= Life + Margin
        /\ m' > 2 \/ (pc' = "dial" /\ n' = 2) => now' > Life
    <3>1. CASE Sleep
      BY <1>1, <1>3, <1>4, <1>5, <1>6, <3>1 DEF Sleep
    <3>2. CASE Wake
      BY <1>1, <1>3, <1>4, <1>5, <1>6, <3>2 DEF Wake
    <3>3. CASE Tick
      BY <1>1, <1>3, <1>4, <1>5, <1>6, <3>3 DEF Tick
    <3>4. CASE UNCHANGED vars
      BY <1>1, <1>6, <3>4 DEF vars
    <3> QED
      BY <3>1, <3>2, <3>3, <3>4
  <2> QED
    BY <2>1 DEF ClockInv, n, m
<1> QED
  BY <1>2, <1>8, <1>9, <1>10 DEF GoInv

\* Every step of main, the goroutines and the clock.
LEMMA NextGo == GoInv /\ [Next]_vars => GoInv'
<1> SUFFICES ASSUME GoInv, [Next]_vars PROVE GoInv'
  OBVIOUS
<1>1. CASE Dial
  BY <1>1, DialStep
<1>2. CASE Read
  BY <1>2, ReadStep
<1>3. CASE Sleep \/ Wake \/ Tick \/ UNCHANGED vars
  BY <1>3, ClockStep
<1>4. CASE \E c \in 1..Last : Judge(c) \/ Close(c)
  BY <1>4, JudgeStep, CloseStep
<1> QED
  BY <1>1, <1>2, <1>3, <1>4 DEF Next, Main, Terminated

-----------------------------------------------------------------------------
\* The inductive invariant of the program holds however its processes run.
THEOREM GoInvariance == Spec => []GoInv
BY InitGo, NextGo, PTL DEF Spec

\* Every state of main, the listener and the cache is well typed, with one line
\* for every connection that is over.
THEOREM GoTypes == Spec => []TypeOK
<1>1. GoInv => TypeOK
  BY DEF GoInv
<1> QED
  BY <1>1, GoInvariance, PTL

\* Every line says what the server did with the connection (main.go:127).
THEOREM TrueReports == Spec => []ReportsAreTrue
<1>1. GoInv => ReportsAreTrue
  BY DEF GoInv
<1> QED
  BY <1>1, GoInvariance, PTL

\* The controls of A and B are full handshakes and rejected, the baseline of B is
\* accepted, whatever the life of the certificate and the margin of the sleep.
THEOREM Controls == Spec => []ControlsBite
<1>1. GoInv => ControlsBite
  <2> SUFFICES ASSUME GoInv, NEW i \in 1..Len(reports)
               PROVE  /\ i \in {4, 8} => ~reports[i].resumed /\ ~reports[i].accepted
                      /\ i \in {5, 6} => reports[i].accepted
    BY DEF ControlsBite
  <2>1. i \in 1..Len(conns)
    BY Shape
  <2>2. conns[i] \in Conn
    BY <2>1, Shape
  <2>3. /\ conns[i].sent # "nothing"
        /\ reports[i].resumed = conns[i].resumed
        /\ reports[i].accepted <=> conns[i].sent = "ok"
    BY DEF GoInv, LineInv, ReportsAreTrue
  <2>4. /\ i \in {4, 8} => ~conns[i].resumed /\ conns[i].sent # "ok"
        /\ i \in {5, 6} => conns[i].sent # "alert"
    BY <2>1 DEF GoInv, ConnInv
  <2> QED
    BY <2>2, <2>3, <2>4 DEF Conn
<1> QED
  BY <1>1, GoInvariance, PTL

-----------------------------------------------------------------------------
(***************************************************************************)
(* Which session a dial offers.                                            *)
(***************************************************************************)
\* The cache in use is made at 1, 4, 5 and 8, and kept at the other dials.
LEMMA Caches ==
  ASSUME NEW n \in 0..7
  PROVE  /\ Made(n + 1) \in 1..n + 1
         /\ n + 1 \in FreshCache => Made(n + 1) = n + 1
         /\ n + 1 \notin FreshCache => Made(n + 1) = Made(n)
BY DEF Made, FreshCache

\* Only the lines up to the last of the dials count.
LEMMA SameLines ==
  ASSUME NEW x, NEW first \in Nat, NEW last \in Nat,
         \A j \in first..last : reports'[j] = reports[j]
  PROVE  IsLastAccepted(x, first, last)' <=> IsLastAccepted(x, first, last)
BY DEF IsLastAccepted

\* Nothing is offered before the first dial.
LEMMA InitOffer == Init => OfferInv
<1> SUFFICES ASSUME Init PROVE OfferInv
  OBVIOUS
<1>1. Last = 0 /\ Len(reports) = 0 /\ cached = 0
  BY DEF Init, Last
<1>2. Made(0) = 1
  BY DEF Made
<1> QED
  BY <1>1, <1>2 DEF OfferInv, IsLastAccepted

\* A dial offers what is in the cache.
LEMMA DialOffer ==
  ASSUME GoInv, OfferInv, Dial
  PROVE  OfferInv'
<1> DEFINE n == Len(reports)
<1>1. pc = "dial" /\ reports' = reports
  BY DEF Dial
<1>2. n \in 0..7 /\ Len(conns) = n /\ conns \in Seq(Conn)
  <2>1. n # 8
    BY <1>1 DEF GoInv, CountInv
  <2>2. n \in Nat /\ n <= 8 /\ Len(conns) = IF pc = "read" THEN n + 1 ELSE n
    BY Shape
  <2> HIDE DEF n
  <2> QED
    BY <1>1, <2>1, <2>2, Shape
<1>3. PICK resumed \in {FALSE, cached' # 0} :
        conns' = Append(conns, [offered |-> cached', resumed |-> resumed,
                                roots |-> ~dropRoot', server |-> "handshake",
                                sent |-> "nothing", ticket |-> FALSE])
  BY DEF Dial
<1>4. /\ Len(conns') = n + 1
      /\ \A c \in 1..n : conns'[c] = conns[c]
      /\ conns'[n + 1].offered = cached'
      /\ conns'[n + 1].sent = "nothing" /\ ~conns'[n + 1].ticket
  <2> DEFINE added == [offered |-> cached', resumed |-> resumed,
                       roots |-> ~dropRoot', server |-> "handshake",
                       sent |-> "nothing", ticket |-> FALSE]
  <2>1. added.offered = cached' /\ added.sent = "nothing" /\ ~added.ticket
    OBVIOUS
  <2>2. conns' = Append(conns, added)
    BY <1>3
  <2> HIDE DEF added, n
  <2>3. Len(conns') = n + 1 /\ (\A c \in 1..n : conns'[c] = conns[c])
        /\ conns'[n + 1] = added
    BY <1>2, <2>2
  <2> QED
    BY <2>1, <2>3
<1>5. cached' = IF n + 1 \in FreshCache THEN 0 ELSE cached
  BY DEF Dial, k
<1>6. IsLastAccepted(cached, Made(n), n)
  BY <1>2 DEF OfferInv, Last
<1> HIDE DEF n
<1>7. IsLastAccepted(cached', Made(n + 1), n)
  <2>1. CASE n + 1 \in FreshCache
    <3>1. cached' = 0 /\ Made(n + 1) = n + 1
      BY <1>2, <1>5, <2>1, Caches
    <3> QED
      BY <1>2, <3>1 DEF IsLastAccepted
  <2>2. CASE n + 1 \notin FreshCache
    BY <1>2, <1>5, <1>6, <2>2, Caches
  <2> QED
    BY <2>1, <2>2
<1>8. ASSUME NEW c \in 1..n + 1
      PROVE  /\ conns'[c].ticket <=> conns'[c].sent = "ok"
             /\ IsLastAccepted(conns'[c].offered, Made(c), c - 1)
  <2>1. CASE c = n + 1
    <3>1. c - 1 = n
      BY <1>2, <2>1
    <3> QED
      BY <1>4, <1>7, <2>1, <3>1
  <2>2. CASE c # n + 1
    <3>1. c \in 1..n /\ c \in 1..Last
      BY <1>2, <2>2 DEF Last
    <3> QED
      BY <1>4, <3>1 DEF OfferInv
  <2> QED
    BY <2>1, <2>2
<1>9. Last' = n + 1 /\ Len(reports') = n
  BY <1>1, <1>4 DEF Last, n
<1> QED
  BY <1>1, <1>7, <1>8, <1>9 DEF OfferInv, IsLastAccepted

\* What a goroutine does to a connection leaves what it offered alone.
LEMMA ServerOffer ==
  ASSUME GoInv, OfferInv, NEW c \in 1..Last, Judge(c) \/ Close(c)
  PROVE  OfferInv'
<1> DEFINE accepted == conns[c].resumed \/ (conns[c].roots /\ CertificateValid(c))
<1>1. conns \in Seq(Conn) /\ c \in 1..Len(conns) /\ Len(conns) \in Nat
  BY Shape DEF Last
<1>2. conns[c] \in Conn
  BY <1>1, Shape
<1>3. accepted \in BOOLEAN
  BY <1>2 DEF Conn
<1> HIDE DEF accepted
<1>4. UNCHANGED <<reports, cached>>
  BY DEF Judge, Close
<1>5. /\ Len(conns') = Len(conns)
      /\ \A d \in 1..Len(conns) : d # c => conns'[d] = conns[d]
      /\ conns'[c].offered = conns[c].offered
      /\ conns'[c].ticket <=> conns'[c].sent = "ok"
  <2>1. CASE Judge(c)
    <3> DEFINE judged == [conns[c] EXCEPT
                            !.server = IF accepted THEN "sleeping" ELSE "closed",
                            !.sent = IF accepted THEN "ok" ELSE "alert",
                            !.ticket = accepted]
    <3>1. /\ judged.offered = conns[c].offered
          /\ judged.ticket <=> judged.sent = "ok"
      BY <1>2, <1>3 DEF Conn
    <3>2. conns' = [conns EXCEPT ![c] = judged]
      BY <2>1 DEF Judge, accepted
    <3> HIDE DEF judged
    <3> QED
      BY <1>1, <3>1, <3>2
  <2>2. CASE Close(c)
    <3> DEFINE closed == [conns[c] EXCEPT !.server = "closed"]
    <3>1. closed.ticket = conns[c].ticket /\ closed.sent = conns[c].sent
          /\ closed.offered = conns[c].offered
      BY <1>2 DEF Conn
    <3>2. conns' = [conns EXCEPT ![c] = closed]
      BY <2>2 DEF Close
    <3>3. conns[c].ticket <=> conns[c].sent = "ok"
      BY DEF OfferInv
    <3> HIDE DEF closed
    <3> QED
      BY <1>1, <3>1, <3>2, <3>3
  <2> QED
    BY <2>1, <2>2
<1>6. \A d \in 1..Len(conns) :
        /\ conns'[d].offered = conns[d].offered
        /\ conns'[d].ticket <=> conns'[d].sent = "ok"
  BY <1>5 DEF OfferInv, Last
<1>7. Last' = Last /\ Last = Len(conns)
  BY <1>5 DEF Last
<1> QED
  BY <1>4, <1>6, <1>7 DEF OfferInv, IsLastAccepted

\* The ticket of a connection that was accepted comes to the cache with its answer.
LEMMA ReadOffer ==
  ASSUME GoInv, OfferInv, Read
  PROVE  OfferInv'
<1> DEFINE line == [resumed |-> conns[Last].resumed,
                     accepted |-> (conns[Last].sent = "ok")]
<1>1. /\ reports' = Append(reports, line)
      /\ cached' = IF conns[Last].ticket THEN Last ELSE cached
      /\ conns' = conns /\ pc = "read"
  BY DEF Read, Report
<1>2. PICK n \in 0..7 : Len(reports) = n /\ Len(conns) = n + 1 /\ Last = n + 1
  <2>1. Len(reports) # 8
    BY <1>1 DEF GoInv, CountInv
  <2>2. /\ Len(reports) \in Nat /\ Len(reports) <= 8
        /\ Len(conns) = IF pc = "read" THEN Len(reports) + 1 ELSE Len(reports)
    BY Shape
  <2>3. Last = Len(conns)
    BY DEF Last
  <2>4. Len(reports) \in 0..7
    <3>1. \A i \in Nat : i <= 8 /\ i # 8 => i \in 0..7
      OBVIOUS
    <3>2. Len(reports) \in Nat /\ Len(reports) <= 8
      BY <2>2
    <3> QED
      BY <2>1, <3>1, <3>2, Zenon
  <2>5. Len(conns) = Len(reports) + 1
    BY <1>1, <2>2
  <2> QED
    BY <2>3, <2>4, <2>5
<1>3. line.accepted <=> conns[Last].ticket
  <2>1. conns[Last].ticket <=> conns[Last].sent = "ok"
    BY <1>2 DEF OfferInv
  <2> QED
    BY <2>1
<1>4. /\ Len(reports') = n + 1
      /\ \A i \in 1..n : reports'[i] = reports[i]
      /\ reports'[n + 1] = line
  <2> HIDE DEF line
  <2> QED
    BY <1>1, <1>2, Shape
<1>5. IsLastAccepted(cached, Made(n + 1), n) /\ Made(n + 1) \in 1..n + 1
  BY <1>2, Caches DEF OfferInv
<1> HIDE DEF line
<1>6. ASSUME NEW x, NEW first \in 1..n + 1, NEW last \in 0..n,
             IsLastAccepted(x, first, last)
      PROVE  IsLastAccepted(x, first, last)'
  BY <1>2, <1>4, <1>6, SameLines
<1>7. IsLastAccepted(cached, Made(n + 1), n + 1)'
  <2> DEFINE first == Made(n + 1)
  <2>1. first \in 1..n + 1 /\ n \in Nat
    BY <1>2, <1>5
  <2> HIDE DEF first
  <2>2. \A j \in first..n + 1 : j \in first..n \/ j = n + 1
    BY <2>1
  <2>3. \A j \in first..n : reports'[j] = reports[j]
    BY <1>4, <2>1
  <2>4. IsLastAccepted(cached, first, n)
    BY <1>5 DEF first
  <2>5. CASE line.accepted
    <3>1. cached' = n + 1 /\ n + 1 \in first..n + 1
      <4>1. cached' = Last
        BY <1>1, <1>3, <2>5
      <4> QED
        BY <1>2, <2>1, <4>1
    <3>2. \A j \in first..n + 1 : j <= cached'
      BY <2>1, <3>1
    <3>3. reports'[n + 1].accepted
      BY <1>4, <2>5
    <3> QED
      BY <3>1, <3>2, <3>3 DEF IsLastAccepted, first
  <2>6. CASE ~line.accepted
    <3>1. cached' = cached
      BY <1>1, <1>3, <2>6
    <3>2. \A j \in first..n + 1 : reports'[j].accepted => j <= cached
      BY <1>4, <2>2, <2>3, <2>4, <2>6 DEF IsLastAccepted
    <3>3. cached = 0 \/ (cached \in first..n + 1 /\ reports'[cached].accepted)
      BY <2>1, <2>3, <2>4 DEF IsLastAccepted
    <3> QED
      BY <3>1, <3>2, <3>3 DEF IsLastAccepted, first
  <2> QED
    BY <2>5, <2>6
<1>8. ASSUME NEW c \in 1..n + 1
      PROVE  /\ conns'[c].ticket <=> conns'[c].sent = "ok"
             /\ IsLastAccepted(conns[c].offered, Made(c), c - 1)'
  <2>1. c - 1 \in 0..7 /\ c - 1 + 1 = c /\ c - 1 \in 0..n /\ c \in 1..Last
    BY <1>2
  <2>2. Made(c) \in 1..n + 1
    <3>1. Made(c) \in 1..c
      BY <2>1, Caches
    <3> QED
      BY <1>2, <3>1
  <2>3. /\ conns[c].ticket <=> conns[c].sent = "ok"
        /\ IsLastAccepted(conns[c].offered, Made(c), c - 1)
    BY <2>1 DEF OfferInv
  <2>4. IsLastAccepted(conns[c].offered, Made(c), c - 1)'
    BY <1>1, <2>1, <2>2, <2>3, <1>2, <1>4 DEF IsLastAccepted
  <2> QED
    BY <1>1, <2>3, <2>4
<1>9. Last' = n + 1 /\ Len(reports') = n + 1
  BY <1>1, <1>2, <1>4 DEF Last
<1> QED
  BY <1>7, <1>8, <1>9 DEF OfferInv, IsLastAccepted

\* Every step keeps what is offered and what is in the cache.
LEMMA NextOffer == GoInv /\ OfferInv /\ [Next]_vars => OfferInv'
<1> SUFFICES ASSUME GoInv, OfferInv, [Next]_vars PROVE OfferInv'
  OBVIOUS
<1>1. CASE Dial
  BY <1>1, DialOffer
<1>2. CASE Read
  BY <1>2, ReadOffer
<1>3. CASE \E c \in 1..Last : Judge(c) \/ Close(c)
  BY <1>3, ServerOffer
<1>4. CASE Sleep \/ Wake \/ Tick \/ UNCHANGED vars
  <2>1. UNCHANGED <<conns, reports, cached>>
    BY <1>4 DEF Sleep, Wake, Tick, vars
  <2> QED
    BY <2>1 DEF OfferInv, IsLastAccepted, Last
<1> QED
  BY <1>1, <1>2, <1>3, <1>4 DEF Next, Main, Terminated

\* The last of the dials that was accepted is what TestOffersLastSession chooses.
LEMMA LastChosen ==
  ASSUME NEW x, NEW first \in Nat \ {0}, NEW last \in Nat, IsLastAccepted(x, first, last),
         NEW taken, taken = {j \in first..last : reports[j].accepted}
  PROVE  x = IF taken = {} THEN 0 ELSE CHOOSE j \in taken : \A l \in taken : l <= j
<1>1. CASE x = 0
  <2>1. taken = {}
    BY <1>1 DEF IsLastAccepted
  <2> QED
    BY <1>1, <2>1
<1>2. CASE x # 0
  <2>1. x \in taken /\ \A l \in taken : l <= x
    BY <1>2 DEF IsLastAccepted
  <2>2. \A j \in taken : (\A l \in taken : l <= j) => j = x
    <3>1. taken \subseteq Nat
      OBVIOUS
    <3> QED
      BY <2>1, <3>1
  <2>3. x = CHOOSE j \in taken : \A l \in taken : l <= j
    BY <2>1, <2>2
  <2>4. taken # {}
    BY <2>1
  <2> QED
    BY <2>3, <2>4
<1> QED
  BY <1>1, <1>2

\* The baseline and the test of A and of B offer the session of the last dial of the
\* experiment that was accepted (main.go:145-173).
THEOREM QuestionIsPosed == Spec => []TestOffersLastSession
<1>1. GoInv /\ OfferInv => TestOffersLastSession
  <2> SUFFICES ASSUME GoInv, OfferInv, NEW i \in {2, 3, 6, 7}, Len(conns) >= i
               PROVE  LET first == IF i < 4 THEN 1 ELSE 5
                          taken == {j \in first..i-1 : reports[j].accepted}
                      IN conns[i].offered =
                           IF taken = {} THEN 0
                           ELSE CHOOSE j \in taken : \A l \in taken : l <= j
    BY DEF TestOffersLastSession
  <2>1. i \in 1..Last
    BY Shape DEF Last
  <2>2. IsLastAccepted(conns[i].offered, Made(i), i - 1)
    BY <2>1 DEF OfferInv
  <2> DEFINE f == IF i < 4 THEN 1 ELSE 5
  <2>3. Made(i) = f /\ f \in Nat \ {0} /\ i - 1 \in Nat
    BY DEF Made
  <2> HIDE DEF f
  <2>4. IsLastAccepted(conns[i].offered, f, i - 1)
    BY <2>2, <2>3
  <2> DEFINE taken == {j \in f..i-1 : reports[j].accepted}
  <2>5. conns[i].offered = IF taken = {} THEN 0
                           ELSE CHOOSE j \in taken : \A l \in taken : l <= j
    <3>1. taken = {j \in f..i-1 : reports[j].accepted}
      OBVIOUS
    <3> HIDE DEF taken
    <3> QED
      BY <2>3, <2>4, <3>1, LastChosen
  <2> QED
    BY <2>5 DEF f
<1> QED
  BY <1>1, GoInvariance, InitOffer, NextOffer, PTL DEF Spec

-----------------------------------------------------------------------------
(***************************************************************************)
(* The safety half of Ends.                                                *)
(***************************************************************************)
\* What is left of the connections can be counted.
LEMMA DialsCount ==
  \A S \in SUBSET Dials : IsFiniteSet(S) /\ Cardinality(S) \in Nat
<1>1. 1 \in Int /\ 8 \in Int
  OBVIOUS
<1>2. IsFiniteSet(Dials)
  BY <1>1, FS_Interval, Zenon DEF Dials
<1> QED
  BY <1>2, FS_Subset, FS_CardinalityType, Zenon

\* A set of dials that is part of another has no more elements, and fewer when
\* one of the other is missing.
LEMMA FewerDials ==
  ASSUME NEW S \in SUBSET Dials, NEW T \in SUBSET S
  PROVE  /\ Cardinality(T) <= Cardinality(S)
         /\ T # S => Cardinality(T) < Cardinality(S)
<1>1. IsFiniteSet(S) /\ Cardinality(S) \in Nat /\ Cardinality(T) \in Nat
  BY DialsCount
<1>2. Cardinality(T) <= Cardinality(S) /\ (Cardinality(S) = Cardinality(T) => S = T)
  BY <1>1, FS_Subset
<1> QED
  BY <1>1, <1>2

\* Where main can be, by the lines it has printed.
LEMMA Places ==
  ASSUME GoInv
  PROVE  /\ Len(reports) \in 0..8
         /\ pc \in {"dial", "read"} => Len(reports) \in 0..7
         /\ pc \in {"sleep", "asleep"} => Len(reports) = 2
         /\ pc \in {"dial", "read", "sleep", "asleep", "done"}
<1>1. pc \in {"dial", "read", "sleep", "asleep", "done"}
  BY DEF GoInv, TypeOK
<1> DEFINE n == Len(reports)
<1>2. /\ n \in Nat /\ n <= 8
      /\ pc = "done" <=> n = 8
      /\ pc \in {"sleep", "asleep"} => n = 2
  BY Shape DEF GoInv, CountInv
<1> HIDE DEF n
<1>3. n \in 0..8 /\ (n # 8 => n \in 0..7)
  BY <1>2
<1> QED
  BY <1>1, <1>2, <1>3 DEF n

\* What main has left at each place it can be at.
LEMMA MainLeftValues ==
  ASSUME NEW n \in 0..8
  PROVE  /\ MainLeftAt("dial", n) = IF n < 2 THEN 18 - 2 * n ELSE 16 - 2 * n
         /\ MainLeftAt("done", n) = IF n < 2 THEN 18 - 2 * n ELSE 16 - 2 * n
         /\ MainLeftAt("read", n) = IF n < 2 THEN 17 - 2 * n ELSE 15 - 2 * n
         /\ MainLeftAt("sleep", n) = 18 - 2 * n
         /\ MainLeftAt("asleep", n) = 17 - 2 * n
BY DEF MainLeftAt

\* What is left is a number of steps.
LEMMA LeftTypes ==
  ASSUME GoInv
  PROVE  /\ MainLeft \in Nat
         /\ Cardinality(Unjudged) \in Nat /\ Cardinality(Unclosed) \in Nat
         /\ Horizon - now \in Nat
<1>1. Unjudged \in SUBSET Dials /\ Unclosed \in SUBSET Dials
  BY DEF Unjudged, Unclosed
<1> DEFINE n == Len(reports)
<1>2. /\ n \in 0..8 /\ (pc = "read" => n \in 0..7)
      /\ pc \in {"dial", "read", "sleep", "asleep", "done"}
  BY Places
<1> HIDE DEF n
<1>3. MainLeftAt(pc, n) \in Nat
  <2>1. CASE pc = "dial"
    BY <1>2, <2>1, MainLeftValues
  <2>2. CASE pc = "done"
    BY <1>2, <2>2, MainLeftValues
  <2>3. CASE pc = "read"
    BY <1>2, <2>3, MainLeftValues
  <2>4. CASE pc = "sleep"
    BY <1>2, <2>4, MainLeftValues
  <2>5. CASE pc = "asleep"
    BY <1>2, <2>5, MainLeftValues
  <2> QED
    BY <1>2, <2>1, <2>2, <2>3, <2>4, <2>5
<1>4. Horizon - now \in Nat
  <2>1. now \in 0..Horizon /\ Horizon \in Nat
    BY TimesAssumption DEF GoInv, TypeOK
  <2> QED
    BY <2>1
<1> QED
  BY <1>1, <1>3, <1>4, DialsCount DEF MainLeft, n

\* A step of main is one it has not to make again.
LEMMA MainRunsDown ==
  ASSUME GoInv, Main
  PROVE  /\ MainLeft' \in 0..MainLeft - 1
         /\ UNCHANGED <<Unjudged, Unclosed, now>>
<1> DEFINE n == Len(reports)
<1>1. /\ n \in 0..8
      /\ pc \in {"dial", "read"} => n \in 0..7
      /\ pc \in {"sleep", "asleep"} => n = 2
      /\ conns \in Seq(Conn) /\ reports \in Seq(Line)
      /\ Len(conns) = IF pc = "read" THEN n + 1 ELSE n
  BY Places, Shape
<1>m. MainLeft = MainLeftAt(pc, n) /\ MainLeft' = MainLeftAt(pc', n')
  BY DEF MainLeft, n
<1> HIDE DEF n
<1>2. CASE Dial
  <2>1. pc = "dial" /\ pc' = "read" /\ UNCHANGED <<now, reports>> /\ n' = n
    BY <1>2 DEF Dial, n
  <2>2. MainLeft' \in 0..MainLeft - 1
    BY <1>1, <1>m, <2>1, MainLeftValues
  <2>3. PICK resumed \in BOOLEAN :
          conns' = Append(conns, [offered |-> cached', resumed |-> resumed,
                                  roots |-> ~dropRoot', server |-> "handshake",
                                  sent |-> "nothing", ticket |-> FALSE])
    BY <1>2 DEF Dial
  <2> DEFINE added == [offered |-> cached', resumed |-> resumed,
                       roots |-> ~dropRoot', server |-> "handshake",
                       sent |-> "nothing", ticket |-> FALSE]
  <2>4. added.server = "handshake"
    OBVIOUS
  <2> HIDE DEF added
  <2>5. /\ Len(conns') = n + 1 /\ Len(conns) = n
        /\ \A c \in 1..n : conns'[c] = conns[c]
        /\ conns'[n + 1] = added
    BY <1>1, <2>1, <2>3 DEF added
  <2>6. UNCHANGED <<Unjudged, Unclosed>>
    <3>1. ASSUME NEW c \in Dials
          PROVE  /\ (c <= Len(conns') => conns'[c].server = "handshake")
                      <=> (c <= Len(conns) => conns[c].server = "handshake")
                 /\ (c <= Len(conns') => conns'[c].server # "closed")
                      <=> (c <= Len(conns) => conns[c].server # "closed")
      <4>1. c \in Nat /\ c >= 1
        BY DEF Dials
      <4>2. CASE c <= n
        BY <1>1, <2>5, <4>1, <4>2
      <4>3. CASE c = n + 1
        BY <1>1, <2>4, <2>5, <4>3
      <4>4. CASE c > n + 1
        BY <1>1, <2>5, <4>1, <4>4
      <4> QED
        BY <1>1, <4>1, <4>2, <4>3, <4>4
    <3> QED
      BY <3>1 DEF Unjudged, Unclosed, Last
  <2> QED
    BY <2>1, <2>2, <2>6
<1>3. CASE Read
  <2>1. /\ pc = "read" /\ UNCHANGED <<now, conns>>
        /\ n' = n + 1
        /\ pc' = CASE n + 1 = 2 -> "sleep" [] n + 1 = 8 -> "done" [] OTHER -> "dial"
    BY <1>1, <1>3 DEF Read, Report, k, n
  <2>2. MainLeft' \in 0..MainLeft - 1
    <3>v. n \in 0..7 /\ n + 1 \in 0..8
      BY <1>1, <2>1
    <3>1. CASE n + 1 = 2
      BY <1>m, <2>1, <3>v, <3>1, MainLeftValues
    <3>2. CASE n + 1 = 8
      BY <1>m, <2>1, <3>v, <3>2, MainLeftValues
    <3>3. CASE n + 1 \notin {2, 8}
      BY <1>m, <2>1, <3>v, <3>3, MainLeftValues
    <3> QED
      BY <3>1, <3>2, <3>3
  <2> QED
    BY <2>1, <2>2 DEF Unjudged, Unclosed, Last
<1>4. CASE Sleep \/ Wake
  <2>1. /\ UNCHANGED <<now, conns, reports>> /\ n' = n
        /\ \/ pc = "sleep" /\ pc' = "asleep"
           \/ pc = "asleep" /\ pc' = "dial"
    BY <1>4 DEF Sleep, Wake, n
  <2>2. MainLeft' \in 0..MainLeft - 1
    BY <1>1, <1>m, <2>1, MainLeftValues
  <2> QED
    BY <2>1, <2>2 DEF Unjudged, Unclosed, Last
<1> QED
  BY <1>2, <1>3, <1>4 DEF Main

\* So is a step of the server.
LEMMA ServerRunsDown ==
  ASSUME GoInv, NEW c \in 1..Last, Judge(c) \/ Close(c)
  PROVE  /\ UNCHANGED <<MainLeft, now>>
         /\ Cardinality(Unjudged') <= Cardinality(Unjudged)
         /\ Cardinality(Unclosed') <= Cardinality(Unclosed)
         /\ \/ Cardinality(Unjudged') < Cardinality(Unjudged)
            \/ Cardinality(Unclosed') < Cardinality(Unclosed)
<1>1. UNCHANGED <<now, pc, reports>>
  BY DEF Judge, Close
<1>2. /\ conns \in Seq(Conn) /\ conns[c] \in Conn
      /\ c \in Dials /\ c <= Len(conns) /\ Len(conns) \in Nat
  <2>1. /\ Len(reports) \in 0..8 /\ (pc = "read" => Len(reports) \in 0..7)
        /\ Len(conns) = IF pc = "read" THEN Len(reports) + 1 ELSE Len(reports)
        /\ conns \in Seq(Conn) /\ c \in 1..Len(conns)
    BY Places, Shape DEF Last
  <2>2. conns[c] \in Conn
    BY <2>1, Shape
  <2>3. Len(conns) \in 0..8
    <3>1. \A i \in 0..7 : i + 1 \in 0..8
      OBVIOUS
    <3> QED
      BY <2>1, <3>1
  <2> QED
    BY <2>1, <2>2, <2>3 DEF Dials
<1>3. /\ Len(conns') = Len(conns)
      /\ \A d \in 1..Len(conns) : d # c => conns'[d] = conns[d]
  BY <1>2 DEF Judge, Close
<1>4. \/ conns[c].server = "handshake" /\ conns'[c].server \in {"sleeping", "closed"}
      \/ conns[c].server = "sleeping" /\ conns'[c].server = "closed"
  <2>1. CASE Judge(c)
    BY <1>2, <2>1 DEF Judge, Conn
  <2>2. CASE Close(c)
    BY <1>2, <2>2 DEF Close, Conn
  <2> QED
    BY <2>1, <2>2
<1>5. Unjudged' \in SUBSET Unjudged /\ Unclosed' \in SUBSET Unclosed
  <2>1. ASSUME NEW d \in Dials
        PROVE  /\ (d <= Len(conns') => conns'[d].server = "handshake")
                    => (d <= Len(conns) => conns[d].server = "handshake")
               /\ (d <= Len(conns') => conns'[d].server # "closed")
                    => (d <= Len(conns) => conns[d].server # "closed")
    <3>1. d \in 1..Len(conns) \/ d > Len(conns)
      BY <1>2 DEF Dials
    <3>2. CASE d = c
      BY <1>2, <1>3, <1>4, <3>2
    <3>3. CASE d \in 1..Len(conns) /\ d # c
      <4>1. conns'[d] = conns[d]
        BY <1>3, <3>3
      <4> QED
        BY <1>3, <4>1
    <3>4. CASE d > Len(conns)
      <4>1. ~ (d <= Len(conns'))
        BY <1>2, <1>3, <3>4 DEF Dials
      <4> QED
        BY <1>2, <3>4, <4>1 DEF Dials
    <3> QED
      BY <3>1, <3>2, <3>3, <3>4
  <2> QED
    BY <2>1 DEF Unjudged, Unclosed, Last
<1>6. Unjudged' # Unjudged \/ Unclosed' # Unclosed
  <2>1. CASE conns[c].server = "handshake"
    <3>1. c \in Unjudged /\ c \notin Unjudged'
      BY <1>2, <1>3, <1>4, <2>1 DEF Unjudged, Last
    <3> QED
      BY <3>1
  <2>2. CASE conns[c].server = "sleeping"
    <3>1. c \in Unclosed /\ c \notin Unclosed'
      BY <1>2, <1>3, <1>4, <2>2 DEF Unclosed, Last
    <3> QED
      BY <3>1
  <2> QED
    BY <1>4, <2>1, <2>2
<1>7. Unjudged \in SUBSET Dials /\ Unclosed \in SUBSET Dials
  BY DEF Unjudged, Unclosed
<1>8. UNCHANGED MainLeft
  BY <1>1 DEF MainLeft
<1> QED
  BY <1>1, <1>5, <1>6, <1>7, <1>8, FewerDials

\* What is left falls when one of its parts does and none rises.
LEMMA PartFalls ==
  ASSUME NEW m \in Nat, NEW j \in Nat, NEW o \in Nat, NEW h \in Nat,
         NEW m1 \in 0..m, NEW j1 \in 0..j, NEW o1 \in 0..o, NEW h1 \in 0..h,
         m1 < m \/ j1 < j \/ o1 < o \/ h1 < h
  PROVE  m1 + j1 + o1 + h1 \in 0..(m + j + o + h) - 1
OBVIOUS

\* The program makes a bounded number of steps: no dial is repeated, and no
\* connection is judged or closed twice (main.go:96-175).
THEOREM GoProgress == Spec => RunsDown
<1>1. GoInv /\ GoInv' /\ [Next]_vars => [StepsLeft' \in 0..StepsLeft - 1]_vars
  <2> SUFFICES ASSUME GoInv, GoInv', Next
               PROVE  StepsLeft' \in 0..StepsLeft - 1 \/ UNCHANGED vars
    OBVIOUS
  <2> DEFINE j == Cardinality(Unjudged)
             o == Cardinality(Unclosed)
             h == Horizon - now
  <2>t. MainLeft \in Nat /\ j \in Nat /\ o \in Nat /\ h \in Nat
    BY LeftTypes
  <2>u. j' \in Nat /\ o' \in Nat /\ h' \in Nat
    <3>1. Unjudged' \in SUBSET Dials /\ Unclosed' \in SUBSET Dials
      BY DEF Unjudged, Unclosed
    <3>2. j' \in Nat /\ o' \in Nat
      BY <3>1, DialsCount
    <3>3. now' \in 0..Horizon /\ Horizon \in Nat
      BY TimesAssumption DEF GoInv, TypeOK
    <3>4. \A t \in 0..Horizon : Horizon - t \in Nat
      BY <3>3
    <3> QED
      BY <3>2, <3>3, <3>4
  <2>s. /\ StepsLeft = MainLeft + j + o + h
        /\ StepsLeft' = MainLeft' + j' + o' + h'
    BY DEF StepsLeft
  <2>h. h' = h \/ now' # now
    OBVIOUS
  <2>1. CASE Main
    <3>1. MainLeft' \in 0..MainLeft - 1 /\ j' = j /\ o' = o /\ h' = h
      BY <2>1, <2>h, MainRunsDown
    <3> HIDE DEF j, o, h
    <3>2. MainLeft' \in 0..MainLeft /\ MainLeft' < MainLeft
      <4>1. \A i \in 0..MainLeft - 1 : i \in 0..MainLeft /\ i < MainLeft
        BY <2>t
      <4> QED
        BY <3>1, <4>1
    <3>3. j' \in 0..j /\ o' \in 0..o /\ h' \in 0..h
      BY <2>t, <3>1
    <3> QED
      BY <2>t, <2>s, <3>2, <3>3, PartFalls
  <2>2. ASSUME NEW c \in 1..Last, Judge(c) \/ Close(c)
        PROVE  StepsLeft' \in 0..StepsLeft - 1
    <3>1. /\ MainLeft' = MainLeft /\ h' = h
          /\ j' <= j /\ o' <= o /\ (j' < j \/ o' < o)
      BY <2>2, <2>h, ServerRunsDown
    <3> HIDE DEF j, o, h
    <3>2. MainLeft' \in 0..MainLeft /\ j' \in 0..j /\ o' \in 0..o /\ h' \in 0..h
      BY <2>t, <2>u, <3>1
    <3> QED
      BY <2>t, <2>s, <3>1, <3>2, PartFalls
  <2>3. CASE Tick
    <3>1. now' = now + 1 /\ UNCHANGED <<MainLeft, Unjudged, Unclosed>>
      BY <2>3 DEF Tick, MainLeft, Unjudged, Unclosed, Last
    <3>2. j' = j /\ o' = o /\ h' = h - 1
      <4>1. now \in Nat /\ Horizon \in Nat
        BY Shape
      <4> QED
        BY <3>1, <4>1
    <3> HIDE DEF j, o, h
    <3>3. MainLeft' \in 0..MainLeft /\ j' \in 0..j /\ o' \in 0..o /\ h' \in 0..h
      BY <2>t, <2>u, <3>1, <3>2
    <3>4. h' < h
      BY <2>t, <3>2
    <3> QED
      BY <2>t, <2>s, <3>3, <3>4, PartFalls
  <2>4. CASE Terminated
    BY <2>4 DEF Terminated
  <2> QED
    BY <2>1, <2>2, <2>3, <2>4 DEF Next
<1>2. Spec => []GoInv
  BY GoInvariance, PTL
<1> QED
  BY <1>1, <1>2, PTL DEF Spec, RunsDown

\* Until main is through, it can go on, or the goroutine of the connection it reads
\* from can, or the clock it sleeps by: with GoProgress, all that Ends adds is that
\* what can go on does (main.go:96-130).
THEOREM GoNeverStuck == Spec => []NeverStuck
<1>1. GoInv => NeverStuck
  <2> SUFFICES ASSUME GoInv PROVE NeverStuck
    OBVIOUS
  <2>1. /\ pc \in {"dial", "read", "sleep", "asleep", "done"}
        /\ now \in 0..Horizon /\ wake \in 0..Horizon /\ Horizon \in Nat
    BY TimesAssumption DEF GoInv, TypeOK
  <2>2. CASE pc = "read"
    <3>1. Last \in 1..Len(conns)
      BY <2>2, Shape DEF Last
    <3>2. conns[Last].server = "handshake" <=> conns[Last].sent = "nothing"
      BY <3>1 DEF GoInv, ConnInv
    <3> QED
      BY <2>2, <3>2 DEF NeverStuck
  <2>3. CASE pc = "asleep"
    <3>1. wake >= Life + Margin /\ {Life, Margin} \subseteq Nat /\ Margin > 0
      BY <2>3, TimesAssumption DEF GoInv, ClockInv
    <3>2. wake # 0
      BY <2>1, <3>1
    <3> QED
      BY <2>1, <2>3, <3>2 DEF NeverStuck
  <2> QED
    BY <2>1, <2>2, <2>3 DEF NeverStuck
<1> QED
  BY <1>1, GoInvariance, PTL
=============================================================================
