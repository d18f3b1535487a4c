------------------------- MODULE ProbeReaderProofs -------------------------
(***************************************************************************)
(* What a reader of probe.py's output may rely on, for every panel: the    *)
(* connections and records of Probe implement ResumptionQuestion under the *)
(* mapping of ProbeQuestion, and what ProbeReport prints of a record can   *)
(* be printed of every record, leaves no dash unexplained and gives no     *)
(* wrong reason.                                                           *)
(***************************************************************************)
EXTENDS ProbeQuestion, ProbeReport, ProbeProofs

(***************************************************************************)
(* The abstract specification.                                             *)
(***************************************************************************)
\* A row of at most one connection is shorter than two.
LEMMA ShorterThanTwo ==
  ASSUME NEW n, n = 0 \/ n = 1
  PROVE  n < 2
  OBVIOUS

\* While nothing is written, the abstract state is what was asked.
LEMMA UnpublishedStep ==
  ASSUME output = "none", output' = "none",
         \A h \in Hosts : Answer(wire[h])' = Answer(wire[h])
  PROVE  UNCHANGED <<asked, verdict>>
BY DEF asked, verdict

\* After it, the abstract state no longer changes.
LEMMA PublishedStep ==
  ASSUME output # "none", output' # "none", UNCHANGED <<wire, records>>
  PROVE  UNCHANGED <<asked, verdict>>
BY DEF asked, verdict, Published, Answer

\* Every host of the panel has a row, whose verdict follows from its answer.
LEMMA PublishedFollows ==
  ASSUME TypeOK, IInv, Len(records) = Len(Entries), NEW h \in Hosts
  PROVE  /\ Published(h) \in Question!Verdicts
         /\ Question!Follows(Published(h), Answer(wire[h]))
<1>1. PICK j \in 1..Len(Entries) : Entries[j] = h
  BY DEF Hosts
<1>2. \E i \in 1..Len(records) : records[i].host = h
  BY <1>1 DEF IInv, LoopInv, Reported
<1> DEFINE i == CHOOSE k \in 1..Len(records) : records[k].host = h
<1>3. i \in 1..Len(records) /\ records[i].host = h
  BY <1>2
<1> HIDE DEF i
<1>4. Honest(records[i], wire[h])
  BY <1>3 DEF IInv, RecordInv, Reported, Row
<1>5. records[i] \in Record
  BY <1>3 DEF TypeOK
<1>6. records[i].resumed \in Tri
  BY <1>5 DEF Record
<1>7. Published(h) = records[i].resumed
  BY DEF Published, i
<1>8. CASE records[i].resumed = "yes"
  BY <1>4, <1>7, <1>8
     DEF Honest, Posed, Truthful, Question!Follows, Question!Verdicts, Answer
<1>9. CASE records[i].resumed = "no"
  BY <1>4, <1>7, <1>9
     DEF Honest, Posed, Truthful, Question!Follows, Question!Verdicts, Answer,
         Refusals
<1>10. CASE records[i].resumed = "null"
  BY <1>7, <1>10 DEF Question!Follows, Question!Verdicts
<1> QED
  BY <1>6, <1>8, <1>9, <1>10 DEF Tri

\* The first state is one of the abstract specification.
LEMMA QuestionInit == Init => Question!QInit
<1> SUFFICES ASSUME Init PROVE Question!QInit
  OBVIOUS
<1>1. \A h \in Hosts : Len(wire[h]) = 0
  BY DEF Init
<1> QED
  BY <1>1 DEF Init, Question!QInit, asked, verdict, Answer

\* Every step asks a host, publishes, or is a stutter.
LEMMA QuestionStep ==
  TypeOK /\ IInv /\ [Next]_vars => [Question!QNext]_<<asked, verdict>>
<1> SUFFICES ASSUME TypeOK, IInv, [Next]_vars
             PROVE  [Question!QNext]_<<asked, verdict>>
  OBVIOUS
<1> USE DEF Probing, InTry
<1>l. LoopInv /\ FilesInv /\ WireInv
  BY DEF IInv
<1>t. /\ pc \in Probing => index \in 1..Len(Entries) /\ host \in Hosts
      /\ pc \in InTry \cup {"mkdtemp"} => ip \in Addresses
  BY <1>l, ProbingType
<1>o. pc \in Probing \cup {"write_json"} => output = "none"
  BY <1>l DEF LoopInv
\* The steps of a probe that connect to nobody.
<1>u. ASSUME pc \in Probing, UNCHANGED <<wire, output>>
      PROVE  UNCHANGED <<asked, verdict>>
  BY <1>o, <1>u, UnpublishedStep DEF Answer
<1>1. CASE Resolve \/ RaiseEarly \/ MakeWorkdir
  BY <1>1, <1>u DEF Resolve, RaiseEarly, MakeWorkdir
<1>2. CASE RunMint
  <2>1. pc = "mint" /\ output = "none" /\ output' = "none"
    BY <1>2, <1>o DEF RunMint
  <2> PICK out \in Outcomes("none", TRUE) : wire' = Connected(None, out)
    BY <1>2 DEF RunMint
  <2>2. wire[host] = <<>> /\ Len(wire[host]) = 0
    BY <1>t, <1>l, <2>1 DEF WireInv, Before, Panel, host
  <2>3. /\ \A h \in Hosts \ {host} : wire'[h] = wire[h]
        /\ out.exchange.phase = "none" => wire'[host] = wire[host]
        /\ out.exchange.phase # "none" => Len(wire'[host]) = Len(wire[host]) + 1
    <3>1. None \in Hosts \cup {None} /\ index \in 1..Len(Entries) /\ ip \in Addresses
      BY <1>t, <2>1
    <3> QED
      BY <3>1, ConnectedWire
  <2>4. Len(wire'[host]) = 0 \/ Len(wire'[host]) = 1
    BY <2>2, <2>3
  <2>5. \A h \in Hosts : Answer(wire[h])' = Answer(wire[h])
    <3>1. Answer(wire'[host]) = "never" /\ Answer(wire[host]) = "never"
      <4>1. Len(wire'[host]) < 2
        BY <2>4, ShorterThanTwo, Zenon
      <4>2. Len(wire[host]) < 2
        BY <2>2
      <4>3. Answer(wire'[host]) = "never"
        BY <4>1 DEF Answer
      <4>4. Answer(wire[host]) = "never"
        BY <4>2 DEF Answer
      <4> QED
        BY <4>3, <4>4
    <3>2. ASSUME NEW h \in Hosts \ {host} PROVE Answer(wire'[h]) = Answer(wire[h])
      <4>1. wire'[h] = wire[h]
        BY <2>3
      <4> QED
        BY <4>1
    <3> QED
      BY <3>1, <3>2 DEF Answer
  <2> QED
    BY <2>1, <2>5, UnpublishedStep
<1>3. CASE MintFailed \/ MintSaved \/ MintUnsaved \/ MintRaises
  BY <1>3, <1>u DEF MintFailed, MintSaved, MintUnsaved, MintRaises, Minted
<1>4. CASE CheckProvenance
  BY <1>4, <1>u DEF CheckProvenance
<1>5. CASE RunOffer
  <2>1. pc = "offer" /\ output = "none" /\ output' = "none"
    BY <1>5, <1>o DEF RunOffer
  <2>2. sess_file[workdir].by = host /\ Len(wire[host]) = 1
    BY <1>l, <2>1 DEF FilesInv, WireInv
  <2> PICK out \in Outcomes(sess_file[workdir].state, FALSE) :
        wire' = Connected(host, out)
    BY <1>5, <2>2 DEF RunOffer
  <2>3. /\ \A h \in Hosts \ {host} : wire'[h] = wire[h]
        /\ out.exchange.phase = "none" => wire'[host] = wire[host]
    BY <1>t, <2>1, ConnectedWire
  <2>n. Answer(wire[host]) = "never"
    BY <2>2 DEF Answer
  <2>4. asked[host] = "never"
    BY <1>t, <2>1, <2>n DEF asked
  <2>5. verdict' = verdict /\ Question!Unpublished
    BY <2>1 DEF verdict, Question!Unpublished
  <2>6. CASE Answer(wire'[host]) = "never"
    <3>1. \A h \in Hosts : Answer(wire[h])' = Answer(wire[h])
      BY <1>t, <2>1, <2>3, <2>4, <2>6 DEF asked, Answer
    <3> QED
      BY <2>1, <3>1, UnpublishedStep
  <2>7. CASE Answer(wire'[host]) # "never"
    <3>1. Answer(wire'[host]) \in Question!Answers
      BY <2>7 DEF Answer, Question!Answers
    <3>2. asked' = [asked EXCEPT ![host] = Answer(wire'[host])]
      <4>1. \A h \in Hosts \ {host} : Answer(wire'[h]) = Answer(wire[h])
        BY <2>3
      <4>2. asked' = [h \in Hosts |-> Answer(wire'[h])]
        BY DEF asked, Answer
      <4> QED
        BY <4>1, <4>2 DEF asked
    <3>3. Question!Ask(host)
      BY <2>4, <2>5, <3>1, <3>2 DEF Question!Ask
    <3> QED
      BY <1>t, <2>1, <3>3 DEF Question!QNext
  <2> QED
    BY <2>6, <2>7
<1>6. CASE ReadOffer \/ Cleanup
  BY <1>6, <1>u DEF ReadOffer, Cleanup
<1>7. CASE WriteJson
  <2>1. /\ pc = "write_json" /\ output = "none" /\ output' = "json"
        /\ UNCHANGED <<records, wire, index>>
    BY <1>7, <1>o DEF WriteJson, memory
  <2>2. Len(records) = Len(Entries)
    BY <1>l, <2>1, PanelType DEF LoopInv, Ended
  <2>3. asked' = asked /\ Question!Unpublished
    BY <2>1 DEF asked, Answer, verdict, Question!Unpublished
  <2>4. verdict' = [h \in Hosts |-> Published(h)]
    BY <2>1 DEF verdict, Published
  <2>5. \A h \in Hosts : /\ Published(h) \in Question!Verdicts
                         /\ Question!Follows(Published(h), asked[h])
    BY <2>2, PublishedFollows DEF asked
  <2>6. verdict' \in [Hosts -> Question!Verdicts]
    BY <2>4, <2>5
  <2>7. \A h \in Hosts : Question!Follows(verdict'[h], asked[h])
    BY <2>4, <2>5
  <2>8. Question!Publish
    BY <2>3, <2>6, <2>7 DEF Question!Publish
  <2> QED
    BY <2>8 DEF Question!QNext
<1>8. CASE WriteMd
  <2>1. output # "none"
    BY <1>8, <1>l DEF WriteMd, LoopInv
  <2> QED
    BY <1>8, <2>1, PublishedStep DEF WriteMd, memory
<1>9. CASE Interrupt
  <2>1. CASE output = "none"
    BY <1>9, <2>1, UnpublishedStep DEF Interrupt, Answer
  <2>2. CASE output # "none"
    BY <1>9, <2>2, PublishedStep DEF Interrupt
  <2> QED
    BY <2>1, <2>2
<1>10. CASE UNCHANGED vars
  BY <1>10 DEF vars, memory, asked, verdict, Published, Answer
<1> QED
  BY <1>1, <1>2, <1>3, <1>4, <1>5, <1>6, <1>7, <1>8, <1>9, <1>10
     DEF Next, Step, Terminated

\* A run of probe.py asks every host at most once and publishes only verdicts
\* that follow from the answers (probe.py:687-920, 1271-1317).
THEOREM Implementation == Spec => ImplementsQuestion
<1>1. Init => Question!QInit
  BY QuestionInit
<1>2. TypeOK /\ IInv /\ [Next]_vars => [Question!QNext]_<<asked, verdict>>
  BY QuestionStep
<1> QED
  BY <1>1, <1>2, Invariance, PTL
     DEF Spec, ImplementsQuestion, Question!QSpec, Question!questions
-----------------------------------------------------------------------------
(***************************************************************************)
(* The report.                                                             *)
(***************************************************************************)

\* A record that is not a measurement has nothing to be filled in.
LEMMA FailedFilled ==
  ASSUME NEW o, o # "measured", NEW w
  PROVE  Filled(Failed(o), w)
BY DEF Failed, NewRecord, Filled

\* What a step leaves of the reported rows, as RowsKept says of Honest.
LEMMA FilledKept ==
  ASSUME TypeOK, LoopInv, ReportInv, pc \in Probing, records' = records,
         \A h \in Hosts \ {host} : wire'[h] = wire[h]
  PROVE  \A i \in 1..Len(records') : Filled(records'[i], wire'[records'[i].host])
<1> SUFFICES ASSUME NEW i \in 1..Len(records)
             PROVE  Filled(records[i], wire'[records[i].host])
  OBVIOUS
<1>1. i \in 1..Len(Entries) /\ i < index /\ index \in 1..Len(Entries)
  BY PanelType DEF LoopInv, Panel, Probing, InTry, TypeOK
<1>2. records[i].host = Entries[i] /\ records[i].host \in Hosts
  BY <1>1, PanelType DEF LoopInv, Reported
<1>3. records[i].host # host
  BY <1>1, <1>2, PanelAssumption DEF host
<1> QED
  BY <1>2, <1>3 DEF ReportInv, Reported, Row

\* Reporting a record that is filled in keeps the rows filled in.
LEMMA ReportFilled ==
  ASSUME TypeOK, LoopInv, ReportInv, pc \in Probing, UNCHANGED wire,
         NEW r \in Record, r.host = host, Filled(r, wire[host]), Report(r)
  PROVE  ReportInv'
<1>1. index \in 1..Len(Entries) /\ Len(records) = index - 1
  BY DEF LoopInv, Probing, InTry, Panel
<1>2. /\ Len(records') = index
      /\ records'[index] = r
      /\ \A i \in 1..index - 1 : records'[i] = records[i]
  BY <1>1 DEF Report, TypeOK
<1>3. \A i \in 1..Len(records') : Filled(records'[i], wire'[records'[i].host])
  <2> SUFFICES ASSUME NEW i \in 1..index
               PROVE  Filled(records'[i], wire[records'[i].host])
    BY <1>2
  <2>1. CASE i = index
    BY <2>1, <1>2
  <2>2. CASE i # index
    <3>1. i \in 1..Len(records) /\ records'[i] = records[i]
      BY <1>1, <1>2, <2>2
    <3> QED
      BY <3>1 DEF ReportInv, Reported, Row
  <2> QED
    BY <2>1, <2>2
<1>4. pc' \in {"resolve", "write_json"}
  BY DEF Report
<1> QED
  BY <1>3, <1>4 DEF ReportInv, Reported, Row

\* The record of a host whose first connection left no session to offer.
LEMMA UnsavedFilled ==
  ASSUME TypeOK, WireInv, RecordInv, MintUnsaved
  PROVE  Filled(rec', wire[host])
<1>1. /\ pc = "minted"
      /\ HandshakeCompleted(result.text)
      /\ rec = [NewRecord(host) EXCEPT !.ip = ip]
      /\ result \in Outcomes("none", TRUE)
      /\ Made(1, None)
  BY DEF MintUnsaved, Minted, RecordInv, WireInv
<1>2. Len(wire[host]) = 1
  BY <1>1, Transcript DEF Made
<1>3. /\ rec'.issued \in {"yes", "no"} /\ rec'.readable \in {"yes", "no"}
      /\ rec'.written = "no" /\ rec'.attempted = "no"
  BY <1>1 DEF MintUnsaved, WithControls, WithTickets, NewRecord, Flag
<1> QED
  BY <1>2, <1>3 DEF Filled

\* The record of a host whose session was offered back.
LEMMA OfferFilled ==
  ASSUME TypeOK, RecordInv, ReportInv, ReadOffer
  PROVE  Filled(rec', wire[host])
<1>1. /\ pc = "offered" /\ rec.written = "yes" /\ Unread(rec)
      /\ rec.issued # "null" /\ rec \in Record
  BY DEF ReadOffer, RecordInv, ReportInv, TypeOK
<1>2. CASE result.ended = "spawn_failure"
  <2>1. rec' = WithControls([rec EXCEPT !.attempted = "yes"])
    BY <1>2 DEF ReadOffer
  <2> QED
    BY <1>1, <2>1 DEF WithControls, Record, Flag, Filled, Unread
<1>3. CASE result.ended # "spawn_failure"
  <2>1. rec' = WithControls(WithAnswer(rec, result.text))
    BY <1>3 DEF ReadOffer
  <2>2. /\ rec'.issued = rec.issued
        /\ rec'.written = "yes" /\ rec'.attempted = "yes"
        /\ rec'.readable \in {"yes", "no"}
        /\ rec'.completed = "yes" => rec'.readable = "yes"
    BY <1>1, <2>1 DEF WithControls, WithAnswer, Record, Flag
  <2> QED
    BY <1>1, <2>2 DEF Filled
<1> QED
  BY <1>2, <1>3

\* No record has been filled in or reported at the start.
LEMMA ReportInit == Init => ReportInv
BY DEF Init, ReportInv, Reported

\* Every step leaves the reported measurements filled in.
LEMMA ReportStep == TypeOK /\ IInv /\ ReportInv /\ [Next]_vars => ReportInv'
<1> SUFFICES ASSUME TypeOK, LoopInv, FilesInv, WireInv, RecordInv, ReportInv,
                    [Next]_vars
             PROVE  ReportInv'
  BY DEF IInv
<1> USE DEF Probing, InTry
<1>t. /\ pc \in Probing => index \in 1..Len(Entries) /\ host \in Hosts
      /\ pc \in InTry \cup {"mkdtemp"} => ip \in Addresses
  BY ProbingType
<1>f. \A o \in OutcomeNames : pc \in Probing =>
        Failed(o) \in Record /\ Failed(o).host = host
  BY <1>t, FailedType DEF Failed, NewRecord
<1>e. \A o : o # "measured" => Filled(Failed(o), wire[host])
  BY FailedFilled
<1>r. ASSUME pc \in Probing, records' = records, UNCHANGED wire
      PROVE  \A i \in 1..Len(records') : Filled(records'[i], wire'[records'[i].host])
  BY <1>r, FilledKept
<1>1. CASE Resolve
  <2>1. CASE Report(Failed("dns_failure"))
    <3>1. pc = "resolve" /\ UNCHANGED wire
      BY <1>1 DEF Resolve
    <3>2. "dns_failure" \in OutcomeNames
      BY DEF OutcomeNames
    <3> QED
      BY <2>1, <3>1, <3>2, <1>e, <1>f, ReportFilled
  <2>2. CASE records' = records /\ pc' = "mkdtemp"
    BY <1>1, <1>r, <2>2 DEF Resolve, ReportInv, Reported, Row
  <2> QED
    BY <1>1, <2>1, <2>2 DEF Resolve
<1>2. CASE RaiseEarly
  <2>1. pc \in Probing /\ UNCHANGED wire /\ Report(Failed("harness_error"))
    BY <1>2 DEF RaiseEarly
  <2>2. "harness_error" \in OutcomeNames
    BY DEF OutcomeNames
  <2> QED
    BY <2>1, <2>2, <1>e, <1>f, ReportFilled
<1>3. CASE MakeWorkdir
  BY <1>3, <1>r DEF MakeWorkdir, ReportInv, Reported, Row
<1>4. CASE RunMint
  <2>1. pc = "mint" /\ pc' = "minted" /\ records' = records
    BY <1>4 DEF RunMint
  <2>2. \A h \in Hosts \ {host} : wire'[h] = wire[h]
    BY <1>4, <1>t, <2>1, ConnectedWire DEF RunMint
  <2>3. \A i \in 1..Len(records') : Filled(records'[i], wire'[records'[i].host])
    BY <2>1, <2>2, FilledKept
  <2> QED
    BY <2>1, <2>3 DEF ReportInv, Reported, Row
<1>5. CASE MintFailed
  <2>1. /\ pc = "minted" /\ pc' = "cleanup" /\ UNCHANGED <<index, records, wire>>
        /\ rec'.outcome # "measured"
    <3>1. rec = [NewRecord(host) EXCEPT !.ip = ip]
      BY <1>5 DEF MintFailed, RecordInv
    <3> QED
      BY <1>5, <3>1 DEF MintFailed, NewRecord
  <2>2. Filled(rec', wire[host])
    BY <2>1 DEF Filled
  <2> QED
    BY <1>r, <2>1, <2>2 DEF ReportInv, Reported, Row, host
<1>6. CASE MintSaved
  <2>1. pc = "minted" /\ pc' = "check" /\ UNCHANGED <<records, wire>>
    BY <1>6 DEF MintSaved, Minted
  <2>2. rec'.issued \in {"yes", "no"}
    <3>1. rec = [NewRecord(host) EXCEPT !.ip = ip]
      BY <2>1 DEF RecordInv
    <3> QED
      BY <1>6, <3>1 DEF MintSaved, WithTickets, NewRecord, Flag
  <2> QED
    BY <1>r, <2>1, <2>2 DEF ReportInv, Reported, Row
<1>7. CASE MintUnsaved
  <2>1. pc = "minted" /\ pc' = "cleanup" /\ UNCHANGED <<index, records, wire>>
    BY <1>7 DEF MintUnsaved, Minted
  <2>2. Filled(rec', wire[host])
    BY <1>7, UnsavedFilled
  <2> QED
    BY <1>r, <2>1, <2>2 DEF ReportInv, Reported, Row, host
<1>8. CASE MintRaises
  BY <1>8, <1>e, <1>r DEF MintRaises, Minted, Raise, ReportInv, Reported, Row, host
<1>9. CASE CheckProvenance
  <2>1. pc = "check" /\ UNCHANGED <<index, records, wire>>
    BY <1>9 DEF CheckProvenance
  <2>2. CASE Raise
    BY <1>e, <1>r, <2>1, <2>2 DEF Raise, ReportInv, Reported, Row, host
  <2>3. CASE pc' = "offer" /\ rec' = rec
    BY <1>r, <2>1, <2>3 DEF ReportInv, Reported, Row, host
  <2> QED
    BY <1>9, <2>2, <2>3 DEF CheckProvenance
<1>10. CASE RunOffer
  <2>1. /\ pc = "offer" /\ pc' = "offered" /\ UNCHANGED <<rec, records>>
        /\ sess_file[workdir].by = host
    BY <1>10 DEF RunOffer, FilesInv
  <2>2. \A h \in Hosts \ {host} : wire'[h] = wire[h]
    BY <1>10, <1>t, <2>1, ConnectedWire DEF RunOffer
  <2>3. \A i \in 1..Len(records') : Filled(records'[i], wire'[records'[i].host])
    BY <2>1, <2>2, FilledKept
  <2> QED
    BY <2>1, <2>3 DEF ReportInv, Reported, Row
<1>11. CASE ReadOffer
  <2>1. pc = "offered" /\ pc' = "cleanup" /\ UNCHANGED <<index, records, wire>>
    BY <1>11 DEF ReadOffer
  <2>2. Filled(rec', wire[host])
    BY <1>11, OfferFilled
  <2> QED
    BY <1>r, <2>1, <2>2 DEF ReportInv, Reported, Row, host
<1>12. CASE Cleanup
  <2>1. pc = "cleanup" /\ UNCHANGED wire /\ Report(rec)
    BY <1>12 DEF Cleanup
  <2>2. Filled(rec, wire[host]) /\ rec \in Record /\ rec.host = host
    BY <2>1 DEF ReportInv, LoopInv, TypeOK
  <2> QED
    BY <2>1, <2>2, ReportFilled
<1>13. CASE WriteJson \/ WriteMd
  BY <1>13 DEF WriteJson, WriteMd, memory, ReportInv, Reported, Row
<1>14. CASE Interrupt
  <2>1. pc' = "aborted" /\ wire' = wire /\ (records' = records \/ records' = <<>>)
    BY <1>14 DEF Interrupt
  <2>2. CASE records' = records
    BY <2>1, <2>2 DEF ReportInv, Reported, Row
  <2>3. CASE records' = <<>>
    BY <2>1, <2>3 DEF ReportInv, Reported, Row
  <2> QED
    BY <2>1, <2>2, <2>3
<1>15. CASE UNCHANGED vars
  BY <1>15 DEF vars, memory, files, ReportInv, Reported, Row, host
<1> QED
  BY <1>1, <1>2, <1>3, <1>4, <1>5, <1>6, <1>7, <1>8, <1>9, <1>10, <1>11,
     <1>12, <1>13, <1>14, <1>15 DEF Next, Step, Terminated

\* What is printed of a record that is honest and filled in is sound.
LEMMA SoundRow ==
  ASSUME NEW r \in Record, NEW w \in Seq(Connections), Honest(r, w), Filled(r, w)
  PROVE  /\ r.outcome = "measured" => (TableRow(r).resumed = "-" <=> Listed(r))
         /\ Listed(r) =>
              \/ Reason(r) = "no session was saved" /\ Len(w) <= 1
              \/ /\ Reason(r) = "not completed"
                 /\ Len(w) = 2 =>
                      w[2].phase # "established" \/ w[2].ended = "timeout"
         /\ r.outcome = "measured" => r.issued # "null" /\ r.attempted # "null"
<1>1. r.resumed \in Tri /\ r.readable \in Tri
  BY DEF Record
<1>2. r.readable = "yes" <=> r.resumed # "null"
  BY DEF Honest
<1>3. ASSUME r.outcome = "measured"
      PROVE  /\ TableRow(r).resumed = "-" <=> Listed(r)
             /\ r.issued # "null" /\ r.attempted # "null"
  <2>1. r.issued # "null" /\ r.readable # "null" /\ r.attempted # "null"
    BY <1>3 DEF Filled
  <2>2. TableRow(r).resumed = Cell(r.resumed)
    BY <1>3 DEF TableRow
  <2> QED
    BY <1>1, <1>2, <2>1, <2>2 DEF Cell, Listed, Tri
<1>4. ASSUME Listed(r)
      PROVE  \/ Reason(r) = "no session was saved" /\ Len(w) <= 1
             \/ /\ Reason(r) = "not completed"
                /\ Len(w) = 2 =>
                     w[2].phase # "established" \/ w[2].ended = "timeout"
  <2>1. r.readable = "no" /\ r.resumed = "null"
    BY <1>2, <1>4 DEF Listed
  <2>2. r.outcome = "measured"
    BY <2>1 DEF Honest, Bare
  <2>3. CASE r.written # "yes"
    BY <2>1, <2>2, <2>3 DEF Filled, Reason
  <2>4. CASE r.written = "yes"
    <3>1. r.attempted = "yes" /\ r.completed # "yes"
      BY <2>1, <2>2, <2>4 DEF Filled
    <3>2. Reason(r) = "not completed"
      BY <2>1, <2>4, <3>1 DEF Reason
    <3>3. Len(w) = 2 => w[2] \in Connections
      OBVIOUS
    <3>4. Len(w) = 2 => w[2].ended \in {"exited", "timeout"}
      BY <3>3 DEF Connections
    <3>5. ~(Len(w) = 2 /\ w[2].ended = "exited" /\ w[2].phase = "established")
      BY <2>1, <2>2 DEF Honest, Complete
    <3> QED
      BY <3>2, <3>4, <3>5
  <2> QED
    BY <2>3, <2>4
<1> QED
  BY <1>3, <1>4

\* results.md and the printed table can be written of every record, print a dash
\* for exactly the hosts they list as not asked, and give a reason for each that
\* is true of the connections that were made (probe.py:870-1161).
THEOREM SoundReport == Spec => []ReportIsSound
<1>1. TypeOK /\ IInv /\ ReportInv => ReportIsSound
  <2> SUFFICES ASSUME TypeOK, IInv, ReportInv PROVE ReportIsSound
    OBVIOUS
  <2>1. ASSUME NEW i \in Reported
        PROVE  /\ records[i] \in Record /\ Row(i) \in Seq(Connections)
               /\ Honest(records[i], Row(i)) /\ Filled(records[i], Row(i))
    <3>1. records[i] \in Record
      BY DEF TypeOK, Reported
    <3>2. Row(i) \in Seq(Connections)
      BY <3>1 DEF TypeOK, Row, Record
    <3> QED
      BY <3>1, <3>2 DEF IInv, RecordInv, ReportInv
  <2>2. BlankIsExplained
    BY <2>1, SoundRow DEF BlankIsExplained
  <2>3. ReasonsAreTrue
    BY <2>1, SoundRow DEF ReasonsAreTrue
  <2>4. MeasuredRowsAreWhole
    BY <2>1, SoundRow DEF MeasuredRowsAreWhole
  <2> QED
    BY <2>2, <2>3, <2>4 DEF ReportIsSound
<1> QED
  BY <1>1, ReportInit, ReportStep, Invariance, PTL DEF Spec
=============================================================================
