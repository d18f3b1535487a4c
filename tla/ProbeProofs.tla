---------------------------- MODULE ProbeProofs ----------------------------
(***************************************************************************)
(* Proofs about Probe, for every panel, every set of addresses and         *)
(* directories and every number of tickets.                                *)
(***************************************************************************)
EXTENDS ProbeInvariant, TLAPS

(***************************************************************************)
(* Outcomes of run_s_client.                                               *)
(***************************************************************************)

\* Every exchange an outcome may report is one, and only a completed handshake
\* resumes or carries tickets.
LEMMA ExchangesType ==
  ASSUME NEW s, NEW x \in Exchanges(s)
  PROVE  /\ x \in Exchange
         /\ x.phase # "established" => ~x.resumed /\ x.tickets = 0
         /\ x.phase = "established" => x.version \in Versions
         /\ x.phase # "established" => x.version = NoVersion
<1>1. CASE s = "partial"
  <2>1. x = NoExchange
    BY <1>1 DEF Exchanges
  <2>2. NoExchange \in Exchange
    BY MaxTicketsAssumption DEF NoExchange, Exchange, Phases
  <2> QED
    BY <2>1, <2>2 DEF NoExchange
<1>2. CASE s # "partial"
  BY <1>2 DEF Exchanges, Exchange
<1> QED
  BY <1>1, <1>2

\* s_client prints nothing but lines that probe.py looks for.
LEMMA TextsType ==
  ASSUME NEW s, NEW x \in Exchanges(s), NEW e, NEW t \in Texts(x, e)
  PROVE  t \subseteq Lines
<1>1. Headline(x) \subseteq Lines
  BY ExchangesType DEF Headline, Lines, New, Reused, Exchange, Phases
<1>2. Banners(x) \subseteq Lines
  BY DEF Banners, Lines
<1>3. Printed(x) \subseteq Lines
  BY <1>1, <1>2 DEF Printed, Lines
<1> QED
  BY <1>1, <1>2, <1>3 DEF Texts, Cuts

\* The ways a call of run_s_client ends.
LEMMA OutcomeCases ==
  ASSUME NEW s, NEW b, NEW out \in Outcomes(s, b)
  PROVE  \/ out = SpawnFailure
         \/ out = [ended |-> "timeout", text |-> {}, saved |-> "none",
                   exchange |-> NoExchange]
         \/ \E x \in Exchanges(s), e \in {"exited", "timeout"} :
            \E t \in Texts(x, e), v \in Saves(x, e, b) :
              out = [ended |-> e, text |-> t, saved |-> v, exchange |-> x]
BY DEF Outcomes

\* An outcome is a result, and its exchange fits the -sess_in file.
LEMMA OutcomesType ==
  ASSUME NEW s, NEW b, NEW out \in Outcomes(s, b)
  PROVE  /\ out \in Results
         /\ out.exchange.phase # "none" => out.ended \in {"exited", "timeout"}
<1>1. NoExchange \in Exchange
  BY MaxTicketsAssumption DEF NoExchange, Exchange, Phases, NoVersion
<1>2. CASE out = SpawnFailure
  BY <1>1, <1>2 DEF SpawnFailure, Results, SaveStates, NoExchange
<1>3. CASE out = [ended |-> "timeout", text |-> {}, saved |-> "none",
                  exchange |-> NoExchange]
  BY <1>1, <1>3 DEF Results, SaveStates, NoExchange
<1>4. ASSUME NEW x \in Exchanges(s), NEW e \in {"exited", "timeout"},
             NEW t \in Texts(x, e), NEW v \in Saves(x, e, b),
             out = [ended |-> e, text |-> t, saved |-> v, exchange |-> x]
      PROVE  out \in Results /\ out.ended \in {"exited", "timeout"}
  <2>1. v \in SaveStates
    BY DEF Saves, SaveStates
  <2> QED
    BY <1>4, <2>1, ExchangesType, TextsType DEF Results
<1> QED
  BY <1>2, <1>3, <1>4, OutcomeCases

(***************************************************************************)
(* Types.                                                                  *)
(***************************************************************************)
\* The panel lists hosts, without gaps.
LEMMA PanelType ==
  /\ Len(Entries) \in Nat \ {0}
  /\ \A i \in 1..Len(Entries) : Entries[i] \in Hosts
BY PanelAssumption DEF Hosts

\* A record of a panel host with nothing filled in is a record.
LEMMA NewRecordType ==
  ASSUME NEW h \in Hosts
  PROVE  NewRecord(h) \in Record
BY DEF NewRecord, Record, OutcomeNames, Tri, Mechanisms

\* Appending a record and moving on keeps the types.
LEMMA ReportType ==
  ASSUME TypeOK, index \in 1..Len(Entries), NEW r \in Record, Report(r)
  PROVE  /\ pc' \in {"resolve", "write_json"}
         /\ index' \in 1..Len(Entries) + 1
         /\ ip' \in Addresses \cup {None}
         /\ workdir' \in Dirs \cup {None}
         /\ rec' \in Record
         /\ records' \in Seq(Record)
<1>1. rec' \in Record
  <2>1. CASE index < Len(Entries)
    <3>1. index + 1 \in 1..Len(Entries)
      BY <2>1, PanelType
    <3> QED
      BY <2>1, <3>1, PanelType, NewRecordType DEF Report
  <2>2. CASE ~(index < Len(Entries))
    BY <2>2 DEF Report, TypeOK
  <2> QED
    BY <2>1, <2>2
<1>2. records' \in Seq(Record)
  BY DEF Report, TypeOK
<1> QED
  BY <1>1, <1>2, PanelType DEF Report

\* So is that of a host that failed.
LEMMA FailedType ==
  ASSUME index \in 1..Len(Entries), NEW o \in OutcomeNames
  PROVE  Failed(o) \in Record
<1>1. NewRecord(host) \in Record
  BY PanelType, NewRecordType DEF host
<1> QED
  BY <1>1 DEF Failed, Record

\* build_controls makes records of records.
LEMMA WithControlsType ==
  ASSUME NEW r \in Record
  PROVE  WithControls(r) \in Record
<1> DEFINE readable == Flag(\/ r.resumed = "yes"
                            \/ /\ r.written = "yes"
                               /\ r.attempted = "yes"
                               /\ r.completed = "yes")
<1>1. readable \in Tri
  BY DEF Flag, Tri
<1>2. WithControls(r) = [r EXCEPT !.outcome = "measured", !.readable = readable]
  BY DEF WithControls
<1> HIDE DEF readable
<1> QED
  BY <1>1, <1>2 DEF Record, OutcomeNames

\* Removing a directory keeps the types of what it held.
LEMMA RemoveWorkdirType ==
  ASSUME TypeOK, workdir \in Dirs, RemoveWorkdir
  PROVE  /\ dirs' \subseteq Dirs
         /\ sess_file' \in [Dirs -> [by : Hosts \cup {None}, state : SaveStates]]
         /\ minted_by' \in [Dirs -> Hosts \cup {None}]
<1>1. NoFile \in [by : Hosts \cup {None}, state : SaveStates]
  BY DEF NoFile, SaveStates
<1>2. /\ dirs \subseteq Dirs
      /\ sess_file \in [Dirs -> [by : Hosts \cup {None}, state : SaveStates]]
      /\ minted_by \in [Dirs -> Hosts \cup {None}]
  BY DEF TypeOK
<1>3. dirs' \subseteq Dirs
  BY <1>2 DEF RemoveWorkdir
<1>4. PICK s \in {sess_file[workdir], NoFile}, m \in {minted_by[workdir], None} :
        /\ sess_file' = [sess_file EXCEPT ![workdir] = s]
        /\ minted_by' = [minted_by EXCEPT ![workdir] = m]
  BY DEF RemoveWorkdir
<1>5. s \in [by : Hosts \cup {None}, state : SaveStates] /\ m \in Hosts \cup {None}
  BY <1>1, <1>2
<1> QED
  BY <1>2, <1>3, <1>4, <1>5

\* The record of a connection made at ip is a connection.
LEMMA ConnectionType ==
  ASSUME NEW s, NEW b, NEW out \in Outcomes(s, b), out.exchange.phase # "none",
         NEW o \in Hosts \cup {None}, ip \in Addresses
  PROVE  Connection(o, out) \in Connections
<1>1. out \in Results /\ out.ended \in {"exited", "timeout"}
  BY OutcomesType
<1>2. /\ out.exchange.phase \in Phases \ {"none"}
      /\ out.exchange.resumed \in BOOLEAN
  BY <1>1 DEF Results, Exchange
<1> QED
  BY <1>1, <1>2 DEF Connection, Connections

\* The connections stay sequences of connections when one is made.
LEMMA ConnectedType ==
  ASSUME TypeOK, index \in 1..Len(Entries), ip \in Addresses,
         NEW s, NEW b, NEW out \in Outcomes(s, b),
         NEW o \in Hosts \cup {None}
  PROVE  Connected(o, out) \in [Hosts -> Seq(Connections)]
<1>1. host \in Hosts
  BY PanelType DEF host
<1>2. CASE out.exchange.phase = "none"
  BY <1>2 DEF Connected, TypeOK
<1>3. CASE out.exchange.phase # "none"
  <2>1. Connection(o, out) \in Connections
    BY <1>3, ConnectionType
  <2>2. wire[host] \in Seq(Connections)
    BY <1>1 DEF TypeOK
  <2>3. Append(wire[host], Connection(o, out)) \in Seq(Connections)
    BY <2>1, <2>2
  <2>4. wire \in [Hosts -> Seq(Connections)]
    BY DEF TypeOK
  <2> QED
    BY <1>1, <1>3, <2>3, <2>4 DEF Connected
<1> QED
  BY <1>2, <1>3

\* Where a host is being probed there is a host, a directory and an address.
LEMMA ProbingType ==
  ASSUME TypeOK, LoopInv
  PROVE  /\ pc \in Probing => index \in 1..Len(Entries) /\ host \in Hosts
         /\ pc \in InTry => workdir \in Dirs
         /\ pc \in InTry \cup {"mkdtemp"} => ip \in Addresses
<1>1. pc \in Probing => index \in 1..Len(Entries)
  BY DEF LoopInv, Panel
<1>2. pc \in InTry => workdir \in Dirs
  BY DEF LoopInv, TypeOK
<1>3. pc \in InTry \cup {"mkdtemp"} => ip \in Addresses
  BY DEF LoopInv, TypeOK
<1> QED
  BY <1>1, <1>2, <1>3, PanelType DEF host

\* The types hold at the start,
LEMMA TypeInit == Init => TypeOK
<1> SUFFICES ASSUME Init PROVE TypeOK
  OBVIOUS
<1>1. 1 \in 1..Len(Entries)
  BY PanelType
<1>2. rec \in Record
  BY <1>1, PanelType, NewRecordType DEF Init, host
<1>3. SpawnFailure \in Results
  BY OutcomesType DEF Outcomes
<1>4. NoFile \in [by : Hosts \cup {None}, state : SaveStates]
  BY DEF NoFile, SaveStates
<1> QED
  BY <1>1, <1>2, <1>3, <1>4, PanelType DEF Init, TypeOK

\* and every step keeps them.
LEMMA TypeStep == TypeOK /\ LoopInv /\ [Next]_vars => TypeOK'
<1> SUFFICES ASSUME TypeOK, LoopInv, [Next]_vars PROVE TypeOK'
  OBVIOUS
<1> USE DEF Probing, InTry, Ended
<1>t. /\ pc \in Probing => index \in 1..Len(Entries) /\ host \in Hosts
      /\ pc \in InTry => workdir \in Dirs
      /\ pc \in InTry \cup {"mkdtemp"} => ip \in Addresses
  BY ProbingType
<1>s. SpawnFailure \in Results
  BY OutcomesType DEF Outcomes
<1>f. \A o \in OutcomeNames : pc \in Probing => Failed(o) \in Record
  BY <1>t, FailedType
<1>1. CASE Resolve
  <2>1. CASE Report(Failed("dns_failure"))
    BY <1>1, <1>t, <1>f, <2>1, ReportType DEF Resolve, TypeOK, files, OutcomeNames
  <2>2. CASE /\ \E a \in Addresses : ip' = a /\ rec' = [rec EXCEPT !.ip = a]
             /\ pc' = "mkdtemp"
             /\ UNCHANGED <<index, workdir, records>>
    <3>1. rec' \in Record
      BY <2>2 DEF TypeOK, Record
    <3> QED
      BY <1>1, <2>2, <3>1 DEF Resolve, TypeOK, files
  <2> QED
    BY <1>1, <2>1, <2>2 DEF Resolve
<1>2. CASE RaiseEarly
  BY <1>2, <1>t, <1>f, ReportType DEF RaiseEarly, TypeOK, files, OutcomeNames
<1>3. CASE MakeWorkdir
  BY <1>3 DEF MakeWorkdir, TypeOK
<1>4. CASE RunMint
  <2> PICK out \in Outcomes("none", TRUE) :
        /\ result' = out
        /\ wire' = Connected(None, out)
        /\ sess_file' =
             IF out.saved = "none" THEN sess_file
             ELSE [sess_file EXCEPT ![workdir] = [by |-> host, state |-> out.saved]]
    BY <1>4 DEF RunMint
  <2>1. out \in Results
    BY OutcomesType
  <2>2. wire' \in [Hosts -> Seq(Connections)]
    BY <1>4, <1>t, ConnectedType DEF RunMint
  <2>3. sess_file' \in [Dirs -> [by : Hosts \cup {None}, state : SaveStates]]
    BY <1>4, <1>t, <2>1 DEF RunMint, TypeOK, Results
  <2> QED
    BY <1>4, <2>1, <2>2, <2>3 DEF RunMint, TypeOK
<1>5. CASE MintFailed
  <2>1. rec' \in Record
    <3>1. PICK o \in OutcomeNames : rec' = [rec EXCEPT !.outcome = o]
      BY <1>5 DEF MintFailed, OutcomeNames
    <3> QED
      BY <3>1 DEF TypeOK, Record
  <2>2. /\ pc' = "cleanup" /\ result' = SpawnFailure
        /\ UNCHANGED <<index, ip, workdir, records, files, wire, output>>
    BY <1>5 DEF MintFailed
  <2> QED
    BY <1>s, <2>1, <2>2 DEF TypeOK, files
<1>6. CASE MintSaved
  <2>1. rec' \in Record
    BY <1>6 DEF MintSaved, TypeOK, WithTickets, Record, Flag, Tri
  <2> QED
    BY <1>6, <1>t, <1>s, <2>1 DEF MintSaved, Minted, TypeOK
<1>7. CASE MintUnsaved
  <2>1. [WithTickets(rec, result.text) EXCEPT !.attempted = "no"] \in Record
    BY DEF TypeOK, WithTickets, Record, Flag, Tri
  <2> QED
    BY <1>7, <1>s, <2>1, WithControlsType DEF MintUnsaved, Minted, TypeOK, files
<1>8. CASE MintRaises
  BY <1>8, <1>f, <1>s DEF MintRaises, Minted, Raise, TypeOK, files, OutcomeNames
<1>9. CASE CheckProvenance
  BY <1>9, <1>f DEF CheckProvenance, Raise, TypeOK, files, OutcomeNames
<1>10. CASE RunOffer
  <2> PICK out \in Outcomes(sess_file[workdir].state, FALSE) :
        result' = out /\ wire' = Connected(sess_file[workdir].by, out)
    BY <1>10 DEF RunOffer
  <2>1. out \in Results
    BY OutcomesType
  <2>2. sess_file[workdir].by \in Hosts \cup {None}
    BY <1>10, <1>t DEF RunOffer, TypeOK
  <2>3. wire' \in [Hosts -> Seq(Connections)]
    BY <1>10, <1>t, <2>2, ConnectedType DEF RunOffer
  <2> QED
    BY <1>10, <2>1, <2>3 DEF RunOffer, TypeOK, files
<1>11. CASE ReadOffer
  <2>1. WithAnswer(rec, result.text) \in Record
    <3>1. PICK c \in Tri, r \in Tri, m \in Mechanisms :
            WithAnswer(rec, result.text) =
              [rec EXCEPT !.attempted = "yes", !.completed = c, !.resumed = r,
                          !.mechanism = m]
      BY DEF WithAnswer, Flag, Tri, Mechanisms, ResumptionMechanism
    <3> QED
      BY <3>1 DEF TypeOK, Record, Tri
  <2>2. [rec EXCEPT !.attempted = "yes"] \in Record
    BY DEF TypeOK, Record, Tri
  <2>3. rec' \in Record
    BY <1>11, <2>1, <2>2, WithControlsType DEF ReadOffer
  <2>4. /\ pc' = "cleanup" /\ result' = SpawnFailure
        /\ UNCHANGED <<index, ip, workdir, records, files, wire, output>>
    BY <1>11 DEF ReadOffer
  <2> QED
    BY <1>s, <2>3, <2>4 DEF TypeOK, files
<1>12. CASE Cleanup
  <2>1. rec \in Record
    BY DEF TypeOK
  <2> QED
    BY <1>12, <1>t, <2>1, ReportType, RemoveWorkdirType DEF Cleanup, TypeOK
<1>13. CASE WriteJson
  BY <1>13 DEF WriteJson, TypeOK, memory, files
<1>14. CASE WriteMd
  BY <1>14 DEF WriteMd, TypeOK, memory, files
<1>15. CASE Interrupt
  <2>1. /\ dirs' \subseteq Dirs
        /\ sess_file' \in [Dirs -> [by : Hosts \cup {None}, state : SaveStates]]
        /\ minted_by' \in [Dirs -> Hosts \cup {None}]
    <3>1. CASE workdir # None /\ RemoveWorkdir
      BY <3>1, RemoveWorkdirType DEF TypeOK
    <3>2. CASE UNCHANGED files
      BY <3>2 DEF files, TypeOK
    <3> QED
      BY <1>15, <3>1, <3>2 DEF Interrupt
  <2>2. NewRecord(Entries[1]) \in Record
    BY PanelType, NewRecordType
  <2>3. records' \in Seq(Record)
    BY <1>15 DEF Interrupt, TypeOK
  <2> QED
    BY <1>15, <1>s, <2>1, <2>2, <2>3, PanelType DEF Interrupt, TypeOK
<1>16. CASE UNCHANGED vars
  BY <1>16 DEF vars, memory, files, TypeOK
<1> QED
  BY <1>1, <1>2, <1>3, <1>4, <1>5, <1>6, <1>7, <1>8, <1>9, <1>10, <1>11,
     <1>12, <1>13, <1>14, <1>15, <1>16 DEF Next, Step, Terminated

(***************************************************************************)
(* The loop over the panel.                                                *)
(***************************************************************************)
\* The loop starts at the first host with no record,
LEMMA LoopInit == Init => LoopInv
BY PanelType DEF Init, LoopInv, Probing, InTry, Ended, Panel, NewRecord, host,
   Reported

\* A report of the host at index, with an outcome, keeps the loop in step.
LEMMA ReportLoop ==
  ASSUME TypeOK, LoopInv, pc \in Probing,
         NEW r \in Record, r.host = host, r.outcome # "null", Report(r),
         UNCHANGED output
  PROVE  LoopInv'
<1> USE DEF Probing, InTry, Ended, Panel, Reported
<1>1. index \in 1..Len(Entries) /\ Len(records) = index - 1
  BY DEF LoopInv
<1>2. /\ Len(records') = index
      /\ records'[index] = r
      /\ \A i \in 1..index - 1 : records'[i] = records[i]
  BY <1>1 DEF Report, TypeOK
<1>3. \A i \in 1..Len(records') :
        records'[i].host = Entries[i] /\ records'[i].outcome # "null"
  BY <1>1, <1>2 DEF LoopInv, host
<1>4. output = "none"
  BY DEF LoopInv, TypeOK
<1>5. CASE index < Len(Entries)
  <2>1. rec'.host = Entries[index + 1]
    BY <1>5 DEF Report, NewRecord
  <2> QED
    BY <1>1, <1>2, <1>3, <1>4, <1>5, <2>1, PanelType DEF LoopInv, Report, host
<1>6. CASE ~(index < Len(Entries))
  BY <1>1, <1>2, <1>3, <1>4, <1>6, PanelType DEF LoopInv, Report
<1> QED
  BY <1>5, <1>6

\* The loop stays in step with the records, whichever step is taken.
LEMMA LoopStep == TypeOK /\ LoopInv /\ [Next]_vars => LoopInv'
<1> SUFFICES ASSUME TypeOK, LoopInv, [Next]_vars PROVE LoopInv'
  OBVIOUS
<1> USE DEF Probing, InTry, Ended, Panel, Reported
<1>t. /\ pc \in Probing => index \in 1..Len(Entries) /\ host \in Hosts
      /\ pc \in InTry => workdir \in Dirs
      /\ pc \in InTry \cup {"mkdtemp"} => ip \in Addresses
  BY ProbingType
<1>f. \A o \in OutcomeNames : pc \in Probing =>
        Failed(o) \in Record /\ Failed(o).host = host /\ Failed(o).outcome = o
  BY <1>t, FailedType DEF Failed, NewRecord
<1>n. None \notin Addresses /\ None \notin Dirs
  BY ConstantsAssumption
<1>1. CASE Resolve
  <2>1. CASE Report(Failed("dns_failure"))
    BY <1>1, <1>f, <2>1, ReportLoop DEF Resolve, OutcomeNames
  <2>2. CASE /\ \E a \in Addresses : ip' = a /\ rec' = [rec EXCEPT !.ip = a]
             /\ pc' = "mkdtemp"
             /\ UNCHANGED <<index, workdir, records>>
    <3>1. rec'.host = rec.host
      BY <2>2 DEF TypeOK, Record
    <3> QED
      BY <1>1, <1>n, <2>2, <3>1 DEF Resolve, LoopInv, host
  <2> QED
    BY <1>1, <2>1, <2>2 DEF Resolve
<1>2. CASE RaiseEarly
  BY <1>2, <1>f, ReportLoop DEF RaiseEarly, OutcomeNames
<1>3. CASE MakeWorkdir
  BY <1>3, <1>n DEF MakeWorkdir, LoopInv, host
<1>4. CASE RunMint
  BY <1>4 DEF RunMint, LoopInv, host
<1>5. CASE MintFailed
  <2>1. rec'.host = rec.host /\ rec'.outcome # "null"
    BY <1>5 DEF MintFailed, TypeOK, Record
  <2> QED
    BY <1>5, <2>1 DEF MintFailed, LoopInv, host
<1>6. CASE MintSaved
  <2>1. rec'.host = rec.host
    BY <1>6 DEF MintSaved, WithTickets, TypeOK, Record
  <2> QED
    BY <1>6, <2>1 DEF MintSaved, Minted, LoopInv, host
<1>7. CASE MintUnsaved
  <2>1. rec'.host = rec.host /\ rec'.outcome = "measured"
    BY <1>7 DEF MintUnsaved, WithTickets, WithControls, TypeOK, Record
  <2> QED
    BY <1>7, <2>1 DEF MintUnsaved, Minted, LoopInv, host
<1>8. CASE MintRaises
  BY <1>8, <1>f DEF MintRaises, Minted, Raise, LoopInv, host, OutcomeNames
<1>9. CASE CheckProvenance
  BY <1>9, <1>f DEF CheckProvenance, Raise, LoopInv, host, OutcomeNames
<1>10. CASE RunOffer
  BY <1>10 DEF RunOffer, LoopInv, host
<1>11. CASE ReadOffer
  <2>1. rec'.host = rec.host /\ rec'.outcome = "measured"
    BY <1>11 DEF ReadOffer, WithAnswer, WithControls, TypeOK, Record
  <2> QED
    BY <1>11, <2>1 DEF ReadOffer, LoopInv, host
<1>12. CASE Cleanup
  BY <1>12, ReportLoop DEF Cleanup, LoopInv, TypeOK
<1>13. CASE WriteJson
  BY <1>13 DEF WriteJson, LoopInv, host, memory
<1>14. CASE WriteMd
  BY <1>14 DEF WriteMd, LoopInv, host, memory
<1>15. CASE Interrupt
  <2>1. CASE output = "none"
    BY <1>15, <2>1, PanelType DEF Interrupt, LoopInv
  <2>2. CASE output # "none"
    BY <1>15, <2>2 DEF Interrupt, LoopInv
  <2> QED
    BY <2>1, <2>2
<1>16. CASE UNCHANGED vars
  BY <1>16 DEF vars, memory, LoopInv, host
<1> QED
  BY <1>1, <1>2, <1>3, <1>4, <1>5, <1>6, <1>7, <1>8, <1>9, <1>10, <1>11,
     <1>12, <1>13, <1>14, <1>15, <1>16 DEF Next, Step, Terminated

(***************************************************************************)
(* The directories.                                                        *)
(***************************************************************************)

\* The conjuncts of FilesInv that do not depend on where probe_host is.
DirsInv ==
  /\ \A d \in Dirs \ dirs : sess_file[d] = NoFile /\ minted_by[d] = None
  /\ \A d \in Dirs : sess_file[d].state # "none" => sess_file[d].by # None
  /\ ProvenanceIsTrue

\* Removing files, however incompletely, leaves what remains true.
LEMMA RemoveKeepsDirs ==
  ASSUME TypeOK, workdir \in Dirs, DirsInv, RemoveWorkdir
  PROVE  DirsInv'
<1>1. NoFile.by = None /\ NoFile.state = "none"
  BY DEF NoFile
<1>2. \A d \in Dirs \ {workdir} :
        sess_file'[d] = sess_file[d] /\ minted_by'[d] = minted_by[d]
  BY DEF RemoveWorkdir, TypeOK
<1>3. /\ sess_file'[workdir] \in {sess_file[workdir], NoFile}
      /\ minted_by'[workdir] \in {minted_by[workdir], None}
  BY DEF RemoveWorkdir, TypeOK
<1>4. \/ dirs' = dirs
      \/ /\ dirs' = dirs \ {workdir}
         /\ sess_file'[workdir] = NoFile
         /\ minted_by'[workdir] = None
  BY DEF RemoveWorkdir, TypeOK
<1> QED
  BY <1>1, <1>2, <1>3, <1>4 DEF DirsInv, ProvenanceIsTrue

\* There are no directories at the start,
LEMMA FilesInit == Init => FilesInv
BY DEF Init, FilesInv, NoFile, ProvenanceIsTrue, InTry

\* and every step leaves the directories as FilesInv says.
LEMMA FilesStep == TypeOK /\ LoopInv /\ FilesInv /\ [Next]_vars => FilesInv'
<1> SUFFICES ASSUME TypeOK, LoopInv, FilesInv, [Next]_vars PROVE FilesInv'
  OBVIOUS
<1> USE DEF Probing, InTry
<1>t. /\ pc \in Probing => index \in 1..Len(Entries) /\ host \in Hosts
      /\ pc \in InTry => workdir \in Dirs
  BY ProbingType
<1>n. None \notin Hosts
  BY ConstantsAssumption
<1>d. DirsInv
  BY DEF FilesInv, DirsInv
<1>o. DirsInv' /\ pc' \notin InTry => FilesInv'
  BY DEF FilesInv, DirsInv
\* A step that leaves the files, the directory and the host alone, and does not
\* reach a place that FilesInv asks more of.
<1>u. ASSUME UNCHANGED files
      PROVE  DirsInv'
  BY <1>d, <1>u DEF DirsInv, files, ProvenanceIsTrue
<1>1. CASE Resolve
  BY <1>1, <1>u, <1>o DEF Resolve, Report
<1>2. CASE RaiseEarly
  BY <1>2, <1>u, <1>o DEF RaiseEarly, Report
<1>3. CASE MakeWorkdir
  BY <1>3 DEF MakeWorkdir, FilesInv, ProvenanceIsTrue, TypeOK
<1>4. CASE RunMint
  <2>1. pc' = "minted" /\ UNCHANGED <<index, workdir, dirs, minted_by>>
    BY <1>4 DEF RunMint
  <2>2. /\ sess_file[workdir] = NoFile
        /\ minted_by[workdir] = None
        /\ workdir \in dirs
    BY <1>4 DEF RunMint, FilesInv
  <2>3. /\ \A d \in Dirs \ {workdir} : sess_file'[d] = sess_file[d]
        /\ sess_file'[workdir].by \in {None, host}
        /\ sess_file'[workdir].state # "none" => sess_file'[workdir].by # None
    BY <1>4, <1>t, <1>n, <2>2 DEF RunMint, TypeOK, NoFile
  <2> QED
    BY <1>t, <2>1, <2>2, <2>3 DEF FilesInv, ProvenanceIsTrue, host
<1>5. CASE MintFailed
  BY <1>5 DEF MintFailed, files, FilesInv, ProvenanceIsTrue
<1>6. CASE MintSaved
  <2>1. /\ pc = "minted" /\ pc' = "check"
        /\ UNCHANGED <<index, workdir, dirs, sess_file>>
        /\ minted_by' = [minted_by EXCEPT ![workdir] = host]
        /\ sess_file[workdir].state # "none"
    BY <1>6 DEF MintSaved, Minted, session_written
  <2>2. sess_file[workdir].by = host
    BY <2>1, <1>t DEF FilesInv
  <2> QED
    BY <1>t, <2>1, <2>2 DEF FilesInv, ProvenanceIsTrue, host, TypeOK
<1>7. CASE MintUnsaved
  BY <1>7 DEF MintUnsaved, Minted, files, FilesInv, ProvenanceIsTrue
<1>8. CASE MintRaises
  BY <1>8 DEF MintRaises, Minted, Raise, files, FilesInv, ProvenanceIsTrue
<1>9. CASE CheckProvenance
  BY <1>9 DEF CheckProvenance, Raise, files, FilesInv, ProvenanceIsTrue, host
<1>10. CASE RunOffer
  BY <1>10 DEF RunOffer, files, FilesInv, ProvenanceIsTrue, host
<1>11. CASE ReadOffer
  BY <1>11 DEF ReadOffer, files, FilesInv, ProvenanceIsTrue
<1>12. CASE Cleanup
  <2>1. pc' \notin InTry
    BY <1>12 DEF Cleanup, Report
  <2>2. DirsInv'
    BY <1>12, <1>t, <1>d, RemoveKeepsDirs DEF Cleanup
  <2> QED
    BY <2>1, <2>2, <1>o
<1>13. CASE WriteJson
  BY <1>13, <1>u, <1>o DEF WriteJson
<1>14. CASE WriteMd
  BY <1>14, <1>u, <1>o DEF WriteMd
<1>15. CASE Interrupt
  <2>1. pc' \notin InTry
    BY <1>15 DEF Interrupt
  <2>2. CASE workdir # None /\ RemoveWorkdir
    BY <2>1, <2>2, <1>d, <1>o, RemoveKeepsDirs DEF TypeOK
  <2>3. CASE UNCHANGED files
    BY <2>1, <2>3, <1>u, <1>o
  <2> QED
    BY <1>15, <2>2, <2>3 DEF Interrupt
<1>16. CASE UNCHANGED vars
  BY <1>16 DEF vars, memory, files, FilesInv, ProvenanceIsTrue, host
<1> QED
  BY <1>1, <1>2, <1>3, <1>4, <1>5, <1>6, <1>7, <1>8, <1>9, <1>10, <1>11,
     <1>12, <1>13, <1>14, <1>15, <1>16 DEF Next, Step, Terminated

(***************************************************************************)
(* What a transcript tells.                                                *)
(***************************************************************************)

\* Whatever is cut off it, a transcript that shows a handshake shows how it
\* really went, and a ticket line shows a ticket; nothing is cut off that of an
\* s_client that exited.
LEMMA Transcript ==
  ASSUME NEW s, NEW b, NEW out \in Outcomes(s, b)
  PROVE  /\ HandshakeCompleted(out.text) =>
              /\ out.ended # "spawn_failure"
              /\ out.exchange.phase \in {"rejected", "established"}
              /\ out.exchange.resumed = ReusedLinePresent(out.text)
         /\ out.ended = "exited" /\ out.exchange.phase = "established" =>
              HandshakeCompleted(out.text)
         /\ out.exchange.resumed => out.exchange.phase = "established"
         /\ ObservedVia(out.text) # "null" => out.exchange.tickets > 0
         /\ out.ended = "exited" /\ out.exchange.tickets > 0 =>
              ObservedVia(out.text) # "null"
<1> USE DEF New, Reused, Banner, Material
<1>1. CASE out = SpawnFailure
  BY <1>1 DEF SpawnFailure, NoExchange, HandshakeCompleted, ReusedLinePresent,
     ObservedVia
<1>2. CASE out = [ended |-> "timeout", text |-> {}, saved |-> "none",
                  exchange |-> NoExchange]
  BY <1>2 DEF NoExchange, HandshakeCompleted, ReusedLinePresent, ObservedVia
<1>3. ASSUME NEW x \in Exchanges(s), NEW e \in {"exited", "timeout"},
             NEW t \in Texts(x, e), NEW v \in Saves(x, e, b),
             out = [ended |-> e, text |-> t, saved |-> v, exchange |-> x]
      PROVE  /\ HandshakeCompleted(t) =>
                  /\ x.phase \in {"rejected", "established"}
                  /\ x.resumed = ReusedLinePresent(t)
             /\ e = "exited" /\ x.phase = "established" => HandshakeCompleted(t)
             /\ x.resumed => x.phase = "established"
             /\ ObservedVia(t) # "null" => x.tickets > 0
             /\ e = "exited" /\ x.tickets > 0 => ObservedVia(t) # "null"
  <2>1. /\ x \in Exchange
        /\ x.phase = "established" => x.version \in Versions
        /\ x.resumed => x.version \in Versions /\ x.phase = "established"
        /\ x.resumed \in BOOLEAN
    BY ExchangesType DEF Exchange
  <2>2. t \subseteq Printed(x) /\ (e = "exited" => t = Printed(x))
    BY DEF Texts, Cuts, Printed
  <2>3. \A v2 : /\ New(v2) \in Printed(x) =>
                     x.phase \notin {"none", "unreached"} /\ ~x.resumed
                /\ Reused(v2) \in Printed(x) =>
                     x.phase \notin {"none", "unreached"} /\ x.resumed
    BY DEF Printed, Headline, Banners
  <2>4. x.phase \in Phases
    BY <2>1 DEF Exchange
  <2>5. HandshakeCompleted(t) =>
          /\ x.phase \in {"rejected", "established"}
          /\ x.resumed = ReusedLinePresent(t)
    BY <2>1, <2>2, <2>3, <2>4 DEF HandshakeCompleted, ReusedLinePresent, Phases
  <2>6. x.phase = "established" => HandshakeCompleted(Printed(x))
    BY <2>1 DEF Printed, Headline, HandshakeCompleted, ReusedLinePresent
  <2>7. (Banner \in Printed(x) \/ Material \in Printed(x)) <=> x.tickets > 0
    BY DEF Printed, Headline, Banners
  <2> QED
    BY <2>1, <2>2, <2>5, <2>6, <2>7 DEF ObservedVia
<1> QED
  BY <1>1, <1>2, <1>3, OutcomeCases

(***************************************************************************)
(* The connections.                                                        *)
(***************************************************************************)

\* The connections an action that calls run_s_client may leave.
LEMMA ConnectedWire ==
  ASSUME TypeOK, index \in 1..Len(Entries), ip \in Addresses,
         NEW s, NEW b, NEW out \in Outcomes(s, b),
         NEW o \in Hosts \cup {None}, wire' = Connected(o, out)
  PROVE  /\ \A h \in Hosts \ {host} : wire'[h] = wire[h]
         /\ out.exchange.phase = "none" => wire'[host] = wire[host]
         /\ out.exchange.phase # "none" =>
              /\ Len(wire'[host]) = Len(wire[host]) + 1
              /\ wire'[host][Len(wire[host]) + 1] = Connection(o, out)
              /\ \A c \in 1..Len(wire[host]) : wire'[host][c] = wire[host][c]
         /\ Len(wire[host]) \in Nat
<1>1. host \in Hosts
  BY PanelType DEF host
<1>2. wire[host] \in Seq(Connections) /\ wire \in [Hosts -> Seq(Connections)]
  BY <1>1 DEF TypeOK
<1>3. CASE out.exchange.phase = "none"
  BY <1>2, <1>3 DEF Connected
<1>4. CASE out.exchange.phase # "none"
  <2>1. Connection(o, out) \in Connections
    BY <1>4, ConnectionType
  <2>2. wire' = [wire EXCEPT ![host] = Append(wire[host], Connection(o, out))]
    BY <1>4 DEF Connected
  <2> QED
    BY <1>1, <1>2, <1>4, <2>1, <2>2
<1> QED
  BY <1>3, <1>4

\* No connection has been made at the start.
LEMMA WireInit == Init => WireInv
<1> SUFFICES ASSUME Init PROVE WireInv
  OBVIOUS
<1>1. \A h \in Hosts : wire[h] = <<>> /\ Len(wire[h]) = 0
  BY DEF Init
<1> QED
  BY <1>1, PanelType DEF Init, WireInv, NoCrossHostReplay, TwoPinnedConnections, Panel

\* Every step leaves the connections as WireInv says.
LEMMA WireStep ==
  TypeOK /\ LoopInv /\ FilesInv /\ WireInv /\ [Next]_vars => WireInv'
<1> SUFFICES ASSUME TypeOK, LoopInv, FilesInv, WireInv, [Next]_vars PROVE WireInv'
  OBVIOUS
<1> USE DEF Probing, InTry, Panel
<1>t. /\ pc \in Probing => index \in 1..Len(Entries) /\ host \in Hosts
      /\ pc \in InTry => workdir \in Dirs
      /\ pc \in InTry \cup {"mkdtemp"} => ip \in Addresses
  BY ProbingType
<1>n. Len(Entries) \in Nat /\ index \in Int
  BY PanelType DEF TypeOK
<1>u. ASSUME UNCHANGED wire
      PROVE  (NoCrossHostReplay /\ TwoPinnedConnections)'
  BY <1>u DEF WireInv, NoCrossHostReplay, TwoPinnedConnections
<1>r. ASSUME NEW r, Report(r), UNCHANGED wire, pc \in Probing
      PROVE  WireInv'
  BY <1>r, <1>u, <1>n DEF Report, WireInv, Before
<1>1. CASE Resolve
  <2>1. CASE Report(Failed("dns_failure"))
    BY <1>1, <1>r, <2>1 DEF Resolve
  <2>2. CASE pc' = "mkdtemp" /\ UNCHANGED <<index, workdir, records>>
    BY <1>1, <1>u, <2>2 DEF Resolve, WireInv, Before
  <2> QED
    BY <1>1, <2>1, <2>2 DEF Resolve
<1>2. CASE RaiseEarly
  BY <1>2, <1>r DEF RaiseEarly
<1>3. CASE MakeWorkdir
  BY <1>3, <1>u DEF MakeWorkdir, WireInv, Before
<1>4. CASE RunMint
  <2> PICK out \in Outcomes("none", TRUE) :
        result' = out /\ wire' = Connected(None, out)
    BY <1>4 DEF RunMint
  <2>1. pc = "mint" /\ pc' = "minted" /\ UNCHANGED <<index, ip>>
    BY <1>4 DEF RunMint
  <2>2. wire[host] = <<>> /\ Len(wire[host]) = 0
    BY <2>1, <1>t DEF WireInv, Before, host
  <2>3. /\ \A h \in Hosts \ {host} : wire'[h] = wire[h]
        /\ out.exchange.phase = "none" => wire'[host] = wire[host]
        /\ out.exchange.phase # "none" =>
             Len(wire'[host]) = 1 /\ wire'[host][1] = Connection(None, out)
    <3>1. /\ \A h \in Hosts \ {host} : wire'[h] = wire[h]
          /\ out.exchange.phase = "none" => wire'[host] = wire[host]
          /\ out.exchange.phase # "none" =>
               /\ Len(wire'[host]) = Len(wire[host]) + 1
               /\ wire'[host][Len(wire[host]) + 1] = Connection(None, out)
      BY <1>t, <2>1, ConnectedWire
    <3> QED
      BY <2>2, <3>1
  <2>4. Made(1, None)'
    BY <2>1, <2>2, <2>3 DEF Made, host, Connection
  <2>c. Connection(None, out).offered = None
    BY DEF Connection
  <2>l. Len(wire'[host]) \in 0..1
    BY <2>2, <2>3
  <2>h. /\ \A h \in Hosts \ {host} : wire'[h] = wire[h]
        /\ \A c \in 1..Len(wire'[host]) : c = 1 /\ wire'[host][c].offered = None
    <3>1. CASE out.exchange.phase = "none"
      <4>1. Len(wire'[host]) = 0
        BY <2>2, <2>3, <3>1
      <4> QED
        BY <2>3, <4>1
    <3>2. CASE out.exchange.phase # "none"
      <4>1. Len(wire'[host]) = 1 /\ wire'[host][1].offered = None
        BY <2>3, <2>c, <3>2
      <4> QED
        BY <2>3, <4>1
    <3> QED
      BY <3>1, <3>2
  <2>5. NoCrossHostReplay'
    BY <2>h DEF WireInv, NoCrossHostReplay
  <2>6. TwoPinnedConnections'
    <3>1. ASSUME NEW h \in Hosts, h # host
          PROVE  /\ Len(wire'[h]) <= 2
                 /\ \A c, e \in 1..Len(wire'[h]) : wire'[h][c].ip = wire'[h][e].ip
      <4>1. wire'[h] = wire[h]
        BY <2>h, <3>1
      <4> QED
        BY <4>1 DEF WireInv, TwoPinnedConnections
    <3>2. /\ Len(wire'[host]) <= 2
          /\ \A c, e \in 1..Len(wire'[host]) :
               wire'[host][c].ip = wire'[host][e].ip
      BY <2>h, <2>l
    <3> QED
      BY <3>1, <3>2 DEF TwoPinnedConnections
  <2>7. \A i \in Panel : Before(i)' => wire'[Entries[i]] = <<>>
    BY <1>t, <2>1, <2>3, PanelAssumption, PanelType DEF WireInv, Before, host
  <2> QED
    BY <2>1, <2>4, <2>5, <2>6, <2>7 DEF WireInv
<1>5. CASE MintFailed
  BY <1>5, <1>u DEF MintFailed, WireInv, Before
<1>6. CASE MintSaved
  <2>1. pc = "minted" /\ pc' = "check" /\ UNCHANGED <<index, ip, wire>>
    BY <1>6 DEF MintSaved, Minted
  <2>2. result.exchange.phase # "none"
    BY <1>6, <2>1, Transcript DEF WireInv, MintSaved, Minted
  <2>3. Len(wire[host]) = 1 /\ wire[host][1].ip = ip
    BY <2>1, <2>2 DEF WireInv, Made, Connection
  <2> QED
    BY <1>u, <2>1, <2>3 DEF WireInv, Before, host
<1>7. CASE MintUnsaved
  BY <1>7, <1>u DEF MintUnsaved, Minted, WireInv, Before
<1>8. CASE MintRaises
  BY <1>8, <1>u DEF MintRaises, Minted, Raise, WireInv, Before
<1>9. CASE CheckProvenance
  BY <1>9, <1>u DEF CheckProvenance, Raise, WireInv, Before, host
<1>10. CASE RunOffer
  <2>1. pc = "offer" /\ pc' = "offered" /\ UNCHANGED <<index, ip, workdir, sess_file>>
    BY <1>10 DEF RunOffer, files
  <2>2. sess_file[workdir].by = host
    BY <2>1 DEF FilesInv
  <2> PICK out \in Outcomes(sess_file[workdir].state, FALSE) :
        result' = out /\ wire' = Connected(host, out)
    BY <1>10, <2>2 DEF RunOffer
  <2>3. Len(wire[host]) = 1 /\ wire[host][1].ip = ip
    BY <2>1 DEF WireInv
  <2>4. /\ \A h \in Hosts \ {host} : wire'[h] = wire[h]
        /\ out.exchange.phase = "none" => wire'[host] = wire[host]
        /\ out.exchange.phase # "none" =>
             /\ Len(wire'[host]) = 2
             /\ wire'[host][2] = Connection(host, out)
             /\ wire'[host][1] = wire[host][1]
    <3>1. /\ \A h \in Hosts \ {host} : wire'[h] = wire[h]
          /\ out.exchange.phase = "none" => wire'[host] = wire[host]
          /\ out.exchange.phase # "none" =>
               /\ Len(wire'[host]) = Len(wire[host]) + 1
               /\ wire'[host][Len(wire[host]) + 1] = Connection(host, out)
               /\ \A c \in 1..Len(wire[host]) : wire'[host][c] = wire[host][c]
      BY <1>t, <2>1, ConnectedWire
    <3> QED
      BY <2>3, <3>1
  <2>5. Made(2, host)'
    BY <2>1, <2>3, <2>4 DEF Made, host, Connection
  <2>c. Connection(host, out).offered = host /\ Connection(host, out).ip = ip
    BY DEF Connection
  <2>l. Len(wire'[host]) \in 1..2
    BY <2>3, <2>4
  <2>f. wire[host][1].offered \in {None, host}
    BY <1>t, <2>1, <2>3 DEF WireInv, NoCrossHostReplay
  <2>h. /\ \A h \in Hosts \ {host} : wire'[h] = wire[h]
        /\ \A c \in 1..Len(wire'[host]) :
             wire'[host][c].offered \in {None, host} /\ wire'[host][c].ip = ip
    BY <2>3, <2>4, <2>c, <2>l, <2>f
  <2>6. NoCrossHostReplay'
    BY <2>h DEF WireInv, NoCrossHostReplay
  <2>7. TwoPinnedConnections'
    <3>1. ASSUME NEW h \in Hosts, h # host
          PROVE  /\ Len(wire'[h]) <= 2
                 /\ \A c, e \in 1..Len(wire'[h]) : wire'[h][c].ip = wire'[h][e].ip
      <4>1. wire'[h] = wire[h]
        BY <2>h, <3>1
      <4> QED
        BY <4>1 DEF WireInv, TwoPinnedConnections
    <3>2. /\ Len(wire'[host]) <= 2
          /\ \A c, e \in 1..Len(wire'[host]) :
               wire'[host][c].ip = wire'[host][e].ip
      BY <2>h, <2>l
    <3> QED
      BY <3>1, <3>2 DEF TwoPinnedConnections
  <2>8. \A i \in Panel : Before(i)' => wire'[Entries[i]] = <<>>
    BY <1>t, <2>1, <2>4, PanelAssumption, PanelType DEF WireInv, Before, host
  <2>9. wire'[host][1].ip = ip
    BY <2>3, <2>4
  <2> QED
    BY <2>1, <2>5, <2>6, <2>7, <2>8, <2>9 DEF WireInv, host
<1>11. CASE ReadOffer
  BY <1>11, <1>u DEF ReadOffer, WireInv, Before
<1>12. CASE Cleanup
  BY <1>12, <1>r DEF Cleanup
<1>13. CASE WriteJson
  BY <1>13, <1>u DEF WriteJson, memory, WireInv, Before
<1>14. CASE WriteMd
  BY <1>14, <1>u DEF WriteMd, memory, WireInv, Before
<1>15. CASE Interrupt
  BY <1>15, <1>u DEF Interrupt, WireInv
<1>16. CASE UNCHANGED vars
  BY <1>16, <1>u DEF vars, memory, files, WireInv, Before, host, Made, Connection
<1> QED
  BY <1>1, <1>2, <1>3, <1>4, <1>5, <1>6, <1>7, <1>8, <1>9, <1>10, <1>11,
     <1>12, <1>13, <1>14, <1>15, <1>16 DEF Next, Step, Terminated

(***************************************************************************)
(* The records.                                                            *)
(***************************************************************************)
\* No record has been filled in or reported at the start.
LEMMA RecordInit == Init => RecordInv
BY DEF Init, RecordInv, Reported

\* A record that only says that its host failed is honest.
LEMMA FailedHonest ==
  ASSUME index \in 1..Len(Entries), NEW o \in OutcomeNames, NEW w,
         o \notin {"measured", "openssl_spawn_failure", "handshake_failure", "timeout"},
         o = "dns_failure" => w = <<>>
  PROVE  Honest(Failed(o), w)
<1>1. NewRecord(host) \in Record
  BY PanelType, NewRecordType DEF host
<1> QED
  BY <1>1 DEF Failed, NewRecord, Honest, Posed, Truthful, Complete, TicketKnown, Bare

\* What a step leaves of the reported rows: it may add a connection to the host
\* being probed, which is not reported yet.
LEMMA RowsKept ==
  ASSUME TypeOK, LoopInv, RecordInv, pc \in Probing, records' = records,
         \A h \in Hosts \ {host} : wire'[h] = wire[h]
  PROVE  \A i \in 1..Len(records') : Honest(records'[i], wire'[records'[i].host])
<1> SUFFICES ASSUME NEW i \in 1..Len(records)
             PROVE  Honest(records[i], wire'[records[i].host])
  OBVIOUS
<1>1. i \in 1..Len(Entries) /\ i < index /\ index \in 1..Len(Entries)
  BY PanelType DEF LoopInv, Panel, Probing, InTry, TypeOK
<1>2. records[i].host = Entries[i] /\ records[i].host \in Hosts
  BY <1>1, PanelType DEF LoopInv, Reported
<1>3. records[i].host # host
  BY <1>1, <1>2, PanelAssumption DEF host
<1> QED
  BY <1>2, <1>3 DEF RecordInv, Reported, Row

\* Reporting an honest record keeps the rows honest.
LEMMA ReportRecord ==
  ASSUME TypeOK, LoopInv, RecordInv, pc \in Probing, UNCHANGED wire,
         NEW r \in Record, r.host = host, Honest(r, wire[host]), Report(r)
  PROVE  RecordInv'
<1>1. index \in 1..Len(Entries) /\ Len(records) = index - 1
  BY DEF LoopInv, Probing, InTry, Panel
<1>2. /\ Len(records') = index
      /\ records'[index] = r
      /\ \A i \in 1..index - 1 : records'[i] = records[i]
  BY <1>1 DEF Report, TypeOK
<1>3. \A i \in 1..Len(records') : Honest(records'[i], wire'[records'[i].host])
  <2> SUFFICES ASSUME NEW i \in 1..index
               PROVE  Honest(records'[i], wire[records'[i].host])
    BY <1>2
  <2>1. CASE i = index
    BY <2>1, <1>2
  <2>2. CASE i # index
    <3>1. i \in 1..Len(records) /\ records'[i] = records[i]
      BY <1>1, <1>2, <2>2
    <3> QED
      BY <3>1 DEF RecordInv, Reported, Row
  <2> QED
    BY <2>1, <2>2
<1>4. pc' = "resolve" => rec' = NewRecord(host')
  BY <1>1, PanelType DEF Report, host
<1> QED
  BY <1>3, <1>4 DEF Report, RecordInv, Reported, Row

\* The record of a host whose first connection left no session to offer.
LEMMA UnsavedHonest ==
  ASSUME TypeOK, LoopInv, WireInv, RecordInv, MintUnsaved
  PROVE  Honest(rec', wire[host])
<1>1. /\ pc = "minted"
      /\ HandshakeCompleted(result.text)
      /\ rec = [NewRecord(host) EXCEPT !.ip = ip]
      /\ result \in Outcomes("none", TRUE)
      /\ Made(1, None)
  BY DEF MintUnsaved, Minted, RecordInv, WireInv
<1>2. /\ Len(wire[host]) = 1
      /\ wire[host][1] = Connection(None, result)
  BY <1>1, Transcript DEF Made
<1>3. /\ rec'.outcome = "measured"
      /\ rec'.resumed = "null"
      /\ rec'.readable = "no"
      /\ rec'.issued = Flag(ObservedVia(result.text) # "null")
  BY <1>1 DEF MintUnsaved, WithControls, WithTickets, NewRecord, Flag
<1>4. TicketKnown(rec', wire[host])
  <2>1. /\ ObservedVia(result.text) # "null" => result.exchange.tickets > 0
        /\ result.ended = "exited" /\ result.exchange.tickets > 0 =>
             ObservedVia(result.text) # "null"
    BY <1>1, Transcript
  <2>2. /\ wire[host][1].ended = result.ended
        /\ wire[host][1].ticketed = (result.exchange.tickets > 0)
    BY <1>2 DEF Connection
  <2> QED
    BY <1>3, <2>1, <2>2 DEF TicketKnown, Flag
<1> QED
  BY <1>2, <1>3, <1>4 DEF Honest, Posed, Truthful, Complete, Bare

\* The record of a host whose session was offered back.
LEMMA OfferHonest ==
  ASSUME TypeOK, LoopInv, WireInv, RecordInv, ReadOffer
  PROVE  Honest(rec', wire[host])
<1>1. /\ pc = "offered"
      /\ rec.ip = ip /\ rec.written = "yes" /\ Unread(rec) /\ rec.host = host
      /\ TicketKnown(rec, wire[host])
      /\ result \in Outcomes(sess_file[workdir].state, FALSE)
      /\ Made(2, host)
  BY DEF ReadOffer, RecordInv, WireInv, LoopInv, Probing, InTry
<1>2. rec \in Record
  BY DEF TypeOK
<1>3. rec.resumed = "null" /\ rec.completed = "null"
  BY <1>1 DEF Unread
<1>4. CASE result.ended = "spawn_failure"
  <2>1. rec' = WithControls([rec EXCEPT !.attempted = "yes"])
    BY <1>4 DEF ReadOffer
  <2>2. /\ rec'.outcome = "measured"
        /\ rec'.resumed = "null"
        /\ rec'.readable = "no"
        /\ rec'.issued = rec.issued
    BY <1>2, <1>3, <2>1 DEF WithControls, Record, Flag
  <2>3. result.exchange.phase = "none"
    BY <1>1, <1>4, OutcomesType
  <2>4. Len(wire[host]) = 1
    BY <1>1, <2>3 DEF Made
  <2> QED
    BY <1>1, <2>2, <2>4 DEF Honest, Posed, Truthful, Complete, TicketKnown, Bare
<1>5. CASE result.ended # "spawn_failure"
  <2> DEFINE done == HandshakeCompleted(result.text)
             back == ReusedLinePresent(result.text)
  <2>1. rec' = WithControls(WithAnswer(rec, result.text))
    BY <1>5 DEF ReadOffer
  <2>2. /\ rec'.outcome = "measured"
        /\ rec'.host = host
        /\ rec'.ip = ip
        /\ rec'.issued = rec.issued
        /\ rec'.resumed = IF done THEN Flag(back) ELSE "null"
        /\ rec'.readable = Flag(done)
    BY <1>1, <1>2, <2>1 DEF WithControls, WithAnswer, Record, Flag
  <2>3. TicketKnown(rec', wire[host])
    BY <1>1, <2>2 DEF TicketKnown
  <2>4. CASE done
    <3>1. /\ result.exchange.phase \in {"rejected", "established"}
          /\ result.exchange.resumed = back
          /\ back => result.exchange.phase = "established"
      BY <1>1, <2>4, Transcript
    <3>2. /\ Len(wire[host]) = 2
          /\ wire[host][2] = Connection(host, result)
      BY <1>1, <3>1 DEF Made
    <3>3. /\ wire[host][2].offered = host
          /\ wire[host][2].ip = ip
          /\ wire[host][2].phase \in {"rejected", "established"}
          /\ wire[host][2].resumed = back
          /\ back => wire[host][2].phase = "established"
      BY <3>1, <3>2 DEF Connection
    <3>4. back \in BOOLEAN
      BY DEF ReusedLinePresent
    <3> QED
      BY <2>2, <2>3, <2>4, <3>2, <3>3, <3>4
         DEF Honest, Posed, Truthful, Complete, Bare, Flag
  <2>5. CASE ~done
    <3>1. rec'.resumed = "null" /\ rec'.readable = "no"
      BY <2>2, <2>5 DEF Flag
    <3>2. ~(/\ Len(wire[host]) = 2
            /\ wire[host][2].ended = "exited"
            /\ wire[host][2].phase = "established")
      <4>1. CASE result.exchange.phase = "none"
        BY <1>1, <4>1 DEF Made
      <4>2. CASE result.exchange.phase # "none"
        <5>1. wire[host][2] = Connection(host, result)
          BY <1>1, <4>2 DEF Made
        <5>2. /\ wire[host][2].ended = result.ended
              /\ wire[host][2].phase = result.exchange.phase
          BY <5>1 DEF Connection
        <5>3. ~(result.ended = "exited" /\ result.exchange.phase = "established")
          BY <1>1, <2>5, Transcript
        <5> QED
          BY <5>2, <5>3
      <4> QED
        BY <4>1, <4>2
    <3> QED
      BY <2>2, <2>3, <3>1, <3>2 DEF Honest, Posed, Truthful, Complete, Bare
  <2> QED
    BY <2>4, <2>5
<1> QED
  BY <1>4, <1>5

\* Every step leaves the record being filled in, and the reported ones, honest.
LEMMA RecordStep == TypeOK /\ IInv /\ [Next]_vars => RecordInv'
<1> SUFFICES ASSUME TypeOK, LoopInv, FilesInv, WireInv, RecordInv, [Next]_vars
             PROVE  RecordInv'
  BY DEF IInv
<1> USE DEF Probing, InTry
<1>t. /\ pc \in Probing => index \in 1..Len(Entries) /\ host \in Hosts
      /\ pc \in InTry \cup {"mkdtemp"} => ip \in Addresses
  BY ProbingType
<1>f. \A o \in OutcomeNames : pc \in Probing =>
        Failed(o) \in Record /\ Failed(o).host = host
  BY <1>t, FailedType DEF Failed, NewRecord
<1>h. pc \in Probing => rec \in Record /\ rec.host = host
  BY DEF LoopInv, TypeOK
<1>e. pc \in Probing => Honest(Failed("harness_error"), wire[host])
  BY <1>t, FailedHonest DEF OutcomeNames
\* The reported rows, for the steps that report nothing.
<1>r. ASSUME pc \in Probing, records' = records, UNCHANGED wire
      PROVE  \A i \in 1..Len(records') : Honest(records'[i], wire'[records'[i].host])
  BY <1>r, RowsKept
<1>1. CASE Resolve
  <2>1. CASE Report(Failed("dns_failure"))
    <3>1. pc = "resolve" /\ UNCHANGED wire
      BY <1>1 DEF Resolve
    <3>2. wire[host] = <<>>
      BY <3>1, <1>t DEF WireInv, Before, Panel, host
    <3>3. Honest(Failed("dns_failure"), wire[host])
      BY <1>t, <3>1, <3>2, FailedHonest DEF OutcomeNames
    <3> QED
      BY <2>1, <3>1, <3>3, <1>f, ReportRecord DEF OutcomeNames
  <2>2. CASE /\ \E a \in Addresses : ip' = a /\ rec' = [rec EXCEPT !.ip = a]
             /\ pc' = "mkdtemp"
             /\ UNCHANGED <<index, workdir, records>>
    <3>1. rec' = [NewRecord(host) EXCEPT !.ip = ip']
      BY <1>1, <2>2 DEF Resolve, RecordInv
    <3> QED
      BY <1>1, <1>r, <2>2, <3>1 DEF Resolve, RecordInv, Reported, Row, host
  <2> QED
    BY <1>1, <2>1, <2>2 DEF Resolve
<1>2. CASE RaiseEarly
  BY <1>2, <1>e, <1>f, ReportRecord DEF RaiseEarly, OutcomeNames
<1>3. CASE MakeWorkdir
  BY <1>3, <1>r DEF MakeWorkdir, RecordInv, Reported, Row, host
<1>4. CASE RunMint
  <2>1. /\ pc = "mint" /\ pc' = "minted"
        /\ UNCHANGED <<index, ip, rec, records>>
    BY <1>4 DEF RunMint
  <2>2. \A h \in Hosts \ {host} : wire'[h] = wire[h]
    BY <1>4, <1>t, <2>1, ConnectedWire DEF RunMint
  <2>3. \A i \in 1..Len(records') : Honest(records'[i], wire'[records'[i].host])
    BY <2>1, <2>2, RowsKept
  <2> QED
    BY <2>1, <2>3 DEF RecordInv, Reported, Row, host
<1>5. CASE MintFailed
  <2>1. /\ pc = "minted" /\ pc' = "cleanup"
        /\ UNCHANGED <<index, records, wire>>
        /\ rec = [NewRecord(host) EXCEPT !.ip = ip]
        /\ result \in Outcomes("none", TRUE) /\ Made(1, None)
    BY <1>5 DEF MintFailed, RecordInv, WireInv
  <2>2. /\ result.exchange.phase = "none" => Len(wire[host]) = 0
        /\ Len(wire[host]) = 0 \/ Len(wire[host]) = 1
    BY <2>1 DEF Made
  <2>3. result.exchange.phase # "none" => result.ended \in {"exited", "timeout"}
    BY <2>1, OutcomesType
  <2>4. wire[host] \in Seq(Connections)
    BY <1>t, <2>1 DEF TypeOK
  <2>e. result.ended = "spawn_failure" => wire[host] = <<>>
    BY <2>2, <2>3, <2>4
  <2>5. /\ rec'.outcome \in {"openssl_spawn_failure", "timeout", "handshake_failure"}
        /\ rec'.outcome = "openssl_spawn_failure" => result.ended = "spawn_failure"
        /\ rec'.issued = "null" /\ rec'.written = "null" /\ rec'.attempted = "null"
        /\ rec'.resumed = "null" /\ rec'.readable = "null"
    BY <1>5, <2>1 DEF MintFailed, NewRecord
  <2>b. Bare(rec', wire[host])
    <3>1. {rec'.issued, rec'.written, rec'.attempted, rec'.resumed, rec'.readable}
            = {"null"}
      BY <2>5
    <3>2. rec'.outcome \in {"dns_failure", "openssl_spawn_failure"} => wire[host] = <<>>
      BY <2>e, <2>5
    <3>3. Len(wire[host]) <= 1
      <4>1. \A n : n = 0 \/ n = 1 => n <= 1
        OBVIOUS
      <4> QED
        BY <2>2, <4>1
    <3> QED
      BY <3>1, <3>2, <3>3 DEF Bare
  <2>6. Honest(rec', wire[host])
    BY <2>5, <2>b DEF Honest, Posed, Truthful, Complete, TicketKnown
  <2> QED
    BY <1>r, <2>1, <2>6 DEF RecordInv, Reported, Row, host
<1>6. CASE MintSaved
  <2>1. /\ pc = "minted" /\ pc' = "check"
        /\ UNCHANGED <<index, ip, records, wire>>
        /\ rec = [NewRecord(host) EXCEPT !.ip = ip]
        /\ result \in Outcomes("none", TRUE) /\ Made(1, None)
        /\ HandshakeCompleted(result.text)
    BY <1>6 DEF MintSaved, Minted, RecordInv, WireInv
  <2>2. /\ rec'.ip = ip /\ rec'.written = "yes" /\ rec'.attempted = "null"
        /\ Unread(rec')
        /\ rec'.issued = Flag(ObservedVia(result.text) # "null")
    BY <1>6, <2>1 DEF MintSaved, WithTickets, NewRecord, Flag, Unread
  <2>3. wire[host][1] = Connection(None, result)
    BY <2>1, Transcript DEF Made
  <2>4. /\ wire[host][1].ended = result.ended
        /\ wire[host][1].ticketed = (result.exchange.tickets > 0)
    BY <2>3 DEF Connection
  <2>5. /\ ObservedVia(result.text) # "null" => result.exchange.tickets > 0
        /\ result.ended = "exited" /\ result.exchange.tickets > 0 =>
             ObservedVia(result.text) # "null"
    BY <2>1, Transcript
  <2>6. TicketKnown(rec', wire[host])
    BY <2>2, <2>4, <2>5 DEF TicketKnown, Flag
  <2> QED
    BY <1>r, <2>1, <2>2, <2>6 DEF RecordInv, Reported, Row, host
<1>7. CASE MintUnsaved
  <2>1. pc \in Probing /\ pc' = "cleanup" /\ UNCHANGED <<index, records, wire>>
    BY <1>7 DEF MintUnsaved, Minted
  <2>2. Honest(rec', wire[host])
    BY <1>7, UnsavedHonest
  <2> QED
    BY <1>r, <2>1, <2>2 DEF RecordInv, Reported, Row, host
<1>8. CASE MintRaises
  BY <1>8, <1>e, <1>r DEF MintRaises, Minted, Raise, RecordInv, Reported, Row, host
<1>9. CASE CheckProvenance
  <2>1. pc = "check" /\ UNCHANGED <<index, ip, records, wire>>
    BY <1>9 DEF CheckProvenance
  <2>2. CASE Raise
    BY <1>e, <1>r, <2>1, <2>2 DEF Raise, RecordInv, Reported, Row, host
  <2>3. CASE pc' = "offer" /\ rec' = rec
    BY <1>r, <2>1, <2>3 DEF RecordInv, Reported, Row, host
  <2> QED
    BY <1>9, <2>2, <2>3 DEF CheckProvenance
<1>10. CASE RunOffer
  <2>1. /\ pc = "offer" /\ pc' = "offered"
        /\ UNCHANGED <<index, ip, rec, records>>
        /\ Len(wire[host]) = 1
    BY <1>10 DEF RunOffer, WireInv
  <2>2. sess_file[workdir].by = host
    BY <2>1 DEF FilesInv
  <2> PICK out \in Outcomes(sess_file[workdir].state, FALSE) :
        wire' = Connected(host, out)
    BY <1>10, <2>2 DEF RunOffer
  <2>3. /\ \A h \in Hosts \ {host} : wire'[h] = wire[h]
        /\ out.exchange.phase = "none" => wire'[host] = wire[host]
        /\ out.exchange.phase # "none" =>
             \A c \in 1..Len(wire[host]) : wire'[host][c] = wire[host][c]
    BY <1>t, <2>1, ConnectedWire
  <2>4. \A i \in 1..Len(records') : Honest(records'[i], wire'[records'[i].host])
    BY <2>1, <2>3, RowsKept
  <2>5. wire'[host][1] = wire[host][1]
    BY <2>1, <2>3
  <2>6. TicketKnown(rec, wire[host])
    BY <2>1 DEF RecordInv
  <2>7. TicketKnown(rec, wire'[host])
    BY <2>5, <2>6 DEF TicketKnown
  <2> QED
    BY <2>1, <2>4, <2>7 DEF RecordInv, Reported, Row, host
<1>11. CASE ReadOffer
  <2>1. pc \in Probing /\ pc' = "cleanup" /\ UNCHANGED <<index, records, wire>>
    BY <1>11 DEF ReadOffer
  <2>2. Honest(rec', wire[host])
    BY <1>11, OfferHonest
  <2> QED
    BY <1>r, <2>1, <2>2 DEF RecordInv, Reported, Row, host
<1>12. CASE Cleanup
  <2>1. pc = "cleanup" /\ UNCHANGED wire /\ Report(rec)
    BY <1>12 DEF Cleanup
  <2>2. Honest(rec, wire[host])
    BY <2>1 DEF RecordInv
  <2> QED
    BY <2>1, <2>2, <1>h, ReportRecord
<1>13. CASE WriteJson
  BY <1>13 DEF WriteJson, memory, RecordInv, Reported, Row
<1>14. CASE WriteMd
  BY <1>14 DEF WriteMd, memory, RecordInv, Reported, Row
<1>15. CASE Interrupt
  <2>1. pc' = "aborted" /\ wire' = wire /\ (records' = records \/ records' = <<>>)
    BY <1>15 DEF Interrupt
  <2>2. CASE records' = records
    BY <2>1, <2>2 DEF RecordInv, Reported, Row
  <2>3. CASE records' = <<>>
    BY <2>1, <2>3 DEF RecordInv, Reported, Row
  <2> QED
    BY <2>1, <2>2, <2>3
<1>16. CASE UNCHANGED vars
  BY <1>16 DEF vars, memory, files, RecordInv, Reported, Row, host
<1> QED
  BY <1>1, <1>2, <1>3, <1>4, <1>5, <1>6, <1>7, <1>8, <1>9, <1>10, <1>11,
     <1>12, <1>13, <1>14, <1>15, <1>16 DEF Next, Step, Terminated

-----------------------------------------------------------------------------
(***************************************************************************)
(* The theorems.                                                           *)
(***************************************************************************)

\* Every reachable state of probe_host and main is well typed and satisfies the
\* inductive invariant.
THEOREM Invariance == Spec => [](TypeOK /\ IInv)
<1>1. Init => TypeOK /\ IInv
  BY TypeInit, LoopInit, FilesInit, WireInit, RecordInit DEF IInv
<1>2. TypeOK /\ IInv /\ [Next]_vars => (TypeOK /\ IInv)'
  BY TypeStep, LoopStep, FilesStep, WireStep, RecordStep DEF IInv
<1> QED
  BY <1>1, <1>2, PTL DEF Spec

\* The variables of probe_host and main stay in their ranges, for every panel.
THEOREM TypeCorrect == Spec => []TypeOK
BY Invariance, PTL

\* No host is ever offered a session that another host issued, whatever fails and
\* whatever removals leave behind (probe.py:661-684, 810-822).
THEOREM Scope == Spec => []NoCrossHostReplay
<1>1. IInv => NoCrossHostReplay
  BY DEF IInv, WireInv
<1> QED
  BY <1>1, Invariance, PTL

\* The minted-by file check_session_provenance reads never names a host other
\* than the issuer of the session beside it.
THEOREM Provenance == Spec => []ProvenanceIsTrue
<1>1. IInv => ProvenanceIsTrue
  BY DEF IInv, FilesInv
<1> QED
  BY <1>1, Invariance, PTL

\* A run makes at most two connections to a host, both to the pinned address.
THEOREM TwoConnections == Spec => []TwoPinnedConnections
<1>1. IInv => TwoPinnedConnections
  BY DEF IInv, WireInv
<1> QED
  BY <1>1, Invariance, PTL

\* Every recorded answer was posed to the host it is recorded for, is true, is
\* recorded when there is one, and is readable exactly when it is there.
THEOREM HonestRecords ==
  Spec => [](/\ AnswerWasPosed
             /\ AnswerIsTrue
             /\ AnswerIsRecorded
             /\ ReadableIffAnswered
             /\ TicketReportIsTrue
             /\ FailureIsBare)
<1>1. IInv => /\ AnswerWasPosed
              /\ AnswerIsTrue
              /\ AnswerIsRecorded
              /\ ReadableIffAnswered
              /\ TicketReportIsTrue
              /\ FailureIsBare
  BY DEF IInv, RecordInv, Honest, AnswerWasPosed, AnswerIsTrue,
     AnswerIsRecorded, ReadableIffAnswered, TicketReportIsTrue, FailureIsBare
<1> QED
  BY <1>1, Invariance, PTL

\* HonestRecords part by part.  A yes or a no is recorded only of a host whose
\* second connection reached a listener at the pinned address and offered it that
\* host's own session (probe.py:833-861).
THEOREM PosedAnswers == Spec => []AnswerWasPosed
BY HonestRecords, PTL

\* An answer that was given, and read before the timeout, is recorded.
THEOREM RecordedAnswers == Spec => []AnswerIsRecorded
BY HonestRecords, PTL

\* build_controls calls a row readable exactly when it holds an answer.
THEOREM ReadableAnswers == Spec => []ReadableIffAnswered
BY HonestRecords, PTL

\* The ticket column agrees with the first connection as far as its transcript
\* goes (probe.py:400-456).
THEOREM TrueTicketReports == Spec => []TicketReportIsTrue
BY HonestRecords, PTL

\* A host that failed has no measurement in its record (probe.py:1277-1286).
THEOREM BareFailures == Spec => []FailureIsBare
BY HonestRecords, PTL

\* results.json is never written without one record, with an outcome, for every
\* host of the panel in its order.
THEOREM CompleteOutput == Spec => []OutputIsComplete
<1>1. TypeOK /\ IInv => OutputIsComplete
  BY DEF IInv, LoopInv, OutputIsComplete, Reported
<1> QED
  BY <1>1, Invariance, PTL

(***************************************************************************)
(* Nothing is retried.                                                     *)
(***************************************************************************)
\* What is left of a run, place by place.
LEMMA LeftValues ==
  ASSUME NEW i \in 1..Len(Entries)
  PROVE  /\ Left("resolve", i) = 8 * (Len(Entries) - i) + 10
         /\ Left("mkdtemp", i) = 8 * (Len(Entries) - i) + 9
         /\ Left("mint", i)    = 8 * (Len(Entries) - i) + 8
         /\ Left("minted", i)  = 8 * (Len(Entries) - i) + 7
         /\ Left("check", i)   = 8 * (Len(Entries) - i) + 6
         /\ Left("offer", i)   = 8 * (Len(Entries) - i) + 5
         /\ Left("offered", i) = 8 * (Len(Entries) - i) + 4
         /\ Left("cleanup", i) = 8 * (Len(Entries) - i) + 3
BY PanelType DEF Left, Stage, Probing, InTry

\* And when the panel is done.
LEMMA LeftAfter ==
  ASSUME NEW i
  PROVE  /\ Left("write_json", i) = 2
         /\ Left("write_md", i) = 1
         /\ Left("done", i) = 0
         /\ Left("aborted", i) = 0
BY DEF Left, Probing, InTry

\* Going on to the next host, or to the files, is a step towards the end.
LEMMA ReportRunsDown ==
  ASSUME index \in 1..Len(Entries), NEW r, Report(r), pc \in Probing
  PROVE  StepsLeft' \in 0..StepsLeft - 1
<1>1. StepsLeft \in Nat /\ StepsLeft >= 8 * (Len(Entries) - index) + 3
  BY LeftValues, PanelType DEF StepsLeft, Probing, InTry
<1>2. CASE index < Len(Entries)
  <2>1. pc' = "resolve" /\ index' = index + 1 /\ index' \in 1..Len(Entries)
    BY <1>2, PanelType DEF Report
  <2>2. StepsLeft' = 8 * (Len(Entries) - (index + 1)) + 10
    BY <2>1, LeftValues DEF StepsLeft
  <2> QED
    BY <1>1, <1>2, <2>2, PanelType
<1>3. CASE ~(index < Len(Entries))
  <2>1. pc' = "write_json"
    BY <1>3 DEF Report
  <2>2. StepsLeft' = 2
    BY <2>1, LeftAfter DEF StepsLeft
  <2> QED
    BY <1>1, <2>2, PanelType
<1> QED
  BY <1>2, <1>3

\* So is every other step of probe_host.
LEMMA StageRunsDown ==
  ASSUME index \in 1..Len(Entries), index' = index, pc \in Probing,
         \/ pc = "resolve" /\ pc' = "mkdtemp"
         \/ pc = "mkdtemp" /\ pc' = "mint"
         \/ pc = "mint" /\ pc' = "minted"
         \/ pc = "minted" /\ pc' \in {"check", "cleanup"}
         \/ pc = "check" /\ pc' \in {"offer", "cleanup"}
         \/ pc = "offer" /\ pc' = "offered"
         \/ pc = "offered" /\ pc' = "cleanup"
  PROVE  StepsLeft' \in 0..StepsLeft - 1
BY LeftValues, PanelType DEF StepsLeft

\* A run makes at most eight steps a host and two more: nothing it does is
\* repeated, and no failure sends it back (probe.py:687-867, 1271-1317).
THEOREM Progress == Spec => RunsDown
<1>1. TypeOK /\ IInv /\ [Next]_vars => [StepsLeft' \in 0..StepsLeft - 1]_vars
  <2> SUFFICES ASSUME TypeOK, LoopInv, Next
               PROVE  StepsLeft' \in 0..StepsLeft - 1 \/ UNCHANGED vars
    BY DEF IInv
  <2> USE DEF Probing, InTry
  <2>t. pc \in Probing => index \in 1..Len(Entries)
    BY ProbingType
  <2>1. CASE Resolve
    <3>1. pc = "resolve" /\ UNCHANGED wire
      BY <2>1 DEF Resolve
    <3>2. CASE Report(Failed("dns_failure"))
      BY <2>t, <3>1, <3>2, ReportRunsDown
    <3>3. CASE pc' = "mkdtemp" /\ index' = index
      BY <2>t, <3>1, <3>3, StageRunsDown
    <3> QED
      BY <2>1, <3>2, <3>3 DEF Resolve
  <2>2. CASE RaiseEarly
    BY <2>2, <2>t, ReportRunsDown DEF RaiseEarly
  <2>3. CASE MakeWorkdir
    BY <2>3, <2>t, StageRunsDown DEF MakeWorkdir
  <2>4. CASE RunMint
    BY <2>4, <2>t, StageRunsDown DEF RunMint
  <2>5. CASE MintFailed \/ MintSaved \/ MintUnsaved \/ MintRaises
    <3>1. pc = "minted" /\ pc' \in {"check", "cleanup"} /\ index' = index
      BY <2>5 DEF MintFailed, MintSaved, MintUnsaved, MintRaises, Minted, Raise
    <3> QED
      BY <2>t, <3>1, StageRunsDown
  <2>6. CASE CheckProvenance
    <3>1. pc = "check" /\ pc' \in {"offer", "cleanup"} /\ index' = index
      BY <2>6 DEF CheckProvenance, Raise
    <3> QED
      BY <2>t, <3>1, StageRunsDown
  <2>7. CASE RunOffer \/ ReadOffer
    <3>1. /\ index' = index
          /\ \/ pc = "offer" /\ pc' = "offered"
             \/ pc = "offered" /\ pc' = "cleanup"
      BY <2>7 DEF RunOffer, ReadOffer
    <3> QED
      BY <2>t, <3>1, StageRunsDown
  <2>8. CASE Cleanup
    BY <2>8, <2>t, ReportRunsDown DEF Cleanup
  <2>9. CASE WriteJson \/ WriteMd
    <3>1. \/ pc = "write_json" /\ pc' = "write_md"
          \/ pc = "write_md" /\ pc' = "done"
      BY <2>9 DEF WriteJson, WriteMd
    <3> QED
      BY <3>1, LeftAfter DEF StepsLeft
  <2>10. CASE Interrupt
    <3>1. pc' = "aborted" /\ StepsLeft' = 0
      BY <2>10, LeftAfter DEF Interrupt, StepsLeft
    <3>2. StepsLeft \in Nat \ {0}
      <4>1. pc \in Probing \cup {"write_json", "write_md"}
        BY <2>10 DEF Interrupt, TypeOK, Ended
      <4> QED
        BY <2>t, <4>1, LeftValues, LeftAfter, PanelType DEF StepsLeft
    <3> QED
      BY <3>1, <3>2
  <2> QED
    BY <2>1, <2>2, <2>3, <2>4, <2>5, <2>6, <2>7, <2>8, <2>9, <2>10
       DEF Next, Step, Terminated
<1> QED
  BY <1>1, Invariance, PTL DEF Spec, RunsDown
=============================================================================
