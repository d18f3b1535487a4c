------------------------------- MODULE Probe -------------------------------
(***************************************************************************)
(* public-endpoints/probe.py: main's loop over the panel and probe_host.   *)
(*                                                                         *)
(* For every host of the panel the harness resolves and pins one address,  *)
(* makes a private directory, connects once to obtain a session (the mint),*)
(* and, when a session file was written, connects once more offering it    *)
(* back (the offer).  It records what it could read of both, removes the   *)
(* directory and goes on; at the end it writes results.json and            *)
(* results.md.                                                             *)
(*                                                                         *)
(* Recorded values are "yes", "no" or "null" for True, False and None.     *)
(* What the harness cannot see is in two history variables: wire holds the *)
(* connections that were really made, and sess_file says which host a      *)
(* session file really came from.                                          *)
(***************************************************************************)
EXTENDS SClient, Sequences

CONSTANTS
  Entries,      \* the hosts of the panel, in its order
  Families,     \* how many address families resolve may ask for
  Addresses,    \* addresses, numbered in the order sorted() gives them
  Dirs,         \* names mkdtemp may give
  None          \* no host, no address, no directory

Hosts == {Entries[i] : i \in 1..Len(Entries)}

\* read_panel refuses an empty panel and a host that appears twice.
ASSUME PanelAssumption ==
  /\ Entries \in Seq(Hosts)
  /\ Len(Entries) > 0
  /\ \A i, j \in 1..Len(Entries) : Entries[i] = Entries[j] => i = j

ASSUME ConstantsAssumption ==
  /\ Families \in Nat \ {0}
  /\ Addresses \subseteq Nat
  /\ None \notin Hosts \cup Addresses \cup Dirs

VARIABLES
  pc,           \* where probe_host and main are
  index,        \* main's position in the panel
  ip,           \* dns["chosen"]
  workdir,      \* the directory of the host being probed
  dirs,         \* directories that exist
  sess_file,    \* session.pem of every directory: its issuer, its state
  minted_by,    \* the host named in the minted-by file of every directory
  result,       \* what run_s_client returned last
  rec,          \* the record being filled in
  records,      \* the records appended so far
  wire,         \* history: the connections made to every host
  output        \* the files written: "none", "json" or "both"

memory == <<index, ip, workdir, result, rec, records>>
files  == <<dirs, sess_file, minted_by>>
vars   == <<pc, memory, files, wire, output>>

host == Entries[index]

Flag(b) == IF b THEN "yes" ELSE "no"

NoFile == [by |-> None, state |-> "none"]

(***************************************************************************)
(* Records.                                                                *)
(***************************************************************************)
NewRecord(h) ==
  [host |-> h, outcome |-> "null", ip |-> None, issued |-> "null",
   material |-> "null", written |-> "null", attempted |-> "null",
   completed |-> "null", resumed |-> "null", mechanism |-> "null",
   readable |-> "null"]

Failed(outcome) == [NewRecord(host) EXCEPT !.outcome = outcome]

\* Mutation: the verdict forgets that connection 2 must have completed.
WithControlsOfOffer(r) ==
  [r EXCEPT !.outcome = "measured",
            !.readable = Flag(\/ r.resumed = "yes"
                              \/ r.written = "yes" /\ r.attempted = "yes")]

\* build_controls, whose verdict is whether a "no" may be read as a refusal.
WithControls(r) ==
  [r EXCEPT !.outcome = "measured",
            !.readable = Flag(\/ r.resumed = "yes"
                              \/ /\ r.written = "yes"
                                 /\ r.attempted = "yes"
                                 /\ r.completed = "yes")]

(***************************************************************************)
(* A connection that opened a socket, as it really went.                   *)
(***************************************************************************)
Connection(offered, out) ==
  [ip |-> ip, offered |-> offered, ended |-> out.ended,
   phase |-> out.exchange.phase, resumed |-> out.exchange.resumed,
   ticketed |-> out.exchange.tickets > 0]

Connected(offered, out) ==
  IF out.exchange.phase = "none" THEN wire
  ELSE [wire EXCEPT ![host] = Append(@, Connection(offered, out))]

-----------------------------------------------------------------------------
Init ==
  /\ pc = "resolve"
  /\ index = 1
  /\ ip = None
  /\ workdir = None
  /\ dirs = {}
  /\ sess_file = [d \in Dirs |-> NoFile]
  /\ minted_by = [d \in Dirs |-> None]
  /\ result = SpawnFailure
  /\ rec = NewRecord(host)
  /\ records = <<>>
  /\ wire = [h \in Hosts |-> <<>>]
  /\ output = "none"

\* probe_host returns or raises, and main appends the record and moves on.
\* Where the panel ends rec is left as it was.
Report(r) ==
  /\ records' = Append(records, r)
  /\ index' = index + 1
  /\ ip' = None
  /\ workdir' = None
  /\ rec' = IF index < Len(Entries) THEN NewRecord(Entries[index + 1]) ELSE rec
  /\ pc' = IF index < Len(Entries) THEN "resolve" ELSE "write_json"

\* Mutation: the record of a host that raised keeps what was filled in.
RaiseKeepingRecord ==
  /\ rec' = [rec EXCEPT !.outcome = "harness_error"]
  /\ pc' = "cleanup"

\* An exception inside the try of probe_host: the finally clause still runs,
\* and main replaces the record.
Raise ==
  /\ rec' = Failed("harness_error")
  /\ pc' = "cleanup"

(***************************************************************************)
(* resolve: the families are asked in order, and the least address of the  *)
(* first that answers is pinned.                                           *)
(***************************************************************************)
Pins(answers, a) ==
  \E f \in 1..Families :
    /\ a \in answers[f]
    /\ \A b \in answers[f] : a <= b
    /\ \A g \in 1..f-1 : answers[g] = {}

Resolve ==
  /\ pc = "resolve"
  /\ \E answers \in [1..Families -> SUBSET Addresses] :
       \/ /\ \A f \in 1..Families : answers[f] = {}
          /\ Report(Failed("dns_failure"))
       \/ /\ \E a \in Addresses :
               /\ Pins(answers, a)
               /\ ip' = a
               /\ rec' = [rec EXCEPT !.ip = a]
          /\ pc' = "mkdtemp"
          /\ UNCHANGED <<index, workdir, records>>
  /\ UNCHANGED <<result, files, wire, output>>

\* Mutation: a host that raises before its directory exists is passed over.
RaiseEarlyUnrecorded ==
  /\ pc \in {"resolve", "mkdtemp"}
  /\ index' = index + 1
  /\ ip' = None
  /\ rec' = IF index < Len(Entries) THEN NewRecord(Entries[index + 1]) ELSE rec
  /\ pc' = IF index < Len(Entries) THEN "resolve" ELSE "write_json"
  /\ UNCHANGED <<workdir, records, result, files, wire, output>>

\* getaddrinfo raised something else, or mkdtemp could not make a directory.
\* Neither is inside the try, so nothing is cleaned up.
RaiseEarly ==
  /\ pc \in {"resolve", "mkdtemp"}
  /\ Report(Failed("harness_error"))
  /\ UNCHANGED <<result, files, wire, output>>

\* Mutation: a directory that was left behind is used again.
MakeWorkdirAgain ==
  /\ pc = "mkdtemp"
  /\ \E d \in Dirs :
       /\ workdir' = d
       /\ dirs' = dirs \cup {d}
  /\ pc' = "mint"
  /\ UNCHANGED <<index, ip, result, rec, records, sess_file, minted_by, wire,
                 output>>

MakeWorkdir ==
  /\ pc = "mkdtemp"
  /\ \E d \in Dirs \ dirs :
       /\ workdir' = d
       /\ dirs' = dirs \cup {d}
  /\ pc' = "mint"
  /\ UNCHANGED <<index, ip, result, rec, records, sess_file, minted_by, wire,
                 output>>

(***************************************************************************)
(* The first connection.                                                   *)
(***************************************************************************)
RunMint ==
  /\ pc = "mint"
  /\ \E out \in Outcomes("none", TRUE) :
       /\ result' = out
       /\ wire' = Connected(None, out)
       /\ sess_file' =
            IF out.saved = "none" THEN sess_file
            ELSE [sess_file EXCEPT ![workdir] = [by |-> host, state |-> out.saved]]
  /\ pc' = "minted"
  /\ UNCHANGED <<index, ip, workdir, rec, records, dirs, minted_by, output>>

\* Mutation: an s_client that could not be started is started again.
MintFailedRetries ==
  /\ pc = "minted"
  /\ result.ended = "spawn_failure"
  /\ pc' = "mint"
  /\ result' = SpawnFailure
  /\ UNCHANGED <<index, ip, workdir, rec, records, files, wire, output>>

\* A return from probe_host after the first connection without a measurement.
MintFailed ==
  /\ pc = "minted"
  /\ \/ /\ result.ended = "spawn_failure"
        /\ rec' = [rec EXCEPT !.outcome = "openssl_spawn_failure"]
     \/ /\ result.ended # "spawn_failure"
        /\ ~HandshakeCompleted(result.text)
        /\ rec' = [rec EXCEPT !.outcome = IF result.ended = "timeout"
                                          THEN "timeout" ELSE "handshake_failure"]
  /\ pc' = "cleanup"
  /\ result' = SpawnFailure
  /\ UNCHANGED <<index, ip, workdir, records, files, wire, output>>

\* The first connection completed: the certificate chain and the tickets are
\* read, and the provenance file is written beside the session.
session_written == sess_file[workdir].state # "none"

Minted ==
  /\ pc = "minted"
  /\ result.ended # "spawn_failure"
  /\ HandshakeCompleted(result.text)
  /\ result' = SpawnFailure

\* Mutation: the route is stored where the flag belongs.
WithTicketRoute(r, text) ==
  [r EXCEPT !.issued = ObservedVia(text),
            !.material = Flag(Material \in text),
            !.written = Flag(session_written)]

WithTickets(r, text) ==
  [r EXCEPT !.issued = Flag(ObservedVia(text) # "null"),
            !.material = Flag(Material \in text),
            !.written = Flag(session_written)]

MintSaved ==
  /\ Minted
  /\ session_written
  /\ minted_by' = [minted_by EXCEPT ![workdir] = host]
  /\ rec' = WithTickets(rec, result.text)
  /\ pc' = "check"
  /\ UNCHANGED <<index, ip, workdir, records, dirs, sess_file, wire, output>>

MintUnsaved ==
  /\ Minted
  /\ ~session_written
  /\ rec' = WithControls([WithTickets(rec, result.text) EXCEPT !.attempted = "no"])
  /\ pc' = "cleanup"
  /\ UNCHANGED <<index, ip, workdir, records, files, wire, output>>

\* describe_leaf could not make its file, or minted-by could not be written.
MintRaises ==
  /\ Minted
  /\ Raise
  /\ UNCHANGED <<index, ip, workdir, records, files, wire, output>>

(***************************************************************************)
(* The second connection.                                                  *)
(***************************************************************************)
CheckProvenance ==
  /\ pc = "check"
  /\ \/ /\ minted_by[workdir] = host
        /\ pc' = "offer"
        /\ rec' = rec
     \/ Raise       \* another issuer, or a minted-by file it cannot read
  /\ UNCHANGED <<index, ip, workdir, result, records, files, wire, output>>

\* Mutation: the second connection resolves the host's name again.
RunOfferUnpinned ==
  /\ pc = "offer"
  /\ \E out \in Outcomes(sess_file[workdir].state, FALSE), a \in Addresses :
       /\ result' = out
       /\ wire' =
            IF out.exchange.phase = "none" THEN wire
            ELSE [wire EXCEPT ![host] =
                    Append(@, [Connection(sess_file[workdir].by, out)
                                 EXCEPT !.ip = a])]
  /\ pc' = "offered"
  /\ UNCHANGED <<index, ip, workdir, rec, records, files, output>>

RunOffer ==
  /\ pc = "offer"
  /\ \E out \in Outcomes(sess_file[workdir].state, FALSE) :
       /\ result' = out
       /\ wire' = Connected(sess_file[workdir].by, out)
  /\ pc' = "offered"
  /\ UNCHANGED <<index, ip, workdir, rec, records, files, output>>

\* Mutation: without a Reused line the answer is "no", completed or not.
WithAnswerAlways(r, text) ==
  [r EXCEPT !.attempted = "yes",
            !.completed = Flag(HandshakeCompleted(text)),
            !.resumed   = Flag(ReusedLinePresent(text))]

\* Mutation: a second handshake that completed counts as resumed.
WithAnswerCompleted(r, text) ==
  LET completed == HandshakeCompleted(text)
  IN [r EXCEPT !.attempted = "yes",
               !.completed = Flag(completed),
               !.resumed   = IF completed THEN "yes" ELSE "null"]

WithAnswer(r, text) ==
  LET completed == HandshakeCompleted(text)
      resumed   == ReusedLinePresent(text)
      version   == CHOOSE v \in TlsVersions(text) : TRUE
  IN [r EXCEPT !.attempted = "yes",
               !.completed = Flag(completed),
               !.resumed   = IF completed THEN Flag(resumed) ELSE "null",
               !.mechanism = IF completed /\ resumed
                             THEN ResumptionMechanism(version, r.material = "yes")
                             ELSE "null"]

\* Mutation: a second connection that cannot be read is made again.
ReadOfferRetries ==
  /\ pc = "offered"
  /\ LET completed == HandshakeCompleted(result.text) IN
     /\ pc' = IF completed THEN "cleanup" ELSE "offer"
     /\ rec' = IF completed THEN WithControls(WithAnswer(rec, result.text)) ELSE rec
  /\ result' = SpawnFailure
  /\ UNCHANGED <<index, ip, workdir, records, files, wire, output>>

\* Mutation: a second s_client that could not be started leaves no trace.
ReadOfferUnnoted ==
  /\ pc = "offered"
  /\ rec' = WithControls(IF result.ended = "spawn_failure" THEN rec
                         ELSE WithAnswer(rec, result.text))
  /\ pc' = "cleanup"
  /\ result' = SpawnFailure
  /\ UNCHANGED <<index, ip, workdir, records, files, wire, output>>

ReadOffer ==
  /\ pc = "offered"
  /\ rec' = WithControls(IF result.ended = "spawn_failure"
                         THEN [rec EXCEPT !.attempted = "yes"]
                         ELSE WithAnswer(rec, result.text))
  /\ pc' = "cleanup"
  /\ result' = SpawnFailure
  /\ UNCHANGED <<index, ip, workdir, records, files, wire, output>>

(***************************************************************************)
(* The finally clause: rmtree with ignore_errors may leave the directory,  *)
(* and either file in it, behind.                                          *)
(***************************************************************************)
RemoveWorkdir ==
  \/ /\ dirs' = dirs \ {workdir}
     /\ sess_file' = [sess_file EXCEPT ![workdir] = NoFile]
     /\ minted_by' = [minted_by EXCEPT ![workdir] = None]
  \/ /\ dirs' = dirs
     /\ \E s \in {sess_file[workdir], NoFile}, m \in {minted_by[workdir], None} :
          /\ sess_file' = [sess_file EXCEPT ![workdir] = s]
          /\ minted_by' = [minted_by EXCEPT ![workdir] = m]

Cleanup ==
  /\ pc = "cleanup"
  /\ RemoveWorkdir
  /\ Report(rec)
  /\ UNCHANGED <<result, wire, output>>

(***************************************************************************)
(* main, after the loop.                                                   *)
(***************************************************************************)
WriteJson ==
  /\ pc = "write_json"
  /\ output' = "json"
  /\ pc' = "write_md"
  /\ UNCHANGED <<memory, files, wire>>

WriteMd ==
  /\ pc = "write_md"
  /\ output' = "both"
  /\ pc' = "done"
  /\ UNCHANGED <<memory, files, wire>>

\* An interrupt, which runs the finally clause, or a kill, which does not.  The
\* process's memory is gone; records stays where results.json holds it.
Interrupt ==
  /\ pc \notin {"done", "aborted"}
  /\ pc' = "aborted"
  /\ \/ workdir # None /\ RemoveWorkdir
     \/ UNCHANGED files
  /\ ip' = None
  /\ workdir' = None
  /\ result' = SpawnFailure
  /\ index' = 1
  /\ rec' = NewRecord(Entries[1])
  /\ records' = IF output = "none" THEN <<>> ELSE records
  /\ UNCHANGED <<wire, output>>

Terminated == pc \in {"done", "aborted"} /\ UNCHANGED vars

Step ==
  \/ Resolve \/ RaiseEarly \/ MakeWorkdir
  \/ RunMint \/ MintFailed \/ MintSaved \/ MintUnsaved \/ MintRaises
  \/ CheckProvenance \/ RunOffer \/ ReadOffer
  \/ Cleanup \/ WriteJson \/ WriteMd

Next == Step \/ Interrupt \/ Terminated

Spec == Init /\ [][Next]_vars /\ WF_vars(Step)

-----------------------------------------------------------------------------
(***************************************************************************)
(* Types.                                                                  *)
(***************************************************************************)
OutcomeNames == {"null", "measured", "dns_failure", "openssl_spawn_failure",
                 "handshake_failure", "timeout", "harness_error"}

Tri == {"yes", "no", "null"}

Record ==
  [host : Hosts, outcome : OutcomeNames, ip : Addresses \cup {None},
   issued : Tri, material : Tri, written : Tri, attempted : Tri,
   completed : Tri, resumed : Tri, mechanism : Mechanisms, readable : Tri]

Connections ==
  [ip : Addresses, offered : Hosts \cup {None}, ended : {"exited", "timeout"},
   phase : Phases \ {"none"}, resumed : BOOLEAN, ticketed : BOOLEAN]

Results ==
  [ended : {"spawn_failure", "exited", "timeout"}, text : SUBSET Lines,
   saved : SaveStates, exchange : Exchange]

InTry == {"mint", "minted", "check", "offer", "offered", "cleanup"}
Ended == {"write_json", "write_md", "done"}

\* The type invariant: every variable of probe_host and main stays in its range.
TypeOK ==
  /\ pc \in {"resolve", "mkdtemp", "aborted"} \cup InTry \cup Ended
  /\ index \in 1..Len(Entries) + 1
  /\ ip \in Addresses \cup {None}
  /\ workdir \in Dirs \cup {None}
  /\ dirs \subseteq Dirs
  /\ sess_file \in [Dirs -> [by : Hosts \cup {None}, state : SaveStates]]
  /\ minted_by \in [Dirs -> Hosts \cup {None}]
  /\ result \in Results
  /\ rec \in Record
  /\ records \in Seq(Record)
  /\ wire \in [Hosts -> Seq(Connections)]
  /\ output \in {"none", "json", "both"}

(***************************************************************************)
(* Scope.                                                                  *)
(***************************************************************************)

\* No connection ever offers a host a session that another host issued
\* (check_session_provenance, probe.py:661-684, and the directory per host).
NoCrossHostReplay ==
  \A h \in Hosts : \A c \in 1..Len(wire[h]) : wire[h][c].offered \in {None, h}

\* Wherever both files are there, the minted-by file names the host the session
\* beside it came from: the check at probe.py:810 reads the truth.
ProvenanceIsTrue ==
  \A d \in Dirs :
    minted_by[d] # None /\ sess_file[d].by # None => sess_file[d].by = minted_by[d]

\* At most two connections are made to a host, and both go to the one address
\* that was pinned for it (public-endpoints/README.md:31 and 65-73).
TwoPinnedConnections ==
  \A h \in Hosts :
    /\ Len(wire[h]) <= 2
    /\ \A c, e \in 1..Len(wire[h]) : wire[h][c].ip = wire[h][e].ip

(***************************************************************************)
(* What a record r may be read to say, against the connections w that were *)
(* made to its host.                                                       *)
(***************************************************************************)
Posed(r, w) ==
  r.resumed # "null" =>
    /\ r.outcome = "measured"
    /\ Len(w) = 2
    /\ w[2].offered = r.host
    /\ w[2].ip = r.ip
    /\ w[2].phase \in {"rejected", "established"}

Truthful(r, w) ==
  /\ r.resumed = "yes" => w[2].resumed /\ w[2].phase = "established"
  /\ r.resumed = "no"  => ~w[2].resumed

Complete(r, w) ==
  /\ r.outcome = "measured"
  /\ Len(w) = 2
  /\ w[2].ended = "exited"
  /\ w[2].phase = "established"
  => r.resumed = Flag(w[2].resumed) /\ r.readable = "yes"

TicketKnown(r, w) ==
  /\ r.issued = "yes" => w[1].ticketed
  /\ r.issued = "no" /\ w[1].ended = "exited" => ~w[1].ticketed

Bare(r, w) ==
  r.outcome # "measured" =>
    /\ {r.issued, r.written, r.attempted, r.resumed, r.readable} = {"null"}
    /\ r.outcome \in {"dns_failure", "openssl_spawn_failure"} => w = <<>>
    /\ r.outcome \in {"handshake_failure", "timeout"} => Len(w) <= 1

Reported == 1..Len(records)

Row(i) == wire[records[i].host]

\* A record answers the resumption question, either way, only if it was posed:
\* a second connection reached a listener at the pinned address and offered the
\* session of this very host.
AnswerWasPosed == \A i \in Reported : Posed(records[i], Row(i))

\* An answer is never wrong about whether the second connection resumed, and a
\* "yes" is a completed handshake, whatever a timeout cut off the transcript.
AnswerIsTrue == \A i \in Reported : Truthful(records[i], Row(i))

\* Nor is an answer lost: when the second handshake completed and s_client was
\* not killed, a measured record holds the answer and says it may be read.
AnswerIsRecorded == \A i \in Reported : Complete(records[i], Row(i))

\* A record may be read exactly when it holds an answer (build_controls against
\* the resumption it is built from).
ReadableIffAnswered ==
  \A i \in Reported : records[i].readable = "yes" <=> records[i].resumed # "null"

\* A ticket is recorded only if one arrived, and when s_client was not killed
\* one that arrived is recorded (parse_tickets' two routes).
TicketReportIsTrue == \A i \in Reported : TicketKnown(records[i], Row(i))

\* Hosts that failed carry no measurement, and their outcome agrees with the
\* connections that were made (selftest.sh:187-188, "no invented measurements").
FailureIsBare == \A i \in Reported : Bare(records[i], Row(i))

(***************************************************************************)
(* The run as a whole.                                                     *)
(***************************************************************************)

\* results.json is written only with one record for every host of the panel, in
\* its order, and every one with an outcome: no silent gap (selftest.sh:181).
OutputIsComplete ==
  output # "none" =>
    /\ Len(records) = Len(Entries)
    /\ \A i \in 1..Len(Entries) :
         records[i].host = Entries[i] /\ records[i].outcome # "null"

\* Whatever happens to a host, the run reaches its end: "a bad host must not end
\* the run" (probe.py:1277), and nothing is retried for ever.
Terminates == <>(pc \in {"done", "aborted"})

(***************************************************************************)
(* What the documentation says and the code does not keep.                 *)
(***************************************************************************)

\* public-endpoints/README.md:81-82: a "no" means that the server chose a full
\* handshake.
RefusalMeansFullHandshake ==
  \A i \in Reported :
    records[i].readable = "yes" /\ records[i].resumed = "no"
      => Row(i)[2].phase = "established"

\* public-endpoints/README.md:80-81: a "no" means that a ticket was issued.
RefusalMeansTicketIssued ==
  \A i \in Reported :
    records[i].readable = "yes" /\ records[i].resumed = "no"
      => records[i].issued = "yes"
=============================================================================
