--------------------------- MODULE ProbeInvariant ---------------------------
(***************************************************************************)
(* The inductive invariant of Probe, in four parts: where the loop is,     *)
(* what the directories hold, which connections each host has had, and     *)
(* what the record being filled in and the reported ones say.  Module      *)
(* ProbeProofs proves it; TLC checks it beside the properties it implies.  *)
(***************************************************************************)
EXTENDS Probe

Probing  == {"resolve", "mkdtemp"} \cup InTry
Panel    == 1..Len(Entries)

\* The loop takes the panel in order and appends one record for every host.
LoopInv ==
  /\ pc \in Probing => index \in Panel /\ rec.host = host
  /\ pc \in Ended => index = Len(Entries) + 1
  /\ pc # "aborted" => Len(records) = index - 1
  /\ pc = "aborted" => output # "none" \/ records = <<>>
  /\ pc \in InTry <=> workdir # None
  /\ pc \in InTry \cup {"mkdtemp"} => ip # None
  /\ output # "none" =>
       pc \in {"write_md", "done", "aborted"} /\ Len(records) = Len(Entries)
  /\ pc \in {"write_md", "done"} => output # "none"
  /\ pc = "cleanup" => rec.outcome # "null"
  /\ Len(records) <= Len(Entries)
  /\ \A i \in Reported : records[i].host = Entries[i] /\ records[i].outcome # "null"

\* A directory is empty until its host's first connection, and then holds that
\* host's session only, with a minted-by file that tells the truth.
FilesInv ==
  /\ \A d \in Dirs \ dirs : sess_file[d] = NoFile /\ minted_by[d] = None
  /\ pc \in InTry => workdir \in dirs
  /\ pc = "mint" => sess_file[workdir] = NoFile
  /\ pc \in {"mint", "minted"} => minted_by[workdir] = None
  /\ pc = "minted" => sess_file[workdir].by \in {None, host}
  /\ \A d \in Dirs : sess_file[d].state # "none" => sess_file[d].by # None
  /\ pc \in {"check", "offer", "offered"} =>
       sess_file[workdir].state # "none" /\ sess_file[workdir].by = host
  /\ ProvenanceIsTrue

\* A host that is still to come has had no connection, and the one being probed
\* as many as its place in probe_host says.
Before(i) == i > index \/ (i = index /\ pc \in {"resolve", "mkdtemp", "mint"})

\* The connection result tells of, if it made one, is the n-th to the host.
Made(n, offered) ==
  IF result.exchange.phase = "none"
  THEN Len(wire[host]) = n - 1
  ELSE Len(wire[host]) = n /\ wire[host][n] = Connection(offered, result)

WireInv ==
  /\ NoCrossHostReplay
  /\ TwoPinnedConnections
  /\ pc # "aborted" => \A i \in Panel : Before(i) => wire[Entries[i]] = <<>>
  /\ pc = "minted" => result \in Outcomes("none", TRUE) /\ Made(1, None)
  /\ pc \in {"check", "offer"} => Len(wire[host]) = 1
  /\ pc \in {"check", "offer", "offered"} => wire[host][1].ip = ip
  /\ pc = "offered" =>
       result \in Outcomes(sess_file[workdir].state, FALSE) /\ Made(2, host)

Unread(r) == {r.completed, r.resumed, r.readable, r.mechanism} = {"null"}

Honest(r, w) ==
  /\ Posed(r, w)
  /\ Truthful(r, w)
  /\ Complete(r, w)
  /\ r.readable = "yes" <=> r.resumed # "null"
  /\ TicketKnown(r, w)
  /\ Bare(r, w)

RecordInv ==
  /\ pc = "resolve" => rec = NewRecord(host)
  /\ pc \in {"mkdtemp", "mint", "minted"} => rec = [NewRecord(host) EXCEPT !.ip = ip]
  /\ pc \in {"check", "offer", "offered"} =>
       /\ rec.ip = ip /\ rec.written = "yes" /\ rec.attempted = "null" /\ Unread(rec)
       /\ TicketKnown(rec, wire[host])
  /\ pc = "cleanup" => Honest(rec, wire[host])
  /\ \A i \in Reported : Honest(records[i], Row(i))

\* The four parts together are kept by every step.
IInv == LoopInv /\ FilesInv /\ WireInv /\ RecordInv

(***************************************************************************)
(* How many steps a run has left at most: eight for every host that is     *)
(* still to come, what is left of the present one, and the two files.      *)
(***************************************************************************)
Stage == [resolve |-> 8, mkdtemp |-> 7, mint |-> 6, minted |-> 5, check |-> 4,
          offer |-> 3, offered |-> 2, cleanup |-> 1]

Left(place, i) ==
  CASE place \in Probing     -> 8 * (Len(Entries) - i) + Stage[place] + 2
    [] place = "write_json"  -> 2
    [] place = "write_md"    -> 1
    [] OTHER                 -> 0

StepsLeft == Left(pc, index)

\* Every step of a run brings it nearer to its end: nothing is retried, and no
\* host is taken twice.
RunsDown == [][StepsLeft' \in 0..StepsLeft - 1]_vars
=============================================================================
