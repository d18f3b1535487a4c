--------------------------- MODULE TicketPrompting ---------------------------
(***************************************************************************)
(* public-endpoints/ticket-prompting: run.sh runs probe.py twice over one  *)
(* directory, without and with a request, renames what each run wrote, and *)
(* has compare.py compare the two.                                         *)
(*                                                                         *)
(* A document is what a run of probe.py wrote to results.json, cut down to *)
(* what compare.py decides on: the request, the digest of the panel, and   *)
(* for every host whether a ticket was issued ("none" when its record has  *)
(* no session_ticket object, as that of every host that failed).  Which    *)
(* invocation of run.sh wrote it is history.  Files outlive an invocation  *)
(* that fails, and the panel may be edited at any time.                    *)
(***************************************************************************)
EXTENDS Naturals, FiniteSets

CONSTANTS
  Panels,         \* the contents panel.txt may have; a digest tells them apart
  HostsIn(_),     \* the hosts of each
  MaxInvocations  \* bound: how often run.sh is started

ASSUME PromptingAssumption ==
  /\ Panels # {}
  /\ \A p \in Panels : IsFiniteSet(HostsIn(p))
  /\ MaxInvocations \in Nat

VARIABLES
  pc,             \* where run.sh, or the probe.py it runs, is
  request,        \* the --request of the current run of probe.py
  invocation,     \* how often run.sh was started
  panel,          \* panel.txt
  entries,        \* the panel that probe.py has read
  digest,         \* the panel whose digest it has computed
  json,           \* the files *results.json
  md              \* the files *results.md

vars == <<pc, request, invocation, panel, entries, digest, json, md>>

Requests == {"none", "head"}
Issued   == {"yes", "no", "none"}

\* The name the two runs of probe.py are kept under.
KeptAs(r) == IF r = "none" THEN "silent" ELSE "head"
Kept  == {"silent", "head"}
Names == {"results"} \cup Kept

Documents ==
  [invocation : 1..MaxInvocations, request : Requests, digest : Panels,
   issued : UNION {[HostsIn(p) -> Issued] : p \in Panels}]

WriteUps == [invocation : 1..MaxInvocations, request : Requests]

\* A file is missing, cut short while it was written, or whole.
Missing == [state |-> "missing"]
Cut     == [state |-> "cut"]
Whole(d) == [state |-> "whole", doc |-> d]
Files(D) == {Missing, Cut} \cup {Whole(d) : d \in D}

-----------------------------------------------------------------------------
(* compare.py, of the documents S (silent) and H (head)                    *)

Hosts(D) == DOMAIN D.issued
IssuedIn(D) == {h \in Hosts(D) : D.issued[h] = "yes"}

\* Mutation: the digests are not compared.
SamePanelUnchecked(S, H) == TRUE

SamePanel(S, H) == S.digest = H.digest

OneFlagDifferent(S, H) == S.request # H.request

\* ["issued"] is read of every record of both documents.
Readable(S, H) == \A D \in {S, H} : \A h \in Hosts(D) : D.issued[h] # "none"

Withheld(S, H) ==
  {h \in Hosts(S) \cap Hosts(H) : S.issued[h] # "yes" /\ H.issued[h] = "yes"}

Loads == \A k \in Kept : json[k].state = "whole"

\* compare.py gets to its last line.
PrintsTable ==
  /\ Loads
  /\ LET S == json["silent"].doc
         H == json["head"].doc
     IN SamePanel(S, H) /\ OneFlagDifferent(S, H) /\ Readable(S, H)

-----------------------------------------------------------------------------
Init ==
  /\ pc = "idle"
  /\ request = "none"
  /\ invocation = 0
  /\ panel \in Panels
  /\ entries = panel
  /\ digest = panel
  /\ json = [f \in Names |-> Missing]
  /\ md = [f \in Names |-> Missing]

Start ==
  /\ pc = "idle"
  /\ invocation < MaxInvocations
  /\ pc' = "selftest"
  /\ invocation' = invocation + 1
  /\ request' = "none"
  /\ UNCHANGED <<panel, entries, digest, json, md>>

SelftestPasses ==
  /\ pc = "selftest"
  /\ pc' = "read"
  /\ UNCHANGED <<request, invocation, panel, entries, digest, json, md>>

ReadPanel ==
  /\ pc = "read"
  /\ entries' = panel
  /\ pc' = "hash"
  /\ UNCHANGED <<request, invocation, panel, digest, json, md>>

\* sha256_file opens the file a second time.
HashPanel ==
  /\ pc = "hash"
  /\ digest' = panel
  /\ pc' = "json"
  /\ UNCHANGED <<request, invocation, panel, entries, json, md>>

\* The loop over the panel, which gives any answer, and its results.json.
WriteJson ==
  /\ pc = "json"
  /\ \E issued \in [HostsIn(entries) -> Issued] :
       json' = [json EXCEPT !["results"] =
                  Whole([invocation |-> invocation, request |-> request,
                         digest |-> digest, issued |-> issued])]
  /\ pc' = "md"
  /\ UNCHANGED <<request, invocation, panel, entries, digest, md>>

WriteMd ==
  /\ pc = "md"
  /\ md' = [md EXCEPT !["results"] =
              Whole([invocation |-> invocation, request |-> request])]
  /\ pc' = "mv_json"
  /\ UNCHANGED <<request, invocation, panel, entries, digest, json>>

\* mv replaces the file of an earlier invocation.
Renamed(files, name) ==
  [files EXCEPT !["results"] = Missing, ![name] = files["results"]]

RenameJson ==
  /\ pc = "mv_json"
  /\ json' = Renamed(json, KeptAs(request))
  /\ pc' = "mv_md"
  /\ UNCHANGED <<request, invocation, panel, entries, digest, md>>

\* Mutation: the write-up of the second run is kept under the name of the first.
RenameMdSilent ==
  /\ pc = "mv_md"
  /\ md' = Renamed(md, "silent")
  /\ request' = "head"
  /\ pc' = IF request = "none" THEN "read" ELSE "compare"
  /\ UNCHANGED <<invocation, panel, entries, digest, json>>

RenameMd ==
  /\ pc = "mv_md"
  /\ md' = Renamed(md, KeptAs(request))
  /\ request' = "head"
  /\ pc' = IF request = "none" THEN "read" ELSE "compare"
  /\ UNCHANGED <<invocation, panel, entries, digest, json>>

\* compare.py changes nothing, whether it prints its table or not.
Compare ==
  /\ pc = "compare"
  /\ pc' = "idle"
  /\ UNCHANGED <<request, invocation, panel, entries, digest, json, md>>

\* What a command that fails or is killed may leave of the file it writes.
Truncated(at, files) ==
  IF pc = at THEN {files, [files EXCEPT !["results"] = Cut]} ELSE {files}

\* Mutation: without set -e the next command runs all the same.
FailIgnored ==
  /\ pc \notin {"idle", "compare"}
  /\ json' \in Truncated("json", json)
  /\ md' \in Truncated("md", md)
  /\ pc' = CASE pc = "selftest" -> "read"
             [] pc \in {"read", "hash", "json", "md"} -> "mv_json"
             [] pc = "mv_json" -> "mv_md"
             [] pc = "mv_md" -> IF request = "none" THEN "read" ELSE "compare"
  /\ request' = IF pc = "mv_md" THEN "head" ELSE request
  /\ UNCHANGED <<invocation, panel, entries, digest>>

\* set -e: whichever command fails is the last one.
Fail ==
  /\ pc \notin {"idle", "compare"}
  /\ json' \in Truncated("json", json)
  /\ md' \in Truncated("md", md)
  /\ pc' = "idle"
  /\ UNCHANGED <<request, invocation, panel, entries, digest>>

EditPanel ==
  /\ panel' \in Panels \ {panel}
  /\ UNCHANGED <<pc, request, invocation, entries, digest, json, md>>

Next ==
  \/ Start \/ SelftestPasses
  \/ ReadPanel \/ HashPanel \/ WriteJson \/ WriteMd
  \/ RenameJson \/ RenameMd \/ Compare
  \/ Fail
  \/ EditPanel

Spec == Init /\ [][Next]_vars

-----------------------------------------------------------------------------
\* Types, and what every name may hold: only results.* is ever cut short, and a
\* kept file is of the run its name says (run.sh:27-35).
TypeOK ==
  /\ pc \in {"idle", "selftest", "read", "hash", "json", "md",
             "mv_json", "mv_md", "compare"}
  /\ request \in Requests
  /\ invocation \in 0..MaxInvocations
  /\ {panel, entries, digest} \subseteq Panels
  /\ json \in [Names -> Files(Documents)]
  /\ md \in [Names -> Files(WriteUps)]
  /\ \A k \in Kept, files \in {json, md} :
       files[k].state = "whole" => KeptAs(files[k].doc.request) = k

\* A kept file is never one that was cut short, whatever failed and how often
\* run.sh was started again over what was left (run.sh:15, 28-35).
KeptAreWhole == \A k \in Kept : Cut \notin {json[k], md[k]}

\* When run.sh comes to its comparison, what is compared are the two runs it has
\* just made and not files of an earlier invocation, and each json stands beside
\* the md of the same run.
ComparesItsOwnRuns ==
  pc = "compare" =>
    \A k \in Kept, files \in {json, md} :
      /\ files[k].state = "whole"
      /\ files[k].doc.invocation = invocation
      /\ KeptAs(files[k].doc.request) = k

\* The file is of the run of probe.py with this request, of this invocation.
Own(file, r) ==
  /\ file.state = "whole"
  /\ file.doc.invocation = invocation
  /\ file.doc.request = r

\* The inductive invariant behind the two properties above: where each file of
\* the current invocation is, at every command of run.sh and step of probe.py.
ProgressInv ==
  /\ pc # "idle" => invocation # 0
  /\ pc = "selftest" => request = "none"
  /\ pc \in {"md", "mv_json"} => Own(json["results"], request)
  /\ pc \in {"mv_json", "mv_md"} => Own(md["results"], request)
  /\ pc = "mv_md" => Own(json[KeptAs(request)], request)
  /\ request = "head" /\ pc \notin {"idle", "selftest"} =>
       Own(json["silent"], "none") /\ Own(md["silent"], "none")
  /\ pc = "compare" =>
       request = "head" /\ Own(json["head"], "head") /\ Own(md["head"], "head")

\* The probe.py that wrote D saw the same panel when it read it and when it
\* computed its digest.
DigestIsOfItsHosts(D) == Hosts(D) = HostsIn(D.digest)

\* The counts that compare.py prints below its table agree with the table, at
\* whatever moment it is run: every ticket of the head run was issued in the
\* silent run too or is listed as withheld (compare.py:54-74).  The two counts
\* are over both documents and the list over the hosts they share.
FiguresAgree ==
  PrintsTable =>
    LET S == json["silent"].doc
        H == json["head"].doc
    IN DigestIsOfItsHosts(S) /\ DigestIsOfItsHosts(H) =>
         /\ IssuedIn(H) \subseteq IssuedIn(S) \cup Withheld(S, H)
         /\ Cardinality(IssuedIn(H)) <=
              Cardinality(IssuedIn(S)) + Cardinality(Withheld(S, H))
=============================================================================
