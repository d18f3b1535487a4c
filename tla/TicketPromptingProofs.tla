------------------------ MODULE TicketPromptingProofs ------------------------
(***************************************************************************)
(* What run.sh keeps and compares, proved for any panels and any number of *)
(* invocations, each of which may fail at any command.                     *)
(***************************************************************************)
EXTENDS TicketPrompting, FiniteSetTheorems, TLAPS

\* What run.sh moves over a kept file is whole and of the run that the name says.
LEMMA RenamedFiles ==
  ASSUME NEW D, NEW files \in [Names -> Files(D)], NEW r \in Requests
  PROVE  /\ Renamed(files, KeptAs(r)) \in [Names -> Files(D)]
         /\ Renamed(files, KeptAs(r))[KeptAs(r)] = files["results"]
         /\ Renamed(files, KeptAs(r))["results"] = Missing
         /\ \A k \in Kept \ {KeptAs(r)} : Renamed(files, KeptAs(r))[k] = files[k]
BY DEF Renamed, Names, Kept, KeptAs, Requests, Files

\* A file cut short leaves the kept ones alone.
LEMMA TruncatedFiles ==
  ASSUME NEW D, NEW files \in [Names -> Files(D)], NEW at,
         NEW left \in Truncated(at, files)
  PROVE  /\ left \in [Names -> Files(D)]
         /\ \A k \in Kept : left[k] = files[k]
BY DEF Truncated, Names, Kept, Files

\* The inductive invariant of run.sh and its files.
Inv == TypeOK /\ KeptAreWhole /\ ProgressInv

\* It holds before the first invocation.
LEMMA InitInv == Init => Inv
<1> SUFFICES ASSUME Init PROVE Inv
  OBVIOUS
<1>1. /\ json \in [Names -> Files(Documents)]
      /\ md \in [Names -> Files(WriteUps)]
      /\ \A f \in Names : json[f] = Missing /\ md[f] = Missing
  BY DEF Init, Files
<1>2. \A k \in Kept : k \in Names
  BY DEF Names
<1>3. Missing.state = "missing" /\ Missing # Cut
  BY DEF Missing, Cut
<1>4. TypeOK
  BY <1>1, <1>2, <1>3, PromptingAssumption DEF Init, TypeOK, Requests
<1>5. KeptAreWhole
  BY <1>1, <1>2, <1>3 DEF KeptAreWhole
<1>6. ProgressInv
  BY DEF Init, ProgressInv
<1> QED
  BY <1>4, <1>5, <1>6 DEF Inv

\* A step that leaves the files alone and does not go where they are promised.
LEMMA FilesUnchanged ==
  ASSUME Inv, UNCHANGED <<json, md>>,
         pc' \in {"idle", "selftest", "read", "hash", "json", "md",
                  "mv_json", "mv_md", "compare"},
         request' \in Requests, invocation' \in 0..MaxInvocations,
         {panel', entries', digest'} \subseteq Panels
  PROVE  TypeOK' /\ KeptAreWhole'
BY DEF Inv, TypeOK, KeptAreWhole

\* Every command of run.sh and every crash keeps it.
LEMMA NextInv == Inv /\ [Next]_vars => Inv'
<1> SUFFICES ASSUME Inv, [Next]_vars PROVE Inv'
  OBVIOUS
<1>t. TypeOK /\ KeptAreWhole /\ ProgressInv
  BY DEF Inv
<1>c. Kept = {"silent", "head"} /\ Requests = {"none", "head"}
      /\ KeptAs("none") = "silent" /\ KeptAs("head") = "head"
  BY DEF Kept, Requests, KeptAs
<1>1. CASE Start
  <2>1. invocation' \in 0..MaxInvocations /\ invocation' # 0
    BY <1>1, <1>t, PromptingAssumption DEF Start, TypeOK
  <2>2. TypeOK' /\ KeptAreWhole'
    BY <1>1, <2>1, <1>t, <1>c, FilesUnchanged DEF Start, TypeOK
  <2>3. ProgressInv'
    BY <1>1, <2>1 DEF Start, ProgressInv
  <2> QED
    BY <2>2, <2>3 DEF Inv
<1>2. CASE SelftestPasses \/ ReadPanel \/ HashPanel
  <2>1. TypeOK' /\ KeptAreWhole'
    BY <1>2, <1>t, FilesUnchanged DEF SelftestPasses, ReadPanel, HashPanel, TypeOK
  <2>2. ProgressInv'
    BY <1>2, <1>t DEF SelftestPasses, ReadPanel, HashPanel, ProgressInv, Own
  <2> QED
    BY <2>1, <2>2 DEF Inv
<1>3. CASE WriteJson
  <2> PICK issued \in [HostsIn(entries) -> Issued] :
        json' = [json EXCEPT !["results"] =
                  Whole([invocation |-> invocation, request |-> request,
                         digest |-> digest, issued |-> issued])]
    BY <1>3 DEF WriteJson
  <2> DEFINE d == [invocation |-> invocation, request |-> request,
                   digest |-> digest, issued |-> issued]
  <2>1. d \in Documents
    <3>1. invocation \in 1..MaxInvocations
      BY <1>3, <1>t DEF WriteJson, ProgressInv, TypeOK
    <3>2. issued \in UNION {[HostsIn(p) -> Issued] : p \in Panels}
      BY <1>t DEF TypeOK
    <3> QED
      BY <3>1, <3>2, <1>t DEF Documents, TypeOK
  <2>2. /\ json' \in [Names -> Files(Documents)]
        /\ json'["results"] = Whole(d)
        /\ \A k \in Kept : json'[k] = json[k]
    BY <2>1, <1>t DEF TypeOK, Files, Names, Kept
  <2>3. Own(json["results"], request)'
    BY <2>2, <1>3 DEF Own, Whole, WriteJson
  <2>4. TypeOK'
    BY <2>2, <1>3, <1>t DEF TypeOK, WriteJson
  <2>5. KeptAreWhole'
    BY <2>2, <1>3, <1>t DEF KeptAreWhole, WriteJson
  <2>6. ProgressInv'
    BY <2>2, <2>3, <1>3, <1>t, <1>c DEF ProgressInv, WriteJson, Own
  <2> QED
    BY <2>4, <2>5, <2>6 DEF Inv
<1>4. CASE WriteMd
  <2> DEFINE d == [invocation |-> invocation, request |-> request]
  <2>1. d \in WriteUps
    <3>1. invocation \in 1..MaxInvocations
      BY <1>4, <1>t DEF WriteMd, ProgressInv, TypeOK
    <3> QED
      BY <3>1, <1>t DEF WriteUps, TypeOK
  <2>2. /\ md' \in [Names -> Files(WriteUps)]
        /\ md'["results"] = Whole(d)
        /\ \A k \in Kept : md'[k] = md[k]
    BY <2>1, <1>4, <1>t DEF WriteMd, TypeOK, Files, Names, Kept
  <2>3. Own(md["results"], request)'
    BY <2>2, <1>4 DEF Own, Whole, WriteMd
  <2>4. TypeOK'
    BY <2>2, <1>4, <1>t DEF TypeOK, WriteMd
  <2>5. KeptAreWhole'
    BY <2>2, <1>4, <1>t DEF KeptAreWhole, WriteMd
  <2>6. ProgressInv'
    BY <2>2, <2>3, <1>4, <1>t, <1>c DEF ProgressInv, WriteMd, Own
  <2> QED
    BY <2>4, <2>5, <2>6 DEF Inv
<1>5. CASE RenameJson
  <2>1. /\ json' \in [Names -> Files(Documents)]
        /\ json'[KeptAs(request)] = json["results"]
        /\ \A k \in Kept \ {KeptAs(request)} : json'[k] = json[k]
    BY <1>5, <1>t, RenamedFiles DEF RenameJson, TypeOK
  <2>2. Own(json["results"], request) /\ Own(md["results"], request)
    BY <1>5, <1>t DEF RenameJson, ProgressInv
  <2>3. TypeOK'
    <3>1. \A k \in Kept : json'[k].state = "whole" => KeptAs(json'[k].doc.request) = k
      BY <2>1, <2>2, <1>t DEF Own, TypeOK
    <3> QED
      BY <2>1, <3>1, <1>5, <1>t DEF TypeOK, RenameJson
  <2>4. KeptAreWhole'
    BY <2>1, <2>2, <1>5, <1>t DEF KeptAreWhole, RenameJson, Own, Cut
  <2>5. ProgressInv'
    BY <2>1, <2>2, <1>5, <1>t, <1>c DEF ProgressInv, RenameJson, Own, TypeOK
  <2> QED
    BY <2>3, <2>4, <2>5 DEF Inv
<1>6. CASE RenameMd
  <2>1. /\ md' \in [Names -> Files(WriteUps)]
        /\ md'[KeptAs(request)] = md["results"]
        /\ \A k \in Kept \ {KeptAs(request)} : md'[k] = md[k]
    BY <1>6, <1>t, RenamedFiles DEF RenameMd, TypeOK
  <2>2. Own(md["results"], request) /\ Own(json[KeptAs(request)], request)
    BY <1>6, <1>t DEF RenameMd, ProgressInv
  <2>3. TypeOK'
    <3>1. \A k \in Kept : md'[k].state = "whole" => KeptAs(md'[k].doc.request) = k
      BY <2>1, <2>2, <1>t DEF Own, TypeOK
    <3> QED
      BY <2>1, <3>1, <1>6, <1>t, <1>c DEF TypeOK, RenameMd
  <2>4. KeptAreWhole'
    BY <2>1, <2>2, <1>6, <1>t DEF KeptAreWhole, RenameMd, Own, Cut
  <2>5. ProgressInv'
    BY <2>1, <2>2, <1>6, <1>t, <1>c DEF ProgressInv, RenameMd, Own, TypeOK
  <2> QED
    BY <2>3, <2>4, <2>5 DEF Inv
<1>7. CASE Compare \/ EditPanel \/ UNCHANGED vars
  <2>1. TypeOK' /\ KeptAreWhole'
    BY <1>7, <1>t, FilesUnchanged DEF Compare, EditPanel, vars, TypeOK
  <2>2. ProgressInv'
    BY <1>7, <1>t DEF Compare, EditPanel, vars, ProgressInv, Own
  <2> QED
    BY <2>1, <2>2 DEF Inv
<1>8. CASE Fail
  <2>1. /\ json' \in [Names -> Files(Documents)]
        /\ md' \in [Names -> Files(WriteUps)]
        /\ \A k \in Kept : json'[k] = json[k] /\ md'[k] = md[k]
    BY <1>8, <1>t, TruncatedFiles DEF Fail, TypeOK
  <2>2. TypeOK'
    BY <2>1, <1>8, <1>t DEF TypeOK, Fail
  <2>3. KeptAreWhole'
    BY <2>1, <1>t DEF KeptAreWhole
  <2>4. ProgressInv'
    BY <1>8 DEF Fail, ProgressInv
  <2> QED
    BY <2>2, <2>3, <2>4 DEF Inv
<1> QED
  BY <1>1, <1>2, <1>3, <1>4, <1>5, <1>6, <1>7, <1>8 DEF Next

\* The inductive invariant holds in every reachable state.
THEOREM PromptingInvariance == Spec => [](TypeOK /\ ProgressInv)
<1>1. Spec => []Inv
  BY InitInv, NextInv, PTL DEF Spec
<1>2. Inv => TypeOK /\ ProgressInv
  BY DEF Inv
<1> QED
  BY <1>1, <1>2, PTL

\* Every state of run.sh and its files is well typed, and a kept file is of the
\* run its name says.
THEOREM PromptingTypes == Spec => []TypeOK
BY PromptingInvariance, PTL

\* Whatever fails, and however often run.sh is started again over what was left,
\* no kept file is one that was cut short.
THEOREM KeptFiles == Spec => []KeptAreWhole
<1>1. Spec => []Inv
  BY InitInv, NextInv, PTL DEF Spec
<1>2. Inv => KeptAreWhole
  BY DEF Inv
<1> QED
  BY <1>1, <1>2, PTL

\* What run.sh compares are the two runs it has just made, each with its write-up.
THEOREM OwnRuns == Spec => []ComparesItsOwnRuns
<1>1. Spec => []Inv
  BY InitInv, NextInv, PTL DEF Spec
<1>2. Inv => ComparesItsOwnRuns
  <2> SUFFICES ASSUME Inv, pc = "compare", NEW k \in Kept, NEW files \in {json, md}
               PROVE  /\ files[k].state = "whole"
                      /\ files[k].doc.invocation = invocation
                      /\ KeptAs(files[k].doc.request) = k
    BY DEF ComparesItsOwnRuns
  <2>1. request = "head"
        /\ Own(json["silent"], "none") /\ Own(md["silent"], "none")
        /\ Own(json["head"], "head") /\ Own(md["head"], "head")
    BY DEF Inv, ProgressInv
  <2> QED
    BY <2>1 DEF Own, Kept, KeptAs
<1> QED
  BY <1>1, <1>2, PTL

\* A kept file that is whole holds a document, of a panel with finitely many hosts.
LEMMA WholeDocument ==
  ASSUME TypeOK, NEW f \in Kept, json[f].state = "whole"
  PROVE  json[f].doc.digest \in Panels /\ IsFiniteSet(HostsIn(json[f].doc.digest))
<1>1. json[f] \in Files(Documents)
  BY DEF TypeOK, Names
<1>2. PICK d \in Documents : json[f] = Whole(d)
  BY <1>1 DEF Files, Missing, Cut
<1>3. json[f].doc.digest \in Panels
  BY <1>2 DEF Whole, Documents
<1> QED
  BY <1>3, PromptingAssumption

\* The figures below the table, of two documents of one panel.
LEMMA Figures ==
  ASSUME NEW S, NEW H, SamePanel(S, H), DigestIsOfItsHosts(S), DigestIsOfItsHosts(H),
         IsFiniteSet(HostsIn(S.digest))
  PROVE  /\ IssuedIn(H) \subseteq IssuedIn(S) \cup Withheld(S, H)
         /\ Cardinality(IssuedIn(H)) <=
              Cardinality(IssuedIn(S)) + Cardinality(Withheld(S, H))
<1>1. Hosts(S) = Hosts(H) /\ IsFiniteSet(Hosts(S))
  BY DEF SamePanel, DigestIsOfItsHosts
<1>2. IssuedIn(H) \subseteq IssuedIn(S) \cup Withheld(S, H)
  BY <1>1 DEF IssuedIn, Withheld
<1>3. IssuedIn(S) \subseteq Hosts(S) /\ Withheld(S, H) \subseteq Hosts(S)
  BY DEF IssuedIn, Withheld
<1>4. IsFiniteSet(IssuedIn(S)) /\ IsFiniteSet(Withheld(S, H))
  BY <1>1, <1>3, FS_Subset
<1> DEFINE I == IssuedIn(S)
           W == Withheld(S, H)
<1>5. IsFiniteSet(I) /\ IsFiniteSet(W) /\ IssuedIn(H) \subseteq I \cup W
  BY <1>2, <1>4
<1> HIDE DEF I, W
<1>6. /\ IsFiniteSet(I \cup W)
      /\ Cardinality(I \cup W) = Cardinality(I) + Cardinality(W) - Cardinality(I \cap W)
  BY <1>5, FS_Union
<1>7. Cardinality(IssuedIn(H)) <= Cardinality(I \cup W)
  BY <1>5, <1>6, FS_Subset
<1>8. /\ Cardinality(I) \in Nat /\ Cardinality(W) \in Nat
      /\ Cardinality(I \cap W) \in Nat /\ Cardinality(I \cup W) \in Nat
      /\ Cardinality(IssuedIn(H)) \in Nat
  <2>1. I \cap W \subseteq I
    OBVIOUS
  <2>2. IsFiniteSet(I \cap W) /\ IsFiniteSet(IssuedIn(H))
    BY <1>5, <1>6, <2>1, FS_Subset
  <2> QED
    BY <1>5, <1>6, <2>2, FS_CardinalityType
<1>9. Cardinality(IssuedIn(H)) <= Cardinality(I) + Cardinality(W)
  BY <1>6, <1>7, <1>8
<1> QED
  BY <1>2, <1>9 DEF I, W

\* Whenever compare.py prints its table, its two counts and its list agree, if each
\* digest is of the hosts beside it (compare.py:54-74).
THEOREM TableAddsUp == Spec => []FiguresAgree
<1>1. TypeOK => FiguresAgree
  <2> SUFFICES ASSUME TypeOK, PrintsTable,
                      DigestIsOfItsHosts(json["silent"].doc),
                      DigestIsOfItsHosts(json["head"].doc)
               PROVE  LET S == json["silent"].doc
                          H == json["head"].doc
                      IN /\ IssuedIn(H) \subseteq IssuedIn(S) \cup Withheld(S, H)
                         /\ Cardinality(IssuedIn(H)) <=
                              Cardinality(IssuedIn(S)) + Cardinality(Withheld(S, H))
    BY DEF FiguresAgree
  <2>1. SamePanel(json["silent"].doc, json["head"].doc)
        /\ json["silent"].state = "whole" /\ "silent" \in Kept
    BY DEF PrintsTable, Loads, Kept
  <2>2. IsFiniteSet(HostsIn(json["silent"].doc.digest))
    BY <2>1, WholeDocument
  <2> QED
    BY <2>1, <2>2, Figures
<1> QED
  BY <1>1, PromptingTypes, PTL

=============================================================================
