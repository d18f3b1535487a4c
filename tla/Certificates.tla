---------------------------- MODULE Certificates ----------------------------
(***************************************************************************)
(* How public-endpoints/probe.py reads the certificates of a host: the     *)
(* chain out of the transcript of the first connection (parse_chain_pems), *)
(* the leaf out of what openssl x509 prints (describe_leaf), and the       *)
(* common name of its issuer out of a distinguished name (split_rfc2253).  *)
(*                                                                         *)
(* A transcript is a sequence of lines, a certificate one of them.  A name *)
(* is a sequence of attributes in the order RFC 2253 prints them; a value  *)
(* is a sequence over the characters that the printing or the reading      *)
(* treats differently, and one that stands for all others.  Spaces, which  *)
(* are stripped, and the escapes other than those of "," and "\" are left  *)
(* out.                                                                    *)
(***************************************************************************)
EXTENDS Naturals, Sequences, SequencesExt

CONSTANTS
  Types,        \* attribute types, "CN" among them
  MaxAttributes,
  MaxValue,     \* length of a value
  MaxChain      \* certificates a server sends

\* What separates the fields of a printed name, and what escapes it in a value.
Comma     == ","
Backslash == "\\"

\* A type is a short name or an object identifier.
ASSUME TypesAssumption ==
  /\ "CN" \in Types
  /\ \A t \in Types : t \notin {"=", Comma, Backslash}

ASSUME BoundsAssumption ==
  MaxAttributes \in Nat /\ MaxValue \in Nat /\ MaxChain \in Nat

Characters == {"a", "=", Comma, Backslash}
Values     == UNION {[1..n -> Characters] : n \in 0..MaxValue}
Attributes == [type : Types, value : Values]
Names      == UNION {[1..n -> Attributes] : n \in 1..MaxAttributes}

VARIABLES
  issuer,       \* the name of the issuer of the leaf
  sent,         \* the number of certificates the server sent
  text,         \* the transcript
  pc,
  ders,         \* what parse_chain_pems returned, <<>> for None
  issuer_cn     \* what describe_leaf returned of the issuer, {} for None

vars == <<issuer, sent, text, pc, ders, issuer_cn>>

(***************************************************************************)
(* s_client -showcerts, and openssl x509 -nameopt RFC2253.                 *)
(***************************************************************************)
Line(heading)  == <<heading>>
Certificate(i) == <<"certificate", i>>
Chain(n)       == [i \in 1..n |-> Certificate(i)]

\* The chain section, the leaf once more or not, and the summary.
Transcript(n, again) ==
  (IF n = 0 THEN <<Line("no_peer_certificate")>>
   ELSE <<Line("Certificate_chain")>> \o Chain(n)
          \o <<Line("---"), Line("Server_certificate")>>
          \o (IF again THEN <<Certificate(1)>> ELSE <<>>))
    \o <<Line("---"), Line("New"), Line("Verify_return_code")>>

Escaped(value) ==
  FlattenSeq([i \in DOMAIN value |->
    IF value[i] \in {Comma, Backslash} THEN <<Backslash, value[i]>> ELSE <<value[i]>>])

Printed(attribute) == <<attribute.type, "=">> \o Escaped(attribute.value)

Rfc2253(name) ==
  FlattenSeq([i \in DOMAIN name |->
    IF i = 1 THEN Printed(name[i]) ELSE <<Comma>> \o Printed(name[i])])

(***************************************************************************)
(* parse_chain_pems.                                                       *)
(***************************************************************************)
\* Mutation: every certificate of the transcript is counted.
ParseChainAnywhere(lines) ==
  SelectSeq(lines, LAMBDA l : l \in {Certificate(i) : i \in 1..MaxChain})

\* The certificates between the heading and the first rule after it.
ParseChain(lines) ==
  LET heads == {i \in DOMAIN lines : lines[i] = Line("Certificate_chain")}
      rules == {j \in DOMAIN lines :
                  lines[j] = Line("---") /\ \E i \in heads : i < j}
  IN IF rules = {} THEN <<>>
     ELSE LET h == CHOOSE i \in heads : \A l \in heads : i <= l
              r == CHOOSE j \in rules : \A l \in rules : j <= l
          IN SubSeq(lines, h + 1, r - 1)

(***************************************************************************)
(* split_rfc2253.                                                          *)
(***************************************************************************)
\* Mutation: a comma after a backslash never separates.
CharAfterBackslash(s, c) ==
  IF c = Comma /\ (s.current = <<>> \/ Last(s.current) # Backslash)
  THEN [s EXCEPT !.fields = Append(@, s.current), !.current = <<>>]
  ELSE [s EXCEPT !.current = Append(@, c)]

\* One turn of the loop.
Char(s, c) ==
  IF c = Comma /\ ~s.escaped
  THEN [s EXCEPT !.fields = Append(@, s.current), !.current = <<>>]
  ELSE [s EXCEPT !.current = Append(@, c),
                 !.escaped = (c = Backslash /\ ~s.escaped)]

\* value.replace("\\,", ",")
CommasReplaced(value) ==
  FlattenSeq([i \in DOMAIN value |->
    IF value[i] = Backslash /\ i < Len(value) /\ value[i + 1] = Comma
    THEN <<>> ELSE <<value[i]>>])

\* field.partition("=")
Partition(field) ==
  LET eq == CHOOSE i \in DOMAIN field :
              field[i] = "=" /\ \A j \in 1..i-1 : field[j] # "="
  IN [key   |-> SubSeq(field, 1, eq - 1),
      value |-> CommasReplaced(SubSeq(field, eq + 1, Len(field)))]

SplitRfc2253(dn) ==
  LET last   == FoldLeft(Char, [fields |-> <<>>, current |-> <<>>,
                                escaped |-> FALSE], dn)
      fields == Append(last.fields, last.current)
  IN FlattenSeq([i \in DOMAIN fields |->
       IF \E j \in DOMAIN fields[i] : fields[i][j] = "="
       THEN <<Partition(fields[i])>> ELSE <<>>])

\* Mutation: the last common name is taken.
IssuerCnLast(fields) ==
  LET cns == {i \in DOMAIN fields : fields[i].key = <<"CN">>}
  IN {fields[i].value : i \in {i \in cns : \A j \in cns : j <= i}}

\* The first field that is a common name.
IssuerCn(fields) ==
  LET cns == {i \in DOMAIN fields : fields[i].key = <<"CN">>}
  IN {fields[i].value : i \in {i \in cns : \A j \in cns : i <= j}}

-----------------------------------------------------------------------------
Init ==
  /\ issuer \in Names
  /\ sent \in 0..MaxChain
  /\ text \in {Transcript(sent, again) : again \in BOOLEAN}
  /\ pc = "connected"
  /\ ders = <<>>
  /\ issuer_cn = {}

\* The connection ended by itself, or s_client was killed and what it had not
\* flushed is lost.  Without a New line the host counts as failed and its chain
\* is not looked for.
ReadChain ==
  /\ pc = "connected"
  /\ \E n \in 0..Len(text) : text' = SubSeq(text, 1, n)
  /\ ders' = IF \E i \in DOMAIN text' : text'[i] = Line("New")
             THEN ParseChain(text') ELSE <<>>
  /\ pc' = IF ders' = <<>> THEN "done" ELSE "leaf"
  /\ UNCHANGED <<issuer, sent, issuer_cn>>

\* openssl x509 is called for the names, and may fail; the fields that are only
\* copied, from this call and from two more, are left out.
DescribeLeaf ==
  /\ pc = "leaf"
  /\ issuer_cn' \in {{}, IssuerCn(SplitRfc2253(Rfc2253(issuer)))}
  /\ pc' = "done"
  /\ UNCHANGED <<issuer, sent, text, ders>>

Terminated == pc = "done" /\ UNCHANGED vars

Next == ReadChain \/ DescribeLeaf \/ Terminated

Spec == Init /\ [][Next]_vars

-----------------------------------------------------------------------------
\* The chain recorded is the one that was sent, whole and in its order, or none:
\* a transcript that was cut short does not make it shorter, nor the leaf that is
\* printed again longer (probe.py:484-500, 754-771).
ChainIsWholeOrNull == ders # <<>> => ders = Chain(sent)

\* Values with a backslash of their own keep its escape and are not compared.
Plain(value) == \A i \in DOMAIN value : value[i] # Backslash

\* The issuer recorded is the first common name of the issuer's name, or null
\* (probe.py:576-582); and splitting undoes the printing of every name, one field
\* for each attribute under its type and with its value, whatever commas,
\* backslashes and equals signs the values hold (probe.py:503-526).
IssuerIsRead ==
  LET fields == SplitRfc2253(Rfc2253(issuer))
  IN /\ Len(fields) = Len(issuer)
     /\ \A i \in DOMAIN issuer :
          /\ fields[i].key = <<issuer[i].type>>
          /\ Plain(issuer[i].value) => fields[i].value = issuer[i].value
     /\ \A cn \in issuer_cn :
          \E i \in DOMAIN issuer :
            /\ issuer[i].type = "CN"
            /\ \A j \in 1..i-1 : issuer[j].type # "CN"
            /\ Plain(issuer[i].value) => cn = issuer[i].value
=============================================================================
