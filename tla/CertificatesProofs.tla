------------------------- MODULE CertificatesProofs -------------------------
(***************************************************************************)
(* That parse_chain_pems returns the chain that was sent or none, for      *)
(* every length of chain and wherever the transcript is cut off; and that  *)
(* split_rfc2253 undoes the printing of a name, for every number of        *)
(* attributes and every value.                                             *)
(***************************************************************************)
EXTENDS Certificates, WellFoundedInduction, SequenceTheorems, TLAPS

\* The lines of a transcript.
TextLines ==
  {Line(h) : h \in {"no_peer_certificate", "Certificate_chain",
                    "Server_certificate", "---", "New", "Verify_return_code"}}
    \cup {Certificate(i) : i \in Nat}

\* The headings are lines of a transcript.
LEMMA TextHeadings ==
  /\ Line("no_peer_certificate") \in TextLines
  /\ Line("Certificate_chain") \in TextLines
  /\ Line("Server_certificate") \in TextLines /\ Line("---") \in TextLines
  /\ Line("New") \in TextLines /\ Line("Verify_return_code") \in TextLines
BY DEF TextLines

\* No heading is a certificate, and different headings are different lines.
LEMMA LinesDiffer ==
  ASSUME NEW g, NEW h, NEW i
  PROVE  /\ Line(h) # Certificate(i)
         /\ g # h => Line(g) # Line(h)
<1>1. Len(Line(h)) = 1 /\ Len(Certificate(i)) = 2
  BY DEF Line, Certificate
<1>2. Line(g)[1] = g /\ Line(h)[1] = h
  BY DEF Line
<1> QED
  BY <1>1, <1>2

\* The elements of two sequences one after the other.
LEMMA Concatenation ==
  ASSUME NEW S, NEW u \in Seq(S), NEW v \in Seq(S), NEW w, w = u \o v
  PROVE  /\ w \in Seq(S) /\ Len(w) = Len(u) + Len(v)
         /\ \A i \in 1..Len(u) : w[i] = u[i]
         /\ \A i \in 1..Len(v) : w[Len(u) + i] = v[i]
OBVIOUS

\* One, two and three lines as a sequence.
LEMMA Headings ==
  ASSUME NEW x \in TextLines, NEW y \in TextLines, NEW z \in TextLines
  PROVE  /\ <<x>> \in Seq(TextLines) /\ Len(<<x>>) = 1 /\ <<x>>[1] = x
         /\ <<x, y>> \in Seq(TextLines) /\ Len(<<x, y>>) = 2
         /\ <<x, y>>[1] = x /\ <<x, y>>[2] = y
         /\ <<x, y, z>> \in Seq(TextLines) /\ Len(<<x, y, z>>) = 3
         /\ <<x, y, z>>[1] = x /\ <<x, y, z>>[2] = y /\ <<x, y, z>>[3] = z
OBVIOUS

\* The transcript of a host that sent a chain, line by line: the heading, the
\* chain, the rule, and two or three more before the summary.
LEMMA TranscriptLines ==
  ASSUME NEW n \in Nat, n > 0, NEW again \in BOOLEAN
  PROVE  /\ Transcript(n, again) \in Seq(TextLines)
         /\ Transcript(n, again)[1] = Line("Certificate_chain")
         /\ \A i \in 1..n : Transcript(n, again)[i + 1] = Certificate(i)
         /\ Transcript(n, again)[n + 2] = Line("---")
         /\ \A i \in 2..Len(Transcript(n, again)) :
              Transcript(n, again)[i] # Line("Certificate_chain")
         /\ \A i \in 1..n + 2 : Transcript(n, again)[i] # Line("New")
<1> DEFINE a == <<Line("Certificate_chain")>> \o Chain(n)
           b == a \o <<Line("---"), Line("Server_certificate")>>
           e == IF again THEN <<Certificate(1)>> ELSE <<>>
           c == b \o e
           f == <<Line("---"), Line("New"), Line("Verify_return_code")>>
           t == c \o f
<1>n. n # 0
  OBVIOUS
<1>0. Transcript(n, again) = t
  BY <1>n, Zenon DEF Transcript
<1>c. \A i \in Nat : Certificate(i) \in TextLines
  BY DEF TextLines
<1>1. /\ Chain(n) \in Seq(TextLines) /\ Len(Chain(n)) = n
      /\ \A i \in 1..n : Chain(n)[i] = Certificate(i)
  BY <1>c DEF Chain
<1>2. /\ a \in Seq(TextLines) /\ Len(a) = n + 1
      /\ a[1] = Line("Certificate_chain")
      /\ \A i \in 1..n : a[i + 1] = Certificate(i)
  <2> DEFINE u == <<Line("Certificate_chain")>>
  <2>1. u \in Seq(TextLines) /\ Len(u) = 1 /\ u[1] = Line("Certificate_chain")
    BY TextHeadings, Headings, Zenon
  <2>2. a = u \o Chain(n)
    OBVIOUS
  <2> HIDE DEF a, u
  <2>3. /\ a \in Seq(TextLines) /\ Len(a) = Len(u) + Len(Chain(n))
        /\ \A i \in 1..Len(u) : a[i] = u[i]
        /\ \A i \in 1..Len(Chain(n)) : a[Len(u) + i] = Chain(n)[i]
    <3>1. u \in Seq(TextLines) /\ Chain(n) \in Seq(TextLines)
      BY <1>1, <2>1
    <3> QED
      BY <2>2, <3>1, Concatenation
  <2> QED
    BY <1>1, <2>1, <2>3
<1> HIDE DEF a
<1>3. /\ b \in Seq(TextLines) /\ Len(b) = n + 3
      /\ \A i \in 1..n + 1 : b[i] = a[i]
      /\ b[n + 2] = Line("---") /\ b[n + 3] = Line("Server_certificate")
  <2> DEFINE u == <<Line("---"), Line("Server_certificate")>>
  <2>1. /\ u \in Seq(TextLines) /\ Len(u) = 2
        /\ u[1] = Line("---") /\ u[2] = Line("Server_certificate")
    BY TextHeadings, Headings, Zenon
  <2>2. b = a \o u
    OBVIOUS
  <2> HIDE DEF b, u
  <2>3. /\ b \in Seq(TextLines) /\ Len(b) = Len(a) + Len(u)
        /\ \A i \in 1..Len(a) : b[i] = a[i]
        /\ \A i \in 1..Len(u) : b[Len(a) + i] = u[i]
    <3>1. a \in Seq(TextLines) /\ u \in Seq(TextLines)
      BY <1>2, <2>1
    <3> QED
      BY <2>2, <3>1, Concatenation
  <2> QED
    BY <1>2, <2>1, <2>3
<1> HIDE DEF b
<1>4. /\ e \in Seq(TextLines) /\ Len(e) \in 0..1
      /\ \A i \in 1..Len(e) : e[i] = Certificate(1)
  BY <1>c
<1> HIDE DEF e
<1>5. /\ c \in Seq(TextLines) /\ Len(c) = n + 3 + Len(e)
      /\ \A i \in 1..n + 3 : c[i] = b[i]
      /\ \A i \in 1..Len(e) : c[n + 3 + i] = e[i]
  BY <1>3, <1>4
<1> HIDE DEF c
<1>6. /\ f \in Seq(TextLines) /\ Len(f) = 3
      /\ f[1] = Line("---") /\ f[2] = Line("New") /\ f[3] = Line("Verify_return_code")
  BY TextHeadings, Headings, Zenon
<1> HIDE DEF f
<1>7. /\ t \in Seq(TextLines) /\ Len(t) = Len(c) + 3
      /\ \A i \in 1..Len(c) : t[i] = c[i]
      /\ \A i \in 1..3 : t[Len(c) + i] = f[i]
  <2>1. t = c \o f
    OBVIOUS
  <2> HIDE DEF t
  <2>2. /\ t \in Seq(TextLines) /\ Len(t) = Len(c) + Len(f)
        /\ \A i \in 1..Len(c) : t[i] = c[i]
        /\ \A i \in 1..Len(f) : t[Len(c) + i] = f[i]
    <3>1. c \in Seq(TextLines) /\ f \in Seq(TextLines)
      BY <1>5, <1>6
    <3> QED
      BY <2>1, <3>1, Concatenation
  <2> QED
    BY <1>6, <2>2
<1> HIDE DEF t
<1>8. /\ t[1] = Line("Certificate_chain")
      /\ \A i \in 1..n : t[i + 1] = Certificate(i)
      /\ t[n + 2] = Line("---")
      /\ t[n + 3] = Line("Server_certificate")
  BY <1>2, <1>3, <1>4, <1>5, <1>7
<1>9. ASSUME NEW i \in 2..Len(t) PROVE t[i] # Line("Certificate_chain")
  <2>1. CASE i \in 2..n + 1
    <3>1. i - 1 \in 1..n /\ t[i] = Certificate(i - 1)
      BY <1>8, <2>1
    <3> QED
      BY <3>1, LinesDiffer
  <2>2. CASE i = n + 2 \/ i = n + 3
    BY <1>8, <2>2, LinesDiffer
  <2>3. CASE i \in n + 4..Len(c)
    <3>1. i - (n + 3) \in 1..Len(e) /\ n + 3 + (i - (n + 3)) = i
      BY <1>4, <1>5, <2>3
    <3>2. i \in 1..Len(c)
      BY <1>4, <1>5, <2>3
    <3>3. t[i] = Certificate(1)
      BY <1>4, <1>5, <1>7, <3>1, <3>2
    <3> QED
      BY <3>3, LinesDiffer
  <2>4. CASE i \in Len(c) + 1..Len(c) + 3
    <3>0. i - Len(c) \in 1..3 /\ Len(c) + (i - Len(c)) = i
      BY <1>4, <1>5, <2>4
    <3>1. i - Len(c) \in 1..3 /\ t[i] = f[i - Len(c)]
      BY <1>7, <3>0
    <3>2. t[i] \in {Line("---"), Line("New"), Line("Verify_return_code")}
      BY <1>6, <3>1
    <3> QED
      BY <3>2, LinesDiffer
  <2> QED
    BY <1>4, <1>5, <1>7, <2>1, <2>2, <2>3, <2>4
<1>10. ASSUME NEW i \in 1..n + 2 PROVE t[i] # Line("New")
  <2>1. CASE i = 1 \/ i = n + 2
    BY <1>8, <2>1, LinesDiffer
  <2>2. CASE i \in 2..n + 1
    <3>1. i - 1 \in 1..n /\ t[i] = Certificate(i - 1)
      BY <1>8, <2>2
    <3> QED
      BY <3>1, LinesDiffer
  <2> QED
    BY <2>1, <2>2
<1> QED
  BY <1>0, <1>7, <1>8, <1>9, <1>10

\* A transcript with one heading, at its first line, and its first rule at line
\* n + 2 is read as the lines between them.
LEMMA ParseBetween ==
  ASSUME NEW p \in Seq(TextLines), NEW n \in Nat, n + 2 <= Len(p),
         p[1] = Line("Certificate_chain"), p[n + 2] = Line("---"),
         \A i \in 2..Len(p) : p[i] # Line("Certificate_chain"),
         \A i \in 2..n + 1 : p[i] # Line("---")
  PROVE  ParseChain(p) = SubSeq(p, 2, n + 1)
<1> DEFINE heads == {i \in DOMAIN p : p[i] = Line("Certificate_chain")}
           rules == {j \in DOMAIN p : p[j] = Line("---") /\ \E i \in heads : i < j}
           h == CHOOSE i \in heads : \A l \in heads : i <= l
           r == CHOOSE j \in rules : \A l \in rules : j <= l
<1>1. DOMAIN p = 1..Len(p) /\ Len(p) \in Nat
  OBVIOUS
<1>2. heads = {1}
  BY <1>1
<1>3. h = 1
  <2> HIDE DEF heads
  <2> QED
    BY <1>2
<1>4. /\ n + 2 \in rules
      /\ \A l \in rules : l \in Nat /\ n + 2 <= l
  <2> HIDE DEF heads
  <2>1. n + 2 \in rules
    BY <1>1, <1>2, LinesDiffer
  <2>2. ASSUME NEW l \in rules PROVE l \in Nat /\ n + 2 <= l
    BY <1>1, <1>2
  <2> QED
    BY <2>1, <2>2
<1>5. r = n + 2
  <2> HIDE DEF rules
  <2>1. r \in rules /\ \A l \in rules : r <= l
    BY <1>4
  <2> QED
    BY <1>4, <2>1
<1>6. ParseChain(p) = IF rules = {} THEN <<>> ELSE SubSeq(p, h + 1, r - 1)
  BY DEF ParseChain
<1> HIDE DEF heads, rules, h, r
<1>7. rules # {}
  BY <1>4
<1>8. h + 1 = 2 /\ r - 1 = n + 1
  BY <1>3, <1>5
<1> QED
  BY <1>6, <1>7, <1>8

\* A transcript without a heading is read as none.
LEMMA ParseNone ==
  ASSUME NEW p, \A i \in DOMAIN p : p[i] # Line("Certificate_chain")
  PROVE  ParseChain(p) = <<>>
<1>1. {j \in DOMAIN p : p[j] = Line("---") /\
         \E i \in {i \in DOMAIN p : p[i] = Line("Certificate_chain")} : i < j} = {}
  OBVIOUS
<1> QED
  BY <1>1 DEF ParseChain

\* Whatever is cut off a transcript, one that still has its New line is read as
\* the chain that was sent.
LEMMA ChainRead ==
  ASSUME NEW n \in Nat, NEW again \in BOOLEAN, NEW t, t = Transcript(n, again),
         NEW k \in 0..Len(t), NEW p, p = SubSeq(t, 1, k),
         \E i \in DOMAIN p : p[i] = Line("New")
  PROVE  ParseChain(p) = Chain(n)
<1>1. CASE n = 0
  <2> DEFINE u == <<Line("no_peer_certificate")>>
             v == <<Line("---"), Line("New"), Line("Verify_return_code")>>
  <2>1. t = u \o v
    BY <1>1, Zenon DEF Transcript
  <2>2. /\ u \in Seq(TextLines) /\ Len(u) = 1 /\ u[1] = Line("no_peer_certificate")
        /\ v \in Seq(TextLines) /\ Len(v) = 3 /\ v[1] = Line("---")
        /\ v[2] = Line("New") /\ v[3] = Line("Verify_return_code")
    BY TextHeadings, Headings, Zenon
  <2> HIDE DEF u, v
  <2>3. /\ t \in Seq(TextLines) /\ Len(t) = Len(u) + Len(v)
        /\ \A i \in 1..Len(u) : t[i] = u[i]
        /\ \A i \in 1..Len(v) : t[Len(u) + i] = v[i]
    <3>1. u \in Seq(TextLines) /\ v \in Seq(TextLines)
      BY <2>2
    <3> QED
      BY <2>1, <3>1, Concatenation
  <2>4. ParseChain(p) = <<>>
    <3>1. /\ Len(t) = 4 /\ t[1] = u[1] /\ t[2] = v[1] /\ t[3] = v[2] /\ t[4] = v[3]
      BY <2>2, <2>3
    <3>2. \A i \in 1..4 : t[i] # Line("Certificate_chain")
      BY <2>2, <3>1, LinesDiffer
    <3>3. \A i \in DOMAIN p : i \in 1..4 /\ p[i] = t[i]
      <4>1. t \in Seq(TextLines)
        BY <2>3
      <4>2. DOMAIN p = 1..k /\ \A i \in 1..k : p[i] = t[i]
        BY <4>1
      <4> QED
        BY <3>1, <4>2
    <3> QED
      BY <3>2, <3>3, ParseNone
  <2>5. Chain(n) = <<>>
    BY <1>1 DEF Chain
  <2> QED
    BY <2>4, <2>5
<1>2. CASE n > 0
  <2>1. /\ t \in Seq(TextLines)
        /\ t[1] = Line("Certificate_chain")
        /\ \A i \in 1..n : t[i + 1] = Certificate(i)
        /\ t[n + 2] = Line("---")
        /\ \A i \in 2..Len(t) : t[i] # Line("Certificate_chain")
        /\ \A i \in 1..n + 2 : t[i] # Line("New")
    BY <1>2, TranscriptLines
  <2>2. /\ p \in Seq(TextLines) /\ Len(p) = k /\ DOMAIN p = 1..k
        /\ \A i \in 1..k : p[i] = t[i]
    BY <2>1
  <2>3. n + 2 < k
    BY <2>1, <2>2
  <2>4. \A i \in 2..n + 1 : p[i] = Certificate(i - 1)
    <3> SUFFICES ASSUME NEW i \in 2..n + 1 PROVE p[i] = Certificate(i - 1)
      OBVIOUS
    <3>1. i - 1 \in 1..n /\ i \in 1..k /\ (i - 1) + 1 = i
      BY <2>3
    <3> QED
      BY <2>1, <2>2, <3>1
  <2>5. /\ p[1] = Line("Certificate_chain") /\ p[n + 2] = Line("---")
        /\ \A i \in 2..Len(p) : p[i] # Line("Certificate_chain")
    BY <2>1, <2>2, <2>3
  <2>6. \A i \in 2..n + 1 : p[i] # Line("---")
    BY <2>4, LinesDiffer
  <2>7. ParseChain(p) = SubSeq(p, 2, n + 1)
    <3>1. n + 2 <= Len(p)
      BY <2>1, <2>2, <2>3
    <3> QED
      BY <2>2, <2>5, <2>6, <3>1, ParseBetween
  <2>8. SubSeq(p, 2, n + 1) = Chain(n)
    <3>1. SubSeq(p, 2, n + 1) = [i \in 1..n |-> p[i + 1]]
      BY <2>2, <2>3
    <3>2. \A i \in 1..n : p[i + 1] = Certificate(i)
      <4> SUFFICES ASSUME NEW i \in 1..n PROVE p[i + 1] = Certificate(i)
        OBVIOUS
      <4>1. i + 1 \in 2..n + 1 /\ (i + 1) - 1 = i
        OBVIOUS
      <4> QED
        BY <2>4, <4>1
    <3> QED
      BY <3>1, <3>2 DEF Chain
  <2> QED
    BY <2>7, <2>8
<1> QED
  BY <1>1, <1>2

-----------------------------------------------------------------------------
\* Until the transcript is read it is that of the chain that was sent.
ChainInv ==
  /\ sent \in Nat
  /\ pc = "connected" => \E again \in BOOLEAN : text = Transcript(sent, again)
  /\ ChainIsWholeOrNull

\* The chain recorded is the one the host sent, whole and in its order, or none,
\* wherever the transcript was cut off (probe.py:484-500, 754-771).
THEOREM WholeChain == Spec => []ChainIsWholeOrNull
<1>1. Init => ChainInv
  BY BoundsAssumption DEF Init, ChainInv, ChainIsWholeOrNull
<1>2. ChainInv /\ [Next]_vars => ChainInv'
  <2> SUFFICES ASSUME ChainInv, [Next]_vars PROVE ChainInv'
    OBVIOUS
  <2>1. CASE ReadChain
    <3>1. /\ pc = "connected" /\ pc' # "connected" /\ sent' = sent
          /\ ders' = IF \E i \in DOMAIN text' : text'[i] = Line("New")
                     THEN ParseChain(text') ELSE <<>>
      BY <2>1 DEF ReadChain
    <3> PICK again \in BOOLEAN : text = Transcript(sent, again)
      BY <3>1 DEF ChainInv
    <3> PICK k \in 0..Len(text) : text' = SubSeq(text, 1, k)
      BY <2>1 DEF ReadChain
    <3>2. ders' # <<>> => ders' = Chain(sent)
      BY <3>1, ChainRead DEF ChainInv
    <3> QED
      BY <3>1, <3>2 DEF ChainInv, ChainIsWholeOrNull
  <2>2. CASE DescribeLeaf
    BY <2>2 DEF DescribeLeaf, ChainInv, ChainIsWholeOrNull
  <2>3. CASE UNCHANGED vars
    BY <2>3 DEF vars, ChainInv, ChainIsWholeOrNull
  <2> QED
    BY <2>1, <2>2, <2>3 DEF Next, Terminated
<1>3. ChainInv => ChainIsWholeOrNull
  BY DEF ChainInv
<1> QED
  BY <1>1, <1>2, <1>3, PTL DEF Spec

-----------------------------------------------------------------------------
(***************************************************************************)
(* Induction over the naturals and over sequences, and what FlattenSeq computes. *)
(***************************************************************************)
\* A set of naturals has a least element.
LEMMA LeastNatural ==
  ASSUME NEW T \in SUBSET Nat, T # {}
  PROVE  \E m \in T : \A k \in T : m <= k
<1> DEFINE R == OpToRel(<, Nat)
<1>1. \A k, m \in T : <<k, m>> \in R <=> k < m
  BY DEF OpToRel
<1>2. IsWellFoundedOn(R, Nat)
  BY NatLessThanWellFounded
<1> HIDE DEF R
<1>3. PICK m \in T : \A k \in T : ~ (<<k, m>> \in R)
  BY <1>2, WFMin, Zenon
<1>4. ASSUME NEW k \in T PROVE m <= k
  <2>1. ~ (k < m)
    BY <1>1, <1>3, Zenon
  <2>2. k \in Nat /\ m \in Nat
    OBVIOUS
  <2> QED
    BY <2>1, <2>2
<1> QED
  BY <1>4

\* Induction over the naturals, with a set in the place of the formula.
LEMMA InductionOnNat ==
  ASSUME NEW T, 0 \in T, \A n \in Nat : n \in T => n + 1 \in T
  PROVE  Nat \subseteq T
<1> SUFFICES ASSUME Nat \ T # {} PROVE FALSE
  OBVIOUS
<1>1. PICK m \in Nat \ T : \A k \in Nat \ T : m <= k
  BY LeastNatural
<1>2. m - 1 \in Nat /\ m - 1 \notin Nat \ T /\ (m - 1) + 1 = m
  BY <1>1
<1> QED
  BY <1>1, <1>2

\* Induction over sequences, likewise, one element at a time.
LEMMA InductionOnSeq ==
  ASSUME NEW S, NEW T, <<>> \in T,
         \A u \in Seq(S), c \in S : u \in T => Append(u, c) \in T
  PROVE  Seq(S) \subseteq T
<1> DEFINE L == {n \in Nat : \A u \in Seq(S) : Len(u) = n => u \in T}
<1>1. 0 \in L
  OBVIOUS
<1>2. ASSUME NEW n \in Nat, n \in L PROVE n + 1 \in L
  <2> SUFFICES ASSUME NEW u \in Seq(S), Len(u) = n + 1 PROVE u \in T
    OBVIOUS
  <2>1. /\ SubSeq(u, 1, n) \in Seq(S) /\ Len(SubSeq(u, 1, n)) = n
        /\ u[n + 1] \in S
        /\ u = Append(SubSeq(u, 1, n), u[n + 1])
    OBVIOUS
  <2>2. SubSeq(u, 1, n) \in T
    BY <1>2, <2>1
  <2> QED
    BY <2>1, <2>2
<1>3. Nat \subseteq L
  <2> HIDE DEF L
  <2> QED
    BY <1>1, <1>2, InductionOnNat
<1>4. ASSUME NEW u \in Seq(S) PROVE u \in T
  <2>1. Len(u) \in L
    BY <1>3
  <2> QED
    BY <2>1
<1> QED
  BY <1>4

\* The recursion of FlattenSeq defines a function.
LEMMA FlattenRecursion ==
  ASSUME NEW ss, NEW n \in Nat
  PROVE  \E f : f = [i \in 1..n |-> IF i = 1 THEN ss[i] ELSE f[i - 1] \o ss[i]]
<1> DEFINE Step(f, i) == IF i = 1 THEN ss[i] ELSE f[i - 1] \o ss[i]
           T == {m \in Nat : \E f : f = [i \in 1..m |-> Step(f, i)]}
<1>1. 0 \in T
  <2>1. <<>> = [i \in 1..0 |-> Step(<<>>, i)]
    OBVIOUS
  <2> QED
    BY <2>1
<1>2. ASSUME NEW m \in Nat, m \in T PROVE m + 1 \in T
  <2> PICK f : f = [i \in 1..m |-> Step(f, i)]
    BY <1>2
  <2> DEFINE g == [i \in 1..m + 1 |-> IF i = m + 1 THEN Step(f, i) ELSE f[i]]
  <2>1. ASSUME NEW i \in 1..m + 1 PROVE g[i] = Step(g, i)
    <3>1. CASE i = m + 1
      BY <3>1
    <3>2. CASE i \in 1..m
      <4>1. g[i] = f[i] /\ f[i] = Step(f, i)
        BY <3>2
      <4>2. i # 1 => g[i - 1] = f[i - 1]
        BY <3>2
      <4> QED
        BY <4>1, <4>2
    <3> QED
      BY <3>1, <3>2
  <2>2. g = [i \in 1..m + 1 |-> Step(g, i)]
    BY <2>1
  <2> HIDE DEF g
  <2>3. \E h : h = [i \in 1..m + 1 |-> Step(h, i)]
    BY <2>2, Zenon
  <2>4. m + 1 \in Nat
    OBVIOUS
  <2> QED
    BY <2>3, <2>4, Zenon
<1>3. n \in T
  <2> HIDE DEF T
  <2> QED
    BY <1>1, <1>2, InductionOnNat
<1> QED
  BY <1>3

\* FlattenSeq is the last value of a function over the positions.
LEMMA FlattenFunction ==
  ASSUME NEW ss, Len(ss) \in Nat
  PROVE  \E f : /\ \A i \in 1..Len(ss) :
                     f[i] = IF i = 1 THEN ss[i] ELSE f[i - 1] \o ss[i]
                /\ FlattenSeq(ss) = IF Len(ss) = 0 THEN ss ELSE f[Len(ss)]
<1> DEFINE f == CHOOSE f : f = [i \in 1..Len(ss) |->
                                  IF i = 1 THEN ss[i] ELSE f[i - 1] \o ss[i]]
<1>1. f = [i \in 1..Len(ss) |-> IF i = 1 THEN ss[i] ELSE f[i - 1] \o ss[i]]
  BY FlattenRecursion
<1>2. FlattenSeq(ss) = IF Len(ss) = 0 THEN ss ELSE f[Len(ss)]
  BY DEF FlattenSeq
<1> HIDE DEF f
<1>3. \A i \in 1..Len(ss) : f[i] = IF i = 1 THEN ss[i] ELSE f[i - 1] \o ss[i]
  BY <1>1
<1> QED
  BY <1>2, <1>3

\* One more sequence is flattened by appending its elements.
LEMMA FlattenAppend ==
  ASSUME NEW S, NEW ss \in Seq(Seq(S)), NEW v \in Seq(S)
  PROVE  FlattenSeq(Append(ss, v)) = FlattenSeq(ss) \o v
<1> DEFINE n == Len(ss)
           tt == Append(ss, v)
<1>1. n \in Nat /\ Len(tt) = n + 1 /\ tt[n + 1] = v /\ \A i \in 1..n : tt[i] = ss[i]
  OBVIOUS
<1> HIDE DEF tt
<1> PICK f : /\ \A i \in 1..n : f[i] = IF i = 1 THEN ss[i] ELSE f[i - 1] \o ss[i]
             /\ FlattenSeq(ss) = IF n = 0 THEN ss ELSE f[n]
  BY <1>1, FlattenFunction
<1> PICK g : /\ \A i \in 1..Len(tt) :
                  g[i] = IF i = 1 THEN tt[i] ELSE g[i - 1] \o tt[i]
             /\ FlattenSeq(tt) = IF Len(tt) = 0 THEN tt ELSE g[Len(tt)]
  <2>1. Len(tt) \in Nat
    BY <1>1
  <2> QED
    BY <2>1, FlattenFunction
<1>2. CASE n = 0
  <2>1. FlattenSeq(tt) = v /\ FlattenSeq(ss) = <<>>
    BY <1>1, <1>2
  <2> QED
    BY <2>1 DEF tt
<1>3. CASE n # 0
  <2> DEFINE T == {k \in Nat : k \in 1..n => g[k] = f[k]}
  <2>1. 0 \in T
    OBVIOUS
  <2>2. ASSUME NEW k \in Nat, k \in T PROVE k + 1 \in T
    <3> SUFFICES ASSUME k + 1 \in 1..n PROVE g[k + 1] = f[k + 1]
      OBVIOUS
    <3>1. /\ f[k + 1] = IF k + 1 = 1 THEN ss[k + 1] ELSE f[(k + 1) - 1] \o ss[k + 1]
          /\ g[k + 1] = IF k + 1 = 1 THEN tt[k + 1] ELSE g[(k + 1) - 1] \o tt[k + 1]
          /\ tt[k + 1] = ss[k + 1] /\ (k + 1) - 1 = k
      BY <1>1
    <3>2. k # 0 => g[k] = f[k]
      BY <1>1, <2>2
    <3> QED
      BY <3>1, <3>2
  <2>3. n \in T
    <3> HIDE DEF T
    <3> QED
      BY <1>1, <2>1, <2>2, InductionOnNat
  <2>4. g[n] = f[n]
    BY <1>1, <1>3, <2>3
  <2>5. g[n + 1] = g[n] \o v
    <3>1. n + 1 \in 1..n + 1 /\ n + 1 # 1 /\ (n + 1) - 1 = n
      BY <1>1, <1>3
    <3> QED
      BY <1>1, <3>1
  <2> QED
    BY <1>1, <1>3, <2>4, <2>5 DEF tt
<1> QED
  BY <1>2, <1>3

\* Nothing is flattened to nothing.
LEMMA FlattenEmpty == FlattenSeq(<<>>) = <<>>
BY DEF FlattenSeq

\* What is flattened are the elements of the sequences.
LEMMA FlattenType ==
  ASSUME NEW S
  PROVE  \A ss \in Seq(Seq(S)) : FlattenSeq(ss) \in Seq(S)
<1> DEFINE T == {ss \in Seq(Seq(S)) : FlattenSeq(ss) \in Seq(S)}
<1>1. <<>> \in T
  <2>1. <<>> \in Seq(Seq(S)) /\ <<>> \in Seq(S)
    OBVIOUS
  <2> QED
    BY <2>1, FlattenEmpty, Zenon
<1>2. ASSUME NEW u \in Seq(Seq(S)), NEW c \in Seq(S), u \in T PROVE Append(u, c) \in T
  <2>1. FlattenSeq(u) \in Seq(S) /\ FlattenSeq(Append(u, c)) = FlattenSeq(u) \o c
    BY <1>2, FlattenAppend
  <2>2. FlattenSeq(Append(u, c)) \in Seq(S)
    BY <2>1
  <2>3. Append(u, c) \in Seq(Seq(S))
    OBVIOUS
  <2> QED
    BY <2>2, <2>3
<1> HIDE DEF T
<1>3. Seq(Seq(S)) \subseteq T
  BY <1>1, <1>2, InductionOnSeq
<1> QED
  BY <1>3 DEF T

-----------------------------------------------------------------------------
(***************************************************************************)
(* What the loop of split_rfc2253 computes, turn by turn.                  *)
(***************************************************************************)
\* The loop of split_rfc2253 over some characters, from some state.
Turns(s, u) == FoldLeft(Char, s, u)

\* The greatest of the first positions.
LEMMA MaxTop ==
  ASSUME NEW n \in Nat, NEW S \in SUBSET (1..n), n \in S
  PROVE  Max(S) = n
<1>1. n \in S /\ \A y \in S : n >= y
  OBVIOUS
<1>2. Max(S) \in S /\ \A y \in S : Max(S) >= y
  BY <1>1 DEF Max
<1>3. Max(S) \in 1..n
  BY <1>2
<1> QED
  BY <1>1, <1>2, <1>3

\* The recursion of FoldLeft over the sets of the first positions.
FoldOver(f, s, u, n) ==
  [S \in SUBSET (1..n) |->
     IF S = {} THEN s ELSE Char(f[S \ {Max(S)}], u[Max(S)])]

\* The recursion of FoldLeft defines a function.
LEMMA TurnsRecursion ==
  ASSUME NEW s, NEW u, NEW n \in Nat
  PROVE  \E f : f = FoldOver(f, s, u, n)
<1> DEFINE Step(f, S) == IF S = {} THEN s ELSE Char(f[S \ {Max(S)}], u[Max(S)])
           T == {m \in Nat : \E f : f = [S \in SUBSET (1..m) |-> Step(f, S)]}
<1>1. 0 \in T
  <2> DEFINE f == [S \in SUBSET (1..0) |-> s]
  <2>1. f = [S \in SUBSET (1..0) |-> Step(f, S)]
    OBVIOUS
  <2> HIDE DEF f, Step
  <2> QED
    BY <2>1, Zenon
<1>2. ASSUME NEW m \in Nat, m \in T PROVE m + 1 \in T
  <2> PICK f : f = [S \in SUBSET (1..m) |-> Step(f, S)]
    BY <1>2
  <2> DEFINE g == [S \in SUBSET (1..m + 1) |->
                     IF m + 1 \in S THEN Char(f[S \ {m + 1}], u[m + 1]) ELSE f[S]]
  <2>1. ASSUME NEW S \in SUBSET (1..m + 1) PROVE g[S] = Step(g, S)
    <3>1. CASE m + 1 \in S
      <4>1. Max(S) = m + 1
        BY <3>1, MaxTop
      <4>2. S \ {m + 1} \in SUBSET (1..m + 1) /\ m + 1 \notin S \ {m + 1} /\ S # {}
        BY <3>1
      <4>3. g[S \ {m + 1}] = f[S \ {m + 1}]
        BY <4>2
      <4> QED
        BY <3>1, <4>1, <4>2, <4>3
    <3>2. CASE m + 1 \notin S
      <4>1. S \in SUBSET (1..m)
        BY <3>2
      <4>2. g[S] = f[S] /\ f[S] = Step(f, S)
        BY <3>2, <4>1
      <4>3. /\ S \ {Max(S)} \in SUBSET (1..m + 1)
            /\ m + 1 \notin S \ {Max(S)}
        BY <3>2
      <4>4. g[S \ {Max(S)}] = f[S \ {Max(S)}]
        BY <4>3
      <4> QED
        BY <4>2, <4>4
    <3> QED
      BY <3>1, <3>2
  <2>2. g = [S \in SUBSET (1..m + 1) |-> Step(g, S)]
    BY <2>1
  <2> HIDE DEF g, Step
  <2>3. \E h : h = [S \in SUBSET (1..m + 1) |-> Step(h, S)]
    BY <2>2, Zenon
  <2>4. m + 1 \in Nat
    OBVIOUS
  <2> QED
    BY <2>3, <2>4, Zenon
<1>3. n \in T
  <2> HIDE DEF T
  <2> QED
    BY <1>1, <1>2, InductionOnNat
<1> HIDE DEF Step
<1>4. PICK f : f = [S \in SUBSET (1..n) |-> Step(f, S)]
  BY <1>3, Zenon
<1>5. f = FoldOver(f, s, u, n)
  BY <1>4 DEF FoldOver, Step
<1> QED
  BY <1>5, Zenon

\* The states of the loop, one after each character.
StatesOf(f, s, u, n) ==
  /\ f[0] = s
  /\ \A k \in 1..n : f[k] = Char(f[k - 1], u[k])

\* The loop goes through one state after each character.
LEMMA TurnsFunction ==
  ASSUME NEW s, NEW u, NEW n \in Nat, DOMAIN u = 1..n
  PROVE  \E f : StatesOf(f, s, u, n) /\ Turns(s, u) = f[n]
<1> DEFINE F == CHOOSE f : f = FoldOver(f, s, u, n)
           f == [k \in 0..n |-> F[1..k]]
<1>1. F = FoldOver(F, s, u, n)
  BY TurnsRecursion, Zenon
<1>2. Turns(s, u) = F[1..n]
  BY DEF Turns, FoldLeft, MapThenFoldSet, FoldOver
<1> HIDE DEF F
<1>3. f[0] = s
  <2>1. 1..0 = {} /\ {} \in SUBSET (1..n) /\ 0 \in 0..n
    OBVIOUS
  <2> QED
    BY <1>1, <2>1 DEF FoldOver
<1>4. ASSUME NEW k \in 1..n PROVE f[k] = Char(f[k - 1], u[k])
  <2>0. (1..k) \ {k} = 1..(k - 1)
    OBVIOUS
  <2>1. /\ 1..k \in SUBSET (1..n) /\ 1..k # {} /\ k \in 1..k
        /\ k \in 0..n /\ k - 1 \in 0..n
    <3>1. 1..k \subseteq 1..n
      OBVIOUS
    <3>2. k \in 1..k
      OBVIOUS
    <3>3. k \in 0..n /\ k - 1 \in 0..n
      OBVIOUS
    <3> QED
      BY <3>1, <3>2, <3>3
  <2>2. Max(1..k) = k
    BY <2>1, MaxTop
  <2>3. F[1..k] = IF 1..k = {} THEN s
                  ELSE Char(F[(1..k) \ {Max(1..k)}], u[Max(1..k)])
    BY <1>1, <2>1 DEF FoldOver
  <2>4. F[1..k] = Char(F[1..(k - 1)], u[k])
    BY <2>0, <2>1, <2>2, <2>3
  <2> QED
    BY <2>1, <2>4
<1>5. f[n] = F[1..n]
  OBVIOUS
<1> HIDE DEF f
<1>6. StatesOf(f, s, u, n)
  BY <1>3, <1>4 DEF StatesOf
<1> QED
  BY <1>2, <1>5, <1>6

\* No character, no turn.
LEMMA TurnsEmpty ==
  ASSUME NEW s
  PROVE  Turns(s, <<>>) = s
<1>1. DOMAIN <<>> = 1..0 /\ 0 \in Nat
  OBVIOUS
<1>2. PICK f : StatesOf(f, s, <<>>, 0) /\ Turns(s, <<>>) = f[0]
  BY <1>1, TurnsFunction, Zenon
<1> QED
  BY <1>2 DEF StatesOf

\* One more character is one more turn.
LEMMA TurnsAppend ==
  ASSUME NEW s, NEW S, NEW u \in Seq(S), NEW c \in S
  PROVE  Turns(s, Append(u, c)) = Char(Turns(s, u), c)
<1> DEFINE n == Len(u)
           w == Append(u, c)
<1>1. /\ n \in Nat /\ DOMAIN u = 1..n /\ DOMAIN w = 1..n + 1
      /\ w[n + 1] = c /\ \A i \in 1..n : w[i] = u[i]
  OBVIOUS
<1> HIDE DEF n, w
<1> PICK f : StatesOf(f, s, u, n) /\ Turns(s, u) = f[n]
  BY <1>1, TurnsFunction, Zenon
<1> PICK g : StatesOf(g, s, w, n + 1) /\ Turns(s, w) = g[n + 1]
  <2>1. n + 1 \in Nat
    BY <1>1
  <2> QED
    BY <1>1, <2>1, TurnsFunction, Zenon
<1>a. /\ f[0] = s /\ \A k \in 1..n : f[k] = Char(f[k - 1], u[k])
      /\ g[0] = s /\ \A k \in 1..n + 1 : g[k] = Char(g[k - 1], w[k])
  BY DEF StatesOf
<1> DEFINE T == {k \in Nat : k <= n => g[k] = f[k]}
<1>2. 0 \in T
  BY <1>a
<1>3. ASSUME NEW k \in Nat, k \in T PROVE k + 1 \in T
  <2> SUFFICES ASSUME k + 1 <= n PROVE g[k + 1] = f[k + 1]
    OBVIOUS
  <2>1. k + 1 \in 1..n /\ k + 1 \in 1..n + 1 /\ (k + 1) - 1 = k /\ k <= n
    BY <1>1
  <2> QED
    BY <1>1, <1>3, <1>a, <2>1
<1>4. n \in T
  <2> HIDE DEF T
  <2> QED
    BY <1>1, <1>2, <1>3, InductionOnNat
<1>5. g[n] = f[n]
  BY <1>1, <1>4
<1>6. g[n + 1] = Char(g[n], c)
  <2>1. n + 1 \in 1..n + 1 /\ (n + 1) - 1 = n
    BY <1>1
  <2> QED
    BY <1>1, <1>a, <2>1
<1> QED
  BY <1>5, <1>6 DEF w

\* The loop over one text and then another.
LEMMA TurnsConcatenation ==
  ASSUME NEW s, NEW S, NEW u \in Seq(S)
  PROVE  \A v \in Seq(S) : Turns(s, u \o v) = Turns(Turns(s, u), v)
<1> DEFINE T == {v \in Seq(S) : Turns(s, u \o v) = Turns(Turns(s, u), v)}
<1>1. <<>> \in T
  <2>1. u \o <<>> = u /\ <<>> \in Seq(S)
    OBVIOUS
  <2> QED
    BY <2>1, TurnsEmpty
<1>2. ASSUME NEW v \in Seq(S), NEW c \in S, v \in T PROVE Append(v, c) \in T
  <2>1. /\ u \o Append(v, c) = Append(u \o v, c)
        /\ u \o v \in Seq(S) /\ Append(v, c) \in Seq(S)
    OBVIOUS
  <2>2. Turns(s, Append(u \o v, c)) = Char(Turns(s, u \o v), c)
    <3> DEFINE uv == u \o v
    <3>1. uv \in Seq(S)
      BY <2>1
    <3> HIDE DEF uv
    <3>2. Turns(s, Append(uv, c)) = Char(Turns(s, uv), c)
      BY <3>1, TurnsAppend
    <3> QED
      BY <3>2 DEF uv
  <2>4. Turns(Turns(s, u), Append(v, c)) = Char(Turns(Turns(s, u), v), c)
    BY TurnsAppend
  <2>3. Turns(s, u \o v) = Turns(Turns(s, u), v)
    BY <1>2
  <2> QED
    BY <2>1, <2>2, <2>3, <2>4
<1> HIDE DEF T
<1>3. Seq(S) \subseteq T
  BY <1>1, <1>2, InductionOnSeq
<1> QED
  BY <1>3 DEF T

-----------------------------------------------------------------------------
(***************************************************************************)
(* A character of a value, printed and read.                               *)
(***************************************************************************)
\* What a printed name is made of.
Alphabet == Types \cup Characters

\* The states of the loop.
Splits == [fields : Seq(Seq(Alphabet)), current : Seq(Alphabet), escaped : BOOLEAN]

\* A state of the loop with more characters of the same field.
Extended(s, u) == [s EXCEPT !.current = @ \o u]

\* Those in which the next character stands for itself.
Unescaped == {s \in Splits : ~s.escaped}

\* How a value's character is printed.
EscapedChar(c) == IF c \in {Comma, Backslash} THEN <<Backslash, c>> ELSE <<c>>

\* The characters that are told apart are different ones.
LEMMA CharactersDiffer ==
  /\ Comma # "=" /\ Comma # "a" /\ Backslash # "=" /\ Backslash # "a"
  /\ Comma # Backslash
BY Zenon DEF Comma, Backslash

\* Any other character becomes part of the field, when it is not escaped.
LEMMA CharPlain ==
  ASSUME NEW s \in Unescaped, NEW c \in Alphabet, c \notin {Comma, Backslash}
  PROVE  Char(s, c) = Extended(s, <<c>>)
<1>1. s.current \in Seq(Alphabet) /\ ~s.escaped /\ s.escaped \in BOOLEAN
  BY DEF Unescaped, Splits
<1>2. Append(s.current, c) = s.current \o <<c>>
  BY <1>1
<1>3. Char(s, c) = [s EXCEPT !.current = Append(@, c), !.escaped = FALSE]
  BY <1>1 DEF Char
<1> QED
  BY <1>1, <1>2, <1>3 DEF Unescaped, Splits, Extended

\* A field takes characters in any number of steps.
LEMMA ExtendedType ==
  ASSUME NEW s \in Unescaped, NEW u \in Seq(Alphabet), NEW v \in Seq(Alphabet)
  PROVE  /\ Extended(s, u) \in Unescaped
         /\ Extended(s, <<>>) = s
         /\ Extended(Extended(s, u), v) = Extended(s, u \o v)
<1>1. s.current \in Seq(Alphabet) /\ ~s.escaped
  BY DEF Unescaped, Splits
<1>2. /\ s.current \o u \in Seq(Alphabet)
      /\ s.current \o <<>> = s.current
      /\ (s.current \o u) \o v = s.current \o (u \o v)
  <2> DEFINE x == s.current
  <2>1. x \in Seq(Alphabet)
    BY <1>1
  <2> HIDE DEF x
  <2>2. x \o u \in Seq(Alphabet)
    BY <2>1, ConcatProperties
  <2>3. x \o <<>> = x
    BY <2>1, ConcatEmptySeq
  <2>4. (x \o u) \o v = x \o (u \o v)
    BY <2>1, ConcatAssociative
  <2> QED
    BY <2>2, <2>3, <2>4 DEF x
<1>3. Extended(s, u) \in Unescaped
  BY <1>1, <1>2 DEF Extended, Unescaped, Splits
<1>4. Extended(s, <<>>) = s
  BY <1>1, <1>2 DEF Extended, Unescaped, Splits
<1>5. Extended(Extended(s, u), v) = Extended(s, u \o v)
  BY <1>1, <1>2 DEF Extended, Unescaped, Splits
<1> QED
  BY <1>3, <1>4, <1>5

\* Two elements are one and one more.
LEMMA AppendPair ==
  ASSUME NEW S, NEW x \in S, NEW y \in S
  PROVE  Append(<<x>>, y) = <<x, y>>
<1>1. <<x>> \in Seq(S) /\ <<x, y>> \in Seq(S)
  OBVIOUS
<1>2. /\ Len(<<x>>) = 1 /\ <<x>>[1] = x
      /\ Len(<<x, y>>) = 2 /\ <<x, y>>[1] = x /\ <<x, y>>[2] = y
  OBVIOUS
<1> DEFINE a == <<x>>
           b == <<x, y>>
<1>3. /\ a \in Seq(S) /\ Len(a) = 1 /\ a[1] = x
      /\ b \in Seq(S) /\ Len(b) = 2 /\ b[1] = x /\ b[2] = y
  BY <1>1, <1>2
<1> HIDE DEF a, b
<1>4. /\ Append(a, y) \in Seq(S) /\ Len(Append(a, y)) = 2
      /\ Append(a, y)[1] = x /\ Append(a, y)[2] = y
  <2>1. /\ Append(a, y) \in Seq(S) /\ Len(Append(a, y)) = Len(a) + 1
        /\ \A i \in 1..Len(a) : Append(a, y)[i] = a[i]
        /\ Append(a, y)[Len(a) + 1] = y
    <3>1. a \in Seq(S)
      BY <1>3
    <3> QED
      BY <3>1
  <2> QED
    BY <1>3, <2>1
<1>5. \A i \in 1..2 : Append(a, y)[i] = b[i]
  BY <1>3, <1>4
<1>6. Append(a, y) = b
  BY <1>3, <1>4, <1>5, SeqEqual
<1> QED
  BY <1>6 DEF a, b

\* What a character of a value is printed as becomes part of the field.
LEMMA CharEscaped ==
  ASSUME NEW s \in Unescaped, NEW c \in Characters
  PROVE  Turns(s, EscapedChar(c)) = Extended(s, EscapedChar(c))
<1>0. c \in Alphabet /\ Backslash \in Alphabet /\ <<>> \in Seq(Alphabet)
  BY DEF Alphabet, Characters
<1>1. CASE c \notin {Comma, Backslash}
  <2>1. EscapedChar(c) = <<c>> /\ Append(<<>>, c) = <<c>>
    BY <1>1 DEF EscapedChar
  <2>2. Turns(s, Append(<<>>, c)) = Char(Turns(s, <<>>), c)
    BY <1>0, TurnsAppend
  <2> QED
    BY <1>0, <1>1, <2>1, <2>2, TurnsEmpty, CharPlain
<1>2. CASE c \in {Comma, Backslash}
  <2>0. EscapedChar(c) = <<Backslash, c>>
    BY <1>2 DEF EscapedChar
  <2>1. /\ Append(<<>>, Backslash) = <<Backslash>>
        /\ Append(<<Backslash>>, c) = <<Backslash, c>>
        /\ <<Backslash>> \in Seq(Alphabet)
    <3>1. <<Backslash>> \in Seq(Alphabet)
      BY <1>0
    <3>2. Append(<<>>, Backslash) = <<Backslash>>
      OBVIOUS
    <3>3. Append(<<Backslash>>, c) = <<Backslash, c>>
      BY <1>0, AppendPair
    <3> QED
      BY <3>1, <3>2, <3>3
  <2>2. Turns(s, Append(<<>>, Backslash)) = Char(Turns(s, <<>>), Backslash)
    BY <1>0, TurnsAppend
  <2>3. Turns(s, Append(<<Backslash>>, c)) = Char(Turns(s, <<Backslash>>), c)
    <3> DEFINE b == <<Backslash>>
    <3>1. b \in Seq(Alphabet)
      BY <2>1
    <3> HIDE DEF b
    <3>2. Turns(s, Append(b, c)) = Char(Turns(s, b), c)
      BY <1>0, <3>1, TurnsAppend
    <3> QED
      BY <3>2 DEF b
  <2>4. Turns(s, <<Backslash, c>>) = Char(Char(s, Backslash), c)
    BY <2>1, <2>2, <2>3, TurnsEmpty
  <2> DEFINE t == Char(s, Backslash)
  <2>5. t = [s EXCEPT !.current = Append(@, Backslash), !.escaped = TRUE]
    BY CharactersDiffer DEF Char, Unescaped
  <2>6. /\ s.current \in Seq(Alphabet) /\ ~s.escaped
        /\ t.escaped /\ t.current = Append(s.current, Backslash)
    BY <2>5 DEF Unescaped, Splits
  <2>7. Char(t, c) = [t EXCEPT !.current = Append(@, c), !.escaped = FALSE]
    BY <2>6 DEF Char
  <2>8. Append(Append(s.current, Backslash), c) = s.current \o <<Backslash, c>>
    BY <1>0, <2>6
  <2> HIDE DEF t
  <2>9. Char(t, c) = [s EXCEPT !.current = @ \o <<Backslash, c>>]
    BY <2>5, <2>6, <2>7, <2>8 DEF Unescaped, Splits
  <2> QED
    BY <2>0, <2>4, <2>9 DEF Extended, t
<1> QED
  BY <1>1, <1>2

\* A character is printed as characters.
LEMMA EscapedCharType ==
  ASSUME NEW c \in Characters
  PROVE  EscapedChar(c) \in Seq(Characters)
<1>1. Backslash \in Characters
  BY DEF Characters
<1> QED
  BY <1>1 DEF EscapedChar

\* When a sequence is another and one element more.
LEMMA IsAppend ==
  ASSUME NEW S, NEW a \in Seq(S), NEW d \in S, NEW b \in Seq(S),
         Len(b) = Len(a) + 1, b[Len(a) + 1] = d,
         \A i \in 1..Len(a) : b[i] = a[i]
  PROVE  b = Append(a, d)
<1>1. /\ Append(a, d) \in Seq(S) /\ Len(Append(a, d)) = Len(a) + 1
      /\ \A i \in 1..Len(a) : Append(a, d)[i] = a[i]
      /\ Append(a, d)[Len(a) + 1] = d
  OBVIOUS
<1>2. \A i \in 1..Len(b) : b[i] = Append(a, d)[i]
  <2>1. Len(a) \in Nat
    OBVIOUS
  <2> QED
    BY <1>1, <2>1
<1> QED
  BY <1>1, <1>2, SeqEqual

\* A value is escaped character by character.
LEMMA EscapedAppend ==
  ASSUME NEW v \in Seq(Characters), NEW c \in Characters
  PROVE  Escaped(Append(v, c)) = Escaped(v) \o EscapedChar(c)
<1> DEFINE w == Append(v, c)
           E(x) == [i \in DOMAIN x |-> EscapedChar(x[i])]
<1>1. /\ w \in Seq(Characters) /\ Len(w) = Len(v) + 1 /\ w[Len(v) + 1] = c
      /\ \A i \in 1..Len(v) : w[i] = v[i]
  OBVIOUS
<1>2. /\ E(v) \in Seq(Seq(Characters)) /\ Len(E(v)) = Len(v)
      /\ E(w) \in Seq(Seq(Characters)) /\ Len(E(w)) = Len(w)
  <2>1. ASSUME NEW x \in Seq(Characters)
        PROVE  E(x) \in Seq(Seq(Characters)) /\ Len(E(x)) = Len(x)
    <3>1. \A i \in 1..Len(x) : EscapedChar(x[i]) \in Seq(Characters)
      BY EscapedCharType
    <3> QED
      BY <3>1
  <2> HIDE DEF E, w
  <2> QED
    BY <1>1, <2>1
<1>3. E(w) = Append(E(v), EscapedChar(c))
  <2>1. EscapedChar(c) \in Seq(Characters)
    BY EscapedCharType
  <2>2. /\ Len(E(w)) = Len(E(v)) + 1
        /\ \A i \in 1..Len(E(v)) : E(w)[i] = E(v)[i]
        /\ E(w)[Len(E(v)) + 1] = EscapedChar(c)
    <3> HIDE DEF w
    <3> QED
      BY <1>1, <1>2
  <2> HIDE DEF E, w
  <2> QED
    BY <1>2, <2>1, <2>2, IsAppend
<1>4. Escaped(v) = FlattenSeq(E(v)) /\ Escaped(w) = FlattenSeq(E(w))
  BY DEF Escaped, EscapedChar
<1>5. FlattenSeq(Append(E(v), EscapedChar(c))) = FlattenSeq(E(v)) \o EscapedChar(c)
  <2>1. EscapedChar(c) \in Seq(Characters)
    BY EscapedCharType
  <2> HIDE DEF E
  <2> QED
    BY <1>2, <2>1, FlattenAppend
<1> HIDE DEF E
<1> QED
  BY <1>3, <1>4, <1>5

\* An empty value is printed as it is.
LEMMA EscapedEmpty == Escaped(<<>>) = <<>>
<1>1. [i \in DOMAIN <<>> |-> EscapedChar(<<>>[i])] = <<>>
  OBVIOUS
<1>2. Escaped(<<>>) = FlattenSeq([i \in DOMAIN <<>> |-> EscapedChar(<<>>[i])])
  BY DEF Escaped, EscapedChar
<1> QED
  BY <1>1, <1>2, FlattenEmpty

\* A value is printed as characters.
LEMMA EscapedType ==
  \A v \in Seq(Characters) : Escaped(v) \in Seq(Characters)
<1> DEFINE T == {v \in Seq(Characters) : Escaped(v) \in Seq(Characters)}
<1>1. <<>> \in T
  <2>1. <<>> \in Seq(Characters)
    OBVIOUS
  <2> QED
    BY <2>1, EscapedEmpty, Zenon
<1>2. ASSUME NEW v \in Seq(Characters), NEW c \in Characters, v \in T
      PROVE  Append(v, c) \in T
  <2>1. Escaped(v) \in Seq(Characters) /\ EscapedChar(c) \in Seq(Characters)
    BY <1>2, EscapedCharType
  <2>2. Escaped(v) \o EscapedChar(c) \in Seq(Characters)
    BY <2>1, ConcatProperties
  <2>3. Append(v, c) \in Seq(Characters)
    OBVIOUS
  <2> QED
    BY <2>2, <2>3, EscapedAppend, Zenon
<1> HIDE DEF T
<1>3. Seq(Characters) \subseteq T
  BY <1>1, <1>2, InductionOnSeq
<1> QED
  BY <1>3 DEF T

\* Characters of a value are characters of a name.
LEMMA Widened ==
  ASSUME NEW u \in Seq(Characters)
  PROVE  u \in Seq(Alphabet)
BY SeqMonotonic DEF Alphabet

\* An escaped value becomes part of the field, whatever it holds.
LEMMA EscapedTurns ==
  ASSUME NEW s \in Unescaped
  PROVE  \A v \in Seq(Characters) : Turns(s, Escaped(v)) = Extended(s, Escaped(v))
<1> DEFINE T == {v \in Seq(Characters) : Turns(s, Escaped(v)) = Extended(s, Escaped(v))}
<1>1. <<>> \in T
  <2>1. <<>> \in Seq(Characters) /\ <<>> \in Seq(Alphabet)
    OBVIOUS
  <2>2. Extended(s, <<>>) = s
    BY <2>1, ExtendedType
  <2> QED
    BY <2>1, <2>2, EscapedEmpty, TurnsEmpty, Zenon
<1>2. ASSUME NEW v \in Seq(Characters), NEW c \in Characters, v \in T
      PROVE  Append(v, c) \in T
  <2> DEFINE u == Escaped(v)
             e == EscapedChar(c)
  <2>1. u \in Seq(Alphabet) /\ e \in Seq(Alphabet)
    BY EscapedType, EscapedCharType, Widened
  <2>2. Turns(s, u) = Extended(s, u)
    BY <1>2
  <2>3. Escaped(Append(v, c)) = u \o e /\ Append(v, c) \in Seq(Characters)
    BY EscapedAppend
  <2> HIDE DEF u
  <2>4. Extended(s, u) \in Unescaped
    BY <2>1, ExtendedType
  <2>5. Turns(Extended(s, u), e) = Extended(Extended(s, u), e)
    BY <2>4, CharEscaped
  <2> HIDE DEF e
  <2>6. Turns(s, u \o e) = Turns(Turns(s, u), e)
    BY <2>1, TurnsConcatenation
  <2>7. Extended(Extended(s, u), e) = Extended(s, u \o e)
    BY <2>1, ExtendedType
  <2> QED
    BY <2>2, <2>3, <2>5, <2>6, <2>7
<1> HIDE DEF T
<1>3. Seq(Characters) \subseteq T
  BY <1>1, <1>2, InductionOnSeq
<1> QED
  BY <1>3 DEF T

\* The attributes of a name of any length.
Named == [type : Types, value : Seq(Characters)]

\* A printed attribute becomes part of the field.
LEMMA PrintedTurns ==
  ASSUME NEW s \in Unescaped, NEW a \in Named
  PROVE  /\ Printed(a) \in Seq(Alphabet)
         /\ Turns(s, Printed(a)) = Extended(s, Printed(a))
<1> DEFINE h == <<a.type, "=">>
           e == Escaped(a.value)
<1>1. /\ a.type \in Alphabet /\ "=" \in Alphabet
      /\ a.type \notin {Comma, Backslash} /\ "=" \notin {Comma, Backslash}
      /\ a.value \in Seq(Characters)
  BY TypesAssumption, CharactersDiffer DEF Named, Alphabet, Characters
<1>2. /\ <<a.type>> \in Seq(Alphabet) /\ h \in Seq(Alphabet)
      /\ <<"=">> \in Seq(Alphabet) /\ e \in Seq(Alphabet)
  <2>1. <<a.type>> \in Seq(Alphabet)
    BY <1>1
  <2>2. <<"=">> \in Seq(Alphabet)
    BY <1>1
  <2>3. h \in Seq(Alphabet)
    BY <1>1
  <2>4. e \in Seq(Alphabet)
    BY <1>1, EscapedType, Widened
  <2> QED
    BY <2>1, <2>2, <2>3, <2>4
<1>3. Turns(s, <<a.type>>) = Extended(s, <<a.type>>)
  <2>1. <<>> \in Seq(Alphabet) /\ Append(<<>>, a.type) = <<a.type>>
    OBVIOUS
  <2>2. Turns(s, Append(<<>>, a.type)) = Char(Turns(s, <<>>), a.type)
    BY <1>1, <2>1, TurnsAppend
  <2> QED
    BY <1>1, <2>1, <2>2, TurnsEmpty, CharPlain
<1>4. Turns(s, h) = Extended(s, h)
  <2> DEFINE b == <<a.type>>
             t == Extended(s, b)
  <2>1. b \in Seq(Alphabet)
    BY <1>2
  <2>2. Append(b, "=") = h
    BY <1>1, AppendPair
  <2>3. b \o <<"=">> = h
    BY <1>1, <1>2, <2>2, AppendIsConcat
  <2>4. Turns(s, b) = t
    BY <1>3
  <2> HIDE DEF b
  <2>5. Turns(s, Append(b, "=")) = Char(Turns(s, b), "=")
    BY <1>1, <2>1, TurnsAppend
  <2>6. t \in Unescaped /\ Extended(t, <<"=">>) = Extended(s, b \o <<"=">>)
    BY <1>2, <2>1, ExtendedType
  <2> HIDE DEF t
  <2>7. Char(t, "=") = Extended(t, <<"=">>)
    BY <1>1, <2>6, CharPlain
  <2> QED
    BY <2>2, <2>3, <2>4, <2>5, <2>6, <2>7, Zenon
<1>5. Printed(a) = h \o e
  BY DEF Printed
<1> HIDE DEF h
<1>6. Extended(s, h) \in Unescaped
  BY <1>2, ExtendedType
<1>7. Turns(Extended(s, h), e) = Extended(Extended(s, h), e)
  BY <1>1, <1>6, EscapedTurns
<1> HIDE DEF e
<1>8. h \o e \in Seq(Alphabet)
  BY <1>2, ConcatProperties
<1>9. Turns(s, h \o e) = Turns(Turns(s, h), e)
  BY <1>2, TurnsConcatenation
<1>10. Extended(Extended(s, h), e) = Extended(s, h \o e)
  BY <1>2, ExtendedType
<1> QED
  BY <1>4, <1>5, <1>7, <1>8, <1>9, <1>10, Zenon

-----------------------------------------------------------------------------
(***************************************************************************)
(* A name, printed and split at its commas.                                *)
(***************************************************************************)
\* The state before the first character.
Start == [fields |-> <<>>, current |-> <<>>, escaped |-> FALSE]

\* An attribute as it is printed at its place in a name.
PrintedAt(i, a) == IF i = 1 THEN Printed(a) ELSE <<Comma>> \o Printed(a)

\* The fields of a name, one for each attribute.
Fields(name) == [i \in DOMAIN name |-> Printed(name[i])]

\* An attribute is printed as characters of a name.
LEMMA PrintedType ==
  ASSUME NEW a \in Named
  PROVE  Printed(a) \in Seq(Alphabet)
<1>1. a.type \in Alphabet /\ "=" \in Alphabet /\ a.value \in Seq(Characters)
  BY DEF Named, Alphabet, Characters
<1>2. <<a.type, "=">> \in Seq(Alphabet) /\ Escaped(a.value) \in Seq(Alphabet)
  BY <1>1, EscapedType, Widened
<1> QED
  BY <1>2, ConcatProperties, Zenon DEF Printed

\* So is one with the comma before it.
LEMMA PrintedAtType ==
  ASSUME NEW i, NEW a \in Named
  PROVE  PrintedAt(i, a) \in Seq(Alphabet)
<1>1. <<Comma>> \in Seq(Alphabet)
  BY DEF Alphabet, Characters
<1>2. <<Comma>> \o Printed(a) \in Seq(Alphabet)
  BY <1>1, PrintedType, ConcatProperties, Zenon
<1> QED
  BY <1>2, PrintedType, Zenon DEF PrintedAt

\* A name is printed attribute by attribute.
LEMMA Rfc2253Append ==
  ASSUME NEW name \in Seq(Named), NEW a \in Named
  PROVE  Rfc2253(Append(name, a)) = Rfc2253(name) \o PrintedAt(Len(name) + 1, a)
<1> DEFINE w == Append(name, a)
           E(x) == [i \in DOMAIN x |-> PrintedAt(i, x[i])]
           d == PrintedAt(Len(name) + 1, a)
<1>0. d \in Seq(Alphabet)
  BY PrintedAtType
<1>1. /\ w \in Seq(Named) /\ Len(w) = Len(name) + 1 /\ w[Len(name) + 1] = a
      /\ \A i \in 1..Len(name) : w[i] = name[i]
  OBVIOUS
<1>2. /\ E(name) \in Seq(Seq(Alphabet)) /\ Len(E(name)) = Len(name)
      /\ E(w) \in Seq(Seq(Alphabet)) /\ Len(E(w)) = Len(w)
  <2>1. ASSUME NEW x \in Seq(Named)
        PROVE  E(x) \in Seq(Seq(Alphabet)) /\ Len(E(x)) = Len(x)
    <3>1. \A i \in 1..Len(x) : PrintedAt(i, x[i]) \in Seq(Alphabet)
      BY PrintedAtType
    <3> QED
      BY <3>1
  <2> HIDE DEF E, w
  <2> QED
    BY <1>1, <2>1
<1>3. E(w) = Append(E(name), d)
  <2>2. /\ Len(E(w)) = Len(E(name)) + 1
        /\ \A i \in 1..Len(E(name)) : E(w)[i] = E(name)[i]
        /\ E(w)[Len(E(name)) + 1] = d
    <3> HIDE DEF w
    <3> QED
      BY <1>1, <1>2
  <2> HIDE DEF E, w, d
  <2> QED
    BY <1>0, <1>2, <2>2, IsAppend
<1>4. Rfc2253(name) = FlattenSeq(E(name)) /\ Rfc2253(w) = FlattenSeq(E(w))
  BY DEF Rfc2253, PrintedAt
<1> HIDE DEF E, d
<1>5. FlattenSeq(Append(E(name), d)) = FlattenSeq(E(name)) \o d
  BY <1>0, <1>2, FlattenAppend
<1> QED
  BY <1>3, <1>4, <1>5 DEF d

\* A name without attributes is printed as nothing.
LEMMA Rfc2253Empty == Rfc2253(<<>>) = <<>>
<1>1. [i \in DOMAIN <<>> |-> PrintedAt(i, <<>>[i])] = <<>>
  OBVIOUS
<1>2. Rfc2253(<<>>) = FlattenSeq([i \in DOMAIN <<>> |-> PrintedAt(i, <<>>[i])])
  BY DEF Rfc2253, PrintedAt
<1> QED
  BY <1>1, <1>2, FlattenEmpty

\* A name is printed as characters of a name.
LEMMA Rfc2253Type == \A name \in Seq(Named) : Rfc2253(name) \in Seq(Alphabet)
<1> DEFINE T == {name \in Seq(Named) : Rfc2253(name) \in Seq(Alphabet)}
<1>1. <<>> \in T
  <2>1. <<>> \in Seq(Named) /\ <<>> \in Seq(Alphabet)
    OBVIOUS
  <2> QED
    BY <2>1, Rfc2253Empty, Zenon
<1>2. ASSUME NEW u \in Seq(Named), NEW a \in Named, u \in T PROVE Append(u, a) \in T
  <2>1. Rfc2253(u) \in Seq(Alphabet) /\ PrintedAt(Len(u) + 1, a) \in Seq(Alphabet)
    BY <1>2, PrintedAtType
  <2>2. Rfc2253(u) \o PrintedAt(Len(u) + 1, a) \in Seq(Alphabet)
    BY <2>1, ConcatProperties
  <2>3. Append(u, a) \in Seq(Named)
    OBVIOUS
  <2> QED
    BY <2>2, <2>3, Rfc2253Append, Zenon
<1> HIDE DEF T
<1>3. Seq(Named) \subseteq T
  BY <1>1, <1>2, InductionOnSeq
<1> QED
  BY <1>3 DEF T

\* One more attribute is one more field.
LEMMA FieldsAppend ==
  ASSUME NEW name \in Seq(Named), NEW a \in Named
  PROVE  /\ Fields(name) \in Seq(Seq(Alphabet))
         /\ Fields(Append(name, a)) = Append(Fields(name), Printed(a))
<1> DEFINE w == Append(name, a)
           d == Printed(a)
<1>0. d \in Seq(Alphabet)
  BY PrintedType
<1>1. /\ w \in Seq(Named) /\ Len(w) = Len(name) + 1 /\ w[Len(name) + 1] = a
      /\ \A i \in 1..Len(name) : w[i] = name[i]
  OBVIOUS
<1>2. /\ Fields(name) \in Seq(Seq(Alphabet)) /\ Len(Fields(name)) = Len(name)
      /\ Fields(w) \in Seq(Seq(Alphabet)) /\ Len(Fields(w)) = Len(w)
  <2>1. ASSUME NEW x \in Seq(Named)
        PROVE  Fields(x) \in Seq(Seq(Alphabet)) /\ Len(Fields(x)) = Len(x)
    <3>1. \A i \in 1..Len(x) : Printed(x[i]) \in Seq(Alphabet)
      BY PrintedType
    <3> QED
      BY <3>1 DEF Fields
  <2> HIDE DEF w
  <2> QED
    BY <1>1, <2>1
<1>3. Fields(w) = Append(Fields(name), d)
  <2>2. /\ Len(Fields(w)) = Len(Fields(name)) + 1
        /\ \A i \in 1..Len(Fields(name)) : Fields(w)[i] = Fields(name)[i]
        /\ Fields(w)[Len(Fields(name)) + 1] = d
    <3> HIDE DEF w
    <3> QED
      BY <1>1, <1>2 DEF Fields
  <2> HIDE DEF w, d
  <2> QED
    BY <1>0, <1>2, <2>2, IsAppend
<1> QED
  BY <1>2, <1>3

\* The state after a comma that ends a field.
Separated(s) == [s EXCEPT !.fields = Append(@, s.current), !.current = <<>>]

\* A comma that is not escaped ends the field.
LEMMA CommaTurns ==
  ASSUME NEW s \in Unescaped
  PROVE  /\ Turns(s, <<Comma>>) = Separated(s)
         /\ Separated(s) \in Unescaped
         /\ Separated(s).fields = Append(s.fields, s.current)
         /\ Separated(s).current = <<>>
<1>1. /\ <<>> \in Seq(Alphabet) /\ Append(<<>>, Comma) = <<Comma>>
      /\ Comma \in Alphabet
  BY DEF Alphabet, Characters
<1>2. Turns(s, Append(<<>>, Comma)) = Char(Turns(s, <<>>), Comma)
  BY <1>1, TurnsAppend
<1>3. /\ s.fields \in Seq(Seq(Alphabet)) /\ s.current \in Seq(Alphabet) /\ ~s.escaped
      /\ s.escaped \in BOOLEAN
  BY DEF Unescaped, Splits
<1>4. Char(s, Comma) = Separated(s)
  BY <1>3 DEF Char, Separated
<1>5. Append(s.fields, s.current) \in Seq(Seq(Alphabet))
  BY <1>3, AppendProperties, Zenon
<1>6. /\ Separated(s) \in Unescaped
      /\ Separated(s).fields = Append(s.fields, s.current)
      /\ Separated(s).current = <<>>
  BY <1>1, <1>3, <1>5 DEF Separated, Unescaped, Splits
<1> QED
  BY <1>1, <1>2, <1>4, <1>6, TurnsEmpty, Zenon

\* The field after the comma starts anew.
LEMMA ExtendedBy ==
  ASSUME NEW s \in Unescaped, s.current = <<>>, NEW u \in Seq(Alphabet)
  PROVE  Extended(s, u).fields = s.fields /\ Extended(s, u).current = u
<1>1. <<>> \o u = u
  BY ConcatEmptySeq
<1> QED
  BY <1>1 DEF Extended, Unescaped, Splits

\* The loop over a printed name leaves one field for each attribute, as printed.
LEMMA NameTurns ==
  \A name \in Seq(Named) : name # <<>> =>
    /\ Turns(Start, Rfc2253(name)) \in Unescaped
    /\ Append(Turns(Start, Rfc2253(name)).fields,
              Turns(Start, Rfc2253(name)).current) = Fields(name)
<1> DEFINE z(name) == Turns(Start, Rfc2253(name))
           T == {name \in Seq(Named) : name # <<>> =>
                   /\ z(name) \in Unescaped
                   /\ Append(z(name).fields, z(name).current) = Fields(name)}
<1>1. <<>> \in T
  OBVIOUS
<1>2. ASSUME NEW u \in Seq(Named), NEW a \in Named, u \in T PROVE Append(u, a) \in T
  <2> DEFINE w == Append(u, a)
             p == Printed(a)
  <2>1. p \in Seq(Alphabet) /\ w \in Seq(Named)
    BY PrintedType
  <2>2. Fields(w) = Append(Fields(u), p)
    BY FieldsAppend
  <2>3. CASE u = <<>>
    <3>1. Start \in Unescaped /\ Start.current = <<>> /\ Start.fields = <<>>
      BY DEF Start, Unescaped, Splits
    <3>2. Rfc2253(w) = p
      <4>1. Rfc2253(w) = Rfc2253(<<>>) \o PrintedAt(Len(<<>>) + 1, a)
        BY <2>3, Rfc2253Append
      <4>2. Len(<<>>) + 1 = 1 /\ <<>> \o p = p
        BY <2>1, ConcatEmptySeq
      <4> QED
        BY <4>1, <4>2, Rfc2253Empty DEF PrintedAt
    <3>3. Turns(Start, p) = Extended(Start, p)
      BY <3>1, PrintedTurns
    <3> HIDE DEF p
    <3>4. /\ Extended(Start, p) \in Unescaped
          /\ Extended(Start, p).fields = <<>> /\ Extended(Start, p).current = p
      BY <2>1, <3>1, ExtendedType, ExtendedBy
    <3>5. Fields(u) = <<>>
      BY <2>3 DEF Fields
    <3> QED
      BY <2>1, <2>2, <3>2, <3>3, <3>4, <3>5, Zenon
  <2>4. CASE u # <<>>
    <3> DEFINE y == z(u)
    <3>1. y \in Unescaped /\ Append(y.fields, y.current) = Fields(u)
      BY <1>2, <2>4
    <3>2. Rfc2253(w) = Rfc2253(u) \o (<<Comma>> \o p)
      <4>1. Len(u) + 1 # 1
        BY <2>4
      <4>2. PrintedAt(Len(u) + 1, a) = <<Comma>> \o p
        BY <4>1 DEF PrintedAt
      <4> QED
        BY <4>2, Rfc2253Append
    <3>3. <<Comma>> \in Seq(Alphabet) /\ Rfc2253(u) \in Seq(Alphabet)
      BY Rfc2253Type DEF Alphabet, Characters
    <3>4. /\ Turns(y, <<Comma>>) = Separated(y) /\ Separated(y) \in Unescaped
          /\ Separated(y).fields = Fields(u) /\ Separated(y).current = <<>>
      BY <3>1, CommaTurns
    <3>5. Turns(Separated(y), p) = Extended(Separated(y), p)
      BY <3>4, PrintedTurns
    <3> HIDE DEF p
    <3>6. Turns(y, <<Comma>> \o p) = Turns(Turns(y, <<Comma>>), p)
      <4> DEFINE b == <<Comma>>
      <4>1. b \in Seq(Alphabet)
        BY <3>3
      <4> HIDE DEF b, y
      <4>2. Turns(y, b \o p) = Turns(Turns(y, b), p)
        BY <2>1, <4>1, TurnsConcatenation
      <4> QED
        BY <4>2 DEF b
    <3>7. z(w) = Turns(y, <<Comma>> \o p)
      <4> DEFINE q == <<Comma>> \o p
                 r == Rfc2253(u)
      <4>1. q \in Seq(Alphabet)
        BY <2>1, <3>3, ConcatProperties
      <4> HIDE DEF q
      <4>2. Turns(Start, Rfc2253(u) \o q) = Turns(Turns(Start, Rfc2253(u)), q)
        BY <3>3, <4>1, TurnsConcatenation
      <4> QED
        BY <3>2, <4>2 DEF q
    <3>8. z(w) = Extended(Separated(y), p)
      BY <3>4, <3>5, <3>6, <3>7, Zenon
    <3> HIDE DEF z, y
    <3>9. /\ z(w) \in Unescaped
          /\ z(w).fields = Fields(u) /\ z(w).current = p
      BY <2>1, <3>4, <3>8, ExtendedType, ExtendedBy
    <3> QED
      BY <2>1, <2>2, <3>9, Zenon
  <2> QED
    BY <2>3, <2>4
<1> HIDE DEF T
<1>3. Seq(Named) \subseteq T
  BY <1>1, <1>2, InductionOnSeq
<1> QED
  BY <1>3 DEF T

-----------------------------------------------------------------------------
(***************************************************************************)
(* An attribute, partitioned at its "=" and its commas replaced.           *)
(***************************************************************************)
\* What a printed attribute reads like.
LEMMA PrintedIs ==
  ASSUME NEW a \in Named, NEW p, p = Printed(a)
  PROVE  /\ p \in Seq(Alphabet) /\ Len(p) = 2 + Len(Escaped(a.value))
         /\ p[1] = a.type /\ p[2] = "=" /\ a.type # "="
         /\ SubSeq(p, 1, 1) = <<a.type>>
         /\ SubSeq(p, 3, Len(p)) = Escaped(a.value)
<1> DEFINE h == <<a.type, "=">>
           e == Escaped(a.value)
<1>1. /\ a.type \in Alphabet /\ "=" \in Alphabet /\ a.type # "="
      /\ a.value \in Seq(Characters)
  BY TypesAssumption DEF Named, Alphabet, Characters
<1>2. /\ h \in Seq(Alphabet) /\ Len(h) = 2 /\ h[1] = a.type /\ h[2] = "="
  BY <1>1
<1>3. e \in Seq(Alphabet)
  BY <1>1, EscapedType, Widened
<1>4. p = h \o e
  BY DEF Printed
<1> HIDE DEF h, e
<1>5. /\ p \in Seq(Alphabet) /\ Len(p) = Len(h) + Len(e)
      /\ \A i \in 1..Len(h) : p[i] = h[i]
      /\ \A i \in 1..Len(e) : p[Len(h) + i] = e[i]
  <2>1. h \in Seq(Alphabet) /\ e \in Seq(Alphabet)
    BY <1>2, <1>3
  <2>2. /\ h \o e \in Seq(Alphabet) /\ Len(h \o e) = Len(h) + Len(e)
        /\ \A i \in 1..Len(h) : (h \o e)[i] = h[i]
        /\ \A i \in 1..Len(e) : (h \o e)[Len(h) + i] = e[i]
    BY <2>1
  <2> QED
    BY <1>4, <2>2
<1>6. Len(e) \in Nat
  BY <1>3
<1>7. Len(p) = 2 + Len(e) /\ p[1] = a.type /\ p[2] = "="
  BY <1>2, <1>5, <1>6
<1>8. SubSeq(p, 1, 1) = <<a.type>>
  <2> DEFINE b == SubSeq(p, 1, 1)
             t == <<a.type>>
  <2>1. b \in Seq(Alphabet) /\ Len(b) = 1 /\ b[1] = p[1]
    BY <1>5, <1>6, <1>7
  <2>2. t \in Seq(Alphabet) /\ Len(t) = 1 /\ t[1] = a.type
    BY <1>1
  <2> HIDE DEF b, t
  <2>3. \A i \in 1..1 : b[i] = t[i]
    BY <1>7, <2>1, <2>2
  <2>4. b = t
    BY <2>1, <2>2, <2>3, SeqEqual
  <2> QED
    BY <2>4 DEF b, t
<1>9. SubSeq(p, 3, Len(p)) = e
  <2> DEFINE b == SubSeq(p, 3, Len(p))
  <2>1. b \in Seq(Alphabet) /\ Len(b) = Len(e) /\ \A i \in 1..Len(e) : b[i] = p[2 + i]
    BY <1>5, <1>6, <1>7
  <2>2. \A i \in 1..Len(e) : b[i] = e[i]
    BY <1>2, <1>5, <2>1
  <2> HIDE DEF b
  <2> QED
    BY <1>3, <2>1, <2>2, SeqEqual DEF b
<1> QED
  BY <1>1, <1>5, <1>7, <1>8, <1>9 DEF e

\* The first "=" of a printed attribute is the one after its type.
LEMMA PartitionPrinted ==
  ASSUME NEW a \in Named
  PROVE  /\ \E j \in DOMAIN Printed(a) : Printed(a)[j] = "="
         /\ Partition(Printed(a)) =
              [key |-> <<a.type>>, value |-> CommasReplaced(Escaped(a.value))]
<1> DEFINE p == Printed(a)
           eq == CHOOSE i \in DOMAIN p : p[i] = "=" /\ \A j \in 1..i-1 : p[j] # "="
<1>0. Len(Escaped(a.value)) \in Nat
  <2>1. Escaped(a.value) \in Seq(Characters)
    BY EscapedType DEF Named
  <2> QED
    BY <2>1
<1>1. /\ p \in Seq(Alphabet) /\ Len(p) = 2 + Len(Escaped(a.value))
      /\ p[1] = a.type /\ p[2] = "=" /\ a.type # "="
      /\ SubSeq(p, 1, 1) = <<a.type>>
      /\ SubSeq(p, 3, Len(p)) = Escaped(a.value)
  BY PrintedIs
<1> HIDE DEF p
<1>2. DOMAIN p = 1..Len(p) /\ 2 \in DOMAIN p
  BY <1>0, <1>1
<1>3. p[2] = "=" /\ \A j \in 1..2-1 : p[j] # "="
  BY <1>1
<1>4. eq \in DOMAIN p /\ p[eq] = "=" /\ \A j \in 1..eq-1 : p[j] # "="
  BY <1>2, <1>3
<1>5. eq = 2
  <2> HIDE DEF eq
  <2>1. eq \in 1..Len(p)
    BY <1>2, <1>4
  <2>2. eq # 1
    BY <1>1, <1>4
  <2>3. ~ (2 < eq)
    BY <1>1, <1>4, <2>1
  <2> QED
    BY <2>1, <2>2, <2>3
<1>6. Partition(p) = [key   |-> SubSeq(p, 1, eq - 1),
                      value |-> CommasReplaced(SubSeq(p, eq + 1, Len(p)))]
  BY DEF Partition
<1> HIDE DEF eq
<1>7. eq - 1 = 1 /\ eq + 1 = 3
  BY <1>5
<1>8. Partition(p) = [key   |-> <<a.type>>, value |-> CommasReplaced(Escaped(a.value))]
  BY <1>1, <1>6, <1>7
<1> QED
  BY <1>1, <1>2, <1>8 DEF p

\* value.replace on a printed value, turn by turn.
CommaAt(x, i) ==
  IF x[i] = Backslash /\ i < Len(x) /\ x[i + 1] = Comma THEN <<>> ELSE <<x[i]>>

\* The parts of which the result is put together, one for each character.
CommaParts(x) == [i \in DOMAIN x |-> CommaAt(x, i)]

\* The parts of which value.replace puts its result together.
LEMMA CommaPartsType ==
  ASSUME NEW S, NEW x \in Seq(S)
  PROVE  /\ CommaParts(x) \in Seq(Seq(S)) /\ Len(CommaParts(x)) = Len(x)
         /\ \A i \in 1..Len(x) : CommaParts(x)[i] = CommaAt(x, i)
<1>1. \A i \in 1..Len(x) : CommaAt(x, i) \in Seq(S)
  BY DEF CommaAt
<1> QED
  BY <1>1 DEF CommaParts

\* A character that is no comma stays as it is.
LEMMA CommasAppend ==
  ASSUME NEW S, NEW x \in Seq(S), NEW c \in S, c # Comma
  PROVE  CommasReplaced(Append(x, c)) = CommasReplaced(x) \o <<c>>
<1> DEFINE w == Append(x, c)
           d == <<c>>
<1>1. /\ w \in Seq(S) /\ Len(w) = Len(x) + 1 /\ w[Len(x) + 1] = c
      /\ \A i \in 1..Len(x) : w[i] = x[i]
  OBVIOUS
<1>2. Len(x) \in Nat
  OBVIOUS
<1> HIDE DEF w
<1>3. ASSUME NEW i \in 1..Len(x) PROVE CommaAt(w, i) = CommaAt(x, i)
  <2>1. i < Len(w) /\ i + 1 \in 1..Len(w) /\ w[i] = x[i]
    BY <1>1, <1>2
  <2>2. CASE i < Len(x)
    <3>1. w[i + 1] = x[i + 1]
      BY <1>1, <1>2, <2>2
    <3> QED
      BY <2>1, <2>2, <3>1 DEF CommaAt
  <2>3. CASE i = Len(x)
    <3>1. w[i + 1] # Comma /\ ~ (i < Len(x))
      BY <1>1, <1>2, <2>3
    <3> QED
      BY <2>1, <3>1 DEF CommaAt
  <2> QED
    BY <1>2, <2>2, <2>3
<1>4. CommaAt(w, Len(x) + 1) = d
  BY <1>1, <1>2 DEF CommaAt
<1>5. d \in Seq(S)
  OBVIOUS
<1> HIDE DEF d
<1>6. /\ CommaParts(x) \in Seq(Seq(S)) /\ Len(CommaParts(x)) = Len(x)
      /\ CommaParts(w) \in Seq(Seq(S)) /\ Len(CommaParts(w)) = Len(w)
      /\ \A i \in 1..Len(x) : CommaParts(x)[i] = CommaAt(x, i)
      /\ \A i \in 1..Len(w) : CommaParts(w)[i] = CommaAt(w, i)
  BY <1>1, CommaPartsType
<1>7. /\ Len(CommaParts(w)) = Len(CommaParts(x)) + 1
      /\ CommaParts(w)[Len(CommaParts(x)) + 1] = d
      /\ \A i \in 1..Len(CommaParts(x)) : CommaParts(w)[i] = CommaParts(x)[i]
  BY <1>1, <1>2, <1>3, <1>4, <1>6
<1>8. CommaParts(w) = Append(CommaParts(x), d)
  BY <1>5, <1>6, <1>7, IsAppend
<1>9. FlattenSeq(Append(CommaParts(x), d)) = FlattenSeq(CommaParts(x)) \o d
  BY <1>5, <1>6, FlattenAppend
<1>10. CommasReplaced(x) = FlattenSeq(CommaParts(x))
  BY DEF CommasReplaced, CommaParts, CommaAt
<1>11. CommasReplaced(w) = FlattenSeq(CommaParts(w))
  BY DEF CommasReplaced, CommaParts, CommaAt
<1> QED
  BY <1>8, <1>9, <1>10, <1>11 DEF w, d

\* An escaped comma becomes a comma.
LEMMA CommasPair ==
  ASSUME NEW S, NEW x \in Seq(S), Backslash \in S, Comma \in S
  PROVE  CommasReplaced(x \o <<Backslash, Comma>>) = CommasReplaced(x) \o <<Comma>>
<1> DEFINE w == x \o <<Backslash, Comma>>
           d == <<Comma>>
           a == Append(CommaParts(x), <<>>)
<1>1. /\ w \in Seq(S) /\ Len(w) = Len(x) + 2
      /\ w[Len(x) + 1] = Backslash /\ w[Len(x) + 2] = Comma
      /\ \A i \in 1..Len(x) : w[i] = x[i]
  <2> DEFINE u == <<Backslash, Comma>>
  <2>1. u \in Seq(S) /\ Len(u) = 2 /\ u[1] = Backslash /\ u[2] = Comma
    OBVIOUS
  <2>2. w = x \o u
    OBVIOUS
  <2> HIDE DEF u, w
  <2>3. /\ w \in Seq(S) /\ Len(w) = Len(x) + Len(u)
        /\ \A i \in 1..Len(x) : w[i] = x[i]
        /\ \A i \in 1..Len(u) : w[Len(x) + i] = u[i]
    <3>1. u \in Seq(S)
      BY <2>1
    <3> QED
      BY <2>2, <3>1
  <2> QED
    BY <2>1, <2>3
<1>2. Len(x) \in Nat
  OBVIOUS
<1> HIDE DEF w
<1>3. ASSUME NEW i \in 1..Len(x) PROVE CommaAt(w, i) = CommaAt(x, i)
  <2>1. i < Len(w) /\ w[i] = x[i]
    BY <1>1, <1>2
  <2>2. CASE i < Len(x)
    <3>1. w[i + 1] = x[i + 1]
      BY <1>1, <1>2, <2>2
    <3> QED
      BY <2>1, <2>2, <3>1 DEF CommaAt
  <2>3. CASE i = Len(x)
    <3>1. w[i + 1] # Comma /\ ~ (i < Len(x))
      BY <1>1, <1>2, <2>3, CharactersDiffer
    <3> QED
      BY <2>1, <3>1 DEF CommaAt
  <2> QED
    BY <1>2, <2>2, <2>3
<1>4. CommaAt(w, Len(x) + 1) = <<>> /\ CommaAt(w, Len(x) + 2) = d
  <2>1. (Len(x) + 1) + 1 = Len(x) + 2 /\ Len(x) + 1 < Len(w)
    BY <1>1, <1>2
  <2>2. CommaAt(w, Len(x) + 1) = <<>>
    BY <1>1, <2>1 DEF CommaAt
  <2>3. CommaAt(w, Len(x) + 2) = d
    BY <1>1, CharactersDiffer DEF CommaAt
  <2> QED
    BY <2>2, <2>3
<1>5. d \in Seq(S) /\ <<>> \in Seq(S)
  OBVIOUS
<1> HIDE DEF d
<1>6. /\ CommaParts(x) \in Seq(Seq(S)) /\ Len(CommaParts(x)) = Len(x)
      /\ CommaParts(w) \in Seq(Seq(S)) /\ Len(CommaParts(w)) = Len(w)
      /\ \A i \in 1..Len(x) : CommaParts(x)[i] = CommaAt(x, i)
      /\ \A i \in 1..Len(w) : CommaParts(w)[i] = CommaAt(w, i)
  BY <1>1, CommaPartsType
<1>7. /\ a \in Seq(Seq(S)) /\ Len(a) = Len(x) + 1
      /\ \A i \in 1..Len(x) : a[i] = CommaParts(x)[i]
      /\ a[Len(x) + 1] = <<>>
  <2> DEFINE b == CommaParts(x)
  <2>1. b \in Seq(Seq(S)) /\ Len(b) = Len(x)
    BY <1>6
  <2> HIDE DEF b
  <2>2. /\ Append(b, <<>>) \in Seq(Seq(S)) /\ Len(Append(b, <<>>)) = Len(b) + 1
        /\ \A i \in 1..Len(b) : Append(b, <<>>)[i] = b[i]
        /\ Append(b, <<>>)[Len(b) + 1] = <<>>
    <3>1. b \in Seq(Seq(S))
      BY <2>1
    <3> QED
      BY <1>5, <3>1, AppendProperties
  <2> QED
    BY <2>1, <2>2 DEF b
<1>8. /\ Len(CommaParts(w)) = Len(a) + 1 /\ CommaParts(w)[Len(a) + 1] = d
      /\ \A i \in 1..Len(a) : CommaParts(w)[i] = a[i]
  <2> HIDE DEF a
  <2>1. /\ Len(CommaParts(w)) = Len(a) + 1 /\ CommaParts(w)[Len(a) + 1] = d
    BY <1>1, <1>2, <1>4, <1>6, <1>7
  <2>2. ASSUME NEW i \in 1..Len(a) PROVE CommaParts(w)[i] = a[i]
    <3>1. CASE i \in 1..Len(x)
      <4>1. a[i] = CommaAt(x, i)
        BY <1>6, <1>7, <3>1
      <4>2. i \in 1..Len(w)
        BY <1>1, <1>2, <3>1
      <4>3. CommaParts(w)[i] = CommaAt(w, i)
        BY <1>6, <4>2
      <4> QED
        BY <1>3, <3>1, <4>1, <4>3
    <3>2. CASE i = Len(x) + 1
      BY <1>1, <1>2, <1>4, <1>6, <1>7, <3>2
    <3> QED
      BY <1>2, <1>7, <3>1, <3>2
  <2> QED
    BY <2>1, <2>2
<1>9. CommaParts(w) = Append(a, d)
  <2> HIDE DEF a
  <2> QED
    BY <1>5, <1>6, <1>7, <1>8, IsAppend
<1>10. FlattenSeq(Append(a, d)) = FlattenSeq(a) \o d
  <2> HIDE DEF a
  <2> QED
    BY <1>5, <1>7, FlattenAppend
<1>11. FlattenSeq(a) = FlattenSeq(CommaParts(x)) \o <<>>
  BY <1>5, <1>6, FlattenAppend
<1>12. FlattenSeq(CommaParts(x)) \o <<>> = FlattenSeq(CommaParts(x))
  BY <1>6, FlattenType, ConcatEmptySeq
<1>13. CommasReplaced(x) = FlattenSeq(CommaParts(x))
  BY DEF CommasReplaced, CommaParts, CommaAt
<1>14. CommasReplaced(w) = FlattenSeq(CommaParts(w))
  BY DEF CommasReplaced, CommaParts, CommaAt
<1> HIDE DEF a
<1> QED
  BY <1>9, <1>10, <1>11, <1>12, <1>13, <1>14 DEF w, d

\* A value without a backslash of its own is read as it was.
LEMMA CommasEscaped ==
  \A v \in Seq(Characters) : Plain(v) => CommasReplaced(Escaped(v)) = v
<1> DEFINE T == {v \in Seq(Characters) : Plain(v) => CommasReplaced(Escaped(v)) = v}
<1>1. <<>> \in T
  <2>1. CommaParts(<<>>) = <<>>
    BY DEF CommaParts
  <2>2. CommasReplaced(<<>>) = FlattenSeq(CommaParts(<<>>))
    BY DEF CommasReplaced, CommaParts, CommaAt
  <2>3. <<>> \in Seq(Characters)
    OBVIOUS
  <2> QED
    BY <2>1, <2>2, <2>3, EscapedEmpty, FlattenEmpty, Zenon
<1>2. ASSUME NEW v \in Seq(Characters), NEW c \in Characters, v \in T
      PROVE  Append(v, c) \in T
  <2> DEFINE w == Append(v, c)
             e == Escaped(v)
  <2>1. /\ w \in Seq(Characters) /\ DOMAIN w = 1..Len(v) + 1 /\ w[Len(v) + 1] = c
        /\ \A i \in 1..Len(v) : w[i] = v[i]
        /\ DOMAIN v = 1..Len(v) /\ Len(v) \in Nat
    OBVIOUS
  <2>2. w = v \o <<c>>
    BY AppendIsConcat
  <2>3. e \in Seq(Characters)
    BY EscapedType
  <2>4. Escaped(w) = e \o EscapedChar(c)
    BY EscapedAppend
  <2> HIDE DEF w, e
  <2> SUFFICES ASSUME Plain(w) PROVE CommasReplaced(Escaped(w)) = w
    BY <2>1 DEF w
  <2>5. c # Backslash /\ Plain(v)
    <3>1. \A i \in 1..Len(v) + 1 : w[i] # Backslash
      BY <2>1 DEF Plain
    <3> QED
      BY <2>1, <3>1 DEF Plain
  <2>6. CommasReplaced(e) = v
    BY <1>2, <2>5 DEF e
  <2>7. CASE c # Comma
    <3>1. EscapedChar(c) = <<c>>
      BY <2>5, <2>7 DEF EscapedChar
    <3>2. Append(e, c) = e \o <<c>>
      BY <2>3, AppendIsConcat
    <3>3. CommasReplaced(Append(e, c)) = CommasReplaced(e) \o <<c>>
      BY <2>3, <2>7, CommasAppend
    <3> QED
      BY <2>2, <2>4, <2>6, <3>1, <3>2, <3>3, Zenon
  <2>8. CASE c = Comma
    <3>1. EscapedChar(c) = <<Backslash, Comma>>
      BY <2>8 DEF EscapedChar
    <3>2. Backslash \in Characters /\ Comma \in Characters
      BY DEF Characters
    <3>3. CommasReplaced(e \o <<Backslash, Comma>>) = CommasReplaced(e) \o <<Comma>>
      BY <2>3, <3>2, CommasPair
    <3> QED
      BY <2>2, <2>4, <2>6, <2>8, <3>1, <3>3, Zenon
  <2> QED
    BY <2>7, <2>8
<1> HIDE DEF T
<1>3. Seq(Characters) \subseteq T
  BY <1>1, <1>2, InductionOnSeq
<1> QED
  BY <1>3 DEF T

-----------------------------------------------------------------------------
(***************************************************************************)
(* The fields of a name, and the issuer.                                   *)
(***************************************************************************)
\* Sequences of one element each are flattened to their elements.
LEMMA FlattenSingles ==
  ASSUME NEW S
  PROVE  \A q \in Seq(S) : FlattenSeq([i \in DOMAIN q |-> <<q[i]>>]) = q
<1> DEFINE E(q) == [i \in DOMAIN q |-> <<q[i]>>]
           T == {q \in Seq(S) : FlattenSeq(E(q)) = q}
<1>1. <<>> \in T
  <2>1. E(<<>>) = <<>> /\ <<>> \in Seq(S)
    OBVIOUS
  <2> HIDE DEF E
  <2> QED
    BY <2>1, FlattenEmpty
<1>2. ASSUME NEW q \in Seq(S), NEW c \in S, q \in T PROVE Append(q, c) \in T
  <2> DEFINE w == Append(q, c)
             d == <<c>>
  <2>1. /\ w \in Seq(S) /\ Len(w) = Len(q) + 1 /\ w[Len(q) + 1] = c
        /\ \A i \in 1..Len(q) : w[i] = q[i]
    OBVIOUS
  <2>2. d \in Seq(S)
    OBVIOUS
  <2>3. ASSUME NEW x \in Seq(S)
        PROVE  /\ E(x) \in Seq(Seq(S)) /\ Len(E(x)) = Len(x)
               /\ \A i \in 1..Len(x) : E(x)[i] = <<x[i]>>
    <3>1. DOMAIN x = 1..Len(x) /\ Len(x) \in Nat
      OBVIOUS
    <3>2. \A i \in 1..Len(x) : <<x[i]>> \in Seq(S)
      OBVIOUS
    <3>3. \A i \in 1..Len(x) : E(x)[i] = <<x[i]>>
      BY <3>1, Zenon
    <3>4. E(x) = [i \in 1..Len(x) |-> E(x)[i]]
      BY <3>1, <3>3, Zenon
    <3> HIDE DEF E
    <3>5. \A i \in 1..Len(x) : E(x)[i] \in Seq(S)
      BY <3>2, <3>3, Zenon
    <3>6. E(x) \in Seq(Seq(S)) /\ Len(E(x)) = Len(x)
      BY <3>1, <3>4, <3>5
    <3> QED
      BY <3>3, <3>6
  <2>4. w = q \o d
    BY AppendIsConcat
  <2> HIDE DEF w, E
  <2>5. /\ E(q) \in Seq(Seq(S)) /\ Len(E(q)) = Len(q)
        /\ E(w) \in Seq(Seq(S)) /\ Len(E(w)) = Len(w)
        /\ \A i \in 1..Len(q) : E(q)[i] = <<q[i]>>
        /\ \A i \in 1..Len(w) : E(w)[i] = <<w[i]>>
    BY <2>1, <2>3
  <2>6. /\ Len(E(w)) = Len(E(q)) + 1 /\ E(w)[Len(E(q)) + 1] = d
        /\ \A i \in 1..Len(E(q)) : E(w)[i] = E(q)[i]
    <3>1. Len(E(w)) = Len(E(q)) + 1
      BY <2>1, <2>5
    <3>2. E(w)[Len(E(q)) + 1] = d
      <4>1. Len(q) + 1 \in 1..Len(w)
        BY <2>1
      <4>2. E(w)[Len(q) + 1] = <<w[Len(q) + 1]>>
        BY <2>5, <4>1, Zenon
      <4> QED
        BY <2>1, <2>5, <4>2, Zenon
    <3>3. ASSUME NEW i \in 1..Len(E(q)) PROVE E(w)[i] = E(q)[i]
      <4>1. i \in 1..Len(q) /\ i \in 1..Len(w)
        BY <2>1, <2>5
      <4>2. E(w)[i] = <<w[i]>> /\ E(q)[i] = <<q[i]>> /\ w[i] = q[i]
        BY <2>1, <2>5, <4>1, Zenon
      <4> QED
        BY <4>2, Zenon
    <3> QED
      BY <3>1, <3>2, <3>3
  <2> HIDE DEF d
  <2>7. E(w) = Append(E(q), d)
    BY <2>2, <2>5, <2>6, IsAppend
  <2>8. FlattenSeq(Append(E(q), d)) = FlattenSeq(E(q)) \o d
    BY <2>2, <2>5, FlattenAppend
  <2>9. FlattenSeq(E(q)) = q
    BY <1>2
  <2> QED
    BY <2>1, <2>4, <2>7, <2>8, <2>9 DEF w
<1> HIDE DEF T
<1>3. Seq(S) \subseteq T
  BY <1>1, <1>2, InductionOnSeq
<1> QED
  BY <1>3 DEF T

\* Splitting a printed name gives its attributes, under their types.
LEMMA SplitPrinted ==
  ASSUME NEW name \in Seq(Named), name # <<>>
  PROVE  SplitRfc2253(Rfc2253(name)) =
           [i \in DOMAIN name |->
              [key   |-> <<name[i].type>>,
               value |-> CommasReplaced(Escaped(name[i].value))]]
<1> DEFINE z == Turns(Start, Rfc2253(name))
           fields == Append(z.fields, z.current)
           E(f) == [i \in DOMAIN f |->
                      IF \E j \in DOMAIN f[i] : f[i][j] = "="
                      THEN <<Partition(f[i])>> ELSE <<>>]
           q == [i \in DOMAIN name |->
                   [key   |-> <<name[i].type>>,
                    value |-> CommasReplaced(Escaped(name[i].value))]]
           S == {q[i] : i \in DOMAIN name}
<1>1. SplitRfc2253(Rfc2253(name)) = FlattenSeq(E(fields))
  BY DEF SplitRfc2253, Turns, Start
<1>2. fields = Fields(name)
  BY NameTurns
<1> HIDE DEF fields
<1>3. DOMAIN name = 1..Len(name) /\ \A i \in DOMAIN name : name[i] \in Named
  OBVIOUS
<1>4. \A i \in DOMAIN name :
        /\ \E j \in DOMAIN Printed(name[i]) : Printed(name[i])[j] = "="
        /\ Partition(Printed(name[i])) = q[i]
  BY <1>3, PartitionPrinted
<1>5. E(Fields(name)) = [i \in DOMAIN name |-> <<q[i]>>]
  <2> HIDE DEF q
  <2>1. /\ DOMAIN Fields(name) = DOMAIN name
        /\ \A i \in DOMAIN name : Fields(name)[i] = Printed(name[i])
    BY DEF Fields
  <2> QED
    BY <1>4, <2>1
<1>6. q \in Seq(S) /\ DOMAIN q = DOMAIN name
  <2>1. DOMAIN q = DOMAIN name /\ \A i \in DOMAIN name : q[i] \in S
    BY Zenon
  <2>2. q = [i \in 1..Len(name) |-> q[i]] /\ Len(name) \in Nat
    BY <1>3
  <2> HIDE DEF q, S
  <2> QED
    BY <1>3, <2>1, <2>2
<1> HIDE DEF q, S, E
<1>7. FlattenSeq([i \in DOMAIN name |-> <<q[i]>>]) = q
  BY <1>6, FlattenSingles
<1> QED
  BY <1>1, <1>2, <1>5, <1>7 DEF q

\* The names of the model are names of some length.
LEMMA NamesNamed ==
  ASSUME NEW name \in Names
  PROVE  name \in Seq(Named) /\ name # <<>>
<1>1. PICK n \in 1..MaxAttributes : name \in [1..n -> Attributes]
  BY DEF Names
<1>2. n \in Nat /\ n > 0
  BY <1>1, BoundsAssumption
<1>3. Attributes \subseteq Named
  <2>1. Values \subseteq Seq(Characters)
    BY BoundsAssumption DEF Values
  <2> QED
    BY <2>1 DEF Attributes, Named
<1>4. \A i \in 1..n : name[i] \in Named
  BY <1>1, <1>3
<1> QED
  BY <1>1, <1>2, <1>4

\* What describe_leaf may return of the issuer.
IssuerInv ==
  /\ issuer \in Names
  /\ issuer_cn \in {{}, IssuerCn(SplitRfc2253(Rfc2253(issuer)))}

\* What is true of the fields is true of the issuer that is recorded.
LEMMA IssuerFromFields ==
  ASSUME IssuerInv
  PROVE  IssuerIsRead
<1> DEFINE fields == SplitRfc2253(Rfc2253(issuer))
<1>1. issuer \in Seq(Named) /\ issuer # <<>>
  BY NamesNamed DEF IssuerInv
<1>2. fields = [i \in DOMAIN issuer |->
                  [key   |-> <<issuer[i].type>>,
                   value |-> CommasReplaced(Escaped(issuer[i].value))]]
  BY <1>1, SplitPrinted
<1>3. DOMAIN issuer = 1..Len(issuer) /\ Len(issuer) \in Nat
  BY <1>1
<1>4. ASSUME NEW i \in DOMAIN issuer
      PROVE  /\ fields[i].key = <<issuer[i].type>>
             /\ Plain(issuer[i].value) => fields[i].value = issuer[i].value
  <2>1. issuer[i].value \in Seq(Characters)
    <3>1. issuer[i] \in Named
      BY <1>1, <1>3, ElementOfSeq
    <3> QED
      BY <3>1 DEF Named
  <2>2. /\ fields[i].key = <<issuer[i].type>>
        /\ fields[i].value = CommasReplaced(Escaped(issuer[i].value))
    BY <1>2
  <2> QED
    BY <2>1, <2>2, CommasEscaped
<1>5. Len(fields) = Len(issuer) /\ DOMAIN fields = DOMAIN issuer
  BY <1>2, <1>3
<1>6. ASSUME NEW cn \in issuer_cn
      PROVE  \E i \in DOMAIN issuer :
               /\ issuer[i].type = "CN"
               /\ \A j \in 1..i-1 : issuer[j].type # "CN"
               /\ Plain(issuer[i].value) => cn = issuer[i].value
  <2>1. cn \in IssuerCn(fields)
    BY DEF IssuerInv
  <2> HIDE DEF fields
  <2> DEFINE cns == {i \in DOMAIN fields : fields[i].key = <<"CN">>}
  <2>2. PICK i \in cns : cn = fields[i].value /\ \A j \in cns : i <= j
    BY <2>1 DEF IssuerCn
  <2>3. ASSUME NEW j \in DOMAIN issuer PROVE j \in cns <=> issuer[j].type = "CN"
    <3>1. <<issuer[j].type>> = <<"CN">> <=> issuer[j].type = "CN"
      OBVIOUS
    <3> QED
      BY <1>4, <1>5, <3>1
  <2>4. i \in DOMAIN issuer /\ issuer[i].type = "CN"
    BY <1>5, <2>3
  <2>5. ASSUME NEW j \in 1..i-1 PROVE issuer[j].type # "CN"
    <3>1. j \in DOMAIN issuer /\ ~ (i <= j)
      BY <1>3, <2>4
    <3> QED
      BY <2>2, <2>3, <3>1
  <2>6. Plain(issuer[i].value) => cn = issuer[i].value
    BY <1>4, <2>2, <2>4
  <2> QED
    BY <2>4, <2>5, <2>6
<1> QED
  BY <1>4, <1>5, <1>6 DEF IssuerIsRead

\* The issuer recorded is the value of the first CN of the issuer's name, for names
\* of any number of attributes, whose values hold commas and equal signs wherever
\* they like: what openssl prints, split_rfc2253 takes apart again, one field for
\* each attribute.  A value that holds a backslash is found and may keep its
\* escapes (probe.py:503-526, 576-582).
THEOREM IssuerRead == Spec => []IssuerIsRead
<1>1. Init => IssuerInv
  BY DEF Init, IssuerInv
<1>2. IssuerInv /\ [Next]_vars => IssuerInv'
  <2> SUFFICES ASSUME IssuerInv, [Next]_vars PROVE IssuerInv'
    OBVIOUS
  <2>1. CASE ReadChain
    BY <2>1 DEF ReadChain, IssuerInv
  <2>2. CASE DescribeLeaf
    BY <2>2 DEF DescribeLeaf, IssuerInv
  <2>3. CASE UNCHANGED vars
    BY <2>3 DEF vars, IssuerInv
  <2> QED
    BY <2>1, <2>2, <2>3 DEF Next, Terminated
<1>3. IssuerInv => IssuerIsRead
  BY IssuerFromFields
<1> QED
  BY <1>1, <1>2, <1>3, PTL DEF Spec
=============================================================================
