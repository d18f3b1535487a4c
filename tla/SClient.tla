------------------------------ MODULE SClient ------------------------------
(***************************************************************************)
(* What one `openssl s_client` run can leave behind, and how               *)
(* public-endpoints/probe.py reads it.                                     *)
(*                                                                         *)
(* probe.py never sees the wire.  It sees how the process ended, the lines *)
(* it printed and whether its -sess_out file exists.  An Outcome pairs     *)
(* those three with the exchange that really took place, so that the       *)
(* modules that use it can compare what is recorded with what happened.    *)
(* Module Connection runs the processes step by step and is checked to     *)
(* end only in an Outcome of this module; module Probe takes one Outcome   *)
(* per call of run_s_client.                                               *)
(*                                                                         *)
(* A transcript is the set of the lines the regular expressions of         *)
(* probe.py look for (their order matters only to the lifetime hints,      *)
(* which module Connection keeps).  A line is <<kind, detail>>.            *)
(***************************************************************************)
EXTENDS Integers

CONSTANTS
  Versions,       \* the TLS versions that servers negotiate
  MaxTickets      \* NewSessionTicket messages one connection may carry

\* s_client_argv turns the older versions off.
ASSUME VersionsAssumption == Versions \subseteq {"TLSv1.2", "TLSv1.3"}

ASSUME MaxTicketsAssumption == MaxTickets \in Nat \ {0}

\* s_client names the version and cipher of a handshake that failed "(NONE)".
NoVersion == "(NONE)"

(***************************************************************************)
(* Lines.                                                                  *)
(***************************************************************************)
New(version)    == <<"New", version>>
Reused(version) == <<"Reused", version>>
Banner          == <<"Ticket", "arrived">>
Material        == <<"Ticket", "material">>

Lines == {New(v) : v \in Versions \cup {NoVersion}}
           \cup {Reused(v) : v \in Versions} \cup {Banner, Material}

(***************************************************************************)
(* The exchange.  phase is how far the connection got: "none" sent nothing *)
(* at all, "unreached" found nobody listening, "rejected" spoke to a       *)
(* listener and failed the handshake, "established" completed it.          *)
(* session_id says that a TLS 1.2 server gave a session identifier.        *)
(***************************************************************************)
Phases == {"none", "unreached", "rejected", "established"}

Exchange ==
  [phase : Phases, version : Versions \cup {NoVersion}, resumed : BOOLEAN,
   tickets : 0..MaxTickets, session_id : BOOLEAN]

NoExchange == [phase |-> "none", version |-> NoVersion, resumed |-> FALSE,
               tickets |-> 0, session_id |-> FALSE]

\* The exchanges open to a client whose -sess_in file is in the given state: a
\* file that cannot be loaded ends s_client before it opens a socket.
Exchanges(session) ==
  IF session = "partial"
  THEN {NoExchange}
  ELSE { x \in Exchange :
           /\ x.phase # "none"
           /\ x.phase = "established" <=> x.version # NoVersion
           /\ x.phase # "established" =>
                ~x.resumed /\ x.tickets = 0 /\ ~x.session_id
           /\ x.resumed => session = "whole"
           /\ x.version = "TLSv1.3" => ~x.session_id
           /\ x.version = "TLSv1.2" => x.tickets <= 1 }

(***************************************************************************)
(* What s_client prints of an exchange.  It prints its summary, with its   *)
(* New or Reused line, also when the handshake failed.                     *)
(***************************************************************************)
Headline(x) ==
  IF x.phase \in {"none", "unreached"} THEN {}
  ELSE {IF x.resumed THEN Reused(x.version) ELSE New(x.version)}

Banners(x) == IF x.tickets > 0 /\ x.version = "TLSv1.3" THEN {Banner} ELSE {}

Printed(x) ==
  Headline(x) \cup Banners(x) \cup (IF x.tickets > 0 THEN {Material} ELSE {})

\* A killed s_client loses what it had not flushed: a prefix survives.
Cuts(x) == {{}, Headline(x), Headline(x) \cup Banners(x), Printed(x)}

Texts(x, ended) == IF ended = "exited" THEN {Printed(x)} ELSE Cuts(x)

\* -sess_out is written when a session arrives, whatever happens to the
\* transcript afterwards; the write can fail, and a kill can cut it short.
SaveStates == {"none", "partial", "whole"}

Saves(x, ended, sess_out) ==
  IF sess_out /\ (x.tickets > 0 \/ x.session_id)
  THEN {"none", "whole"} \cup (IF ended = "timeout" THEN {"partial"} ELSE {})
  ELSE {"none"}

(***************************************************************************)
(* The outcomes of run_s_client.  session is the state of the -sess_in     *)
(* file ("none" when the option is absent), sess_out says whether          *)
(* -sess_out is given.  The timeout may come before s_client connects.     *)
(***************************************************************************)
SpawnFailure == [ended |-> "spawn_failure", text |-> {}, saved |-> "none",
                 exchange |-> NoExchange]

Outcomes(session, sess_out) ==
  {SpawnFailure} \cup
  { [ended |-> "timeout", text |-> {}, saved |-> "none", exchange |-> NoExchange] } \cup
  UNION { { [ended |-> e, text |-> t, saved |-> s, exchange |-> x] :
              t \in Texts(x, e), s \in Saves(x, e, sess_out) } :
          x \in Exchanges(session), e \in {"exited", "timeout"} }

(***************************************************************************)
(* How probe.py reads a transcript.                                        *)
(***************************************************************************)

\* Mutation: a pattern that knows the Reused line of TLS 1.3 only.
ReusedLineOfTls13(text) == Reused("TLSv1.3") \in text

\* parse_handshake: a handshake completed when a New or Reused line is there.
ReusedLinePresent(text)  == \E v \in Versions : Reused(v) \in text
HandshakeCompleted(text) ==
  ReusedLinePresent(text) \/ \E v \in Versions \cup {NoVersion} : New(v) \in text

TlsVersions(text) == {v \in Versions \cup {NoVersion} :
                        Reused(v) \in text \/ New(v) \in text}

\* Mutation: only the banner counts, which TLS 1.2 tickets never have.
ObservedByBanner(text) ==
  IF Banner \in text THEN "post_handshake_newsessionticket" ELSE "null"

\* parse_tickets: the two routes by which a ticket shows.
ObservedVia(text) ==
  IF Banner \in text THEN "post_handshake_newsessionticket"
  ELSE IF Material \in text THEN "session_block_only"
  ELSE "null"

\* resumption_mechanism
ResumptionMechanism(version, ticket_material_present) ==
  IF version = "TLSv1.3" THEN "tls13_psk"
  ELSE IF version # "TLSv1.2" THEN "null"
  ELSE IF ticket_material_present THEN "tls12_session_ticket_or_session_id"
  ELSE "tls12_session_id"

Mechanisms == {"null", "tls13_psk", "tls12_session_ticket_or_session_id",
               "tls12_session_id"}
=============================================================================
