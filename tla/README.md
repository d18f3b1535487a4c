# A verification project for tls-resumption-tests

The repository measures whether TLS peers resume sessions, and is built on two
rules: every measurement carries a control, and a negative result must be
distinguishable from a test that never posed the question. This project models
the program that makes the measurements and checks that what it records follows
from what happened on the wire.

## The system

| part | state | operations | hard because |
|---|---|---|---|
| `public-endpoints/probe.py`, `main` and `probe_host` | the panel position, the pinned address, the host's directory with `session.pem` and `minted-by`, the record, the records, two output files | resolve, make the directory, connect, read, check provenance, offer, control, remove, report, write | any call may fail or raise; removal may be incomplete; the process may be interrupted; the only view of the wire is text |
| `probe.py`, `run_s_client` | a feeder process, an `s_client` process, a deadline, `-sess_out` | spawn, feed and hold, read until exit or timeout, kill, reap | four processes, a clock, a transcript that is lost while a file survives |
| `probe.py`, the readers | none | `parse_handshake`, `parse_tickets`, `resumption_mechanism`, `build_controls` | TLS 1.2 and 1.3 show tickets by different routes; `None` and `False` mean different things |
| `probe.py`, certificates and layout | none | chain and leaf, `results.md`, summary, `--dry-run` | text only |
| `selftest.sh` | local `s_server`s | four phases | a test driver |
| `ticket-prompting/` | result files of two runs | `run.sh` runs `probe.py` twice and renames, `compare.py` compares | a failure between two renames; hosts that were not measured |
| `firefox-client/server.py` | a counter, a log, one thread per connection | accept, handshake, log, answer | threads share the counter and the log; the clock is read after the handshake |
| `firefox-client/nonbrowser.sh`, `mtls-openssl/` | a session file, a certificate that expires | connect, wait for expiry, resume, control | a session that was never saved; expiry between two steps |
| `nginx-vhost-scope/`, `haproxy/` | a session file, two policies on one ticket key | control, mint, replay, control | a control that failed makes the result unreadable |
| `go-crypto-tls/main.go` | a session cache, a client certificate, the root that is dropped | dial, wait, swap caches, drop the root | goroutines of the server against the client's reads |
| recorded results | data | none | none |

`probe.py` calls `run_s_client` twice for each host. The two calls share the pinned
address, the host name and, through `-sess_out` and `-sess_in`, the session file.
`main` calls `probe_host` for every entry of the panel and writes the output at the
end. `ticket-prompting/run.sh` runs all of `probe.py` twice over one directory.
The other experiments are separate programs that share the idea but no code.

What makes each part correct, in one line each:

- the loop: one record for every host, in order, whatever happens to a host;
- a host: at most two connections, both to one address; a session goes back only
  to the host that issued it;
- a record: an answer only to a question that was posed, true, not lost, and
  called readable exactly when it is there; failed hosts carry no measurement;
- `run_s_client`: it ends, leaves no process, and what it returns agrees with what its
  processes did (that it holds the connection after the request is not so, see the findings);
- the scripts: no result is printed that a failed control makes unreadable.

## The modules

| module | models | lines |
|---|---|---|
| `SClient` | what a run of `s_client` can leave behind, and the readers of it | shared |
| `Connection` | one call of `run_s_client`, process by process | `probe.py` 241-318 |
| `ConnectionHold` | `Connection` with the time of the request as history | |
| `Probe` | `main`'s loop, `resolve`, `probe_host`, `build_controls`, the output | `probe.py` 118-138, 623-920, 1270-1320 |
| `ProbeInvariant` | the inductive invariant of `Probe` | |
| `ResumptionQuestion` | what a run promises its reader, without how | `public-endpoints/README.md`, "Method" |
| `ProbeQuestion` | the refinement mapping from `Probe` to it | |
| `ProbeReport` | what the summary and `results.md` say of the records of `Probe` | `probe.py` 870-1140 |
| `Certificates` | how the chain and the leaf's issuer are read | `probe.py` 484-615, 733-771 |
| `TicketPrompting` | `run.sh` and `compare.py` over the files of several runs | `ticket-prompting/run.sh` 15-39, `compare.py` 19-75, `probe.py` 1243-1320 |
| `ConnectionLog` | the threads of `server.py` | `firefox-client/server.py` 50-57, 85-134 |
| `Replay` | the four replay scripts | `nginx-vhost-scope/run.sh`, `haproxy/run.sh`, `mtls-openssl/run.sh`, `firefox-client/nonbrowser.sh` |
| `GoResumption` | the Go program, both ends of its connections | `go-crypto-tls/main.go` 59-174 |
| `ProbeProofs`, `ConnectionProofs`, `CertificatesProofs`, `TicketPromptingProofs`, `ConnectionLogProofs`, `ReplayProofs`, `GoResumptionProofs` | the proofs about the module each is named after | |
| `ProbeReaderProofs` | the proofs about `ProbeQuestion` and `ProbeReport` | |
| `MCProbe`, `MCConnection`, `MCTicketPrompting`, `MCConnectionLog`, `MCGoResumption` | constants for TLC | |

### SClient

`probe.py` learns three things from a connection: how the process ended, what it
printed and whether the session file is there. An *outcome* pairs these with the
exchange that really took place. A transcript is the set of the lines that the
regular expressions look for (`RE_NEW`, `RE_REUSED`, `RE_TICKET`,
`RE_TICKET_MATERIAL`); everything else in it decides nothing. `s_client`, the
network and the server are external. What the module assumes of them:

- an exchange resumes only if a whole session file was given, and a session file
  that was cut short ends `s_client` before it connects;
- the summary with its `New` line is printed also when the handshake fails over
  an open connection, as `New, (NONE), Cipher is (NONE)` (observed with
  `s_client` 3.0.11 against a server that sends an alert);
- TLS 1.3 tickets come after the handshake with a banner each, the one TLS 1.2
  ticket with it and without a banner; a TLS 1.2 server may give a session
  identifier only; all three make `s_client` write `-sess_out`;
- a killed `s_client` leaves a prefix of its transcript, and a session file that
  is absent, cut short or whole.

The readers are translated from the code: `ReusedLinePresent`,
`HandshakeCompleted`, `TlsVersions` (`parse_handshake`), `ObservedVia`
(`parse_tickets`), `ResumptionMechanism`.

### Connection

State: the arguments of the call, the server, the clock, and for every process
where it is; what `s_client` has printed; the `-sess_out` file; the result.
Actions: `SpawnFeeder`, `SpawnClient`, `ClientEnded`, `TimeoutExpired` and
`Finally` are `run_s_client`; `FeederWrites` and `FeederExits` are the one-line
program given to `python -c`; the others are `s_client` and the server. A spawn
may fail, the save may fail, the server may close at any time or never, and any
process may take any time over any step except a sleep or the deadline.

The lines are kept in order, and so are the lifetime hints, of which a TLS 1.3
ticket may print one after its banner and a TLS 1.2 session one in its block.
`LifetimeHint` is how `parse_tickets` chooses among them, and `file` knows which
ticket its session came with, so that `HintIsOfSavedSession` can compare the two: the
comment at `probe.py:449-451` says that the last hint is that of the session offered
back, and it is if `s_client` ended by itself, saved its last session, and every
ticket carried a hint.

`ConnectionHold` adds to every step of it the time at which `s_client` sent the request. The
repository promises that the connection is held for `--hold` seconds after that; the feeder's
sleep starts earlier, when the request is in the pipe, and `HeldAfterRequest` fails.

`ReturnsAnOutcome` is what ties it to `Probe`: whatever the interleaving, the call
returns an element of `SClient!Outcomes`, and `Probe` takes exactly one element of
that set for each call. (The check earned its place: a timeout that fires before
`s_client` has connected at all was missing from the set at first.)

### Probe

`pc` is where `probe_host` and `main` are. One action per step that can fail or
be interrupted:

| action | code |
|---|---|
| `Resolve` | `resolve` and the `dns_failure` return, 623-654 and 707-713 |
| `RaiseEarly` | an exception before the `try`, 707-718 |
| `MakeWorkdir` | `mkdtemp`, 718 |
| `RunMint` | the first connection, 723-733 |
| `MintFailed` | the two early returns after it, 734-752 |
| `MintSaved`, `MintUnsaved`, `MintRaises` | the tickets, the session file, `minted-by`, 754-807 |
| `CheckProvenance` | `check_session_provenance`, 661-684 and 810 |
| `RunOffer`, `ReadOffer` | the second connection and what is read of it, with `build_controls`, 812-865 and 870-920 |
| `Cleanup` | the `finally` clause and `main`'s `append`, 866-867 and 1287 |
| `WriteJson`, `WriteMd` | 1314-1320 |
| `Interrupt` | Ctrl-C, with the `finally` clause, or a kill, without it |

Recorded values are "yes", "no" and "null" for `True`, `False` and `None`. Two
things the harness cannot see are history: `wire`, the connections really made to
every host, and the `by` field of `sess_file`, the host a session really came from.
`RemoveWorkdir` may leave the directory and either file of it (`ignore_errors`), and
`MakeWorkdir` may take any name that is free.

### ProbeReport

Operators over the records of `Probe`: `TableRow` is the row of a host in the summary and in
`results.md`, `Listed` says which hosts the list under the table names, `Reason` is
`build_controls`' reason, test by test. The properties compare these with one another
and with `wire`. (The label of the list in the printed summary, `no ticket was
offerable` at `probe.py:1005`, is narrower than the list: it is printed also of hosts whose
ticket was offered and whose second connection failed. `results.md` gives the reason of
each host instead, and that reason is what `ReasonsAreTrue` is about.)

### Certificates

`ReadChain` is the first connection and `parse_chain_pems` over its transcript, which may
be cut anywhere; `DescribeLeaf` is the issuer part of `describe_leaf`. A distinguished
name is read with `SplitRfc2253`, a fold of `Char`, one turn of the loop in
`split_rfc2253`. `Rfc2253` is how `openssl x509 -nameopt RFC2253` prints a name, and is what the
splitting is compared with; `Comma` and `Backslash` are the two characters its loop tests
for. Values over `a`, `=`, `,` and `\` are enough because the reader
treats only the last three, and the type of an attribute, differently from other
characters. A value with a backslash of its own keeps it doubled, which the
properties except.

### ResumptionQuestion

The abstract specification has two variables. `asked` is what each host answered
to the one question it may be put, `verdict` what was published of it. A host is
asked at most once, all verdicts are published in one step and only when the
asking is over, and a "yes" or "no" must follow from the answer. `ProbeQuestion`
maps the second connection of `wire` to `asked` and `results.json` to `verdict`. Its
`Refusals` admits a failed handshake as a "no", which is what the code does; the
README of the repository admits only a full handshake (see the findings).

### TicketPrompting

The variables `json` and `md` hold the files `results`, `silent-results` and
`head-results` of either kind: missing, cut short, or whole with the request and the
digest they record and, per host, whether a ticket was issued. The invocation of
`run.sh` that a file is of is history. `Start` and `SelftestPasses` are lines 15-23 of
`run.sh`; `ReadPanel`, `HashPanel`, `WriteJson` and `WriteMd` are one run of `probe.py`
(what it measures is `Probe`'s subject, here it may be anything); `RenameJson` and
`RenameMd` are the two `mv`s after each run; `Compare` is line 39. `Fail` is any
command failing or being killed, which under `set -e` ends the script and may leave
the file being written cut short. `EditPanel` is the user, at any time: `probe.py` opens
the panel twice, to read it and to hash it. `compare.py` changes nothing, so it is
operators: what it checks (`SamePanel`, `OneFlagDifferent`), what it can index
(`Readable`) and what it counts (`IssuedIn`, `Withheld`).

### ConnectionLog

Every handler thread goes through the accesses to what it shares, one step each:
`Handshake`, `LoadN` and `StoreN` (the two halves of `n += 1`), `ReadClock`, `Format`
(which reads `n` again), `AppendLine`, `Answer`. `Accept` is the main loop, `Stop` its end
by Ctrl-C, `Expire` the clock passing `expiry`. `AtOnce` bounds how many threads race. What a handshake comes to is the
client's choice, because that is what the experiment asks; the model is about
whether the log can be read as the module's docstring reads it. `finished`, whether
the certificate was valid when a handshake ended, `since`, how many lines there were by
then, and `crowded`, whether two threads were ever at work on a line at once, are history.

The docstring speaks of "connections after expiry". A line may be in error about that in one
direction: the clock is read after the handshake, so a connection that straddles the expiry is
logged as one after it, and lines are appended in any order, so a valid one may follow it.
`ExpiredLineDivides` says what a reader can rely on without knowing how the threads ran: a
connection whose handshake ended when an expired line was in the log is one after the expiry
and is logged so. The expired line itself need not be of one. Lost updates of the counter
are in the model too, and no property is about them but `AloneInOrder`: the number is only
printed.

### Replay

The four scripts do the same: start a server in the background and sleep, run a fixed
list of `s_client` connections through one session file, print what `grep` finds in each
transcript, kill the server. `Plan` is that list for each script, `Test` and `Control` the
positions of the connection that asks and of the one with a full handshake. One action
`Connect` makes the next connection of the plan; `WaitMtls` and `WaitNonbrowser` are the waits for
the expiry, one by the certificate and one by the shell's clock; `Listens`, `Dies` and
`Expires` are the environment. No script stops when a step fails, so a connection may find no
server (`"none"`), no session file, an alert (`"failed"`), or be a full or resumed handshake; what
a resumed one is held to is what the experiment asks, and is left open. `SaysReused` and
its kin are the printed lines.

What no property of this module promises: "RESULT: not vulnerable." (`nginx-vhost-scope/run.sh:42`;
"not served." in `haproxy`) is printed of every test without the content, also of one that reached
no server or had no session to offer. A reader who takes it for an answer must look at step 4:
`OfferableMeansPosed` says that its RESUMED line is not printed of such a test. In the same way
"refused, as it must be" (line 24) and "SERVER REJECTED" (`mtls-openssl/run.sh:42`) are printed of a
control that found no server, and `FindingIsOfResumption` has as a condition that the control
completed its handshake, which only the transcript shows.

Assumed: `gen.sh` was run, the port was free, an alert arrives while the connection is
held, a server that is gone stays gone, and the rule under test is applied to every
full handshake or to none (`enforces`).

### GoResumption

`main` is sequential, and its listener has a goroutine per connection: `Dial`, `Read` (with
`Report`, the printed line), `Sleep` and `Wake` are `main`, `Judge` and `Close` a goroutine, `Tick` the clock.
The dials are numbered 1 to 8; `FreshCache`, `RootDropped` and `SecondCertificate` say what `main` sets
before which. In TLS 1.3 a dial returns before the server has judged the client, so that
what the read returns, and what is in the session cache after it, depends on the goroutine.
Whether the server resumes a session that it is offered is left open; that a resumption
is not judged again is the weakest server, for which the controls have to bite all the
same. `tls.Dial` to the program's own listener does not fail.

## The runs

Passing runs, with their bounds:

- **`probe_one`** (`ProbeOne.cfg`): one host, two address families, two addresses,
  one directory name, TLS 1.2 and 1.3, at most one ticket. About 7 900 states. Every
  pair of outcomes of the two connections is covered, and so is what is printed of it. It checks that a host has at
  most two connections, to one address (`TwoPinnedConnections`), that an answer was
  posed (`AnswerWasPosed`), is true (`AnswerIsTrue`) and is not lost
  (`AnswerIsRecorded`), that
  the ticket column is right as far as the transcript goes (`TicketReportIsTrue`),
  that failures invent nothing (`FailureIsBare`), that what is printed is sound
  (`ReportIsSound`: a dash in the table is explained by the list under it, with a reason that
  is true, and `results.md` can be written of every measured host), and that the run ends
  (`Terminates`). Why these bounds are enough: records of different hosts share
  nothing but directories, which `probe_two` is about; two addresses and two
  families are what it takes for a second resolution to differ; a second ticket
  changes neither a transcript, which is a set of lines, nor the session file's state.
- **`probe_two`** (`ProbeTwo.cfg`): two hosts, two interchangeable directory names,
  one address, TLS 1.3. About 893 000 states. Two hosts and two names are what it
  takes for a directory that was left behind to be met by a later host. It checks
  types, `NoCrossHostReplay`, `ProvenanceIsTrue`, `OutputIsComplete`, the inductive
  invariant `IInv` that the proofs use, and the refinement `ImplementsQuestion`.
- **`connection`** (`Connection.cfg`): one call, both TLS versions, up to two tickets,
  a hold of 2, a timeout of 3 and a clock of 4 ticks, so that the hold may end
  before, at and after the handshake and the deadline. About 233 000 states. It
  checks types, `ReturnsAnOutcome`, `HintIsOfSavedSession`, `NoProcessLeft` and
  `Returns`. Two tickets are what it takes for a hint to be of the wrong one.
- **`certificates`** (`Certificates.cfg`): chains of up to two certificates, issuers of up to
  two attributes with values of up to two characters, the transcript cut anywhere.
  About 88 000 states. Two characters hold every pair of special ones, two attributes every
  pair of a value and what follows it. It checks `ChainIsWholeOrNull` and
  `IssuerIsRead`.
- **`replay`** (`Replay.cfg`): all four scripts; there is nothing to bound. About 3 000 states.
  It checks what the second control shows (`OfferableMeansPosed`), what the first
  one shows (`FindingIsOfResumption`), and that the control of `mtls-openssl` is one of the
  connections its server counts (`ControlFindsServer`).
- **`go_resumption`** (`GoResumption.cfg`): a certificate that lives one tick, a margin of one
  tick and a clock of five, so that the certificate may expire before, between and
  after the first two dials. About 44 000 states. It checks types,
  `ReportsAreTrue`, `ControlsBite`, `TestOffersLastSession` and `Ends`.
- **`prompting`** (`Prompting.cfg`): `run.sh` started twice, two panels, of which one has
  a host more. About 716 000 states. Two invocations are what it takes to start over
  what another left; a third would find nothing that a second does not, since a
  file is either of this invocation or of an earlier one. It checks types and that a
  kept file is of the run its name says (`TypeOK`), `KeptAreWhole`,
  `ComparesItsOwnRuns`, and, in every state
  because `compare.py` may also be run by hand, `FiguresAgree`. This last one has the
  condition that either digest is of the hosts recorded beside it: an edit between
  the two openings of the panel defeats the comparison of digests.
- **`connection_log`** (`ConnectionLog.cfg`): three connections, of which at most two have a
  thread and no line at a time (`AtOnce`), and the expiry at any moment. About 528 000 states.
  Every race of the handlers is one of two threads, over the counter or over the clock and
  the log, and a third connection is what it takes to come after such a race; for more of
  either there are the proofs. It checks `ValidLinesAreTrue`, `ExpiredLineDivides`,
  `OneLineEach`, `AloneInOrder`, the inductive invariant `LogInv`, which has the types, and
  `HandshakesAreLogged`.

Runs that show where the documentation and the code part (`findings` in
`PROJECT.json` quotes both):

- **`probe_refusal`**: a readable `no` whose second handshake failed rather than
  being a full one, against `public-endpoints/README.md:80-82`;
- **`probe_no_ticket`**: a readable `no` of a TLS 1.2 host that issued only a session
  identifier, against the same lines and `probe.py:902`;
- **`connection_hold`** (`ConnectionHold.cfg`, a hold of one tick): `s_client` leaves in the tick in
  which it has sent its request, because connecting and the handshake have used up the hold,
  against `public-endpoints/README.md:118-120` and `probe.py:244` and `1230-1231`;
- **`replay_conclusion`**: the second control of `nginx-vhost-scope/run.sh` concludes "step 3's
  full handshake is nginx declining it" of a third step that ended in an alert or that
  resumed, against the condition in its own comment at lines 46-48.

Deadlock is checked in every run: the programs end in a state of their own.

Every property has a mutation, defined next to the definition it replaces and
marked as such: a plausible slip of the code (an address resolved again, a
directory reused, a `finally` clause missing, a timeout that covers the handshake
only) under which the property no longer holds.

## Fairness

`Probe` assumes weak fairness of its steps and none of `Interrupt`. It is one
sequential process, each of its steps is a call that returns: the calls of
`run_s_client` by their timeout, which is `Returns` of `Connection`, and `resolve` by
the resolver's own. `Connection` assumes that the harness runs and that the clock
advances, and nothing of the feeder, `s_client` or the server, any of which may
hang for ever: that the call still returns is the point of `Returns`. `ConnectionLog`
assumes that a thread between its handshake and its line is scheduled, and nothing
of handshakes and requests, for which a thread waits without a timeout.
`GoResumption` assumes that `main` and every goroutine that has a client to judge are
scheduled and that the clock advances, and nothing of the closing of connections, for
which `main` never waits. `TicketPrompting`, `Certificates` and `Replay` have safety properties
only and assume nothing: a script of `Replay` may wait for ever for an expiry.

## What is proved

The theorems hold for every value of the constants that the named assumptions allow:
for every panel, every set of addresses, families and directory names
(`PanelAssumption`, `ConstantsAssumption`), every number of tickets
(`VersionsAssumption`, `MaxTicketsAssumption`), any hold, timeout and clock that does not
stop before the deadline (`TimesAssumption` of `Connection`), chains of any length, and names
of any number of attributes with values of any length (`BoundsAssumption`), whose types are
short names or object identifiers, so that none is an equals sign, a comma or a backslash
(`TypesAssumption`), any panels and number of invocations of `run.sh`
(`PromptingAssumption`), any finite set of connections of which any number is at work at once
(`ConnectionsAssumption`), and any
life of the certificate of `main.go` with any positive margin of its sleep
(`TimesAssumption` of `GoResumption`). The only constant of `Replay` is which of the four
scripts there are (`ScriptsAssumption`): what its proofs add is the reason its properties
hold.

| theorem | states |
|---|---|
| `TypeCorrect` | `TypeOK` |
| `Invariance` | `TypeOK` and the inductive invariant `IInv` |
| `Scope` | `NoCrossHostReplay` |
| `Provenance` | `ProvenanceIsTrue` |
| `TwoConnections` | `TwoPinnedConnections` |
| `HonestRecords` | `AnswerIsTrue`, and the five below |
| `PosedAnswers`, `RecordedAnswers`, `ReadableAnswers`, `TrueTicketReports`, `BareFailures` | `AnswerWasPosed`, `AnswerIsRecorded`, `ReadableIffAnswered`, `TicketReportIsTrue`, `FailureIsBare` |
| `CompleteOutput` | `OutputIsComplete` |
| `Progress` | `RunsDown`: every step lowers `StepsLeft`, eight for each host to come and two |
| `Implementation` | `ImplementsQuestion` of `ProbeQuestion` |
| `SoundReport` | `ReportIsSound` |
| `ConnectionInvariance`, `ConnectionTypes` | `ConnectionInv` and `TypeOK` of `Connection` |
| `OutcomeReturned` | `ReturnsAnOutcome` |
| `NothingLeft`, `HintOfSavedSession` | `NoProcessLeft`, `HintIsOfSavedSession` |
| `CallRunsDown`, `CallNeverStuck` | `RunsDown` and `NeverStuck` of `Connection`, the safety half of `Returns` |
| `WholeChain` | `ChainIsWholeOrNull` |
| `IssuerRead` | `IssuerIsRead` |
| `PromptingInvariance`, `PromptingTypes` | `ProgressInv` and `TypeOK` of `TicketPrompting` |
| `KeptFiles` | `KeptAreWhole` |
| `OwnRuns` | `ComparesItsOwnRuns` |
| `TableAddsUp` | `FiguresAgree` |
| `LogInvariance`, `LogTypes` | `LogInv` and `TypeOK` of `ConnectionLog` |
| `ValidLines`, `DividingLine` | `ValidLinesAreTrue`, `ExpiredLineDivides` |
| `OneLine`, `InOrder` | `OneLineEach`, `AloneInOrder` |
| `LogProgress` | `RunsDown` of `ConnectionLog`, the safety half of `HandshakesAreLogged` |
| `GoInvariance`, `GoTypes` | `GoInv` and `TypeOK` of `GoResumption` |
| `ReplayInvariance` | `ReplayInv` |
| `SecondControl`, `FirstControl`, `ControlReaches` | `OfferableMeansPosed`, `FindingIsOfResumption`, `ControlFindsServer` |
| `TrueReports`, `Controls`, `QuestionIsPosed` | `ReportsAreTrue`, `ControlsBite`, `TestOffersLastSession` |
| `GoProgress`, `GoNeverStuck` | `RunsDown` and `NeverStuck` of `GoResumption`, the safety half of `Ends` |

Hardly any of these properties is inductive; what each proof rests on is below.

**`Probe`.** That no session crosses hosts needs to
know that a free directory is empty, that the session of the directory in use
comes from the host being probed and that `minted-by` is not there before the mint
(`FilesInv`). That an answer is true needs to know that the result the harness
reads is an outcome of the connection at the end of the host's row of `wire`
(`WireInv`), that the rows of hosts still to come are empty and those of reported
hosts are not touched again (`LoopInv`), and what the half-filled record holds at
each point (`RecordInv`). `IInv` is their conjunction. The proof takes the parts one
by one, each with one step per action; the lemmas `Transcript`, `UnsavedHonest` and
`OfferHonest` say once what can be read from an outcome. The refinement rests on
the invariant: `Implementation` needs it to show that the first connection asks
nothing, and that the verdicts published are those of the records. `SoundReport` adds
`ReportInv`: the record of a measurement holds what the tests of `build_controls` index,
and it is of one of two kinds, a host of which no session was saved and that was not
asked again, or one that was asked and whose completed second handshake is readable. With
`Complete` of `IInv` that gives every listed host its true reason. `Progress` is the
part of `Terminates` that does not need fairness: no step leads back, whatever fails.

**`Connection`.** `ConnectionInv` follows a call through its processes. `ProcessInv` says
which of them there are at each place of `run_s_client`, which is `NoProcessLeft` at the
last one. `ExchangeInv` and `FileInv` keep the exchange one that the server could have,
with as many tickets as have arrived, and allow something in the `-sess_out` file only of
a session that came. `TranscriptInv` is what the readers need: what was printed, with what
is about to be, consists of lines of the exchange, its headline first and a banner before
the first ticket block of TLS 1.3, so that any prefix of it, which is what a kill leaves, is
one of the four `Cuts` of `SClient`; of an `s_client` that ended by itself it is the whole,
and its last hint is that of the last ticket. `ResultInv` says that what is returned is an
outcome, and `OutcomeReturned` is with it the bridge to `Probe`: that module takes one
element of `Outcomes` for each call, and no interleaving returns another. `CallRunsDown` counts the
steps that the harness, the feeder, `s_client` with the tickets it may still get, and the clock
have left: every step lowers that number, so that no process can keep a call busy for
ever. `CallNeverStuck` is why it does not stop short either: until the call has returned the
guard of `Finally` or of another step of the harness is true, or the clock can advance and
the deadline is ahead of it. Together they are `Returns` but for `ENABLED` and the temporal
step from fairness.

**`Certificates`.** `WholeChain` is about `ParseChain` rather than about the two steps:
`TranscriptLines` gives the lines of a transcript by their places, `ParseBetween` what is
read of one with its heading and first rule at given places, and `ChainRead` that the
`New` line, without which the host counts as failed, comes after that rule, so that no cut
that leaves it can touch the chain.

`IssuerRead` says what a loop over text computes, for text of any length, and needs
induction over it. The library's induction theorems cannot be used here, so the induction
is stated with a set where they have a formula: of a set of naturals with 0 and with the
successor of each of its members (`InductionOnNat`, from the least number that is not in it).
With it `FoldLeft` and `FlattenSeq` are shown to have the recursions they are defined by, over
sequences, and the loop of `split_rfc2253` is followed by them: the turns over an escaped
value begin and end outside an escape and only lengthen the current field, so no comma of a
value ends it; the comma between two attributes does. A field is then one printed
attribute, whose first equals sign is the one that was printed, as a type holds none, and
replacing the escaped commas of a value that holds no backslash gives the value back. The
first field with the key `CN` is thereby the first such attribute of the name.

**`TicketPrompting`.** `ProgressInv` says where each file of the current invocation is at every
command; that a failed command leads to `idle` and nowhere else is all that keeps it
true. `TableAddsUp` needs the types only: it is about the hosts of two whole documents, and
counts them.

**`ConnectionLog`.** `LogInv` has five parts: `CountInv` bounds the counter by the number
of threads that have stored it (lost updates only make it smaller), `ClockInv` says
that before the expiry every thread and line says valid, `SinceInv` that a handshake which
ended before the expiry found valid lines only, `LineInv` ties each line to its thread, and `AloneInv` gives the counter as the length of the log, or one more,
while threads do not overlap. `LogProgress` counts the steps the threads have left, over a
finite set of connections: no thread sends another back, so the server comes to rest, and
`OneLineEach` says that it has then written the line of every handshake.

**`Replay`.** `ReplayInv` ties each entry of the log to the connection the plan has at its
place (`LogInv`), a session in the file to the connection that minted it (`FileInv`) and a
server that was reached to one that was up (`ServerInv`). `TestInv` is the argument of the
second control: a server that is still listening after the test was listening at it, and
an expiry script makes its test late, or says that it is not, or has no session.

**`GoResumption`.** `GoInv` adds four parts to `TypeOK` and `ReportsAreTrue`: `CountInv` gives
the number of connections and lines at each place of `main`, `ClockInv` says that the
certificate of A has expired once `main` is past its sleep, however slow the dials
were, `ConnInv` what a connection of each dial can come to before and after it is judged,
and `LineInv` that a printed line is of a judged connection. The second is what makes the
control of A a rejection; a margin of 0 would not do, because a certificate is still
valid in the second it ends (`SleepForLife` is that mutation).

`QuestionIsPosed` adds `OfferInv`: a ticket is of an accepted connection, and what a dial
offers is the last accepted dial since its cache was made. `GoProgress` and `GoNeverStuck` are
for `Ends` what their like are for `Returns`: the measure is what `main`, the goroutines and the clock have
left, and when `main` cannot go on it waits for the one connection it reads from, whose
goroutine can judge it, or for the clock.

Checked by TLC only: the liveness properties (`Terminates`, `Returns`,
`HandshakesAreLogged`, `Ends`), because they rest on fairness and so on `ENABLED`, which is out
of the prover's reach (what of them is safety is proved, above); and the runs that show
violations. `ConnectionInv`, `ReplayInv`, `GoInv`, `OfferInv`, `ReportInv`, `ChainInv`, and the
`RunsDown` and `NeverStuck` of each module, were model-checked on the configurations above
before they were proved; only `IInv` and `LogInv` are part of a run.

## What is left out

- Groups, verification results, failure reasons, and the fields of the leaf other than
  its issuer: recorded values on which no decision rests and which are copied.
- The layout and the prose of `results.md` and of the summary, `--dry-run`, the reading of
  arguments; the columns that `compare.py` only prints.
- A crash in the middle of writing an output file, and files left by earlier runs, in
  `Probe`; `TicketPrompting` has both.
- The order of lines in a transcript, in `SClient` beyond what a prefix of it keeps;
  `Connection` keeps it.
- That `describe_leaf` leaves the names of a leaf null without a reason when only its
  call of `openssl x509` for the names fails, beside `README.md:84` of `public-endpoints`
  ("recorded as `null` next to a reason"): seen in the code, and not a run.
- That `compare.py` prints no table when a host of either run was not measured: it indexes
  `session_ticket` of every record (59-69), which is null or not there for a host that failed, and
  ends in an exception, beside `ticket-prompting/README.md:27` ("selftest, then both runs, then the
  table below"). `Readable` in `TicketPrompting` is that condition; there is no run of it.
- An edit of the panel between its two openings in one run of `probe.py`: the digest is then of
  other hosts than the record, the comparison of digests passes, and `FiguresAgree` has the
  opposite as its condition.
- An error while `server.py` writes its log, the certificates it makes and the page it serves.
- `selftest.sh`, which drives `probe.py` against local servers and whose claims are properties
  of `Probe`, and the `gen.sh` scripts.
- The recorded results, which are data.

## Plan

The fields of the leaf other than its issuer, with the reason that is missing: three calls of
`openssl x509`, of which any may fail.
