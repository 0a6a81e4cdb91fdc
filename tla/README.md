# A verification development for windows-console-driver

windows-console-driver operates legacy Windows consoles (GPMC, MMC snap-ins,
old property sheets) and publishes what it did as a *transaction record*. Its
design rule is that the driver may be unreliable as long as nothing is believed
without independent proof. These TLA+ modules state what that rule asks of the
code under `src/src/wcd`, check it with TLC on small instances, and prove part
of it for all instances with TLAPS.

Source paths below are relative to the repository.

## 1. The system

One invocation of a capability goes through these parts.

    cli.py -> exec_transaction.execute_transaction
                |-- leases.FileLeaseRegistry        one console, one process
                |-- console_ops                     console unlocked?
                |-- profiles                        classification, gates
                |-- runsheets.GestureExecutor       setup, gestures, cleanup
                |     `-- on_commit (callback)  --> leases.assert_context,
                |                                   transaction.Transaction
                |-- envelope.converge               observe until stable, assert
                |     `-- gpo_observers.snapshots   the facts of one observation
                |-- record_schema.validate_record   what a record must contain
                `-- transport.SessionTransport --> tools/session_repl.ps1 --> helper.ps1

All of it is one sequential Python process per console. The concurrency is
around it: other controller processes want the same console, the REPL runs on
after its client has given up on an answer, the in-guest helper does the same
behind the REPL, the interactive session can change hands, the observed surface
(directory, SYSVOL) propagates while it is being read, and the process can die.

### Inventory

| Component | State | Operations | What makes it correct |
|---|---|---|---|
| Transaction state machine, `transaction.py` | state, accepted events, refused guards, stop reason, characterized delta | prepare, arm, commit (declared or not), resolve, mark_indeterminate | one attempt, never replayed; a verdict is final; the undeclared crossing is a hard stop; the events account for the state |
| Transaction executor, `exec_transaction.py` | lease held or not, prepared context, session captures (GPO GUID), events copied to the record, envelope result, journals | execute_transaction, on_commit, abort_indeterminate, _cleanup, _emit | no mutation before its crossing is recorded; crossings only in the prepared session; cleanup always tried; the record tells the truth; refusals only while nothing happened |
| Convergence loop, `envelope.py` 1029-1191 | previous and frozen facts, poll count, start time | poll, freeze, assert, reproduce | what is asserted is a state that was; bounded; assertion made once |
| Envelope language, `envelope.py` 1-1028 | none (pure) | parse_envelope, predicates, compute_delta, assert_envelope | an outcome rests on what was observed; a lost fact does not pass; every observed change is covered by a clause |
| Console lease, `leases.py` 103-290 | the lock file: kernel lock, marker byte, metadata | acquire, release, holder_of | exclusive; free after a death; names the right holder |
| In-memory lease, `leases.py` 51-102 | holder and expiry per target | acquire (takes over an expired lease), release, is_active | exclusive while unexpired; a stale release never evicts the next holder |
| Context assertion, `leases.py` 290-379 | none | assert_context | every field compared, differences named |
| Gesture executor, `runsheets.py` | session captures, dialog stack, window target | execute, step handlers, selectors, focus retry | input reaches only the window meant; unlisted actions refused |
| Session transport, `transport.py` | one REPL process, request counter, stale answers | connect, request, drain | an answer belongs to its request |
| REPL, `tools/session_repl.ps1` | the host and guest sessions | serial request loop, helper file protocol | serial; helper answer belongs to its request |
| Helper, `guest/helper.ps1`, `helper_client.py` | none between requests | context, uia_find, input, screenshot | input only to the focused target |
| Console operations, `console_ops.py` | none | lock_state, wait_console_unlocked, readiness | bounded; unknown is not unlocked |
| Profiles, `profiles.py` | none (immutable) | parse, classify, baseline gates | unlisted is undeclared; an unreadable baseline refuses |
| Record schema, `record_schema.py` | none | validate_record | a record is bound to what was invoked; a determinate one is complete |
| Command line, `cli.py` | none between invocations | read and agree a plan, run, validate, answer with an exit code | a refusal means untouched; only a valid record is a success |
| GPO observers, `gpo_observers/` | none between observations; the surface they read changes | capture_snapshot: some ten reads of the directory and SYSVOL | a torn listing or a half-replicated version is not taken for a state |
| Capability schema, estate configuration, estate canary, IIS evidence | none | parse, validate, probe | stateless; see section 8 |
| Run sheets, capabilities, profiles (JSON) | data | | their shapes are the instances of the executor model |
| Fake desktop, operator scripts, surface-specific observers | | | not part of a transaction |

### What is hard here

* **Order of recording and doing.** `on_commit` has to come before the step
  that crosses, also when that step times out and runs later.
* **Abandoned work.** `transport.request` gives up after its timeout; the serial
  REPL still finishes the script, after the executor has moved on to cleanup or
  has even published the record.
* **Partial failure.** Setup can create the GPO and lose the answer that carries
  its GUID; every cleanup step can fail by itself; several exceptions are caught
  in one place and not in another.
* **Stale readings.** The session between a context check and the crossing; the
  lock file's metadata; the facts of one observation, read seconds apart; the
  run sheet's file, read three times by one invocation.
* **Interleavings of processes** on one lock file, with deaths between any two
  file operations.
* **Bounds and liveness.** The poll window, the poll bound, a clock that an
  injection may hold still, a guest that never answers.

Each of these is listed with its line under `hazards` in `PROJECT.json`.

## 2. Plan

Order: what decides whether a record can be believed comes first.

| # | Module | Of | Status |
|---|---|---|---|
| 1 | `OneAttempt` | abstract: one attempt, one verdict, a determinate one only after the attempt | done |
| 2 | `Transaction` | transaction.py; refines OneAttempt | done, proved in `TransactionProofs` |
| 3 | `ExecTransaction` | exec_transaction.py over `Transaction`, with the lease, the transport, the session, the sheet's file and a crash around it; refines OneAttempt | done, proved in `ExecTransactionProofs` |
| 4 | `Converge`, `ConvergeOutcomes` | converge of envelope.py; what it shares with its caller | done, proved in `ConvergeProofs` |
| 5 | `ExclusiveLease` | abstract: a lease with at most one holder; refined by FileLease, used by ExecTransaction | done |
| 6 | `FileLease` | FileLeaseRegistry; refines ExclusiveLease | done, proved in `FileLeaseProofs` |
| 7 | `HelperSession` | transport.py request ids and draining, the REPL loop, the helper's file protocol and its task | done, proved in `HelperSessionProofs` |
| 8 | `GestureTarget` | runsheets.py window targeting, dialog stack, focus retry, with the helper's focus guard | done, proved in `GestureTargetProofs` |
| 9 | `EnvelopeAssert` | predicates, compute_delta, assert_envelope as operators | done, proved in `ConvergeProofs` |
| 10 | `EnvelopeVerdict` | what a result of `Converge` with these envelopes says about the surface | done, proved in `ConvergeProofs` |
| 11 | `Observation` | abstract: one observation of a changing surface | done |
| 12 | `GpoSnapshot` | capture_snapshot of gpo_observers; refines Observation | done, proved in `GpoSnapshotProofs` |
| 13 | `RecordSchema` | validate_record | done |
| 14 | `CommandLine` | the verb exec-transaction of cli.py around the executor | done, proved in `CommandLineProofs` |

Composition. `ExecTransaction` EXTENDS `Transaction` (its actions call the state
machine's) and `RecordSchema` (its record is judged by the schema), and
`CommandLine` EXTENDS `ExecTransaction`. `EnvelopeVerdict` EXTENDS `Converge` and
`EnvelopeAssert`; to `Converge` alone, and to the proofs about the loop, the
assertion is a parameter. Where modules do not extend each other, a shared module and a theorem on either
side join them. `ConvergeOutcomes` has the pairs of results that `Converge`
returns (`OutcomeIsGrounded`) and from which `ExecTransaction` resolves the
transaction. `ExclusiveLease` is what `FileLease` implements (`IsExclusiveLease`)
and what the executor uses (`ExecutorUsesTheLease`). `HelperSession` justifies
what `ExecTransaction` takes a call to be: once one is answered, no script asked
for earlier runs any more (`ScriptsEndBeforeAnswers`; hence `queue = <<>>` in
`Answered`), while an abandoned gesture still may (hence `late`). `Observation`
joins `Converge`
and `GpoSnapshot`: the loop takes no more for granted of an observation than it
says (`LoopReliesOnPromise`), and a snapshot keeps what it says
(`IsObservation`).

What is left: of the properties the runs check, only the two liveness
properties have no theorem (section 6).

## 3. The modules and the code

**Transaction.** The five variables are the five attributes the object has
(`_state`, `_events`, `_refusals`, `_indeterminate_reason`,
`_characterization`). Each method is an action with a disjunct per outcome, the
refused ones included: a refusal raises in the code, but the caller may catch it
and go on, so it is a step. Reason texts are reduced to "one was recorded",
because only that decides which text the record's verdict carries.

**ExecTransaction.** `pc` follows execute_transaction's numbered phases, `todo`
holds the steps of the phase still to be done, `run` the function's local
variables. A capability is a record of its three step lists and three flags;
what a step does to the estate is one of a few deeds (create the evidence GPO,
remove it by name or by captured GUID, operate the surface, nothing). A call

* is `Answered` (only when the serial transport has no abandoned work);
* or `Failed`: an error came back, before or after the effect; or it was never
  sent; or it timed out, in which case its effect goes to `queue` and
  `ReplFinishes` performs it, or not, at any later time;
* or, for a gesture answered with an error, `HelperFailed`: the REPL is through
  with the call and answers the next ones, but the helper's instance may still
  be alive, so the effect may go to `late` and `HelperActs` performs it, or not,
  at any later time. This is no place in the queue: nothing waits for it.

`Escape` is an exception that execute_transaction does not catch, from the
OSError of a lock file that cannot be opened to the EnvelopeError of a malformed
clause after the gestures; `Refusal` is
an ExecTransactionError, which the command line reports as exit 2, "nothing
mutated". `Recorded` is record_event; abort_indeterminate moves the machine
without it, as in the code. `ProcessEnds` is both the regular end and a crash;
the system drops the lock in both.

A context is a record of its five fields, and assert_context compares three of
them at a crossing (`SessionOf`, `ContextMismatches`): the foreground, which the
helper's own console may be while it asks, is left to the focus guard, and the
language to the gates. `sheetFile` counts the edits of the run sheet's file,
which is read for the steps (`run.sheet`), by the command line for the digest
(`run.bound`) and once more for the check of the record. The record is built key
by key (`Emitted`, `Provenance`, `Invocation`) with the schema version the caller
gives it: 3 from the command line, which hands over the capability's text, and 1
from a library caller.

The fields named ghost in `RunInit` (`began`, `crossedIn`, `undeclared`)
exist only for properties; no guard reads them.

**RecordSchema.** validate_record as one predicate, `Accepts`, of a record, the
capability's text and the run sheet; the last two may be absent. A JSON object is a function of its keys; `Keys` is the check that none is
missing and none unknown. A digest is an injective wrapper.

**CommandLine.** `ReadPlan`, `RefusePlan` and `TransportWillNotStart` come before
the executor's first step, `Report` after its last; `Agrees` is the comparison of
a plan with the estate. `ExitCode` is the table of cli.py: a returned record is 0
when the schema accepts it and 2 when it does not, a refusal 2, an exception
nobody catches 1.

**Converge.** An observation is collected fact by fact (`ReadFact`, any order),
while `SurfaceChanges` goes on; only then is it compared. `polls`, `now`,
`previous` and `frozen` are converge's own. `settles` and `ticks` are chosen at
the start: whether a fact may return to a value it has left, and whether the
injected clock advances; `envelope` is the envelope given. A fact's value is a
version number here; what the loop needs of an envelope is which facts it refers
to (`Normalized`) and what assert_envelope says of an observation (`Assess`).

**Observation, GpoSnapshot.** `Observation` says what one observation of a
changing surface is: each fact is read once and is what its cell was at that
moment. A cell is what changes as a whole, a file or the directory's object of
the policy. `GpoSnapshot` is the order of reads of capture_snapshot and of the
guest scripts in psl.py: `ReadAd`, GPT.INI and the directory's version for the
version facts, the script lists, the first pass (`ListFile` takes a file's
length, `HashFile` its content), the second pass, the scope query, the listing of
paths, and the extra observers that a fact plan may name. The surface changes
between any two of them (`SurfaceChanges`). Two passes agree when their entries
do (`PassesMatch`), as in psl.py; the numbers agree when they are equal after the
packing of version_packing.py (`VersionsAgree`).

**EnvelopeAssert.** The predicate language as operators: a predicate is its
syntax tree, `Eval` is _eval with its left-to-right short cuts, and `Unresolved`
stands for both exceptions evaluate raises. On it rest the three outcomes of a
clause (`Holds`, `ForbidOutcome`), the facts an envelope predicts and those its
polls must agree on (`PredictedKeys`, `NormalizedKeys`), `Delta` with its
categories, and `AssertEnvelope`. A dotted key is the sequence of its parts,
since prediction goes by dotted prefixes.

**EnvelopeVerdict.** Puts the two together: a fact's version becomes an observed
value or no fact at all (`Shown`), the pre state is the surface before the first
change, and `Categories` keeps the declared category only of facts that were
there before, as exec_transaction.py 1094 does. `VerdictAssumption` fixes
`Normalized` and `Assess` to these.

**FileLease.** One step per file operation: open, append of the marker byte,
lock, truncate, write of the metadata, unlock, close. The file is opened in
append mode and the marker is written without the lock, so a late marker of a
concurrent first user lands behind byte 0: before another process's metadata, if
it comes between that process's `Truncate` and `WriteName`, or behind it. Either
makes the file unreadable, `name = "spoiled"`, until the next truncation; a
refused process is then told "another process". An append is one step. `size`
tells a file that does not exist from an empty one, since holder_of asks only a
file that exists; it takes the lock for a moment (`Probe`, `ProbeDone`).

**HelperSession.** Three actors with queues between them. The client is
SessionTransport.request; `pipe` and `lines` are the REPL's standard input and
output, `repl` is the REPL's place in the request it serves. For a helper call
the REPL takes one step per operation on the guest (remove the response file,
write the request file, start the task, poll, read exit code and text), and the
task's instance takes its own (read, perform, respond, exit) in between. The
file protocol has no request id, so an instance that outlives its poll can
answer the next call, and an instance that starts late can read the next call's
request; `ignored` (ghost) remembers which calls' start the task scheduler
ignored. Taken from Windows: `Start-ScheduledTask` does nothing while an
instance is alive (`MultipleInstances IgnoreNew`, estate_bringup.ps1 638); the
task's last result is a code of the helper's only when the last instance exited
by itself; reading and writing one of the two small files is atomic.

**GestureTarget.** A sheet is any sequence of the steps that have to do with a
window, and each helper call of a step is an action of its own, because the
surface's windows open and close between any two of them. `target`, `stack` and
`dumpOf` are SheetContext's last_dump_hwnd, hwnd_stack and the window last_dump
came from. _live_target is a loop of `PopDead`; a failed enumeration counts as
"alive", so the step may always go on with the target it has. `Fail` is every
RunSheetError or TransportError: it ends the sheet, so one action stands for all
of them. `Inject` is one invocation, focus guard and input together: what takes
the foreground between these two calls of the same process is not modelled.
`used` (ghost) relates the windows the sheet has been at in their order.
`strays` marks the sheets that read another window than their own target
(window_regex, window_class) or click without a fresh dump, which no committed
sheet does.

**OneAttempt, ExclusiveLease** are the abstract specifications; the detailed
modules instantiate them with a refinement mapping and state them as properties
(`KeepsPromise`, `ExecKeepsPromise`, `IsExclusiveLease`), as `GpoSnapshot` does
with `Observation` (`IsObservation`).

Definitions whose comment begins with "Mutant:" are wrong variants of the one
below them. Nothing uses them; they show what each property is sensitive to
(`mutants` in `PROJECT.json`).

## 4. What the runs check

| Run | Instance | Shows |
|---|---|---|
| Transaction | any call in any order, three refusals | `AuditTrail`, `NoReplay`, `HardStopHolds`, `ExplainedOutcome`, and the refinement of OneAttempt |
| CommandLine | eleven sheets, five plans or a library caller, three contexts and one switch, one edit of the sheet, a competing process, a crash | everything below |
| Converge | three facts, three envelopes | `FrozenIsSnapshot`, `OutcomeIsGrounded`, `SatisfiedAtOneMoment`, `OutcomesStand`, `ErasureIsCaught`, `PollsStartInWindow`, and that converge returns |
| GpoSnapshot | three files and the directory, two writes of each | `MatchedPassesAreOneMoment`, `AgreeingVersionsAreOneMoment`, and the refinement of Observation |
| FileLease | three processes, two deaths | `LockIsAttended`, `NameIsHoldersOrSpoiled`, and the refinement of ExclusiveLease |
| GestureTarget | any sheet of six steps, four windows | type, `InnermostFirst`, `ClicksItsOwnDump`, `InjectedOnce`, `UnguardedIsLastResort` |
| HelperSession | four requests, of both kinds, one stale line drained | type, `RepeatsOnlyForLost`, `OffsetDiesOut`, `DesyncOnlyAfterTimeouts` |

CommandLine: `ExecTypeOK`, `WriteAhead` (no declared mutation, done, queued
or still in the helper's hands, without commit_attempted recorded), `CrossedInPreparedContext`,
`RecordAccepted` (validate_record accepts every record the executor returns, by
itself and against the text and the sheet), `RecordTellsTruth`,
`RecordedEventsArePrefix`, `CleanupComplete`, `NoFalseAbsence` (a record that
reports the evidence GPO gone is right and stays right, abandoned work
included), `LeaseCoversWork`, `ExitTwoMeansUntouched` (exit code 2 is given only
while the estate is as it was found and nothing is pending),
`OwnedRemovalSparesFound`, `ExecKeepsPromise`, and `EndsWithLeaseBack`. They are
checked of the executor as the command line drives it and of a library caller,
which does without the plan, the text and the check of the record.

GpoSnapshot shows what the cross-checks that capabilities require of an
observation are worth. None of its reads is atomic with another, and the
directory and SYSVOL replicate independently. Yet when the two passes agree, the
listing of the first, its hashes and its lengths included, is the tree as it was
at one moment (`MatchedPassesAreOneMoment`), and when the versions agree,
directory and SYSVOL did agree when GPT.INI was read, because the directory was
asked before and after (`AgreeingVersionsAreOneMoment`). The two moments differ:
nothing says that a listing belongs to the version read before it.

HelperSession shows how far the repository's "one timeout never leaves the
channel offset" (transport.py 24) carries over to the helper's files. Between
client and REPL it holds as said. Behind the REPL a helper call can be given the
answer of an earlier helper call, but only of one that was itself reported as
failed, and then its own gesture never runs and it has nothing to pass on: the
displacement dies out after one call (`OffsetDiesOut`). In the same way a
gesture can be carried out twice only in the place of an earlier one that never
is, when the earlier call was given up before its instance had read its request
(`RepeatsOnlyForLost`). Neither the REPL nor helper_client compares the answer's
action with the request's.

GestureTarget shows that the chain of windows leads back to the innermost one
left, whatever closes in whatever order, and that a click's coordinates and its
window belong together, the composite keys step included, where it is the
helper's refusal of a dead window that keeps them so. It also shows where the
contract's focus guard (docs/contract.md 241) does not reach: after a refused
focus a gesture is sent again without the guard, to a window that may have
closed or lost the foreground meanwhile (`UnguardedIsLastResort` says when), and
with no window left type_text and key are sent without one (run BlindKeys).
A sheet that dumps another window does not push the one it leaves, and a click
with `fresh` false uses the elements of the last dump in whatever window is the
target by then; `InnermostFirst` and `ClicksItsOwnDump` exclude these two and
would not hold of them.

The Converge run says what a satisfied result means: there was a moment at which
every clause held of the surface itself (`SatisfiedAtOneMoment`), which needs
the facts of the forbid clauses among those polled; no outcome of a clause would
be another one had the collectors reported more (`OutcomesStand`; forbid clauses
are excepted, whose scope must be there); and an observer that loses a fact
cannot make an assertion pass (`ErasureIsCaught`). It does not mean that the
reproductions saw no uncovered change (run SpillOver).

Four conditions in these are worth knowing:

* `ExitTwoMeansUntouched` and the last conjunct of `LeaseCoversWork` speak of
  capabilities whose envelope can be bound (`capability.binds`). An `args[...]`
  reference to an optional argument that was left out raises
  ExecTransactionError at exec_transaction.py 1090, after the gestures and
  outside any `try`; it reaches the command line as a refusal, with the lease
  still held until the process ends. All committed capabilities require the
  arguments their envelopes name.
* `ExitTwoMeansUntouched` and `RecordAccepted` speak of a run sheet that stays
  as its digest says. Edited between the digest and the check, the record of a
  run that mutated the estate is refused, and exits 2 like a refusal; edited
  between the first two reads, the record binds bytes that were not run.
* `FrozenIsSnapshot` holds for runs with `settles`. If facts may return to
  values they left, two agreeing observations can both be the same mixture of
  moments; no polling scheme without a version number excludes that. A
  propagation that is slower than the poll interval is likewise out of the
  code's hands: two equal old observations are frozen as the result.
* `OffsetDiesOut` rests on the exit code: the REPL reads it 300 ms after the
  response appears, and an instance that is still alive then makes the answer an
  error (`ReadAnswer`; the mutant that does not look at the code breaks it).

### Where the repository disagrees with itself

Five runs check a sentence of the documents or tests and find an execution of
the code that breaks it. They are kept as runs so that a fix shows.

| Run | Sentence | What the code does |
|---|---|---|
| EveryPath | "EVERY TERMINAL PATH EMITS A RECORD" (exec_transaction.py 27) | a TransportError of a helper call in the gesture phase or in _helper_context is caught nowhere: no record, no cleanup |
| HardStop | an undeclared crossing is a hard stop and indeterminate (docs/contract.md 193) | on_commit returns for every crossing after the first before it looks at its class |
| SparesFound | cleanup must not remove a GPO it found (tests/test_exec_transaction.py 1059) | sheets that clean up by name remove the GPO that gpo_create refused to overwrite |
| BlindKeys | "A key with no dump yet in this sheet is refused" (runsheets.py 1112) | the refusal is in a method nothing calls; type_text and key go on without a focus window |
| SpillOver | "Any observed change not covered by require, allow, or derive is a violation" (docs/contract.md 94) | a reproduction is compared on the normalized keys only and never asserted: an uncovered change it sees in another fact leaves the result satisfied (envelope.py 1151) |

Five smaller ones have no run:

* docs/contract.md 56 has a transaction armed while only pre-commit interactions
  have occurred; the migration-table sheet writes in a script step before its
  commit step. The script names no profile action, so the executor cannot tell
  (`Effect` calls it undeclared).
* leases.py 9 has a refusal name the current holder; the name is read after the
  lock attempt, without the lock, and may be the former holder's. What it can be
  is `NameIsHoldersOrSpoiled`.
* assert_envelope "is total: it returns a result and never raises" (envelope.py
  826); a `%` between a text and a mapping (`'%(x)s' % post`) raises KeyError,
  which evaluate does not catch.
* a fact that appears with the change is unclassified whatever its collector
  declares, because the categories are taken from the facts found before
  (`Categories`); an allow clause cannot cover it.
* stability is defined over the values of the keys the clauses reference; a key
  below a predicted one (a clause for `ini` predicts `ini.script`) may change freely
  from poll to poll unless a clause names it, and a clause that passes the whole
  of `post` to a comparison names none.

## 5. Bounds and fairness

* `MaxRefusals` (3 alone, 1 under the executor): refusals only accumulate, no
  guard reads them, so one of each kind in any order is enough for
  `HardStopHolds`; the executor itself can cause at most one, the hard stop.
* Sheets: the shapes that occur in `runsheets/` (owned removal with several
  crossings; removal by name; script then commit step; no crossing at all), and
  the ways a sheet can break the vocabulary: an unlisted action, an unlisted
  boundary first or later, a commit step without a boundary, an unbindable
  envelope, a setup that creates nothing. Steps of one kind in a row repeat the
  same transitions, so at most three per phase are kept.
* Three contexts (the operator's, another user's session, the secure desktop)
  and one switch between them: a switch back needs a second one, and equality
  with the prepared session is all that is ever tested. The foreground is the
  console's or the helper's own.
* One edit of the sheet's file, right before one of its three reads; a later one
  is seen by none. An edit leaves the steps and the name alone: what else it may
  do, the digest tells apart.
* The competing process takes and gives back the lease only before it is tried
  here: afterwards it either cannot, or nobody looks.
* Five plans: the controller's own, an agreed one, and one that differs in the
  machine, in the identity, or names none.
* GpoSnapshot: two writes of each cell, so that a value can go and a third come
  while two reads lie around them; GPT.INI, a script list that appears, and a
  policy file that grows and disappears; versions that pass each other and one
  that does not fit its field. Halves of one bit stand for 16.
* Converge: `Poll` 2, `Window` 4 (polls at 0, 2 and exactly 4, none at 6),
  `MaxPolls` 4 (reached only when the clock stands still), `Reproduce` 2,
  `MaxNow` 6, past the window. Versions 0 and 1 per fact; with `settles` a fact
  changes once, without it flaps. The facts are a number that grows, an entry
  that appears and a list that must not grow; the envelopes have between them
  every kind of clause, a clause that holds though one of its facts is absent, a
  predicted key above an observed one, and a fact no clause refers to.
* HelperSession: four requests, because the longest displacement takes a call
  that times out, one that gets its answer, and one each before and after; one
  stale line instead of `_MAX_STALE_DRAIN` = 8, so that the limit is met.
* GestureTarget: four windows, so that a dialog of a dialog's dialog can close in
  any order under its owner; six steps, enough to surface all four and then
  click and type; the results are the same with three and five.
* FileLease: three processes (holder, contender, late first user), two of which
  may die.

Deadlock checking is off because every instance really ends: a transaction in
a terminal state with its refusals used up, a process that exited, converge
returned, everybody dead or the bound on deaths used.

Fairness. `FairCliSpec` assumes weak fairness of the process's own steps, those
of the command line and of the executor: each wait of execute_transaction is on
a call with a timeout (transport.request) or on a poll loop with a deadline
(wait_console_unlocked), so the process is never blocked for good. Nothing is assumed of the transport,
the competing process, the session or of a call being answered.
`FairConvergeSpec` assumes the same of the loop: each collector call carries a
timeout. The clock and the surface get no fairness.

## 6. What is proved

`TransactionProofs` proves of `TxnSpec`, for every `MaxRefusals` (assumption
`MaxRefusalsAssumption`: it is a natural number) and executions of any length:

| Theorem | Statement |
|---|---|
| `TypeCorrect` | `[]TxnTypeOK` |
| `EventsAreAnAuditTrail` | `[]AuditTrail` |
| `UndeclaredStaysIndeterminate` | `[]HardStopHolds` |
| `OutcomeIsExplained` | `[]ExplainedOutcome` |
| `AttemptIsNeverReplayed` | `[]NoReplay` |
| `VerdictIsFinal` | `TerminalIsFinal`: no call changes anything but the refusals after a verdict |
| `ImplementsOneAttempt` | `KeepsPromise` |

The argument. `NoReplay` speaks of pairs of events and is not inductive: a step
appends one event, and what may follow depends on the current state, which
`NoReplay` does not mention. `AuditTrail` connects the two, but still allows an
event from `commit_attempted` to `armed`. The inductive invariant `TxnInv`
therefore adds `EveryEventIsAnEdge`: each recorded event is an edge of the state
graph. With it, `NoReplay` follows without any induction of its own
(`InvGivesNoReplay`): the event after one that entered `commit_attempted` leaves
`commit_attempted`, hence enters a terminal state, and no edge leaves that.

`StepShape` reduces the whole next-state relation to two shapes: a step accepts
one transition along an edge, or it records a refusal. `AcceptKeepsInv` and
`RejectKeepsInv` prove the invariant for these two once, rather than for each of
the calls. The refinement uses `AttemptedByState` (whether a commit was
attempted can be read off the state, a stopped transaction excepted) and
`AttemptGrows`.

`ConvergeProofs` proves of `ConvergeSpec`, for any set of facts, interval,
window, poll bound, number of reproductions, any clock and surface, and any
envelope, whatever its assertion says (assumption `ConvergeAssumption`), the
properties of the loop:

| Theorem | Statement |
|---|---|
| `ConvergeTypeCorrect` | `[]ConvergeTypeOK` |
| `FrozenStateWasReal` | `[]FrozenIsSnapshot` |
| `OutcomesAreGrounded` | `[]OutcomeIsGrounded` |
| `FrozenStateStays` | `FrozenForGood`: neither the frozen state nor its assertion is revised |
| `NoPollAfterWindow` | `PollsStartInWindow` |
| `LoopReliesOnPromise` | `ReliesOnPromise`: the loop reads as module `Observation` lets it |

The inductive invariant `ConvergeInv` adds to these what is true between the
polls (`Loop`) and `Monotone`: with `settles`, versions only grow, so what the
previous observation read, what this one has read so far and what the surface
now is lie in this order. If two complete observations agree, the facts are
squeezed between them at the moment the second began, and that moment's surface
is the frozen state.

Its other two parts are about the envelope language and about the verdict, for
any predicates, clauses, categories and observed values:

| Theorem | Statement |
|---|---|
| `EvalDependsOnPaths` | two bindings that say the same of the references of a predicate (`Paths`, _referenced_paths) evaluate it to the same |
| `EvalStands` | a predicate that can be evaluated keeps its value when references are added |
| `OutcomesDependOnNormalized` | the facts of `NormalizedKeys` (_normalized_keys) decide every clause's outcome, the forbid clauses included |
| `SatisfiedOfTheSurface` | `[]SatisfiedAtOneMoment` |
| `DisprovenOfTheSurface` | `[]DisprovenAtOneMoment`: a disproof too is of the surface at one moment, unless the observation saw a change that is not covered |
| `OutcomesAreForGood` | `[]OutcomesStand` |
| `LostFactIsCaught` | `[]ErasureIsCaught` |
| `AssertedChangesAreCovered` | `[]CoveredWhenFrozen`: the observation that a satisfied assertion was made of has no uncovered change. That is as far as it goes: run SpillOver shows that a reproduction may see one |

The language is computed by recursion over the tree of a predicate, so its proofs
are inductions over that tree. No library theorem on induction can be used (they
take an operator as a parameter), but the principle can be stated of sets:
`TreesAssumption` says that a set of predicates, if it is not empty, has a member
that is made of none of the others, which is what being a finite tree means
(compile_predicate bounds size and depth). A proof takes the set of
counterexamples and refutes its least member. The first use is that Eval and
`Paths` are what their recursive definitions say (`EvalUnfolds`, `PathsUnfold`):
a recursive function is a CHOOSE, and one has to show that there is something to
choose (`EvaluationExists`). The function is put together from the evaluations
of parts of the tree, any two of which agree (`EvaluationsAgree`). From the
equation follow the theorems on `Eval`, node by node (`NodeStands`), chains
included: the first end of a chain is its least (`ChainedAtFirstEnd`), and a
chain with more evaluated values ends no earlier than it did (`ChainedStands`).

The verdict needs one more invariant of the loop, `AssertedOnFrozen`: the
assertion that stands was made of an observation whose normalized facts are the
frozen ones. `FrozenIsSnapshot` says that these are the surface's at one moment,
and `OutcomesDependOnNormalized` that nothing else matters to a clause, so that
the clauses hold at that moment although the observation as a whole may never
have been true. The latter is where `_normalized_keys` has to take in the
forbid clauses: without them (the mutant of `SatisfiedAtOneMoment`) it is false.

Assumed besides `ConvergeAssumption`: `PredicatesAssumption` (what _validate lets
through: the arity of the operators, the comparisons, references that are dotted
chains), `TreesAssumption`, and `VerdictAssumption` (the loop's assertion is that
of the language, parse_envelope has accepted the envelopes, facts are dotted keys
and a fact's values are distinct).

`FileLeaseProofs` proves of `FileLeaseSpec`, for any number of processes and
deaths (assumption `FileLeaseAssumption`):

| Theorem | Statement |
|---|---|
| `FileLeaseTypeCorrect` | `[]FileLeaseTypeOK` |
| `LockIsAlwaysAttended` | `[]LockIsAttended` |
| `NameIsNeverAFormerHolders` | `[]NameIsHoldersOrSpoiled` |
| `ImplementsExclusiveLease` | `IsExclusiveLease` |

`LeaseInv` is the type invariant with `LockIsAttended`, which is inductive: the
lock changes hands only in `TryLock`, `Probe`, `Unlock`, `ProbeDone` and `Die`.
The refinement maps the lock file to the one process that has passed its lock
attempt and not yet unlocked; `OneWorker` and `HolderIsWorker` show that there is
never a second one and that it is the lock's owner.

For the name in the file `NameInv` adds that between the truncation and the
writing of the name there is no name, or a late mark has already spoiled what
will be written: only the owner truncates and writes, and a mark leaves the name
alone or spoils it, so a former holder's name cannot come back.

`ExecTransactionProofs` proves of `ExecSpec`, for any capabilities, run sheets of
any length, profiles, contexts and bounds:

| Theorem | Statement |
|---|---|
| `ExecutorDrivesTheMachine` | `TxnSpec`: what the executor does to its transaction is a behaviour of the state machine |
| `ExecTypeCorrect` | `[]ExecTypeOK` |
| `CrossingsAreWrittenAhead` | `[]WriteAhead` |
| `CrossingsKeepTheirSession` | `[]CrossedInPreparedContext` |
| `RecordsAreTruthful` | `[]RecordTellsTruth` |
| `RecordedEventsAreTrue` | `[]RecordedEventsArePrefix` |
| `CleanupIsComplete` | `[]CleanupComplete` |
| `AbsenceIsReal` | `[]NoFalseAbsence` |
| `LeaseIsHeld` | `[]LeaseCoversWork` |
| `ExecutorUsesTheLease` | `UsesExclusiveLease`: the lease moves as `ExclusiveLease` lets it, and the executor and its end only ever take and give up their own |
| `FoundGpoIsSpared` | `OwnedRemovalSparesFound` |
| `ExecutorImplementsOneAttempt` | `ExecKeepsPromise` |

The assumptions are `CapabilityShape` (steps are of the kinds the sheets use,
those of setup and cleanup do not operate the surface under test, and a gesture
of the helper does nothing else to the estate),
`ClassificationShape`, `ContextShape` and `BoundsAssumption`. By
`ExecStepIsTxnStep` each step of the executor is one of the state machine or
leaves it alone, so `TxnInv` holds here. None of the properties is inductive: each
says something about the end of a run, or about a surface that an abandoned call
may still change. `ExecInv` adds what the executor knows on the way: how far the
transaction is at each place (`StateAt`), that the record's events lack at most
the last transition, that of an abort (`Accounted`), that a closing run has an
outcome or a note, and an assertion that goes with it (`Explained`), whose the
lease is (`LeaseInv`), that crossings were compared with one prepared context
(`CrossInv`), how many steps of the cleanup are journalled and how many are to
come (`JournalInv`), that after an empty answer to the re-query nothing is
pending (`AbsenceInv`), and that a mutating step is only performed once
`commit_attempted` is there (`CrossedFirst`, which is what makes `WriteAhead`
survive a call that the transport finishes later). `FoundGpoIsSpared` needs
`NoneByName` besides: no removal by name is still to do or pending.

`CommandLineProofs` proves:

| Theorem | Statement |
|---|---|
| `CommandLineDrivesExecutor` | `CliSpec => ExecSpec`: the theorems above hold for the verb |
| `VerbKeepsPromise` | `FairCliSpec => ExecKeepsPromise` |
| `RecordsAreAccepted` | `ExecSpec => []RecordAccepted` |
| `ExitTwoIsARefusal` | `FairCliSpec => []ExitTwoMeansUntouched` |

A plan that is not carried out is to the executor a document it would have
refused (`EarlyEndIsLoad`); further assumptions are `PlanShape` and
`NoneIsNoCode`. `RecordsAreAccepted` goes through validate_record part by part:
the envelope result, the events (each is an edge of the state graph, numbered
from 1), the provenance, the invocation and both bindings are lemmas about the
executor's locals. Two facts about the run are needed: `ManifestInv`, that the
manifest is the setup scripts that answered, in order, and all of them once the
transaction is prepared; and `EmittedInv`, that the record is what _emit made of
the locals and that they do not change afterwards. For exit code 2,
`UntouchedInv` says that nothing is touched or pending before setup and that a
refusal is not given after it, and `BoundInv` that the digested edition is one
the file had: unless it was edited since, the record is accepted, so the check
after the run cannot be the reason for a 2.

`GpoSnapshotProofs` proves of `SnapshotSpec`, for any finite tree of files, any
facts, and a writer that writes what and when it likes (assumptions
`SnapshotAssumption`; `ContentAssumption`: different versions of a file differ;
`NumberAssumption`: version numbers do not fall):

| Theorem | Statement |
|---|---|
| `SnapshotTypeCorrect` | `[]SnapshotTypeOK` |
| `MatchedPassesShowOneMoment` | `[]MatchedPassesAreOneMoment` |
| `AgreeingVersionsShowOneMoment` | `[]AgreeingVersionsAreOneMoment` |
| `SnapshotImplementsObservation` | `IsObservation` |

`SnapshotInv` orders the reads of a snapshot against a marked moment: what was
read before it is not ahead of it, and it is not ahead of what is read later
(`FirstPass`, `SecondPass`, `GptMoment`). Two reads that saw the same squeeze the
moment between them, so it saw the same. The refinement lets the abstract
observation begin with the first fact that is read.

`GestureTargetProofs` proves of `GestureSpec`, for any number of windows, sheets of
any length and windows that open and close as they like (assumption
`GestureAssumption`):

| Theorem | Statement |
|---|---|
| `GestureTypeCorrect` | `[]GestureTypeOK` |
| `DeathLeadsToInnermost` | `[]InnermostFirst` |
| `ClicksLandWhereSeen` | `[]ClicksItsOwnDump` |
| `GesturesAreInjectedOnce` | `[]InjectedOnce` |
| `UnguardedOnlyAtTheEnd` | `[]UnguardedIsLastResort` |

`GestureInv` describes what the sheet remembers of its windows as a chain, the
owners of its dialogs and the target at its end (`ChainOK`): a window that is
still open and that the sheet has been at is in the chain, those it went to later
behind it. Where a death leads back to, and that an empty chain leaves nothing
open, follows from that. `KnownOK` says that these windows were open once,
`FocusOK` and `InputOK` follow one step from call to call, through refusal and
retry.

`HelperSessionProofs` proves of `SessionSpec`, for any number of requests of both
kinds and any bound on stale lines (assumption `HelperSessionAssumption`):

| Theorem | Statement |
|---|---|
| `SessionTypeCorrect` | `[]SessionTypeOK` |
| `AnswersAreTheCallsOwn` | `[]OffsetDiesOut` |
| `RepeatsAreForLost` | `[]RepeatsOnlyForLost` |
| `DesyncsFollowTimeouts` | `[]DesyncOnlyAfterTimeouts` |
| `ScriptsEndBeforeAnswers` | `NoScriptAfterAnswer`: once a call has an answer, no script asked for before it or by it is carried out any more |

The argument follows single requests. The REPL takes them in order, so what is
true of one it is through with stays true (`Stable`): that it has no answer and
none on its way, that nobody will carry it out any more. `StaleOK` says that what
such a request has left behind, in the request file, in the helper's hands or in
the response file, was never its answer; `IgnoredOK` and `StartedOK` say whose
answer a call can find that started no instance, or its own. So an answer that is
not the call's own comes from a call that was given up, and the call that gets it
was ignored by a task whose one instance had already read the earlier request
(`SoundLine`). A request can run twice only if an instance that had not read its
own request yet is given up and reads the next one, between its writing and its
start (`RepeatsStep`). `NoScriptAfterAnswer` is about scripts only: it is false of
gestures, whose instance may outlive the REPL's interest in it. The bound on
desynced calls is a matter of counting the lines
read so far (`WireOrder`, `DrainOK`).

### Only model-checked

* Liveness: `EndsWithLeaseBack` and `ConvergeEnds` (the prover has no rule for
  ENABLED).

## 7. How to run

    tlc -config MCTransaction.cfg      MCTransaction
    tlc -config MCCommandLine.cfg      MCCommandLine
    tlc -config MCConverge.cfg         MCConverge
    tlc -config MCGpoSnapshot.cfg      MCGpoSnapshot
    tlc -config MCFileLease.cfg        MCFileLease
    tlc -config MCHelperSession.cfg    MCHelperSession
    tlc -config MCGestureTarget.cfg    MCGestureTarget
    tlapm TransactionProofs.tla
    tlapm ExecTransactionProofs.tla
    tlapm CommandLineProofs.tla
    tlapm ConvergeProofs.tla
    tlapm GpoSnapshotProofs.tla
    tlapm FileLeaseProofs.tla
    tlapm GestureTargetProofs.tla
    tlapm HelperSessionProofs.tla

The five disagreements are `MCEveryPath.cfg`, `MCHardStop.cfg`,
`MCSparesFound.cfg` (all with `MCExecTransaction`), `MCBlindKeys.cfg` (with
`MCGestureTarget`) and `MCSpillOver.cfg` (with `MCConverge`); each ends in a
counterexample.

## 8. What is not modelled

* The in-memory lease: the executor makes a FileLeaseRegistry and takes
  LeaseRegistry only from a test; nothing gives it a TTL.
* Left out because they hold no state and take part in no ordering: what the
  capability schema and the estate's configuration ask of their documents (the
  model has that they refuse), IIS evidence, the parsers of the GPO observers
  (INI, INF, PReg), and delta.py, a set difference over facts that the executor's
  verdict does not use.
* Left out as operator tools outside a transaction: the estate scripts, the
  estate canary, the other verbs of the command line, the host keyboard wrapper.
  The fake desktop is the tests' double.
* Inside the modelled parts: wording of reasons, journals beyond their ok flags,
  what a script's standard output says, the individual probes of the console and
  the gates (each gate passes, refuses or escapes), the channel contract beyond
  "setup and cleanup are scripts", how a selector matches elements, and handles
  that Windows gives to a new window after the death of their first.
* Of a record: that texts are texts and lists are lists, and their lengths.
  `Accepts` has the schema's versions 0 to 3; the runs build versions 1 and 3,
  as the executor does.
* Of an observation: the exclusion of system files from the user's listing
  (snapshots.py 53) and `scope.sysvol_contained`, which is true of every listing
  this observer can produce, since its paths are relative to the policy's own
  directory. The facts of `Converge` are cells of their own; those that share a
  file change together, which makes fewer surfaces than the model has.
* Of the predicates: the order and arithmetic of texts, `is`, list literals,
  mappings and subscripts into them, the `scope_key` binding, the bounds on
  length, nodes and depth, and the wording of a characterization.
