# Formal models of rightsize

TLA+ specifications of rightsize, a router that decides which provider and
model a coding task goes to, holds capacity for it, runs it through a native
CLI (Codex, Claude Code, OpenCode) and records what came of it. The interesting
part of the program is not the routing arithmetic but what happens around it:
many short-lived CLI processes share two SQLite files, one JSON file and the
state kept by native CLIs, and any of them may be killed, raced, retried or
left waiting. That is what these modules model.

Paths below are relative to the root of the repository.

## 1. Inventory

| Component | State it keeps | Operations that change it | Model |
| --- | --- | --- | --- |
| Managed ledger, `managed_ledger.py` | `managed.sqlite3`: attempts, tasks, events, denials, settings | `admit`, `event`, `renew`, `reconcile_expired` | `ManagedLedger` |
| Managed router, `managed_router.py` | none of its own | `admit_snapshot` (probe, then admit under the state lock), `launch_once` | `QuotaAdmission`, `ManagedRun` |
| Run owner, `native_runs.py`, `native_codex.py:run` | `owner.lock`, worktree | `execute`, `reconcile`, the run loop | `ManagedRun` |
| Adapters, `native_codex.py`, `native_claude.py`, `native_opencode*.py` | native sessions; Claude's outcome journal | `launch`, `poll`, `cancel`, `reconcile` | `ManagedRun`, by their results; the control channel: `NativeTransport` |
| Transport, `native_transport.py`, `native_rpc.py` | buffers of one process | `send`, `poll`, `request`, `notification`, the one-shot readers | `NativeTransport` |
| Outcome evidence, `outcome_store.py`, `outcome_cli.py` | `outcomes.sqlite3`: decisions, launches, events | `decision`, `launch`, `event` | `OutcomeStore` |
| State migration, `state_migration.py` | manifest, backups, fence, admissions switch | `migrate`, `rollback` | `StateMigration` |
| Legacy reservations, `rightsize.py` | `state.json` / `state.v2.json` | `reserve`, `release`, `release_settled`, `plan`, `log_decision`, `record_launch` | `LegacyHolds`; as writers in `StateMigration` |
| Routing policy, `rightsize.py` | none | `headroom`, `eligibility`, `pick`, `decide`, `rerun` | `RoutingPolicy` |
| Quota probes, `rightsize.py`, `accounts.py` | cache, snapshots, denials, cooldowns in `state.json` | `probes_cached`, `record_snapshot`, `eligibility`, `report --quota-error` | `LegacyHolds`; late reports: `QuotaAdmission` |
| Launch hook, `hooks/claude_pretooluse.py` | none of its own | records unlinked launches | those records: `OutcomeStore` |
| Judgment and context selection | none | text processing | not modelled |
| Pilot, `pilot_run.py`, `pilot_acceptance.py`, `pilot_execution.py` | `run.json`, acceptance records, a container | `step` | `PilotRun` |
| Replay and pilot corpus | none | pure functions of files | not modelled |

How they interact: a coordinator probes providers **without a lock**, then
`admit_snapshot` takes `state.json.lock`, asks `active_path()` which generation
of the state is in force, and calls `Ledger.admit`, one SQLite transaction under
an exclusive file lock. An executor process takes `owner.lock` of the attempt,
claims it (`launching`), lets the adapter submit the prompt to a native CLI,
records the receipt and polls until the turn ends, settling the attempt by an
event. Users cancel and review by events of their own; other coordinators sweep
overdue leases in the middle of all this. Reconciliation takes the same owner
lock and settles from durable native evidence. Decisions, launches and outcomes
are recorded in the evidence store by the CLI and by a hook, independently.

Without the service, coordinators share `state.json` alone: each of `route`,
`rerun` and `plan` reads the cache or probes, records the reading and its
denials, decides by pure arithmetic, and holds capacity in a later section
under the lock; `report` receipts a launch or gives holds back after asking
Orca. Adapters talk to native CLIs through `JsonProcess`. The pilot drives
admission and runs from a durable journal of its own, `run.json`.

Hard behaviours, and where they bite, are listed line by line under `hazards`
in `PROJECT.json`. The groups are: stale probes and late denials against
admission; lease expiry against running work; a process acting on state it read
in an earlier transaction; unanswered submissions; crashes between native
evidence and the ledger; crashes between any two file writes of a migration,
with older program versions writing meanwhile; evidence arriving in any order;
decisions made on a state read before the lock; chunks, budgets and deadlines of
a stream; and crashes between a durable marker and the effect it announces.

What makes each component correct:

- **Ledger:** no account above its slots, no task dispatched twice or weakened,
  capacity returned exactly once and only by an event, completion only with an
  exact receipt, denials kept until somebody entitled to clears them.
- **Admission on stale probes:** neither the reserve is spent nor a refusal forgotten.
- **Runs:** the prompt is submitted once; the hold lasts as long as the turn;
  the ledger says what the turn did; every owner ends; reconciliation settles
  what it can prove.
- **Evidence:** an accepted record has earned it, attribution never changes.
- **Migration:** no live hold lost, no moment without a state file, nothing
  admitted past a rollback, every interruption can be resumed.
- **Routing:** neither policy nor a quality floor gives way to scarce quota, in
  any role, band or retry; a denial is lifted by its own account only.
- **Legacy holds:** the last slot goes to one, a launch is booked once, a running
  worker keeps its hold.
- **Transport:** events once and in order, within the budgets; every interactive
  request answered; every call ends.
- **Pilot:** one launch per attempt, ceilings that bound what ran, both arms
  judged alike.

## 2. Modules

| Module | What it is |
| --- | --- |
| `ManagedLedger` | class `Ledger`: one action per operation and event kind |
| `AdmissionLease` | abstract: what the ledger promises of a hold |
| `LedgerLease` | the refinement mapping, `LeaseContract` |
| `QuotaAdmission` | the ledger composed with probes in flight and provider accounts |
| `ManagedRun` | the ledger composed with executors, native turns and users |
| `OutcomeStore` | class `OutcomeStore` |
| `StateMigration` | `migrate` and `rollback` composed with the writers around them |
| `RoutingPolicy` | the arithmetic of eligibility and choice, as operators |
| `LegacyHolds` | coordinators that share `state.json`, running `RoutingPolicy` |
| `NativeTransport` | one native process and its client over pipes |
| `PilotRun` | the paired pilot: `run.json`, the ledger and a container, by what they answer |
| `ManagedLedger_proofs`, `QuotaAdmission_proofs`, `ManagedRun_proofs`, `Stores_proofs`, `LegacyHolds_proofs`, `NativeTransport_proofs`, `PilotRun_proofs` | theorems, section 4 |
| `FiniteFacts` | lemmas about sums over finite sets and about least and greatest elements, used by most of the proofs |
| `MCManagedLedger`, `MCQuotaAdmission`, `MCManagedRun`, `MCOutcomeStore`, `MCLegacyHolds`, `MCNativeTransport`, `MCPilotRun` | instances for TLC |

`map` in `PROJECT.json` names the lines each definition stands for. Definitions
commented "Mutant:" are not part of a model: each is the form a definition
beside it would take with a plausible bug, and is there to show that a property
is sensitive to that bug.

**Granularity.** A transaction under an exclusive lock is one action. Where the
code acts on something it read earlier (the run loop, `launch_once`, probes),
the read is an action and the later step uses the remembered value. A
transaction that raises is rolled back: no step. An exception a caller does not
catch is a step of the caller.

**ManagedLedger.** `attempts` holds the rows, `tasks`, `events`, `denials` and
`admissions` the other tables, `now` a bounded clock and `binding` the account
each CLI is signed in to. `Admit` has the three ways `admit()` can go: an early
return (only the lease sweep is written), a wait once denials were refreshed,
and a new attempt. An event id already used is no step, which is what replay
(same digest) and refusal (another one) have in common.
Points are integers: `UnitsUp` and `UnitsDown` are `units()` and its floor
counterpart, in `Grain` fine units per ledger unit.

**QuotaAdmission.** The provider side is external: true usage `used`, what each
running attempt may still burn (`left`, at first its `estimate`), whether an
account refuses work. A probe begins and is read at different times, so reports
are stale in any order. Assumptions on the environment: a dispatch burns at most
its estimate; nothing else burns; the clock separates a settlement from the
reports read before it; no two providers share an account; an adapter reports
`launch_failed` only of an attempt that burnt nothing. `NoOverspend` speaks of
accounts with work that costs points: the capacity of a bucket is never less
than zero (`managed_ledger.py:223`), so a dispatch that costs nothing is admitted
to an account that is past its reserve already.

**ManagedRun.** `exec[x].pc` is the program point of a CLI process. Adapters
differ in three places: Claude and OpenCode look for a cancellation once more
before submitting; Claude journals the outcome before the ledger hears of it;
Codex reconciles only attempts with a session. A crash drops the process and
its lock and leaves the native turn running until it ends or dies.

**OutcomeStore.** `log[d]` is the events table of one dispatch in rowid order;
`Effective` applies a late binding as `_launch()` does. Stamps are arbitrary:
callers pass them or a wall clock does.

**StateMigration.** Every durable write of `migrate` and `rollback` is an
action, after any of which the process may die, dropping both locks and the
uncommitted SQLite transaction. `job` is the process, `legacy`, `target`,
`backups` and `record` the files. Writers: the current CLI writes the file
`active_path()` selects; an earlier CLI takes the same lock but writes
`state.json` regardless, unless the fence, a directory, is in its way. `fate`
and `changed` are history variables. Equal digests stand for equal contents,
and nobody tampers with the backups.

**RoutingPolicy.** Pure operators, in the order of the code: a probe gives
`Headroom`, with denials, cooldown and load an `Eligibility` row per provider,
`Qualified` and `Admits` the candidates of a band, `Pick` the choice, `Decide`
work, review and what blocks them. Quantities are half points, so that an
off-peak dispatch at half price stays an integer; rates are compared by
cross-multiplying. A judgment says which thresholds its scores reach.

**LegacyHolds.** `coord[c].pc` is the program point of a command, with what it
has read so far; each read of the file and each section under `state_lock()` is
one step. Two reads are taken as one: the loads of the several providers
(`Look`), and the cache with the accounts signed in to (`ReadCache`). A probe is
three steps, as in `bound_probe()`: the credential, the quota, the credential
again. `stamp` counts the logins: a fingerprint tells one credential file from
the next even where the account is the same (`accounts.py:104-118`). An answer
remembers who it was given to (`by`), which only the provider knows. The probes
with a key from a vault, which take no second look (`rightsize.py:898-911`), are
not among them. Orca's
lists, launches and receipts are the caller's: receipts come up to twice and at
any time after the launch. Properties speak of `file`, `workers` and what a
command decided (`made`).

**NativeTransport.** A line is its kind and its length; what the reader sees is
a number of units (`received`), so that chunks may end anywhere. `messages`,
`deferred` and `held` are the three places where an event may wait. `Select`,
`Write`, `Read` and `Take` are the steps of `poll()`; the deadline passes at any
time. Four clients: JSON-RPC (`codex`), Claude's control channel with its
acknowledgement loop, and the readers of rate limits and of one document. The
loop keeps what belongs to its session and is neither the init nor the
acknowledgement; a message of the turn itself acknowledges and is kept
(`Acknowledges`, `Keeps`).

**PilotRun.** `disk` is `run.json`, `mem` the copy a `step()` works on: a crash
or an exception loses what was not saved, and the next step starts from `disk`.
Ledger, native run and container engine are external: attempts settle, report
tokens or lose them, containers are created without acknowledgement, some of
them after the check has looked for them (`lost`, `LateCreate`). `Uncaught` is an
exception that `check()` does not handle: the container goes, the record keeps
the status it had, and the next step reads that record.

## 3. Runs

| Run | Question | Properties |
| --- | --- | --- |
| `ledger` | concurrent admissions of several tasks under both references of an account; every order of events, replays, expiry and renewals | `SlotBound`, `TaskExclusive`, `TaskIdentity`, `TypeOK`, `ExactCompletion`, `SettledExactly`, `ReleasedOnce`, `LeaseContract` |
| `quota` | stale probes and settlements against the point budget; late probes and two logins against a refusal | `NoOverspend`, `RefusalRespected` |
| `run_owners` | two processes execute, cancel, reconcile and crash around an attempt | `HeldWhileRunning`, `SubmittedOnce`, `ToldTrue`, `RecoverySettles`, `RunsEnd` |
| `outcome_evidence` | every history of four events around a launch | `OutcomeTypeOK`, `AcceptanceEarned`, `AttributionSound`, `AcceptedLast`, `BoundOnce` |
| `migration_crashes` | two migrations and rollbacks, two crashes anywhere, old and new writers | `MigrationTypeOK`, `HoldsSurvive`, `RollbackFenced`, `RefusesOnlyChanges`, `MigratedStay`, `NoMissingFile` |
| `legacy` | coordinators between their reads and their locks, in eight situations | `PolicyHolds`, `QualityKept`, `LastSlotOnce`, `BookedOnce`, `DenialKept`, `RunningKept` |
| `transport` | any output, cut anywhere, against requests, refusals, budgets and deadlines | `OutputInOrder`, `RefusedOnce`, `WithinBudgets`, `ReadingsEarned`, `CallsEnd` |
| `pilot` | two crashes anywhere in a paired pilot | `LaunchedOnce`, `CeilingsHold`, `FairComparison` |
| `denial_erased`, `cancel_race`, `no_launch_race`, `migration_gate` | expected violations, section 6 | one each |

All passing runs explore the whole reachable space of their instance, within
the constraint named here where there is one. Bounds, and why they suffice for
what the properties can tell apart:

- `ledger`: the constraint `Regions` is the union of two regions, which share
  their initial states. *Pool*: three attempts of three tasks (one also asked for
  under a higher floor), two slots, a confirmed and an unconfirmed reference, at
  one instant; overbooking needs one attempt more than slots, spread over both
  references. *Lifecycle*: two attempts of one task, denials, clock 0..2, leases
  of 1, so that an attempt can go through claim, receipt, a mismatch or
  cancellation and an outcome while leases run out. Attempts and events together
  are at most five. `LedgerSpec` hands identifiers out in increasing order (the
  ledger only compares them) and leaves out the steps that mix the regions;
  every step of it is a step of `Spec`.
- `quota`: full 6, reserve 1, cost 3, grain 2, so that rounding up and down both
  matter; two attempts, two probes in flight, one window reset (*Budget*, on one
  login), or two logins on two accounts, one refusal, costs 0 and 6 (*Denials*).
  Two logins swapped together with their accounts are symmetric. `InOrderSpec`
  again only hands identifiers out in order.
- `legacy`: three providers, seven models in three bands, limits of one and two
  slots, two coordinators. The situations are initial states: every judgment,
  exception and retry against every mix of readings (*Policy*, one coordinator:
  nothing concurrent can change a decision once the row is read); two routes for
  the last slot with managed work coming and going; a route against a batch of
  three tasks; a launch with its receipts against `report --from-orca`; migrated
  holds; two refreshes around a denial, a login and a change of quota; one refresh
  around two logins, so that a user may come back to the first account between
  its two looks; quota errors, cooldowns and cached readings. `spare` bounds what may happen around
  the commands. Deadlock is not checked: commands end.
- `transport`: lines of one to four units against a line budget of 2 and a byte
  budget of 5, two pending messages, two requests and at most three lines (two
  of a document); lines of Claude's process come whole, but every sequence of
  three of its eight kinds: what a turn needs to begin, a turn that acknowledges,
  another session's message, another setup, an interactive request. Deadlock is
  not checked: a session ends.
- `pilot`: two tasks in opposite orders, two snapshots, ceilings that one provider
  reaches by attempts and tokens and the other by points, both budget scopes,
  two crashes; at most three entries, so that a retry, and a retry in the other
  arm, are reached, and at most two once a container's creation went unanswered.
  Deadlock is not checked: the pilot halts.
- `run_owners`: one attempt of each adapter in turn, two executors, one crash.
  Two executors are enough for every race on the owner lock and for execution
  against reconciliation; each event name can be used once.
- `outcome_evidence`: completion, review, repair and acceptance are four
  events; two decisions to be bound to, and choices that follow, precede,
  ignore or deviate from them, in the effort alone too. Identifiers are used in increasing order and
  decisions are symmetric: both are only compared for equality.
- `migration_crashes`: two holds, two migrations (so that a migration follows a
  completed rollback), one managed attempt, two crashes: one to interrupt and
  one to interrupt the recovery. Deadlock is not checked: identifiers run out.

**Fairness.** Only `RunsEnd` and `CallsEnd` need it. `FairRunSpec` asks that an executor that
is not killed takes its next step (`WF` on `RunStep`: it is a foreground loop
that never waits without a timeout: polls last 0.2 s, requests have deadlines)
and that deadlines pass (`WF` on `Deadline`: `time.monotonic()`). Nothing is
asked of the native side, of users, or of other coordinators. `FairTransportSpec`
likewise asks that the client takes its next step once it is in a call (`WF` on
`ClientStep`: `select()` always has a timeout) and that its deadline passes.

## 4. Theorems

Each theorem is `Spec => []P` (or the action property itself) for all constants
that satisfy the module's named assumptions.

| Module | Proved of its component |
| --- | --- |
| `ManagedLedger_proofs` | `TypeOK`, `SlotBound`, `TaskExclusive`, `TaskIdentity`, `ExactCompletion`, `SettledExactly`, `ReleasedOnce`; the ledger implements `AdmissionLease` (`LeaseContract`) |
| `QuotaAdmission_proofs` | `NoOverspend` |
| `ManagedRun_proofs` | `HeldWhileRunning`, `SubmittedOnce`, `ToldTrue`, `RecoverySettles`; one owner at a time; every step of a run is a step of the ledger or leaves it alone, so that the theorems of the ledger hold of it (`ReleasedOnce` and `LeaseContract` are carried over) |
| `Stores_proofs` | of `OutcomeStore`: `OutcomeTypeOK`, `AcceptanceEarned`, `AttributionSound`, `AcceptedLast`, `BoundOnce`; of `StateMigration`: `MigrationTypeOK`, `RollbackFenced`, `NoMissingFile`, `HoldsSurvive`, `RefusesOnlyChanges`, `MigratedStay` |
| `LegacyHolds_proofs` | `PolicyHolds`, `QualityKept`, `LastSlotOnce`, `BookedOnce`, `DenialKept`, `RunningKept` |
| `NativeTransport_proofs` | `OutputInOrder`, `RefusedOnce`, `WithinBudgets`, `ReadingsEarned` |
| `PilotRun_proofs` | `LaunchedOnce`, `FairComparison`, `CeilingsHold` |

**Assumptions**, which TLC evaluates on every run of the module:

- `ManagedLedger`: `LimitAssumption` (limits and spans are positive naturals),
  `PointAssumption` (point amounts are naturals), `InputAssumption` (finitely
  many attempt ids; observations of the shape a probe can have).
- `QuotaAdmission`: `AccountAssumption` (every local login belongs to an account
  of one provider; the quota identities a probe can confirm are the accounts; an
  event id is an attempt and a step).
- `ManagedRun`: `RunAssumption` (the three adapters; an event id is an attempt
  and a step, as the code derives it; a launch key is one of the ledger's
  request keys; what a probe reports is an observation; the outcome
  `launch_failed` is never one a native turn can end with).
- `OutcomeStore`: `StoreAssumption` (`None` is no value of a column; reviews and
  choices have the fields the code requires).
- `StateMigration`: `MigrationAssumption` (bounds are naturals), `FileAssumption`
  (no content is mistaken for an absent path or a directory).
- `RoutingPolicy`: `PolicyAssumption` (ladders of candidates with a profile, whose
  providers are configured; costs, reserves and limits are naturals; a task's
  floor is a band).
- `LegacyHolds`: `LegacyAssumption` (initial situations have the shape of the
  files and answers the code reads, with finitely many holds whose ids and
  dispatches differ; there are finitely many quota windows, and none of them has
  the name of the denial of a whole account).
- `NativeTransport`: `TransportAssumption` (lines are not empty; bounds are
  naturals).
- `PilotRun`: `PilotAssumption` (tasks are a sequence; a task's order names both
  variants; points are naturals; limits are what `validate_limits` lets pass,
  `pilot_run.py:38-52`).

**Lines of argument:**

- **Slots.** `SlotBound` is inductive given `TypeOK`. Only an admission adds to
  `Sharing(ref)`. It counts `HeldAgainst` of *its own* reference; the set that
  counts for another reference can only grow by an attempt of unconfirmed
  identity, and that one was counted against all of them
  (`AdmissionRespectsSlots`).
- **Tasks.** No step moves an attempt out of `Blocking` and back
  (`NextKeepsBlocking`), and an admission needs a task without blocking
  attempts; the attempt limit counts rows, which are never deleted (`NextKeeps`).
- **Receipts and stamps.** `ExactCompletion` is not inductive: it needs to know
  that an attempt that may complete has no mismatch on record, whatever
  receipts came late. `RowsInv` adds the relation between state, receipt,
  mismatch and stamp to each row; `EventRows` has one case per event kind, and
  expiry is covered by `SweptRows`.
- **Refinement.** Rows map to leases by `LeaseOf`. Expiry, renewal, receipts and
  denials stutter (`SweptStatus`, `SameStatus`); an admission is a `Grant`,
  whose load condition is the slot bound restated (`LoadIsSharing`); a terminal
  event is a `Return` or `Decide` (`EventMoves`).
- **Budget.** A report that was read and not yet used is a promise, `Covered`:
  what is used of its account and what running attempts may still burn is at most
  what it reads plus the estimates of the attempts `Charged` to it, those that
  run or settled after it. Burning moves from "may" to "is"; a settlement newer
  than the report leaves the charge, unless nothing was launched; a reset only
  helps; an admission adds its estimate to both sides (`Balanced`, one lemma per
  step). `admit()` holds at least these attempts against the report, and its
  rounding errs on the safe side (`ChargedIsHeld`, `HeldIsEnough`,
  `CapacityBound`), so what it adds stays within the budget.
- **Runs.** `RunInv` says, for every program point, which ledger states of its
  attempt a process there can be in the presence of, although others move the
  row under it: a process that is about to submit is the only one whose attempt
  is open, unsubmitted and past its claim (`SubmittedOnce`); a turn that runs
  belongs to an attempt whose capacity is held, because only the owner's
  events, cancellation and expiry touch it, and none of the latter two settles.
  What other processes and users do to a row is reduced once to a small
  relation on states ("undisturbed" lemmas); each program step then has one
  lemma. The owner lock is what makes them exclusive: `RunOwnerExclusive`.
- **Evidence.** The invariants are inductive together, once the types say that
  an event id is used at one position of one log and that only recorded
  launches have events (`OnlyLaunched`). Each step appends at most one event, so
  the proofs are about what an append does to "the last event of a kind", which
  exists by the well-foundedness of the naturals and not by induction.
- **Migration.** What a step swaps in was made by an earlier step, perhaps of a
  call that was killed. `MigrationInv` adds which phases of the manifest a step
  may meet (`StepMatchesPhase`), which files of the migration's directory and
  which target it finds (`BackupsMade`, `TargetMade`), and that admission stays
  off from a rollback's first transaction on (`Fence`). `HoldsInv` adds which
  reservations each file holds: source and candidate hold the same ones, behind
  the fence the target is the candidate, no reservation is left in the target
  once a rollback restores, and rows are unique. There is a lemma per conjunct
  with a case per group of steps; all writers of reservations go through one
  lemma, `RewriteInv`.
- **Routing.** `PolicyHolds` and `QualityKept` speak of what a command made of
  quota it read at several earlier moments. `ChoiceRight` is about the operators
  alone: from *any* reading of quota, holds and denials the decision respects the
  task's floor, exclusions and retries, and picks a provider that the reading
  calls eligible. What this needs of the reading is only that it is one
  (`EligOK`): percentages are numbers, so that the choice of a place in a
  ladder has a least element to find (`FiniteFacts`). `CommandOK` carries it from
  one program point of a command to the next, through the second choice of a
  route that lost its slot and the waves of a plan; `EligTyped` adds that an
  eligible provider has none of the denials the command has read, which is the
  second half of `DenialKept`. The first is `RecordedKeeps`, about the bookkeeping
  of one reading, and `ReadingsBound`: stamps only grow, so a credential that is
  the same at both looks was the one the provider answered in between.
- **Legacy holds.** The obstacle is that a survey lists holds and releases them
  one section at a time. `FileOK` says that ids are below the serial and, like
  dispatches, in use once. Whatever a step does to the file, holds that stay keep
  their dispatch or are bound to one for the first time, and new ones have new
  ids (`Onward`, `HoldsKept`); so what a queue says of a hold stays true of the
  hold with that id (`QueuesSettle`, `SettlesKept`), which is `RunningKept`.
  `HoldSteps` and `NewHolds` say which steps touch holds and where new ones come
  from: `LastSlotOnce` and `BookedOnce` are cases of it.
- **Transport.** Every line carries the offset at which it `end`s in the stream,
  so that what has been parsed is a comparison of offsets and not a sum over a
  prefix. `OutputInOrder` is restated over what was delivered; its invariant
  (`StreamInv`, `CoverInv`) says that deliveries, the deferred and held events
  and the pending messages are each in rising order and one before the other,
  and that together they miss nothing that was parsed. `LinesInv`, `CallInv`,
  `BudgetInv`, `InputInv`, `RefusalInv` and `HandshakeInv` are the other parts,
  one lemma each.
- **Pilot.** The difficulty is that a crash forgets. `Journal` holds of the
  journal on disk and of the copy in memory alike (an entry per task, variant
  and number; an open entry is the one the task's order calls for; retries have
  been earned; cases are those of the snapshot). `Told` and `Marked` relate a
  journal to the ledger and to the launches made, `Decided` a step's local
  choices to them; `StepInv` says which of them holds at which program point.
  `LaunchedOnce` follows because the marker is saved before the launch and
  nothing launches on a marker it reads back.
- **Ceilings.** `CeilingsInv` adds that points booked are those of the case
  (`RowsInv`), that what the journal counts is within the limits before an entry
  is appended (`BudgetsKept`), that usage noted is what the ledger reported
  (`UsageTold`) and that usage is reported once (`MetricsInv`). Sums are the
  community fold. The proof system has no induction over data, so `FiniteFacts` proves
  what is needed (a sum splits off an element, grows with its weights, depends
  only on the weights) from a smallest counterexample: a nonempty family of
  subsets of a finite set has a member no smaller one of which belongs to it.

**Only model-checked.** `RunsEnd` and `CallsEnd` will stay so: liveness under
fairness is beyond the proof system used here. `RefusalRespected` holds of the
run's one refusal but not of every number of them: what `denial_erased` shows
(section 6) lifts a known refusal, so it is a property of the instance.

## 5. Not modelled

Provider protocols, HTTP, JSON validation, Git worktrees; text classification,
context selection and the parsing of shell commands in the launch hook; replay,
its recorded baseline and the pilot's corpus and reports; the daily counter of
free requests, the vault-backed probes and codex's own binding check; notes and
reasons of decisions, candidates with an effort of their own; usage metrics; corrupt or
tampered files and their quarantine; totals and medians of the audit. A legacy
`reserve` also refuses while a managed attempt owns the same provider: managed
attempts of `StateMigration` are taken to be on other providers.

## 6. Where the code and its documents differ

1. **A denial of one login is erased by another's** (`denial_erased`).
   `quota_failed` replaces the whole denial row of its reference
   (`managed_ledger.py:342`); with no confirmed quota identity that row is
   shared by every local context. `docs/MANAGED.md:66` says changing homes or
   credentials cannot silently erase a denial.
2. **A cancellation can end a run without an interruption** (`cancel_race`).
   `run()` reads the state, polls, then records first output; once the attempt
   is `cancelling` that event is refused and the exception is not among those
   `run()` handles (`native_codex.py:281`). A lease swept before the first
   output ends the run the same way.
3. **A proven non-launch can keep its hold** (`no_launch_race`). `launch_once`
   picks `launch_failed` or `cancelled` by a separate read
   (`managed_router.py:30`); a cancellation in between makes the ledger refuse
   the event, and no command releases the hold afterwards.
4. **A TTL can pass the rollback gate** (`migration_gate`). A hold taken after
   the cutover is not a migrated row, so its TTL alone ends it
   (`state_migration.py:145`), while `docs/MIGRATION.md:74-77` says that TTL
   expiry cannot pass the gate.

Differences met in the legacy router that no run singles out; `LegacyHolds`
models what the code does in each case:

- `report --quota-error` files its denials under the plain provider name
  (`rightsize.py:3028`), while `eligibility` lifts only denials in the scope of
  the current login (`rightsize.py:1451-1463`). With an account in use, a healthy
  live reading therefore never lifts one, against `docs/POLICY.md:451-453`; only
  its time does (`docs/KEYS.md:231` calls such denials conservative until
  reconciled).
- `plan --reserve` gives `reserve()` no limit (`rightsize.py:2146`), so nothing is
  counted under the lock: two plans that have both read one free slot both hold
  it in their first wave (TLC reaches this in `LegacyHolds` in 22 steps), although
  `README.md:236-239` says of a fan-out that two coordinators cannot.
  `LastSlotOnce` is therefore about the holds that `route` takes; it counts those
  of plans.
- `route --reserve` decides again when the first decision was blocked, not only
  when a slot was lost: `hold_capacity` answers `None` in both cases
  (`rightsize.py:1996-2007`). The provider is then treated as full, and a task
  that waits for an approval may be placed on another model.
- `release_settled` surveys holds outside the lock (`rightsize.py:1327`). A hold
  that was unbound and whose brief had finished when surveyed, and that
  `record_launch` adopts for a running dispatch before the lock is taken, is
  released. `RunningKept` leaves out exactly this window and states that there
  is no other.
- Readings are applied in the order in which their commands get the lock, not in
  which they were taken: an older healthy reading recorded late can lift a newer
  denial. `DenialKept` is stated for the order in which they are recorded.

Behaviours met on the way that contradict no document: a container the engine
creates after `check()` has looked for it stays behind, although its record says
`removed` (`pilot_acceptance.py:241-243`; `FairComparison` allows exactly this,
and only with a rejection); after an uncaught exception the next step records a
rejection on a record that still says `running` (`pilot_run.py:375-391`); an admitted attempt that
was never claimed becomes `reconciling` and nothing releases it (a hazard without
a property, as is the provider-wide denial above); the cancel request of a run
counts once (`native_codex.py:255`); a repeat of a hook's unlinked launch record
is refused after its binding (`outcome_store.py:391`); once an earlier CLI wrote
between a crash and its recovery, neither migrate nor rollback will go on (that
is intended: changed evidence is an error).

## 7. Plan

What remains, in order:

1. A theorem for `RefusalRespected`: under which assumption on the number of
   refusals, or on the identities a probe confirms, it holds of every instance.
2. Models: the managed router's use of a decision's floor, the launch hook, the
   context manifest, the OpenCode server session, and replay.
3. `StateMigration` could take its legacy writers from `LegacyHolds`, so that the
   cutover is checked against every command.
