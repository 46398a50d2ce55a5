--------------------------- MODULE ManagedLedger ---------------------------
(***************************************************************************)
(* The durable ledger behind managed admissions (src/managed_ledger.py).    *)
(*                                                                          *)
(* Every operation of class Ledger is one SQLite transaction taken under an *)
(* exclusive file lock, so an operation is one action here.  A transaction  *)
(* that raises rolls back: it is no step at all.  A transaction that        *)
(* returns wait(...) commits what it wrote so far (the lease sweep, and     *)
(* past the denial stage the refreshed denials as well).                    *)
(*                                                                          *)
(* Abstractions.  A (account_ref, fingerprint) pair is one member of        *)
(* Contexts; a request or event digest is the fact that the id was used;    *)
(* model, effort and band are left to the receipt, which either matches the *)
(* admitted selection exactly or does not; time is a bounded counter.       *)
(***************************************************************************)
EXTENDS Integers, FiniteSets, FiniteSetsExt, Functions

CONSTANTS
  AttemptIds,     \* identifiers uuid4() can still hand out
  RequestKeys,    \* idempotency keys of callers
  EventIds,       \* idempotency keys of lifecycle events
  Intents,        \* task identities, [task, spec, floor]
  Providers,
  Contexts,       \* local account identities of a provider
  QuotaIds,       \* provider-confirmed quota identities
  Unattributed,   \* "*": the provider confirmed no quota identity
  BucketIds,      \* quota windows of an account
  Observations,   \* what a probe can report (see IsObservation)
  Costs,          \* point costs of one dispatch, in fine units
  Loads           \* load from outside the ledger, [points, slots, blocked]

CONSTANTS
  SlotLimit,      \* [Providers -> concurrent attempts allowed]
  MaxAttempts,    \* attempts per task
  Reserve,        \* percentage kept back in every bucket, in fine units
  Full,           \* 100%, in fine units
  Grain,          \* fine units per ledger unit (points are stored as integers)
  MaxAge,         \* oldest observation an admission may use
  Lease,          \* seconds a lease or renewal lasts
  MaxTime         \* bound of the clock

NotSettled == -1  \* SQL NULL of attempts.settled_at
NoDenial == -1    \* default of denied_at in can_clear

Intent == [task : STRING, spec : STRING, floor : 1..3]
\* A bucket of an observation; a missing percentage is a negative one.  admit()
\* tells no other sources and states apart; "rate-limited" stands for the three
\* states of a refusal.
Reading == [percent : Int, source : {"live", "computed", "other"},
            raw : {"ok", "rate-limited", "other"}]
IsObservation(o) ==
  /\ o.context \in Contexts
  /\ o.quota \in QuotaIds \cup {Unattributed}
  /\ o.status \in {"ok", "denied", "unavailable"}
  /\ DOMAIN o.buckets \subseteq BucketIds
  /\ o.buckets \in [DOMAIN o.buckets -> Reading]

ASSUME LimitAssumption ==
  /\ SlotLimit \in [Providers -> Nat \ {0}]
  /\ MaxAttempts \in Nat \ {0}
  /\ Lease \in Nat \ {0} /\ MaxAge \in Nat \ {0} /\ MaxTime \in Nat
ASSUME PointAssumption ==
  /\ Full \in Nat \ {0} /\ Grain \in Nat \ {0} /\ Reserve \in Nat
  /\ Costs \subseteq Nat
ASSUME InputAssumption ==
  /\ IsFiniteSet(AttemptIds)
  /\ Unattributed \notin QuotaIds
  /\ "account" \notin BucketIds
  /\ \A i \in Intents : i \in Intent
  /\ \A o \in Observations : IsObservation(o)
  /\ \A load \in Loads : load \in [points : Nat, slots : Nat, blocked : BOOLEAN]

VARIABLES
  attempts,    \* table attempts: [subset of AttemptIds -> Row]
  tasks,       \* table tasks: [known task ids -> [spec, floor]]
  events,      \* ids in table events
  denials,     \* table denials: [Refs -> set of denial entries]
  admissions,  \* settings row "admissions"
  binding,     \* local account each provider CLI is signed in to
  now          \* the clock

vars == <<attempts, tasks, events, denials, admissions, binding, now>>

----------------------------------------------------------------------------
(* Vocabulary *)

Active == {"admitted", "launching", "started", "producing", "cancelling",
           "reconciling"}
Outcomes == {"launch_failed", "quota_failed", "auth_failed", "tool_failed",
             "runtime_failed", "cancelled", "completed"}
Verdicts == {"accepted", "rejected"}
Terminal == Outcomes \cup Verdicts

Quotas == QuotaIds \cup {Unattributed}
Refs == Providers \X Quotas
DenialIds == BucketIds \cup {"account"}
Denial == [id : DenialIds, at : Nat, context : Contexts]

Row == [state : Active \cup Terminal, request : RequestKeys, intent : Intents,
        provider : Providers, quota : Quotas, context : Contexts,
        points : Nat, expires : Nat, settled : Nat \cup {NotSettled},
        receipt : {"none", "exact", "other"}, mismatch : BOOLEAN,
        prepared : BOOLEAN, output : BOOLEAN]

IsActive(t, a) == t[a].state \in Active
RefOf(row) == <<row.provider, row.quota>>

\* units(): a cost is rounded up and a capacity down, never in favour of
\* the dispatch.
UnitsUp(x) == (x + Grain - 1) \div Grain
UnitsDown(x) == x \div Grain

----------------------------------------------------------------------------
(* Leases *)

\* expire(): an overdue lease is an open question, never free capacity.
Overdue(row) == /\ row.state \in Active \ {"reconciling"}
                /\ row.expires <= now
\* Mutant: expiry taken for proof that the process stopped.
SweptAsFailed(t) ==
  [a \in DOMAIN t |->
     IF Overdue(t[a])
     THEN [t[a] EXCEPT !.state = "runtime_failed", !.settled = now] ELSE t[a]]
Swept(t) == [a \in DOMAIN t |->
               IF Overdue(t[a]) THEN [t[a] EXCEPT !.state = "reconciling"]
                                ELSE t[a]]

----------------------------------------------------------------------------
(* Denials: what the provider refused, kept across processes *)

Denies(reading) == \/ reading.raw = "rate-limited"
                   \/ reading.percent >= Full
Bounded(reading) == /\ reading.percent \in 0 .. (Full - 1)
                    /\ reading.raw = "ok"
Healthy(reading) == Bounded(reading) /\ reading.source = "live"
Usable(reading) == Bounded(reading) /\ reading.source \in {"live", "computed"}

BucketsWhere(o, P(_)) == {b \in DOMAIN o.buckets : P(o.buckets[b])}

Denied(o) == BucketsWhere(o, Denies)
               \cup (IF o.status = "denied" THEN {"account"} ELSE {})
Cleared(o) == BucketsWhere(o, Healthy)
                \cup (IF /\ o.status = "ok" /\ DOMAIN o.buckets # {}
                         /\ BucketsWhere(o, Healthy) = DOMAIN o.buckets
                      THEN {"account"} ELSE {})

\* Mutant: any login's healthy reading clears the denial.
CanClearAnywhere(d, o, at) == at > d.at
\* can_clear(): a later reading, of the same context when no quota identity
\* pools the contexts.
CanClear(d, o, at) == /\ at > d.at
                      /\ o.quota # Unattributed \/ o.context = d.context

\* The row of denials a reading leaves behind.
Refreshed(known, o, at) ==
  {d \in known : /\ d.id \notin Denied(o)
                 /\ ~(d.id \in Cleared(o) /\ CanClear(d, o, at))}
    \cup [id : Denied(o), at : {at}, context : {o.context}]

\* Denials recorded under another reference that may still bind this one.
Related(ref) ==
  {r \in Refs \ {ref} : /\ r[1] = ref[1]
                        /\ ref[2] = Unattributed \/ r[2] = Unattributed}
Inherited(ref) == UNION {denials[r] : r \in Related(ref)}

----------------------------------------------------------------------------
(* Capacity *)

\* Mutant: attempts of unconfirmed identity forgotten.
HeldByIdentity(t, ref, at) ==
  {a \in DOMAIN t :
     /\ t[a].provider = ref[1]
     /\ ref[2] = Unattributed \/ t[a].quota = ref[2]
     /\ IsActive(t, a) \/ t[a].settled > at}
\* Mutant: a settlement gives its points back at once.
HeldWhileActive(t, ref, at) ==
  {a \in DOMAIN t :
     /\ t[a].provider = ref[1]
     /\ ref[2] = Unattributed \/ t[a].quota \in {ref[2], Unattributed}
     /\ IsActive(t, a)}
\* Attempts whose points the observation may not show as spent: those still
\* running and those settled after it, unless they provably never launched.
HeldAgainst(t, ref, at) ==
  {a \in DOMAIN t :
     /\ t[a].provider = ref[1]
     /\ ref[2] = Unattributed \/ t[a].quota \in {ref[2], Unattributed}
     /\ \/ IsActive(t, a)
        \/ t[a].settled > at /\ t[a].state # "launch_failed"}

Points(t, S) == SumFunctionOnSet([a \in DOMAIN t |-> t[a].points], S)
Spent(t, ref, at, load) ==
  Points(t, HeldAgainst(t, ref, at)) + UnitsUp(load.points)
Slots(t, ref, at, load) ==
  Cardinality({a \in HeldAgainst(t, ref, at) : IsActive(t, a)}) + load.slots

Capacity(reading) ==
  Max({0, UnitsDown(Full - reading.percent) - UnitsUp(Reserve)})

HasSlot(t, ref, at, load) == Slots(t, ref, at, load) < SlotLimit[ref[1]]
HasPoints(t, ref, o, at, load, cost) ==
  \A b \in DOMAIN o.buckets :
    Spent(t, ref, at, load) + UnitsUp(cost) <= Capacity(o.buckets[b])

----------------------------------------------------------------------------
(* Admission *)

Init ==
  /\ attempts = [a \in {} |-> {}]
  /\ tasks = [t \in {} |-> {}]
  /\ events = {}
  /\ denials = [r \in Refs |-> {}]
  /\ admissions = "enabled"
  /\ binding \in [Providers -> Contexts]
  /\ now = 0

WithRequest(r) == {a \in DOMAIN attempts : attempts[a].request = r}
OfTask(id) == {a \in DOMAIN attempts : attempts[a].intent.task = id}

\* Mutant: accepted work may be dispatched again.
BlockingUnaccepted == Active \cup {"completed"}
\* The states in which a task is running, awaits review or is done.
Blocking == Active \cup {"completed", "accepted"}

\* Mutant: a retry may ask for less capability.
SameSpec(i) == i.task \in DOMAIN tasks => tasks[i.task].spec = i.spec
Compatible(i) == i.task \in DOMAIN tasks =>
                   /\ tasks[i.task].spec = i.spec
                   /\ tasks[i.task].floor <= i.floor
\* Mutant: completed work does not wait for its review.
TaskIdle(i) == /\ \A a \in OfTask(i.task) : ~IsActive(attempts, a)
               /\ Cardinality(OfTask(i.task)) < MaxAttempts
TaskOpen(i) == /\ \A a \in OfTask(i.task) : attempts[a].state \notin Blocking
               /\ Cardinality(OfTask(i.task)) < MaxAttempts
Current(p, o, at) == /\ o.context = binding[p]
                     /\ at <= now /\ now - at <= MaxAge

\* The caller gets an attempt it asked for before, or a wait decided before
\* the denials are looked at.
EarlyReturn(r, i, p, o, at) ==
  \/ WithRequest(r) # {} /\ \A a \in WithRequest(r) : attempts[a].intent = i
  \/ WithRequest(r) = {} /\ admissions # "enabled"
  \/ WithRequest(r) = {} /\ Compatible(i)
       /\ ~(TaskOpen(i) /\ Current(p, o, at))

\* The request reaches the denial stage.
Considered(r, i, p, o, at) ==
  /\ WithRequest(r) = {}
  /\ admissions = "enabled"
  /\ Compatible(i)
  /\ TaskOpen(i)
  /\ Current(p, o, at)

Admissible(ref, o, at, load, cost) ==
  /\ Refreshed(denials[ref], o, at) = {}
  /\ Inherited(ref) = {}
  /\ ~load.blocked
  /\ o.status = "ok"
  /\ DOMAIN o.buckets # {}
  /\ BucketsWhere(o, Usable) = DOMAIN o.buckets
  /\ HasSlot(attempts, ref, at, load)
  /\ HasPoints(attempts, ref, o, at, load, cost)

NewRow(r, i, p, o, cost) ==
  [state |-> "admitted", request |-> r, intent |-> i, provider |-> p,
   quota |-> o.quota, context |-> o.context, points |-> UnitsUp(cost),
   expires |-> now + Lease, settled |-> NotSettled, receipt |-> "none",
   mismatch |-> FALSE, prepared |-> FALSE, output |-> FALSE]

\* admit() up to its early returns.
AdmitEarly(r, i, p, o, at) ==
  /\ EarlyReturn(r, i, p, o, at)
  /\ attempts' = Swept(attempts)
  /\ UNCHANGED <<tasks, events, denials, admissions, binding, now>>

\* admit() that waits once the denials are refreshed.
AdmitWait(r, i, p, o, at, load, cost) ==
  LET ref == <<p, o.quota>> IN
  /\ Considered(r, i, p, o, at)
  /\ ~Admissible(ref, o, at, load, cost)
  /\ attempts' = Swept(attempts)
  /\ denials' = [denials EXCEPT ![ref] = Refreshed(@, o, at)]
  /\ UNCHANGED <<tasks, events, admissions, binding, now>>

\* admit() that commits an attempt under the fresh identifier a.
AdmitNew(a, r, i, p, o, at, load, cost) ==
  LET ref == <<p, o.quota>>
      swept == Swept(attempts) IN
  /\ a \in AttemptIds \ DOMAIN attempts
  /\ Considered(r, i, p, o, at)
  /\ Admissible(ref, o, at, load, cost)
  /\ attempts' = [x \in DOMAIN attempts \cup {a} |->
                    IF x = a THEN NewRow(r, i, p, o, cost) ELSE swept[x]]
  /\ tasks' = [t \in DOMAIN tasks \cup {i.task} |->
                 IF t = i.task THEN [spec |-> i.spec, floor |-> i.floor]
                               ELSE tasks[t]]
  /\ denials' = [denials EXCEPT ![ref] = Refreshed(@, o, at)]
  /\ UNCHANGED <<events, admissions, binding, now>>

Admit(r, i, p, o, at, load, cost) ==
  \/ AdmitEarly(r, i, p, o, at)
  \/ AdmitWait(r, i, p, o, at, load, cost)
  \/ \E a \in AttemptIds : AdmitNew(a, r, i, p, o, at, load, cost)

----------------------------------------------------------------------------
(* Lifecycle events.  An id already in the events table is answered without *)
(* effect (same digest) or refused (another one): neither is a step.        *)

Put(a, row) == attempts' = [attempts EXCEPT ![a] = row]
Record(a, e) ==
  /\ a \in DOMAIN attempts
  /\ e \notin events
  /\ events' = events \cup {e}
  /\ UNCHANGED <<tasks, admissions, binding, now>>

\* Mutant: a receipt recovered after a cancellation request is refused.
StartableUncancelled == {"launching", "reconciling"}
\* The states from which event() accepts each kind.
PreparableFrom == {"launching"}
MeasurableFrom == Active \cup {"completed"}
StartableFrom == {"launching", "reconciling", "cancelling"}
ProducibleFrom == {"started", "producing"}
LaunchFailableFrom == {"admitted", "launching", "reconciling"}

\* "prepared": the native session id is known before the model runs.
Prepare(a, e) ==
  /\ Record(a, e)
  /\ attempts[a].state \in PreparableFrom
  /\ Put(a, [attempts[a] EXCEPT !.prepared = TRUE])
  /\ UNCHANGED denials

\* "metrics": usage counters; the counters themselves are not modelled.
Measure(a, e) ==
  /\ Record(a, e)
  /\ attempts[a].state \in MeasurableFrom
  /\ UNCHANGED <<attempts, denials>>

\* "launching": the exclusive claim, refused once the lease has run out.
Claim(a, e) ==
  /\ Record(a, e)
  /\ attempts[a].state = "admitted"
  /\ attempts[a].expires > now
  /\ Put(a, [attempts[a] EXCEPT !.state = "launching"])
  /\ UNCHANGED denials

\* "started": the launch receipt, checked against the admitted selection.
StartedState(row, exact) ==
  IF ~exact THEN "reconciling"
  ELSE IF row.state = "cancelling" THEN "cancelling" ELSE "started"
Started(row, exact) ==
  [row EXCEPT !.state = StartedState(row, exact),
              !.receipt = IF exact THEN "exact" ELSE "other",
              !.mismatch = @ \/ ~exact]
Start(a, e, exact) ==
  /\ Record(a, e)
  /\ attempts[a].state \in StartableFrom
  /\ Put(a, Started(attempts[a], exact))
  /\ UNCHANGED denials

\* "producing": first output of a bound attempt.
Produce(a, e) ==
  /\ Record(a, e)
  /\ attempts[a].state \in ProducibleFrom
  /\ Put(a, [attempts[a] EXCEPT !.state = "producing", !.output = TRUE])
  /\ UNCHANGED denials

\* "cancelling": immediate before the claim, a request after it.
\* Mutant: a claimed attempt is cancelled at once, too.
CancellingEarly(row) ==
  IF row.state \in {"admitted", "launching"}
  THEN [row EXCEPT !.state = "cancelled", !.settled = now]
  ELSE [row EXCEPT !.state = "cancelling"]
\* Mutant: the immediate cancellation leaves no settlement time.
CancellingUnstamped(row) ==
  [row EXCEPT !.state = IF @ = "admitted" THEN "cancelled" ELSE "cancelling"]
Cancelling(row) ==
  IF row.state = "admitted"
  THEN [row EXCEPT !.state = "cancelled", !.settled = now]
  ELSE [row EXCEPT !.state = "cancelling"]
RequestCancel(a, e) ==
  /\ Record(a, e)
  /\ IsActive(attempts, a)
  /\ Put(a, Cancelling(attempts[a]))
  /\ UNCHANGED denials

\* "reconciling": the caller lost track of the native process.
Disconnect(a, e) ==
  /\ Record(a, e)
  /\ IsActive(attempts, a)
  /\ Put(a, [attempts[a] EXCEPT !.state = "reconciling"])
  /\ UNCHANGED denials

\* Mutant: any receipt proves the launch.
ConfirmableByReceipt(row, outcome) ==
  /\ row.state \in Active
  /\ outcome = "launch_failed" => row.state \in LaunchFailableFrom
  /\ outcome = "completed" => row.receipt # "none"
\* A terminal outcome with the adapter's evidence.
Confirmable(row, outcome) ==
  /\ row.state \in Active
  /\ outcome = "launch_failed" => row.state \in LaunchFailableFrom
  /\ outcome = "completed" => row.receipt # "none" /\ ~row.mismatch
\* Mutant: the denial filed under the quota identity instead of "account".
MisfiledDenial(row) == [id |-> row.quota, at |-> now, context |-> row.context]
AccountDenial(row) == [id |-> "account", at |-> now, context |-> row.context]
Settle(a, e, outcome) ==
  LET row == attempts[a] IN
  /\ Record(a, e)
  /\ Confirmable(row, outcome)
  /\ Put(a, [row EXCEPT !.state = outcome, !.settled = now])
  /\ denials' = IF outcome = "quota_failed"
                THEN [denials EXCEPT ![RefOf(row)] = {AccountDenial(row)}]
                ELSE denials

\* "accepted" and "rejected": a review of a completed attempt.
Review(a, e, verdict) ==
  /\ Record(a, e)
  /\ attempts[a].state = "completed"
  /\ Put(a, [attempts[a] EXCEPT !.state = verdict])
  /\ UNCHANGED denials

Event(a, e) ==
  \/ Prepare(a, e)
  \/ Measure(a, e)
  \/ Claim(a, e)
  \/ \E exact \in BOOLEAN : Start(a, e, exact)
  \/ Produce(a, e)
  \/ RequestCancel(a, e)
  \/ Disconnect(a, e)
  \/ \E outcome \in Outcomes : Settle(a, e, outcome)
  \/ \E verdict \in Verdicts : Review(a, e, verdict)

----------------------------------------------------------------------------
(* Leases, settings and the environment *)

\* renew(): only the holder of the launch key, only while active.
Renew(a) ==
  /\ a \in DOMAIN attempts
  /\ IsActive(attempts, a)
  /\ Put(a, [attempts[a] EXCEPT !.expires = now + Lease])
  /\ UNCHANGED <<tasks, events, denials, admissions, binding, now>>

ReconcileExpired ==
  /\ attempts' = Swept(attempts)
  /\ UNCHANGED <<tasks, events, denials, admissions, binding, now>>

\* Migration enables admissions, rollback disables them.
SetAdmissions(value) ==
  /\ admissions' = value
  /\ UNCHANGED <<attempts, tasks, events, denials, binding, now>>

\* The user signs a provider CLI in to another account.
SwitchAccount(p, c) ==
  /\ binding' = [binding EXCEPT ![p] = c]
  /\ UNCHANGED <<attempts, tasks, events, denials, admissions, now>>

Tick ==
  /\ now < MaxTime
  /\ now' = now + 1
  /\ UNCHANGED <<attempts, tasks, events, denials, admissions, binding>>

Next ==
  \/ \E r \in RequestKeys, i \in Intents, p \in Providers, o \in Observations,
        at \in 0 .. now, load \in Loads, cost \in Costs :
       Admit(r, i, p, o, at, load, cost)
  \/ \E a \in AttemptIds, e \in EventIds : Event(a, e)
  \/ \E a \in AttemptIds : Renew(a)
  \/ ReconcileExpired
  \/ \E value \in {"enabled", "disabled"} : SetAdmissions(value)
  \/ \E p \in Providers, c \in Contexts : SwitchAccount(p, c)
  \/ Tick

Spec == Init /\ [][Next]_vars

----------------------------------------------------------------------------
(* Properties *)

\* Every table holds rows of its type.
TypeOK ==
  /\ attempts \in [DOMAIN attempts -> Row] /\ DOMAIN attempts \subseteq AttemptIds
  /\ tasks \in [DOMAIN tasks -> [spec : STRING, floor : 1..3]]
  /\ DOMAIN tasks \subseteq STRING
  /\ events \subseteq EventIds
  /\ denials \in [Refs -> SUBSET Denial]
  /\ admissions \in {"enabled", "disabled"}
  /\ binding \in [Providers -> Contexts]
  /\ now \in Nat

\* The attempts that can be running on the quota behind a reference: those
\* admitted against it and those whose quota identity nobody confirmed.
Sharing(ref) ==
  {a \in DOMAIN attempts : /\ IsActive(attempts, a)
                           /\ attempts[a].provider = ref[1]
                           /\ attempts[a].quota \in {ref[2], Unattributed}}

\* However admissions, launches, expiries and settlements interleave, no
\* account runs more attempts than its slot limit, counting every attempt that
\* may turn out to run on it (the slot check of admit()).
SlotBound == \A ref \in Refs : Cardinality(Sharing(ref)) <= SlotLimit[ref[1]]

\* A task has at most one attempt that is running, awaits review or was
\* accepted, and never more attempts than its limit: work is not dispatched
\* twice, whatever the callers retry (admit()'s "task already active").
OneLiveAttempt ==
  \A a, b \in DOMAIN attempts :
    /\ attempts[a].intent.task = attempts[b].intent.task
    /\ attempts[a].state \in Blocking /\ attempts[b].state \in Blocking
    => a = b
AttemptLimit ==
  \A a \in DOMAIN attempts :
    Cardinality(OfTask(attempts[a].intent.task)) <= MaxAttempts
TaskExclusive == OneLiveAttempt /\ AttemptLimit

\* All attempts of a task worked on one specification, under capability floors
\* no higher than the one now recorded: a retry never weakens the task.
TaskIdentity ==
  \A a \in DOMAIN attempts :
    LET i == attempts[a].intent IN
    /\ i.task \in DOMAIN tasks
    /\ tasks[i.task].spec = i.spec
    /\ i.floor <= tasks[i.task].floor

\* Work counts as completed, and can be accepted, only if a launch receipt
\* showed exactly the admitted selection and none ever showed another.
ExactCompletion ==
  \A a \in DOMAIN attempts :
    attempts[a].state \in {"completed", "accepted", "rejected"} =>
      attempts[a].receipt = "exact" /\ ~attempts[a].mismatch

\* The settlement stamp and the state agree: exactly the attempts that have
\* stopped carry the time from which snapshots may show their spend.
SettledExactly ==
  \A a \in DOMAIN attempts :
    /\ attempts[a].settled = NotSettled <=> IsActive(attempts, a)
    /\ attempts[a].settled <= now

\* A hold is released by a lifecycle event of its own and by nothing else (a
\* lease running out never frees capacity), and a released hold stays
\* released with its settlement time: capacity is given back exactly once.
ReleasedOnce ==
  [][\A a \in DOMAIN attempts :
       /\ a \in DOMAIN attempts'
       /\ IsActive(attempts, a) /\ ~IsActive(attempts', a) => events' # events
       /\ ~IsActive(attempts, a) =>
            /\ ~IsActive(attempts', a)
            /\ attempts'[a].settled = attempts[a].settled]_vars

\* What docs/MANAGED.md says of a denial nobody's quota identity covers:
\* "changing homes or credentials cannot silently erase it".  The last trace
\* of a context's denial goes only while that context is signed in.
NoSilentErasure ==
  [][\A p \in Providers :
       LET ref == <<p, Unattributed>> IN
       \A d \in denials[ref] :
         (\A left \in denials'[ref] : left.context # d.context)
           => binding[p] = d.context]_vars

============================================================================
