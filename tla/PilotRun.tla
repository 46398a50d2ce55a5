------------------------------- MODULE PilotRun -------------------------------
(***************************************************************************)
(* The durable paired pilot (src/pilot_run.py, pilot_acceptance.py and the  *)
(* usage stop of pilot_execution.py): each task is tried by the baseline    *)
(* and by the candidate policy on one frozen snapshot, a reviewed rejection *)
(* is retried once, and every external effect has a durable marker first.   *)
(*                                                                          *)
(* step() is one process under owner.lock.  It works on a copy of run.json, *)
(* and any exception or kill loses what it had not saved: Crash stands for  *)
(* both.  The check of the frozen bundle, hashes of sources and worktrees   *)
(* and the reports are left out; a mismatch there is an exception as well.  *)
(*                                                                          *)
(* external: the ledger and the native run (ManagedLedger, ManagedRun), by  *)
(* the states and metrics they report; the container engine.                *)
(***************************************************************************)
EXTENDS Integers, Sequences, FiniteSets, SequencesExt, FiniteSetsExt, Functions

CONSTANTS
  Tasks,       \* manifest.pairs, in order
  Order,       \* [tasks -> sequence of the two variants]
  Providers,
  Cases,       \* snapshots: [variants -> provider of the decision or None]
  Limits,      \* [providers -> [attempts, points, tokens]]
  PointsOf,    \* dispatch_cost
  Scopes,      \* budget_scope
  MaxTokens,   \* bound: tokens one native run uses
  MaxCrashes   \* bound: crashes of the coordinator

None == "none"
Unknown == -1  \* metrics without a token count
NoCase == <<>>
Variants == {"baseline", "candidate"}
Keys == Range(Tasks) \X Variants \X {1, 2}   \* request keys, one attempt each
Active == {"admitted", "running", "cancelling"}
Ends == {"completed", "launch_failed", "quota_failed", "runtime_failed"}  \* the last stands for cancelled too

ASSUME PilotAssumption ==
  /\ Tasks \in Seq(Range(Tasks))
  /\ \A t \in Range(Tasks) : Order[t] \in [1 .. 2 -> Variants] /\ Range(Order[t]) = Variants
  /\ Cases \subseteq [Variants -> Providers \cup {None}]
  /\ PointsOf \in [Providers -> Nat]
  /\ Scopes \subseteq {"shared", "per-arm"}
  /\ Limits \in [DOMAIN Limits -> [attempts : Nat \ {0}, points : Nat, tokens : Nat \ {0}]]

VARIABLES
  scope,       \* bundle.budget_scope
  disk,        \* run.json: entries, snapshots, halt
  mem,         \* the copy of the running step
  pc,          \* where it is
  ledger,      \* [Keys -> state, tokens used (metrics) and evidence of the attempt]
  launches,    \* [Keys -> Nat]: calls of backend.launch
  reviews,     \* [Keys -> None or the acceptance record on disk]
  containers,  \* keys whose acceptance container exists
  lost,        \* keys whose creation was not acknowledged: it may come late
  crashes

native == <<ledger, launches>>
acceptance == <<reviews, containers, lost>>
vars == <<scope, disk, mem, pc, native, acceptance, crashes>>

Entry(task, variant, number) ==
  [task |-> task, variant |-> variant, number |-> number, phase |-> "planned",
   provider |-> None, points |-> 0, booked |-> FALSE, noLaunch |-> FALSE,
   case |-> NoCase, outcome |-> None, metrics |-> Unknown]
KeyOf(e) == <<e.task, e.variant, e.number>>
CaseKey(e) == <<e.task, e.number>>
NoReview == [status |-> None, accepted |-> FALSE, cleanup |-> None]
NoAttempt == [state |-> None, metrics |-> Unknown, evidence |-> NoReview]

Init ==
  /\ scope \in Scopes
  /\ disk = [entries |-> <<>>, snapshots |-> <<>>, halt |-> None]
  /\ mem = disk /\ pc = "idle"
  /\ ledger = [k \in Keys |-> NoAttempt]
  /\ launches = [k \in Keys |-> 0]
  /\ reviews = [k \in Keys |-> NoReview]
  /\ containers = {} /\ lost = {}
  /\ crashes = 0

----------------------------------------------------------------------------
(* budget(), budget_reason(), next_entry() *)

\* Mutant: a failed attempt gives its allowance back.
UnlessFailed(e, provider, variant) ==
  e.provider = provider /\ e.booked /\ variant \in {None, e.variant} /\ e.outcome # "runtime_failed"
InBudget(e, provider, variant) ==
  e.provider = provider /\ e.booked /\ variant \in {None, e.variant}
Booked(entries, provider, variant) ==
  {i \in DOMAIN entries : InBudget(entries[i], provider, variant)}
\* Usage is unresolved until the entry is done with a token count.
Unresolved(e) == IF e.phase = "done" THEN ~e.noLaunch /\ e.metrics = Unknown ELSE TRUE
Counted(e) == IF e.phase = "done" /\ e.metrics # Unknown /\ ~e.noLaunch THEN e.metrics ELSE 0
Spent(entries, rows) == SumFunctionOnSet([i \in DOMAIN entries |-> Counted(entries[i])], rows)
PointsIn(entries, rows) == SumFunctionOnSet([i \in DOMAIN entries |-> entries[i].points], rows)
Within(e) == IF scope = "per-arm" THEN e.variant ELSE None
Refuses(entries, provider, points, variant) ==
  LET rows == Booked(entries, provider, variant) IN
  \/ provider \notin DOMAIN Limits
  \/ \E i \in rows : Unresolved(entries[i])
  \/ Cardinality(rows) >= Limits[provider].attempts
  \/ PointsIn(entries, rows) + points > Limits[provider].points
  \/ Spent(entries, rows) >= Limits[provider].tokens

\* The next entry in the order of the manifest; the second number only after a
\* reviewed rejection of the first.
Positions == 1 .. Len(Tasks) * 4
At(n) == LET task == Tasks[((n - 1) \div 4) + 1] IN
  <<task, Order[task][((n - 1) % 2) + 1], IF (n - 1) % 4 < 2 THEN 1 ELSE 2>>
Found(entries, key) == {i \in DOMAIN entries : KeyOf(entries[i]) = key}
Rejected(entries, key) ==
  \E i \in Found(entries, <<key[1], key[2], 1>>) : entries[i].outcome = "rejected"
Due(entries, n) ==
  /\ At(n)[3] = 1 \/ Rejected(entries, At(n))
  /\ \A i \in Found(entries, At(n)) : entries[i].phase # "done"
DueSet(entries) == {n \in Positions : Due(entries, n)}
NextKey(entries) == At(Min(DueSet(entries)))

----------------------------------------------------------------------------
(* step() *)

\* The step's entry: the one that is not done.
Current == CHOOSE i \in DOMAIN mem.entries : mem.entries[i].phase # "done"
E == mem.entries[Current]
Key == KeyOf(E)
Save(state) == mem' = state /\ disk' = state
Change(e) == [mem EXCEPT !.entries[Current] = e]
Halted(state, reason) == [state EXCEPT !.halt = reason]
Stay == UNCHANGED <<scope, native, acceptance, crashes>>

Begin ==
  LET open == DueSet(disk.entries)
      key == NextKey(disk.entries) IN
  /\ pc = "idle" /\ disk.halt = None /\ open # {}
  /\ IF Found(disk.entries, key) # {} THEN mem' = disk /\ UNCHANGED disk
     ELSE Save([disk EXCEPT !.entries = Append(@, Entry(key[1], key[2], key[3]))])
  /\ pc' = "snapshot"
  /\ Stay
\* One observation serves both variants of a task and number.
Taken(e) == CaseKey(e) \in {mem.snapshots[i].key : i \in DOMAIN mem.snapshots}
CaseOf(e) ==
  mem.snapshots[CHOOSE i \in DOMAIN mem.snapshots : mem.snapshots[i].key = CaseKey(e)].case
Snapshot ==
  /\ pc = "snapshot"
  /\ IF Taken(E) THEN UNCHANGED <<mem, disk>>
     ELSE \E case \in Cases :
            Save([mem EXCEPT !.snapshots = Append(@, [key |-> CaseKey(E), case |-> case])])
  /\ pc' = E.phase
  /\ Stay
\* The marker of an admission is also what the budget counts.
Plan ==
  LET provider == CaseOf(E)[E.variant]
      known == [E EXCEPT !.case = CaseOf(E)]
      chosen == [known EXCEPT !.provider = provider, !.points = PointsOf[provider]] IN
  /\ pc = "planned"
  /\ \/ /\ provider = None
        /\ Save(Change([known EXCEPT !.phase = "done", !.outcome = "refused"])) /\ pc' = "idle"
     \/ /\ provider # None /\ Refuses(mem.entries, provider, chosen.points, Within(E))
        /\ Save(Halted(Change(chosen), "budget")) /\ pc' = "idle"
     \/ /\ provider # None /\ ~Refuses(mem.entries, provider, chosen.points, Within(E))
        /\ Save(Change([chosen EXCEPT !.phase = "admitting", !.booked = TRUE]))
        /\ pc' = "admitting"
  /\ Stay
\* backend.admit(): a request that was admitted before is found again.
Admit ==
  /\ pc = "admitting"
  /\ \/ /\ ledger[Key] = NoAttempt
        /\ Save(Change([E EXCEPT !.phase = "done", !.outcome = "refused", !.noLaunch = TRUE]))
        /\ pc' = "idle" /\ UNCHANGED ledger
     \/ /\ ledger' = IF ledger[Key] # NoAttempt THEN ledger
                     ELSE [ledger EXCEPT ![Key].state = "admitted"]
        /\ mem' = Change([E EXCEPT !.phase = "admitted"])
        /\ pc' = "saveAdmitted" /\ UNCHANGED disk
  /\ UNCHANGED <<scope, launches, acceptance, crashes>>
SaveAdmitted ==
  /\ pc = "saveAdmitted" /\ disk' = mem /\ pc' = "admitted"
  /\ UNCHANGED mem /\ Stay
\* Mutant: the marker is written with the outcome of the launch.
DispatchUnmarked ==
  /\ pc = "admitted"
  /\ mem' = Change([E EXCEPT !.phase = "dispatching"]) /\ UNCHANGED disk
  /\ pc' = "launch"
  /\ Stay
\* The marker first, then the launch.
Dispatch ==
  /\ pc = "admitted"
  /\ Save(Change([E EXCEPT !.phase = "dispatching"]))
  /\ pc' = "launch"
  /\ Stay
Launch ==
  /\ pc = "launch"
  /\ launches' = [launches EXCEPT ![Key] = @ + 1]
  /\ ledger' = [ledger EXCEPT ![Key].state = "running", ![Key].metrics = 0]
  /\ pc' = "running"
  /\ UNCHANGED <<scope, disk, mem, acceptance, crashes>>
\* BudgetedAdapter.poll(): the remaining allowance of the provider is reached.
Remaining == Limits[E.provider].tokens
             - Spent(mem.entries, Booked(mem.entries, E.provider, Within(E)))
UsageStop ==
  /\ pc = "running" /\ ledger[Key].state = "running" /\ ledger[Key].metrics >= Remaining
  /\ ledger' = [ledger EXCEPT ![Key].state = "cancelling"]
  /\ UNCHANGED <<scope, disk, mem, pc, launches, acceptance, crashes>>
\* execute() returns, the attempt settled or not.
Returned ==
  /\ pc = "running" /\ pc' = "dispatching"
  /\ UNCHANGED <<disk, mem>> /\ Stay

\* A resumed step only looks at its exact attempt.
Outcome ==
  LET state == ledger[Key].state IN
  /\ pc = "dispatching"
  /\ \/ /\ state \in Active
        /\ Save(Change([E EXCEPT !.outcome = "unresolved"])) /\ pc' = "idle"
     \/ state = "completed" /\ pc' = "review" /\ UNCHANGED <<disk, mem>>
     \/ /\ state \in {"accepted", "rejected"}
        /\ ledger[Key].evidence = reviews[Key]
        /\ (state = "accepted") = reviews[Key].accepted
        /\ pc' = "finish" /\ UNCHANGED <<disk, mem>>
     \/ state \in Ends \ {"completed"} /\ pc' = "finish" /\ UNCHANGED <<disk, mem>>
  /\ Stay

----------------------------------------------------------------------------
(* backend.review() and pilot_acceptance.check() *)

Record(status, accepted, cleanup) == [status |-> status, accepted |-> accepted, cleanup |-> cleanup]
Write(record) == reviews' = [reviews EXCEPT ![Key] = record]
\* An existing record is used; else the contract and the source are checked
\* first, and a container name is on disk before the container exists.
Review ==
  /\ pc = "review"
  /\ \/ reviews[Key] # NoReview /\ pc' = "reviewed" /\ UNCHANGED reviews
     \/ /\ reviews[Key] = NoReview
        /\ Write(Record("rejected", FALSE, "not-created")) /\ pc' = "reviewed"
     \/ /\ reviews[Key] = NoReview
        /\ Write(Record("preparing", FALSE, "pending")) /\ pc' = "create"
  /\ UNCHANGED <<scope, disk, mem, native, containers, lost, crashes>>
\* Creation may fail, or its acknowledgement be lost: then the container is
\* there, or not yet.
Create ==
  /\ pc = "create"
  /\ \/ containers' = containers \cup {Key} /\ Write([reviews[Key] EXCEPT !.status = "running"])
        /\ pc' = "candidate" /\ UNCHANGED lost
     \/ /\ \/ containers' \in {containers, containers \cup {Key}} /\ UNCHANGED lost
           \/ lost' = lost \cup {Key} /\ UNCHANGED containers
        /\ pc' = "error" /\ UNCHANGED reviews
  /\ UNCHANGED <<scope, disk, mem, native, crashes>>
\* The candidate's results, or no results: in both cases the container goes,
\* or the record says that it could not be removed.
Verdicts == IF pc = "error" THEN {Record("error", FALSE, "removed")}
            ELSE {Record("error", FALSE, "removed"), Record("checked", FALSE, "removed"),
                  Record("checked", TRUE, "removed")}
Removes == containers' = containers \ {Key} /\ lost' = lost \ ({Key} \cap containers)
Removed(records) ==
  /\ Removes \/ UNCHANGED <<containers, lost>>
  /\ \/ Key \notin containers' /\ \E record \in records : Write(record)
     \/ Write(Record("unresolved", FALSE, "unresolved"))
CleanUp ==
  /\ pc \in {"candidate", "error"}
  /\ Removed(Verdicts)
  /\ pc' = "reviewed"
  /\ UNCHANGED <<scope, disk, mem, native, crashes>>
\* An exception that check() does not catch ends the step: the container goes
\* all the same, and the record keeps the status it had.
Uncaught ==
  /\ pc \in {"candidate", "error"} /\ crashes < MaxCrashes
  /\ Removed({[reviews[Key] EXCEPT !.cleanup = "removed"]})
  /\ crashes' = crashes + 1 /\ pc' = "idle" /\ mem' = disk
  /\ UNCHANGED <<scope, disk, native>>

\* Mutant: a container that may still be there does not matter.
CleanedUpAnyhow(record) == record.status # None
CleanedUp(record) == record.cleanup \in {"removed", "not-created"}
Accepts(record) == record.accepted /\ record.status = "checked"
\* The evidence goes to the ledger, then the entry is done.
RecordReview ==
  /\ pc = "reviewed"
  /\ \/ /\ ~CleanedUp(reviews[Key])
        /\ Save(Halted(mem, "cleanup")) /\ pc' = "idle" /\ UNCHANGED ledger
     \/ /\ CleanedUp(reviews[Key])
        /\ ledger' = [ledger EXCEPT ![Key].evidence = reviews[Key],
             ![Key].state = IF Accepts(reviews[Key]) THEN "accepted" ELSE "rejected"]
        /\ pc' = "finish" /\ UNCHANGED <<disk, mem>>
  /\ UNCHANGED <<scope, launches, acceptance, crashes>>
Finish ==
  LET attempt == ledger[Key]
      done == [E EXCEPT !.phase = "done", !.outcome = attempt.state, !.metrics = attempt.metrics,
                        !.noLaunch = attempt.state = "launch_failed"]
      state == Change(done)
      rows == Booked(state.entries, E.provider, Within(E))
      over == Spent(state.entries, rows) >= Limits[E.provider].tokens
  IN /\ pc = "finish"
     \* attempt.launch_mismatch: a completed attempt has none
     /\ \E mismatch \in IF attempt.state \in Ends THEN BOOLEAN ELSE {FALSE} :
        Save(IF attempt.state = "quota_failed" \/ mismatch THEN Halted(state, "safety")
             ELSE IF over THEN Halted(state, "tokens")
             ELSE IF \E i \in rows : Unresolved(state.entries[i]) THEN Halted(state, "usage")
             ELSE state)
     /\ pc' = "idle"
     /\ Stay

----------------------------------------------------------------------------
(* external: the native run, the engine and the end of the process *)

Uses(k) ==
  /\ ledger[k].state \in {"running", "cancelling"} /\ ledger[k].metrics < MaxTokens
  /\ ledger' = [ledger EXCEPT ![k].metrics = @ + 1]
  /\ UNCHANGED <<scope, disk, mem, pc, launches, acceptance, crashes>>
\* While the owner runs, or found by the reconciliation of a later step.
Settles(k) ==
  /\ ledger[k].state \in {"running", "cancelling"} /\ pc \in {"running", "dispatching"}
  /\ \E state \in Ends, metrics \in {ledger[k].metrics, Unknown} :
       /\ state = "launch_failed" => ledger[k].metrics = 0
       /\ ledger' = [ledger EXCEPT ![k].state = state, ![k].metrics = metrics]
  /\ UNCHANGED <<scope, disk, mem, pc, launches, acceptance, crashes>>
Crash ==
  /\ pc # "idle" /\ crashes < MaxCrashes
  /\ crashes' = crashes + 1 /\ pc' = "idle" /\ mem' = disk
  \* a kill may come between the removal of the container and its record
  /\ \/ UNCHANGED <<containers, lost>>
     \/ pc \in {"candidate", "error"} /\ Removes
  /\ UNCHANGED <<scope, disk, native, reviews>>
\* The engine carries out a creation nobody waits for any more.
LateCreate(k) ==
  /\ k \in lost \ containers
  /\ containers' = containers \cup {k}
  /\ UNCHANGED <<scope, disk, mem, pc, native, reviews, lost, crashes>>

Next ==
  \/ Begin \/ Snapshot \/ Plan \/ Admit \/ SaveAdmitted \/ Dispatch \/ Launch
  \/ UsageStop \/ Returned \/ Outcome \/ Review \/ Create \/ CleanUp \/ Uncaught \/ RecordReview
  \/ Finish
  \/ \E k \in Keys : Uses(k) \/ Settles(k) \/ LateCreate(k)
  \/ Crash
Spec == Init /\ [][Next]_vars

----------------------------------------------------------------------------
(* Properties *)

\* A native attempt is launched at most once, whatever is killed and resumed,
\* and never before run.json says so and the ledger has admitted it (step's
\* durable markers; a resumed dispatching entry never launches again).
LaunchedOnce ==
  \A k \in Keys : launches[k] > 0 =>
    /\ launches[k] = 1
    /\ ledger[k].state # None
    /\ \E i \in Found(disk.entries, k) : disk.entries[i].phase \in {"dispatching", "done"}

\* What was really launched stays within the declared ceilings of each budget,
\* and nothing new is launched in a budget while earlier usage is unresolved
\* or has reached the token threshold, across crashes between the booking, the
\* admission and the launch (budget and budget_reason).
LaunchedIn(p, variant) ==
  {i \in DOMAIN disk.entries : /\ disk.entries[i].provider = p
                              /\ variant \in {None, disk.entries[i].variant}
                              /\ launches[KeyOf(disk.entries[i])] > 0}
Budgets == IF scope = "per-arm" THEN Variants ELSE {None}
CeilingsHold ==
  \A p \in Providers, v \in Budgets :
    \A rows \in {LaunchedIn(p, v)} \ {{}} :
      LET earlier == rows \ {Max(rows)}
          attempt(i) == ledger[KeyOf(disk.entries[i])] IN
      /\ p \in DOMAIN Limits
      /\ Cardinality(rows) <= Limits[p].attempts
      /\ PointsIn(disk.entries, rows) <= Limits[p].points
      /\ \A i \in earlier : /\ attempt(i).state \notin Active
                            /\ attempt(i).metrics # Unknown \/ attempt(i).state = "launch_failed"
      /\ SumFunctionOnSet([i \in earlier |-> Max({0, attempt(i).metrics})], earlier)
           < Limits[p].tokens

\* What is compared is comparable: both arms decide on one observation; an
\* accepted entry rests on a check of its own in a container that is gone; a
\* retry follows a rejection by such a review and nothing else (of a rejected
\* entry a container can be left, if its creation came after the clean-up); and
\* run.json never says other than the ledger (snapshots, check, record_review).
FairComparison ==
  /\ \A i, j \in DOMAIN disk.entries :
       LET e == disk.entries[i]
           f == disk.entries[j] IN
       CaseKey(e) = CaseKey(f) /\ e.case # NoCase /\ f.case # NoCase => e.case = f.case
  /\ \A i \in DOMAIN disk.entries :
       LET e == disk.entries[i]
           k == KeyOf(e) IN
       /\ e.outcome \in {"accepted", "rejected"} =>
            /\ ledger[k].state = e.outcome /\ ledger[k].evidence = reviews[k]
            /\ (e.outcome = "accepted") = (reviews[k] = Record("checked", TRUE, "removed"))
            /\ CleanedUp(reviews[k])
            /\ k \in containers => e.outcome = "rejected" /\ k \in lost
       /\ e.number = 2 => \E j \in Found(disk.entries, <<e.task, e.variant, 1>>) :
                            disk.entries[j].outcome = "rejected"
=============================================================================
