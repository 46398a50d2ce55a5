----------------------------- MODULE LegacyHolds -----------------------------
(***************************************************************************)
(* Coordinators that share state.json without a service between them        *)
(* (src/rightsize.py): route, rerun and plan read quota, decide and hold    *)
(* capacity; a launch is receipted; finished work gives its hold back.      *)
(*                                                                          *)
(* Every command is a process of its own, so each read of the file and each *)
(* section under state_lock() is a step.  What a step reads outside the     *)
(* lock may be stale when the next one uses it.                             *)
(*                                                                          *)
(* external: the providers' answers, the signed-in accounts, the managed    *)
(* attempts (ManagedLedger) and Orca, which knows workers and tasks.        *)
(***************************************************************************)
EXTENDS RoutingPolicy

CONSTANTS
  Coords, Accounts, Briefs, Dispatches,
  Worlds,          \* initial situations, records of Init below
  ProbesOf,        \* [Providers -> set of answers a provider may change to]
  LoginsOf,        \* [Providers -> set of accounts that may be signed in to]
  CacheSeconds, UnconfirmedTTL, ConfirmedTTL, Cooldown,
  Repeat,          \* log_decision takes a repeat within this time for the same
  LogWindow,       \* ... among this many entries
  KeepDecisions,   \* entries of the decision log that are kept
  MaxWaves,
  MaxReceipts,     \* bound: copies of one launch receipt
  MaxTime

Unattributed == "unattributed"
NoId == 0          \* no hold, no dispatch
FirstSerial == 10  \* of the holds that are taken from now on

\* What a provider can answer a probe.
Buckets == [percent : Nat \cup {Missing}, resets : Int, source : STRING, raw : STRING]
IsAnswer(answer) ==
  \E ids \in SUBSET DOMAIN WindowOf :
    answer \in [status : STRING, free : BOOLEAN, unmetered : BOOLEAN, buckets : [ids -> Buckets]]
\* accounts.select(): the account context that is selected, and what its
\* fingerprint tells apart, one credential there from the next.
Credentials == [account : Accounts, stamp : Nat]
\* A command line; route and rerun are about one task, plan about a batch.
Tasks == [brief : Briefs, judgment : Judgment]
Asks == {ask \in [cmd : {"none", "settle", "route", "rerun", "plan"}, tasks : Seq(Tasks),
                  fresh : BOOLEAN, hold : BOOLEAN, tried : SUBSET Candidates,
                  exception : {None} \cup Exception] :
           ask.cmd \in {"route", "rerun"} => ask.tasks # <<>>}
\* A hold of capacity, from its receipt on for a dispatch.
IsHold(h) ==
  /\ DOMAIN h = {"id", "provider", "points", "brief", "worktree", "dispatch", "expires",
                 "migrated", "by"}
  /\ h.id \in Nat
\* No two holds have an id or a dispatch in common.
Distinct(holds) ==
  \A h, k \in holds : h.id = k.id \/ (h.dispatch = k.dispatch /\ h.dispatch # NoId) => h = k
IsWorld(world) ==
  /\ \A read \in world.readings :
       /\ read = [p \in Providers |-> [a \in Accounts |-> read[p][a]]]
       /\ \A p \in Providers, a \in Accounts : IsAnswer(read[p][a])
  /\ world.login \in [Providers -> Accounts] /\ world.managed \in [Providers -> Nat]
  /\ IsFiniteSet(world.holds) /\ Distinct(world.holds)
  /\ \A h \in world.holds : IsHold(h) /\ h.id < FirstSerial
  /\ \A d \in world.denials : d.scope[1] \in Providers
  /\ \A s \in world.snapshots : s.percent \in Nat
  /\ world.asks \subseteq [Coords -> Asks]
  /\ DOMAIN world.workers = Dispatches

ASSUME LegacyAssumption ==
  /\ NoId \notin Dispatches
  /\ IsFiniteSet(DOMAIN WindowOf) /\ "account" \notin DOMAIN WindowOf
  /\ \A world \in Worlds : IsWorld(world)
  /\ \A p \in Providers : \A answer \in ProbesOf[p] : IsAnswer(answer)
  /\ LoginsOf \in [Providers -> SUBSET Accounts]

VARIABLES
  now,
  reading,   \* [Providers -> [Accounts -> Probe]]: what a provider answers
  login,     \* [Providers -> Credentials]
  managed,   \* [Providers -> Nat]: active managed attempts
  file,      \* state.json
  coord,     \* [Coords -> Command]
  workers,   \* Orca: [Dispatches -> None or a worker]
  finished,  \* Orca: briefs whose task is settled
  receipts,  \* [Dispatches -> Nat]: receipts sent
  spare      \* bound: what may still happen around the commands

outside == <<reading, login, managed>>
orca == <<workers, finished>>
vars == <<now, outside, file, coord, orca, receipts, spare>>

Scope(p, account) == <<p, account>>
Legacy(p) == Scope(p, Unattributed)

Live(h) == h.migrated \/ h.expires > now
Swept(holds) == {h \in holds : Live(h)}
Of(holds, p) == {h \in holds : h.provider = p}
Oldest(holds) == CHOOSE h \in holds : \A k \in holds : h.id <= k.id
Points(holds) == FoldSet(LAMBDA h, sum : h.points + sum, 0, holds)
Goto(c, pc) == coord' = [coord EXCEPT ![c].pc = pc]
Around(kind) == spare[kind] > 0 /\ spare' = [spare EXCEPT ![kind] = @ - 1]

----------------------------------------------------------------------------
Init ==
  \E world \in Worlds :
    /\ now = 0
    /\ reading \in world.readings
    /\ login = [p \in Providers |-> [account |-> world.login[p], stamp |-> 0]]
    /\ managed = world.managed
    /\ file = [holds |-> world.holds, serial |-> FirstSerial, decisions |-> <<>>,
               denials |-> world.denials, exhausted |-> [p \in Providers |-> 0],
               snapshots |-> world.snapshots, cache |-> None]
    /\ coord \in {[c \in Coords |-> [pc |-> "start", ask |-> a[c]]] : a \in world.asks}
    /\ workers = world.workers
    /\ finished = world.finished
    /\ receipts = [d \in Dispatches |-> 0]
    /\ spare = world.spare

----------------------------------------------------------------------------
(* probes_cached() and probe_all() *)

Deciding(c) == coord[c].pc = "start" /\ coord[c].ask.cmd \in {"route", "rerun", "plan"}

\* The cached reading, if it is young and of the credentials in use now.
Cached(ask) ==
  /\ ask.cmd # "plan" /\ ~ask.fresh /\ file.cache # None
  /\ now - file.cache.at < CacheSeconds
  /\ file.cache.accounts = login
ReadCache(c) ==
  /\ Deciding(c)
  /\ coord' = [coord EXCEPT ![c] =
       IF Cached(@.ask)
       THEN [pc |-> "baseline", ask |-> @.ask, probes |-> file.cache.probes, fresh |-> FALSE]
       ELSE [pc |-> "bind", ask |-> @.ask, identity |-> login, fresh |-> TRUE]]
  /\ UNCHANGED <<now, outside, file, orca, receipts, spare>>

\* bound_probe(): the credential is read, then the quota of whoever is signed in
\* by then, then the credential again.  "by" is what only the provider knows:
\* who it answered.
Bind(c) ==
  /\ coord[c].pc = "bind"
  /\ coord' = [coord EXCEPT ![c] = [pc |-> "fetch", ask |-> @.ask, identity |-> @.identity,
                                    fresh |-> @.fresh, bound |-> login]]
  /\ UNCHANGED <<now, outside, file, orca, receipts, spare>>
Fetch(c) ==
  /\ coord[c].pc = "fetch"
  /\ coord' = [coord EXCEPT ![c] =
       [pc |-> "confirm", ask |-> @.ask, identity |-> @.identity, fresh |-> @.fresh,
        bound |-> @.bound, answers |-> [p \in Providers |->
          [said |-> reading[p][login[p].account], by |-> login[p]]]]]
  /\ UNCHANGED <<now, outside, file, orca, receipts, spare>>
\* Mutant: the context is compared, not the credential.
ContextConfirmed(p, bound) == login[p].account = bound.account
Confirmed(p, bound) == login[p] = bound
Probe(p, answer, bound) ==
  LET said == IF Confirmed(p, bound) THEN answer.said
              ELSE [status |-> "account-changed", buckets |-> <<>>, free |-> FALSE,
                    unmetered |-> FALSE]
  IN [status |-> said.status, buckets |-> said.buckets, free |-> said.free,
      unmetered |-> said.unmetered, account |-> bound.account, bound |-> bound,
      by |-> answer.by]
Confirm(c) ==
  /\ coord[c].pc = "confirm"
  /\ coord' = [coord EXCEPT ![c] =
       [pc |-> "save", ask |-> @.ask, identity |-> @.identity, fresh |-> TRUE,
        probes |-> [p \in Providers |-> Probe(p, coord[c].answers[p], coord[c].bound[p])]]]
  /\ UNCHANGED <<now, outside, file, orca, receipts, spare>>
SaveCache(c) ==
  /\ coord[c].pc = "save"
  /\ file' = [file EXCEPT !.cache = [at |-> now, probes |-> coord[c].probes,
                                     accounts |-> coord[c].identity]]
  /\ coord' = [coord EXCEPT ![c] = [pc |-> "baseline", ask |-> @.ask, probes |-> @.probes,
                                    fresh |-> TRUE]]
  /\ UNCHANGED <<now, outside, orca, receipts, spare>>

----------------------------------------------------------------------------
(* eligibility() *)

\* record_snapshot(): the previous reading is read, then the new one written.
ReadBaseline(c) ==
  /\ coord[c].pc = "baseline"
  /\ coord' = [coord EXCEPT ![c] =
       [pc |-> IF @.fresh THEN "snapshot" ELSE "deny", ask |-> @.ask, probes |-> @.probes,
        fresh |-> @.fresh, before |-> file.snapshots]]
  /\ UNCHANGED <<now, outside, file, orca, receipts, spare>>
Known(probes) ==
  UNION {{<<p, b>> : b \in {i \in DOMAIN probes[p].buckets :
                              probes[p].buckets[i].percent # Missing}} : p \in Providers}
SaveSnapshot(c) ==
  /\ coord[c].pc = "snapshot"
  /\ file' = [file EXCEPT !.snapshots =
       {[scope |-> Scope(k[1], coord[c].probes[k[1]].account), bucket |-> k[2], at |-> now,
         percent |-> coord[c].probes[k[1]].buckets[k[2]].percent] : k \in Known(coord[c].probes)}]
  /\ Goto(c, "deny")
  /\ UNCHANGED <<now, outside, orca, receipts, spare>>

\* Mutant: any percentage lifts a denial, a computed one too.
HealthyAnySource(bucket) == bucket.percent # Missing /\ ~Denies(bucket)
\* A reading that can lift a denial: live, measured and not itself a refusal.
Healthy(bucket) ==
  bucket.source = "live" /\ bucket.percent # Missing /\ ~Denies(bucket)
Lifted(probe) ==
  {b \in DOMAIN probe.buckets : Healthy(probe.buckets[b]) /\ probe.buckets[b].raw = "ok"}
  \cup IF /\ probe.status = "ok" /\ DOMAIN probe.buckets # {}
          /\ \A b \in DOMAIN probe.buckets : Healthy(probe.buckets[b])
       THEN {"account"} ELSE {}
Refused(probe) ==
  DeniedBuckets(probe) \cup IF probe.status = "denied" THEN {"account"} ELSE {}
ResetOf(probe, b) == IF b = "account" THEN Missing ELSE probe.buckets[b].resets
Recorded(denials, p, probe) ==
  LET scope == Scope(p, probe.account) IN
  {d \in denials : d.scope # scope \/ d.id \notin Lifted(probe) \cup Refused(probe)}
  \cup {[scope |-> scope, id |-> b, resets |-> ResetOf(probe, b)] : b \in Refused(probe)}
\* A failed refresh must not turn a known denial back into capacity.
Deny(c) ==
  LET probes == coord[c].probes
      merged == UNION {{d \in Recorded(file.denials, p, probes[p]) : d.scope[1] = p} : p \in Providers}
      denials == IF coord[c].fresh THEN merged ELSE file.denials
  IN /\ coord[c].pc = "deny"
     /\ file' = [file EXCEPT !.denials = denials]
     /\ coord' = [coord EXCEPT ![c] =
          [pc |-> "look", ask |-> @.ask, probes |-> @.probes, fresh |-> @.fresh,
           before |-> @.before, denied |-> denials]]
     /\ UNCHANGED <<now, outside, orca, receipts, spare>>

\* reservation_load(): legacy holds and managed attempts alike.
Load(p) ==
  LET holds == Of(Swept(file.holds), p) IN
  [points |-> Points(holds) + managed[p], slots |-> Cardinality(holds) + managed[p]]
Before(c, p) ==
  LET scope == Scope(p, coord[c].probes[p].account) IN
  [b \in DOMAIN coord[c].probes[p].buckets |->
     LET known == {s \in coord[c].before : s.scope = scope /\ s.bucket = b} IN
     IF known = {} THEN None ELSE CHOOSE s \in known : TRUE]
DeniedOf(c, p) ==
  {d \in coord[c].denied : d.scope \in {Scope(p, coord[c].probes[p].account), Legacy(p)}}
Elig(c) ==
  [p \in Providers |->
     Eligibility(p, coord[c].probes[p], Before(c, p), DeniedOf(c, p), file.exhausted[p],
                 Load(p), now)]

----------------------------------------------------------------------------
(* route(), rerun() *)

Made(task, decision, hold) == [task |-> task, decision |-> decision, hold |-> hold]
Choose(ask, task, elig) ==
  Decide(task.judgment, elig, ask.cmd # "plan",
         IF ask.cmd = "rerun" THEN RetryFloor(ask.tried) ELSE 0, ask.tried, ask.exception, now)
Dispatchable(decision) == decision.pick # None /\ decision.blocked = "none"
Decided(ask, made) == [pc |-> "decided", ask |-> ask, made |-> made]

\* One recommendation; plan's are placed one by one below.
Start(ask, elig) ==
  IF ask.cmd = "plan"
  THEN [pc |-> "place", ask |-> ask, elig |-> elig, todo |-> ask.tasks, waiting |-> <<>>,
        wave |-> 1, placed |-> FALSE, made |-> <<>>, unlogged |-> <<>>, points |-> 0]
  ELSE [pc |-> IF ask.hold THEN "hold" ELSE "log", ask |-> ask, elig |-> elig,
        made |-> <<Made(Head(ask.tasks), Choose(ask, Head(ask.tasks), elig), NoId)>>]
Look(c) ==
  /\ coord[c].pc = "look"
  /\ coord' = [coord EXCEPT ![c] = Start(@.ask, Elig(c))]
  /\ UNCHANGED <<now, outside, file, orca, receipts, spare>>

\* Mutant: The slots are only counted when the quota is looked at.
RefusesManaged(p, limit) == managed[p] > 0
\* reserve(), under the lock.  A limit of -1 is none.
Fresh(p, points, task, worktree, ttl, by) ==
  [id |-> file.serial, provider |-> p, points |-> points, brief |-> task.brief,
   worktree |-> worktree, dispatch |-> NoId, expires |-> now + ttl, migrated |-> FALSE, by |-> by]
Refuses(p, limit) ==
  \/ managed[p] > 0
  \/ limit # -1 /\ Cardinality(Of(Swept(file.holds), p)) >= limit
Reserve(hold, limit) ==
  file' = IF Refuses(hold.provider, limit) THEN file
          ELSE [file EXCEPT !.holds = Swept(@) \cup {hold}, !.serial = @ + 1]

\* hold_capacity(); without a slot, route() asks again with that provider full.
HoldFor(made) ==
  LET p == made.decision.pick.provider IN
  Fresh(p, DispatchCost(made.decision.pick, made.decision.band, now), made.task,
        made.task.brief, ConfirmedTTL, "route")
WithoutSlot(elig, p) == [elig EXCEPT ![p].eligible = FALSE]
Hold(c) ==
  LET made == coord[c].made[1]
      p == made.decision.pick.provider
      taken == Dispatchable(made.decision) /\ ~Refuses(p, SlotLimit[p])
      elig == WithoutSlot(coord[c].elig, p)
      again == Made(made.task, Choose(coord[c].ask, made.task, elig), NoId)
      second == coord[c].pc = "again"
  IN /\ coord[c].pc \in {"hold", "again"}
     /\ IF Dispatchable(made.decision) THEN Reserve(HoldFor(made), SlotLimit[p])
        ELSE UNCHANGED file
     /\ coord' = [coord EXCEPT ![c] =
          IF taken
          THEN [@ EXCEPT !.pc = "log", !.made[1].hold = file.serial]
          ELSE IF second \/ made.decision.pick = None THEN [@ EXCEPT !.pc = "log"]
          ELSE [@ EXCEPT !.pc = "again", !.elig = elig, !.made[1] = again]]
     /\ UNCHANGED <<now, outside, orca, receipts, spare>>

\* log_decision(): a repeat within two minutes only learns that it was sent.
\* A brief stands for its text; a receipt's entry has no judgment.
Repeats(entry, made) ==
  /\ entry.at > now - Repeat
  /\ entry.brief = made.task.brief /\ entry.pick.model = made.decision.pick.model
  /\ entry.source = made.task.judgment.source
LastN(entries, n) == SubSeq(entries, Max({1, Len(entries) - n + 1}), Len(entries))
Logged(entries, made, sent) ==
  LET recent == {i \in Max({1, Len(entries) - LogWindow + 1}) .. Len(entries) :
                   Repeats(entries[i], made)}
  IN IF made.decision.pick = None THEN entries
     ELSE IF recent # {} THEN [entries EXCEPT ![Max(recent)].sent = @ \/ sent]
     ELSE LastN(Append(entries, [dispatch |-> NoId, hold |-> NoId, at |-> now, sent |-> sent,
                                 brief |-> made.task.brief, pick |-> made.decision.pick,
                                 source |-> made.task.judgment.source]),
                KeepDecisions)
Log(c) ==
  /\ coord[c].pc = "log"
  /\ file' = [file EXCEPT !.decisions = Logged(@, coord[c].made[1], coord[c].ask.hold)]
  /\ coord' = [coord EXCEPT ![c] = Decided(@.ask, @.made)]
  /\ UNCHANGED <<now, outside, orca, receipts, spare>>

----------------------------------------------------------------------------
(* plan() *)

\* One task against the headroom the earlier ones have left; a review leg is a
\* second dispatch and costs like one.
PlaceAs(c, task, d) ==
  LET rest == [coord[c] EXCEPT !.todo = Tail(@)]
      made == Made(task, d, NoId)
      cost == DispatchCost(d.pick, d.band, now)
      worked == Debit(coord[c].elig, d.pick.provider, cost, now)
      reviewCost == DispatchCost(d.review, d.floor, now)
      reviewed == Debit(worked, d.review.provider, reviewCost, now)
      placed == [rest EXCEPT !.placed = TRUE, !.made = Append(@, made),
                             !.pc = IF coord[c].ask.hold THEN "book" ELSE "place"]
  IN \/ /\ d.blocked # "none"
        /\ coord' = [coord EXCEPT ![c] = [rest EXCEPT !.unlogged = Append(rest.unlogged, made)]]
        /\ UNCHANGED file
     \/ /\ d.blocked = "none" /\ d.pick = None
        /\ coord' = [coord EXCEPT ![c] = [rest EXCEPT !.waiting = Append(rest.waiting, task)]]
        /\ UNCHANGED file
     \/ /\ Dispatchable(d)
        /\ file' = [file EXCEPT !.decisions = Logged(@, made, coord[c].ask.hold)]
        /\ coord' = [coord EXCEPT ![c] =
             IF d.review = None THEN [placed EXCEPT !.elig = worked, !.points = cost]
             ELSE [placed EXCEPT !.elig = reviewed, !.points = cost + reviewCost]]
Place(c) ==
  /\ coord[c].pc = "place" /\ coord[c].todo # <<>>
  /\ LET task == Head(coord[c].todo) IN
     PlaceAs(c, task, Choose(coord[c].ask, task, coord[c].elig))
  /\ UNCHANGED <<now, outside, orca, receipts, spare>>
\* Booked without a limit, on the short clock.
Book(c) ==
  LET last == Len(coord[c].made)
      made == coord[c].made[last]
      p == made.decision.pick.provider
  IN /\ coord[c].pc = "book"
     /\ Reserve(Fresh(p, coord[c].points, made.task, made.task.brief, UnconfirmedTTL, "plan"), -1)
     /\ coord' = [coord EXCEPT ![c] =
          [@ EXCEPT !.pc = "place",
                    !.made[last].hold = IF Refuses(p, -1) THEN NoId ELSE file.serial]]
     /\ UNCHANGED <<now, outside, orca, receipts, spare>>
\* The next wave, unless nothing was placed and no slot is left to come back.
More(c) ==
  /\ coord[c].waiting # <<>> /\ coord[c].wave < MaxWaves
  /\ coord[c].placed \/ \E p \in Providers : coord[c].elig[p].inflight > 0
Wave(c) ==
  /\ coord[c].pc = "place" /\ coord[c].todo = <<>>
  /\ coord' = [coord EXCEPT ![c] =
       IF More(c)
       THEN [@ EXCEPT !.elig = StartWave(coord[c].elig), !.todo = coord[c].waiting,
                      !.waiting = <<>>, !.wave = coord[c].wave + 1, !.placed = FALSE]
       ELSE [@ EXCEPT !.pc = "flush"]]
  /\ UNCHANGED <<now, outside, file, orca, receipts, spare>>
\* What was not placed is logged at the end.
Flush(c) ==
  LET left == coord[c].unlogged IN
  /\ coord[c].pc = "flush"
  /\ IF left = <<>>
     THEN coord' = [coord EXCEPT ![c] = Decided(@.ask, @.made)] /\ UNCHANGED file
     ELSE /\ file' = [file EXCEPT !.decisions = Logged(@, Head(left), FALSE)]
          /\ coord' = [coord EXCEPT ![c].unlogged = Tail(@)]
  /\ UNCHANGED <<now, outside, orca, receipts, spare>>

----------------------------------------------------------------------------
(* Launches and their receipts *)

\* The caller starts a worker for a decision, in the suggested worktree or not.
Launch(c, i, d, worktree) ==
  LET made == coord[c].made[i] IN
  /\ coord[c].pc = "decided"
  /\ i \in DOMAIN coord[c].made /\ Dispatchable(made.decision)
  /\ workers[d] = None /\ \A e \in Dispatches : e < d => workers[e] # None
  /\ Around("launch")
  /\ workers' = [workers EXCEPT ![d] =
       [state |-> "running", brief |-> made.task.brief, pick |-> made.decision.pick,
        worktree |-> worktree]]
  /\ UNCHANGED <<now, outside, file, coord, finished, receipts>>

BandOf(pick) ==
  LET listed == {b \in 1 .. 3 : pick \in Range(Bands[b])} IN
  IF listed = {} THEN 3 ELSE Max(listed)
Matching(holds, w) ==
  {h \in holds : /\ h.dispatch = NoId /\ h.provider = w.pick.provider
                 /\ h.brief = w.brief /\ h.worktree = w.worktree}
\* A receipt that was booked before, in the log or by its hold.
Logs(d) == \E i \in DOMAIN file.decisions : file.decisions[i].dispatch = d
Holds(d) == \E h \in Swept(file.holds) : h.dispatch = d
Booked(d) == Logs(d) \/ Holds(d)
\* record_launch(), whoever sends the receipt and however often.
Receipt(d) ==
  LET w == workers[d]
      holds == Swept(file.holds)
      cost == StandardCost(w.pick, BandOf(w.pick))
      free == Matching(holds, w)
      held == IF free = {}
              THEN Fresh(w.pick.provider, cost, [brief |-> w.brief], w.worktree, ConfirmedTTL, "launch")
              ELSE Oldest(free)
      bound == [held EXCEPT !.points = cost, !.dispatch = d, !.expires = now + ConfirmedTTL]
      entry == [dispatch |-> d, hold |-> held.id, at |-> now, sent |-> TRUE,
                brief |-> w.brief, pick |-> w.pick, source |-> "none"]
  IN /\ w # None /\ receipts[d] < MaxReceipts
     /\ receipts' = [receipts EXCEPT ![d] = @ + 1]
     /\ file' = IF Booked(d) THEN file
                ELSE [file EXCEPT !.holds = (holds \ {held}) \cup {bound},
                                  !.serial = @ + 1,
                                  !.decisions = LastN(Append(@, entry), KeepDecisions)]
     /\ UNCHANGED <<now, outside, coord, orca, spare>>

WorkerEnds(d) ==
  /\ workers[d] # None /\ workers[d].state = "running"
  /\ workers' = [workers EXCEPT ![d].state = "settled"]
  /\ UNCHANGED <<now, outside, file, coord, finished, receipts, spare>>
TaskEnds(b) ==
  /\ b \notin finished
  /\ \E d \in Dispatches : workers[d] # None /\ workers[d].brief = b /\ workers[d].state = "settled"
  /\ finished' = finished \cup {b}
  /\ UNCHANGED <<now, outside, file, coord, workers, receipts, spare>>

----------------------------------------------------------------------------
(* report --from-orca: release_settled() *)

AskWorkers(c) ==
  /\ coord[c].pc = "start" /\ coord[c].ask.cmd = "settle"
  /\ coord' = [coord EXCEPT ![c] =
       [pc |-> "tasks", ask |-> @.ask,
        settled |-> {d \in Dispatches : workers[d] # None /\ workers[d].state = "settled"}]]
  /\ UNCHANGED <<now, outside, file, orca, receipts, spare>>
AskTasks(c) ==
  /\ coord[c].pc = "tasks"
  /\ coord' = [coord EXCEPT ![c] = [pc |-> "survey", ask |-> @.ask, settled |-> @.settled,
                                    briefs |-> finished]]
  /\ UNCHANGED <<now, outside, file, orca, receipts, spare>>
\* Mutant: A brief that is finished frees whatever is held for it.
SettledByBrief(h, c) == ~h.migrated /\ h.brief \in coord[c].briefs
Settled(h, c) ==
  /\ ~h.migrated
  /\ IF h.dispatch # NoId THEN h.dispatch \in coord[c].settled ELSE h.brief \in coord[c].briefs
Survey(c) ==
  /\ coord[c].pc = "survey"
  /\ coord' = [coord EXCEPT ![c] = [pc |-> "release", ask |-> @.ask,
                                    queue |-> {h \in Swept(file.holds) : Settled(h, c)}]]
  /\ UNCHANGED <<now, outside, file, orca, receipts, spare>>
\* release(): the oldest of the provider's holds that match.
Released(mine) ==
  [file EXCEPT !.holds = Swept(@) \ IF mine = {} THEN {} ELSE {Oldest(mine)}]
ReleaseNext(c) ==
  LET h == Oldest(coord[c].queue)
      mine == {k \in Swept(file.holds) : k.id = h.id /\ k.provider = h.provider}
  IN /\ coord[c].pc = "release" /\ coord[c].queue # {}
     /\ file' = Released(mine)
     /\ coord' = [coord EXCEPT ![c].queue = @ \ {h}]
     /\ UNCHANGED <<now, outside, orca, receipts, spare>>
Finish(c) ==
  /\ coord[c].pc = "release" /\ coord[c].queue = {}
  /\ coord' = [coord EXCEPT ![c] = Decided(@.ask, <<>>)]
  /\ UNCHANGED <<now, outside, file, orca, receipts, spare>>

----------------------------------------------------------------------------
(* The other reports *)

ReportDone(p, id) ==
  /\ Around("done")
  /\ file' = Released({h \in Swept(file.holds) : h.provider = p /\ id \in {NoId, h.id}})
  /\ UNCHANGED <<now, outside, coord, orca, receipts>>
\* A quota error: the denied buckets of the cached reading, and a cooldown to
\* the latest of their resets or of the caller's choice.
QuotaError(p) ==
  LET refused == IF file.cache = None THEN {} ELSE DeniedBuckets(file.cache.probes[p])
      before == {d \in file.denials : d.scope = Legacy(p)}
      known == {d \in before : d.id \notin refused} \cup
               {[scope |-> Legacy(p), id |-> b, resets |-> ResetOf(file.cache.probes[p], b)] :
                  b \in refused}
      resets == {d.resets : d \in known}
      until == IF resets # {} /\ \A t \in resets : t > now THEN Max(resets) ELSE now + Cooldown
  IN /\ Around("error")
     /\ file' = [file EXCEPT !.denials = (@ \ before) \cup known,
                             !.exhausted[p] = Max({@, until}), !.cache = None]
     /\ UNCHANGED <<now, outside, coord, orca, receipts>>
Clear(p) ==
  /\ file.exhausted[p] > 0
  /\ Around("clear")
  /\ file' = [file EXCEPT !.exhausted[p] = 0, !.cache = None]
  /\ UNCHANGED <<now, outside, coord, orca, receipts>>

----------------------------------------------------------------------------
(* external: time, logins, quota and managed attempts *)

Tick ==
  /\ now < MaxTime /\ Around("tick")
  /\ now' = now + 1
  /\ UNCHANGED <<outside, file, coord, orca, receipts>>
Login(p, account) ==
  /\ Around("login")
  /\ login' = [login EXCEPT ![p] = [account |-> account, stamp |-> @.stamp + 1]]
  /\ UNCHANGED <<now, reading, managed, file, coord, orca, receipts>>
Quota(p, account, probe) ==
  /\ probe # reading[p][account] /\ Around("quota")
  /\ reading' = [reading EXCEPT ![p][account] = probe]
  /\ UNCHANGED <<now, login, managed, file, coord, orca, receipts>>
Managed(p, n) ==
  /\ n # managed[p] /\ Around("managed")
  /\ managed' = [managed EXCEPT ![p] = n]
  /\ UNCHANGED <<now, reading, login, file, coord, orca, receipts>>

----------------------------------------------------------------------------
Command(c) ==
  \/ ReadCache(c) \/ Bind(c) \/ Fetch(c) \/ Confirm(c) \/ SaveCache(c)
  \/ ReadBaseline(c) \/ SaveSnapshot(c) \/ Deny(c) \/ Look(c)
  \/ Hold(c) \/ Log(c)
  \/ Place(c) \/ Book(c) \/ Wave(c) \/ Flush(c)
  \/ AskWorkers(c) \/ AskTasks(c) \/ Survey(c) \/ ReleaseNext(c) \/ Finish(c)
Environment ==
  \/ \E c \in Coords, i \in 1 .. 2, d \in Dispatches, t \in Briefs \cup {"elsewhere"} :
       coord[c].pc = "decided" /\ i \in DOMAIN coord[c].made
       /\ t \in {coord[c].made[i].task.brief, "elsewhere"} /\ Launch(c, i, d, t)
  \/ \E d \in Dispatches : Receipt(d) \/ WorkerEnds(d)
  \/ \E b \in Briefs : TaskEnds(b)
  \/ \E p \in Providers : QuotaError(p) \/ Clear(p)
  \/ \E p \in Providers, id \in {NoId} \cup {h.id : h \in file.holds} : ReportDone(p, id)
  \/ Tick
  \/ \E p \in Providers : \E a \in LoginsOf[p] : Login(p, a)
  \/ \E p \in Providers, a \in Accounts : \E probe \in ProbesOf[p] : Quota(p, a, probe)
  \/ \E p \in Providers, n \in 0 .. 1 : Managed(p, n)
Next == (\E c \in Coords : Command(c)) \/ Environment
Spec == Init /\ [][Next]_vars

----------------------------------------------------------------------------
(* Properties *)

MadeBy(c) == IF "made" \in DOMAIN coord[c] THEN Range(coord[c].made) ELSE {}

\* Whatever capacity, pacing and retries leave over, a forbidden model is never
\* the reviewer, and is the implementer only under the task's own exception;
\* an exception without an approver blocks the decision, and a blocked
\* decision never holds capacity (decide's one exclusion set for all roles,
\* policy_exception, hold_capacity).
PolicyHolds ==
  \A c \in Coords : \A m \in MadeBy(c) :
    LET d == m.decision
        exception == coord[c].ask.exception IN
    /\ d.pick \in Forbidden => /\ exception # None /\ d.pick = exception.model
                               /\ exception.approved \/ d.blocked # "none"
    /\ d.review \notin Forbidden
    /\ m.hold # NoId => d.blocked = "none" /\ d.pick # None

\* Scarce quota moves work up the bands, never down: the model can do the
\* task's floor; a retry neither repeats a model nor returns to a band that
\* was tried, and the reviewer shares neither provider nor family with the
\* author (decide's minimum_band, rerun's floor, the review ladder).
QualityKept ==
  \A c \in Coords : \A m \in MadeBy(c) :
    LET d == m.decision
        ask == coord[c].ask IN
    d.pick # None =>
      /\ d.band >= d.floor /\ d.pick \in Range(Bands[d.band])
      /\ Profiles[d.pick].maxBand >= TaskProfiles[m.task.judgment.tier].floor
      /\ d.pick \notin ask.tried
      /\ ask.cmd = "rerun" =>
           \A b \in 1 .. 2 : Range(Bands[b]) \cap ask.tried # {} => d.band > b
      /\ ask.cmd = "plan" => d.band = d.floor
      /\ d.review # None =>
           /\ d.review.provider # d.pick.provider
           /\ Profiles[d.review].family # Profiles[d.pick].family
           /\ "review" \in Profiles[d.review].capable \cup Profiles[d.review].retry
           /\ d.review \notin ask.tried

\* Two coordinators cannot both take the last slot: when route takes a hold,
\* the holds of the provider, plans and receipts included, are within its
\* limit and no managed attempt is active there, however old the reading the
\* decision was made on (reserve's count under the lock).
LastSlotOnce ==
  [][\A h \in file'.holds \ file.holds :
       h.by = "route" /\ h.dispatch = NoId =>
         /\ Cardinality({k \in Of(file'.holds, h.provider) : k.migrated \/ k.expires > now}) <=
              SlotLimit[h.provider]
         /\ managed[h.provider] = 0]_vars

\* A launch is booked once, however often its receipt comes and whatever was
\* released in between: never two holds for one dispatch, and no new hold for
\* one that the decision log still knows (record_launch).
BookedOnce ==
  [][\A d \in Dispatches :
       LET bound(f) == {h.id : h \in {k \in f.holds : k.dispatch = d}} IN
       /\ Cardinality(bound(file')) <= 1
       /\ Logs(d) => bound(file') \subseteq bound(file)]_vars

\* A denial on record leaves it only on a live, healthy reading of the same
\* account by a command that has just read it, and that the provider gave to the
\* very credential the command had found there, whoever signed in and out in
\* between; what a command did not read, could not refresh or read of another
\* account keeps the provider out of every band (bound_probe's second look,
\* eligibility's bookkeeping under the lock).
DenialKept ==
  [][/\ \A d \in file.denials \ file'.denials :
          \/ \E e \in file'.denials : e.scope = d.scope /\ e.id = d.id
          \/ \E c \in Coords :
               /\ coord[c].pc = "deny" /\ coord'[c].pc = "look" /\ coord[c].fresh
               /\ LET probe == coord[c].probes[d.scope[1]] IN
                  /\ d.scope[2] = probe.account /\ probe.by = probe.bound
                  /\ IF d.id = "account" THEN DOMAIN probe.buckets # {}
                     ELSE d.id \in DOMAIN probe.buckets
                  /\ \A b \in IF d.id = "account" THEN DOMAIN probe.buckets ELSE {d.id} :
                       /\ probe.buckets[b].source = "live"
                       /\ probe.buckets[b].percent \in 0 .. Full - 1
     /\ \A c \in Coords :
          coord[c].pc = "look" /\ coord'[c].pc \in {"hold", "log"} =>
            \A m \in Range(coord'[c].made) :
              m.decision.pick = None \/
              LET p == m.decision.pick.provider IN
              \A d \in coord[c].denied :
                d.scope \notin {Scope(p, coord[c].probes[p].account), Legacy(p)}]_vars

\* Giving back what Orca says has settled never frees the hold of a worker that
\* is still running, unless the hold was not yet bound to its launch when the
\* holds were listed (release_settled's match by dispatch).
RunningKept ==
  [][\A c \in Coords : \A h \in file.holds \ file'.holds :
       coord[c].pc = "release" /\ coord'[c] # coord[c] /\ Live(h) /\ h.dispatch # NoId =>
         \/ workers[h.dispatch].state = "settled"
         \/ \E q \in coord[c].queue : q.id = h.id /\ q.dispatch = NoId]_vars
=============================================================================
