--------------------------- MODULE QuotaAdmission ---------------------------
(***************************************************************************)
(* The ledger against the quota it protects.  Coordinators probe accounts   *)
(* without a lock (src/rightsize.py probe_all), then admit on what they     *)
(* read (src/managed_router.py admit_snapshot); meanwhile admitted work     *)
(* burns quota, settles, and providers refuse and reset.  The provider side *)
(* is external: an account's true usage, what its running attempts may      *)
(* still burn, and whether it refuses work at the moment.                   *)
(*                                                                          *)
(* Assumptions on the environment: a dispatch burns at most its estimate,   *)
(* nothing else burns between a probe and a settlement, the wall clock      *)
(* separates a settlement from the probes read before it, and no two        *)
(* providers share an account.                                              *)
(***************************************************************************)
EXTENDS ManagedLedger

CONSTANTS
  Accounts,      \* quota accounts of the providers
  AccountOf,     \* [Providers -> [Contexts -> Accounts]]: who a local login is
  Confirmed,     \* accounts whose identity every probe confirms
  Endings,       \* the terminal outcomes considered, one of each kind
  MaxProbes,     \* probes in flight or unused, bounded
  MaxRefusals,   \* times a provider starts refusing, bounded
  MaxResets      \* window resets, bounded

ASSUME AccountAssumption ==
  /\ AccountOf \in [Providers -> [Contexts -> Accounts]]
  /\ \A p, q \in Providers, c, d \in Contexts :
       AccountOf[p][c] = AccountOf[q][d] => p = q
  /\ Confirmed \subseteq Accounts
  /\ QuotaIds = Accounts
  /\ Endings \subseteq Outcomes
  /\ EventIds = AttemptIds \X {"claim", "outcome"}

VARIABLES
  used,        \* [Accounts -> fine units burnt in the current window]
  refusing,    \* accounts that refuse work now
  pending,     \* probes begun: [provider, context, at]
  reports,     \* probes read: [provider, at, o]
  estimate,    \* [AttemptIds -> fine units its dispatch was estimated at]
  left,        \* [AttemptIds -> fine units of these it may still burn]
  known,       \* accounts whose present refusal the ledger was told of
  turns        \* [resets, refusals]: how often each happened

environment == <<used, refusing, pending, reports, estimate, left, known, turns>>
allVars == <<vars, environment>>

QuotaInit ==
  /\ Init
  /\ used = [x \in Accounts |-> 0]
  /\ refusing = {}
  /\ pending = {}
  /\ reports = {}
  /\ estimate = [a \in AttemptIds |-> 0]
  /\ left = [a \in AttemptIds |-> 0]
  /\ known = {}
  /\ turns = [resets |-> 0, refusals |-> 0]

AccountBehind(t, a) == AccountOf[t[a].provider][t[a].context]
RunningOn(x) == {a \in DOMAIN attempts : /\ IsActive(attempts, a)
                                         /\ AccountBehind(attempts, a) = x}

----------------------------------------------------------------------------
(* Probes *)

\* bound_probe()/probe_codex(): the local account is selected and the
\* observation stamped before the provider is asked.
ProbeBegin(p) ==
  /\ Cardinality(pending) + Cardinality(reports) < MaxProbes
  /\ pending' = pending \cup {[provider |-> p, context |-> binding[p], at |-> now]}
  /\ UNCHANGED <<vars, used, refusing, reports, estimate, left, known, turns>>

Truth(p, context, quota) ==
  [context |-> context, quota |-> quota, status |-> "ok",
   buckets |-> [b \in BucketIds |-> [percent |-> used[AccountOf[p][context]],
                                     source |-> "live", raw |-> "ok"]]]

\* The answer.  A login that changed meanwhile makes it worthless, and
\* eligibility() leaves out an account whose probe says denied, so neither
\* reaches the ledger.
ProbeRead(probe) ==
  LET x == AccountOf[probe.provider][probe.context] IN
  /\ probe \in pending
  /\ pending' = pending \ {probe}
  /\ \/ /\ binding[probe.provider] # probe.context \/ x \in refusing
        /\ UNCHANGED reports
     \/ /\ binding[probe.provider] = probe.context /\ x \notin refusing
        /\ \E quota \in {x} \cup {Unattributed : y \in {x} \ Confirmed} :
             reports' = reports \cup
               {[provider |-> probe.provider, at |-> probe.at,
                 o |-> Truth(probe.provider, probe.context, quota)]}
  /\ UNCHANGED <<vars, used, refusing, estimate, left, known, turns>>

----------------------------------------------------------------------------
(* The ledger's operations, with what they mean for the provider *)

NoLoad == [points |-> 0, slots |-> 0, blocked |-> FALSE]

\* admit_snapshot(): each coordinator uses its own probe once.
AdmitReported(report, r, i, cost) ==
  /\ report \in reports
  /\ Admit(r, i, report.provider, report.o, report.at, NoLoad, cost)
  /\ reports' = reports \ {report}
  /\ estimate' = [a \in AttemptIds |->
       IF a \in DOMAIN attempts' \ DOMAIN attempts THEN cost ELSE estimate[a]]
  /\ left' = [a \in AttemptIds |->
       IF a \in DOMAIN attempts' \ DOMAIN attempts THEN cost ELSE left[a]]
  /\ UNCHANGED <<used, refusing, pending, known, turns>>

\* Event ids are made of the attempt's launch key and the step.
ClaimLaunch(a) ==
  /\ Claim(a, <<a, "claim">>)
  /\ UNCHANGED environment

\* The model works: only a launched attempt burns, one unit at a time.
Burn(a) ==
  /\ a \in DOMAIN attempts
  /\ attempts[a].state \in Active \ {"admitted"}
  /\ left[a] > 0
  /\ used' = [used EXCEPT ![AccountBehind(attempts, a)] = @ + 1]
  /\ left' = [left EXCEPT ![a] = @ - 1]
  /\ UNCHANGED <<vars, refusing, pending, reports, estimate, known, turns>>

\* A terminal outcome ends the burning.  An adapter reports launch_failed on
\* proof that nothing ran, and quota_failed when the provider refuses.
SettleRun(a, outcome) ==
  LET x == AccountBehind(attempts, a) IN
  /\ Settle(a, <<a, "outcome">>, outcome)
  /\ outcome = "launch_failed" => left[a] = estimate[a]
  /\ outcome = "quota_failed" => x \in refusing
  /\ \A report \in reports : report.at < now
  /\ left' = [left EXCEPT ![a] = 0]
  /\ known' = IF outcome = "quota_failed" THEN known \cup {x} ELSE known
  /\ UNCHANGED <<used, refusing, pending, reports, estimate, turns>>

----------------------------------------------------------------------------
(* The provider *)

Refuse(x) ==
  /\ x \notin refusing
  /\ turns.refusals < MaxRefusals
  /\ turns' = [turns EXCEPT !.refusals = @ + 1]
  /\ refusing' = refusing \cup {x}
  /\ UNCHANGED <<vars, used, pending, reports, estimate, left, known>>

Relent(x) ==
  /\ x \in refusing
  /\ refusing' = refusing \ {x}
  /\ known' = known \ {x}
  /\ UNCHANGED <<vars, used, pending, reports, estimate, left, turns>>

ResetWindow(x) ==
  /\ used[x] > 0
  /\ turns.resets < MaxResets
  /\ used' = [used EXCEPT ![x] = 0]
  /\ turns' = [turns EXCEPT !.resets = @ + 1]
  /\ UNCHANGED <<vars, refusing, pending, reports, estimate, left, known>>

QuotaNext ==
  \/ \E p \in Providers : ProbeBegin(p)
  \/ \E probe \in pending : ProbeRead(probe)
  \/ \E report \in reports, r \in RequestKeys, i \in Intents, cost \in Costs :
       AdmitReported(report, r, i, cost)
  \/ \E a \in AttemptIds : ClaimLaunch(a) \/ Burn(a)
  \/ \E a \in AttemptIds, outcome \in Endings : SettleRun(a, outcome)
  \/ \E x \in Accounts : Refuse(x) \/ Relent(x) \/ ResetWindow(x)
  \/ \E p \in Providers, c \in Contexts :
       SwitchAccount(p, c) /\ UNCHANGED environment
  \/ Tick /\ UNCHANGED environment

QuotaSpec == QuotaInit /\ [][QuotaNext]_allVars

----------------------------------------------------------------------------
(* Properties *)

\* While managed work that costs anything runs on an account, what it has used
\* and what its attempts may still burn leave the reserve untouched, however
\* stale the snapshots of concurrent coordinators are and whatever settled or
\* was reset since they were taken (the point budget of admit()).
NoOverspend ==
  \A x \in Accounts :
    (\E a \in RunningOn(x) : attempts[a].points > 0) =>
      used[x] + SumFunctionOnSet(left, RunningOn(x)) <= Full - Reserve

\* Once the ledger was told that an account refuses work, nothing is admitted
\* to it until the provider relents, whatever older probes still say and
\* whichever login is selected (the denials table).
RefusalRespected ==
  [][\A a \in DOMAIN attempts' \ DOMAIN attempts :
       AccountBehind(attempts', a) \notin known]_allVars

============================================================================
