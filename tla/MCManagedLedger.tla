-------------------------- MODULE MCManagedLedger --------------------------
(* Instances of the ledger.  Identifiers are numbers; since the ledger only  *)
(* compares them for equality, the runs hand them out in increasing order.   *)
EXTENDS LedgerLease

TwoSlots == [p \in Providers |-> 2]

\* Three tasks, one of them also asked for under a higher floor.
FirstIntent == [task |-> "t1", spec |-> "s1", floor |-> 1]
IntentSet == {FirstIntent,
              [task |-> "t1", spec |-> "s1", floor |-> 2],
              [task |-> "t2", spec |-> "s1", floor |-> 1],
              [task |-> "t3", spec |-> "s1", floor |-> 1]}

Report(context, quota, status, percent, source, raw) ==
  [context |-> context, quota |-> quota, status |-> status,
   buckets |-> [b \in BucketIds |->
                 [percent |-> percent, source |-> source, raw |-> raw]]]
\* A context that confirms its quota may also find a window used up.
HealthyReports ==
  {Report(c, q, "ok", 10, "live", "ok") : c \in Contexts, q \in QuotaIds \cup {Unattributed}}
Reports ==
  HealthyReports \cup {Report(c, q, "ok", Full, "live", "ok") : c \in Contexts, q \in QuotaIds}
NoLoad == {[points |-> 0, slots |-> 0, blocked |-> FALSE]}

\* LedgerSpec is Spec without the steps that only rename (identifiers are
\* handed out in increasing order), and without those that mix the two regions
\* below: tasks other than the first ask at one instant, with healthy reports.
Unused(ids, taken) == {x \in ids \ taken : \A y \in ids \ taken : x <= y}
Asked == {attempts[a].request : a \in DOMAIN attempts}
AdmitNext ==
  \E r \in Asked \cup Unused(RequestKeys, Asked), i \in Intents, p \in Providers,
     o \in Observations, at \in 0 .. now, load \in Loads, cost \in Costs :
    /\ i = FirstIntent \/ (now = 0 /\ o \in HealthyReports)
    /\ Admit(r, i, p, o, at, load, cost)
LedgerNext ==
  \/ AdmitNext /\ DOMAIN attempts' \ DOMAIN attempts \subseteq Unused(AttemptIds, DOMAIN attempts)
  \/ \E a \in DOMAIN attempts, e \in Unused(EventIds, events) : Event(a, e)
  \/ \E a \in DOMAIN attempts : Renew(a)
  \/ ReconcileExpired
  \/ \E value \in {"enabled", "disabled"} : SetAdmissions(value)
  \/ \E p \in Providers, c \in Contexts : SwitchAccount(p, c)
  \/ Tick
LedgerSpec == Init /\ [][LedgerNext]_vars

\* The run is the union of two regions.  The pool: attempts of several tasks
\* compete for two slots at one instant, nothing is denied or rolled back.  The
\* lifecycle: two attempts of one task, with denials, leases and the clock.
Pool == now = 0 /\ admissions = "enabled" /\ \A r \in Refs : denials[r] = {}
Lifecycle == /\ Cardinality(DOMAIN attempts) <= 2
             /\ \A a \in DOMAIN attempts : attempts[a].intent = FirstIntent
Regions == /\ Cardinality(DOMAIN attempts) + Cardinality(events) <= 5
           /\ Pool \/ Lifecycle
============================================================================
