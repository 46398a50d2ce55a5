-------------------------- MODULE MCQuotaAdmission --------------------------
(* Two logins of one provider on two quota accounts.                        *)
EXTENDS QuotaAdmission, TLC

CONSTANTS ca, cb, A, B

LoginOf == [p \in Providers |-> [c \in Contexts |-> IF c = ca THEN A ELSE B]]
Limit == [p \in Providers |-> 2]

\* Every attempt has a task of its own; identifiers are handed out in order.
Tasks == <<"t1", "t2", "t3">>
IntentSet == {[task |-> Tasks[a], spec |-> "s1", floor |-> 1] : a \in AttemptIds}
EventSet == AttemptIds \X {"claim", "outcome"}

\* QuotaSpec without the steps that only rename: request r is about task r and
\* becomes attempt r.
Asked == 1 .. Cardinality(DOMAIN attempts)
AdmitInOrder ==
  \E report \in reports, r \in RequestKeys \cap (Asked \cup {Cardinality(Asked) + 1}), cost \in Costs :
    /\ \E i \in Intents : i.task = Tasks[r] /\ AdmitReported(report, r, i, cost)
    /\ DOMAIN attempts' \subseteq Asked \cup {r}
InOrderNext ==
  \/ AdmitInOrder
  \/ \E p \in Providers : ProbeBegin(p)
  \/ \E probe \in pending : ProbeRead(probe)
  \/ \E a \in Asked : ClaimLaunch(a) \/ Burn(a)
  \/ \E a \in Asked, outcome \in Endings : SettleRun(a, outcome)
  \/ \E x \in Accounts : Refuse(x) \/ Relent(x) \/ ResetWindow(x)
  \/ \E p \in Providers, c \in Contexts : SwitchAccount(p, c) /\ UNCHANGED environment
  \/ Tick /\ UNCHANGED environment
InOrderSpec == QuotaInit /\ [][InOrderNext]_allVars

\* The run is the union of two regions: on one login, a budget with window
\* resets and stale snapshots; on two logins, refusals.  The costs tell the
\* attempts of the two apart.
Budget == \E c \in Contexts :
            /\ \A p \in Providers : binding[p] = c
            /\ \A probe \in pending : probe.context = c
            /\ \A report \in reports : report.o.context = c
            /\ turns.refusals = 0 /\ now <= 1
            /\ \A a \in DOMAIN attempts : attempts[a].points = UnitsUp(3)
Denials == /\ turns.resets = 0
           /\ Cardinality(DOMAIN attempts) <= 1  \* until a second one is admitted
           /\ \A a \in DOMAIN attempts : /\ attempts[a].points # UnitsUp(3)
                                        /\ attempts[a].state \notin {"launch_failed", "runtime_failed"}
\* The two logins, each with its account, are interchangeable.
Names == {ca, cb, A, B}
Swap == {f \in Permutations(Names) : (f[ca] = ca /\ f[cb] = cb /\ f[A] = A) \/
                                      (f[ca] = cb /\ f[cb] = ca /\ f[A] = B /\ f[B] = A)}
Regions == Budget \/ Denials
============================================================================
