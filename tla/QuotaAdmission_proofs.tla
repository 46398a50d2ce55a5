------------------------ MODULE QuotaAdmission_proofs ------------------------
(***************************************************************************)
(* The point budget of every account holds, for every number of accounts,   *)
(* attempts, probes and resets.                                             *)
(*                                                                          *)
(* A report that was read and not yet used is a promise: what the account   *)
(* had used when it was read, and the estimates of the attempts that may    *)
(* have burned since (Charged), bound what is used now and what running     *)
(* attempts may still burn (Covered).  admit() charges at least these       *)
(* attempts against the report, so what it adds stays within the budget.    *)
(***************************************************************************)
EXTENDS QuotaAdmission, ManagedLedger_proofs, FiniteFacts

Owner(report) == AccountOf[report.provider][report.o.context]

\* Attempts of an account whose spending a report of that age may not show.
Charged(x, at) ==
  {a \in DOMAIN attempts :
     /\ AccountBehind(attempts, a) = x
     /\ \/ IsActive(attempts, a)
        \/ attempts[a].settled > at /\ attempts[a].state # "launch_failed"}

\* What is used and what may still be.
Burden(x) == used[x] + SumFunctionOnSet(left, RunningOn(x))

QuotaTypes ==
  /\ used \in [Accounts -> Nat]
  /\ estimate \in [AttemptIds -> Nat] /\ left \in [AttemptIds -> Nat]
  /\ \A probe \in pending : /\ probe.provider \in Providers
                            /\ probe.context \in Contexts /\ probe.at \in Nat

\* A row names its account, or none at all; its points cover its estimate, and
\* that what it may still burn.
RowsCover ==
  \A a \in DOMAIN attempts :
    /\ attempts[a].quota \in {AccountBehind(attempts, a), Unattributed}
    /\ estimate[a] <= Grain * attempts[a].points
    /\ left[a] <= estimate[a]

ReportRight(report) ==
  /\ report.provider \in Providers /\ report.at \in Nat
  /\ IsObservation(report.o)
  /\ report.o.quota \in {Owner(report), Unattributed}

Covered(report) ==
  \A b \in DOMAIN report.o.buckets :
    Burden(Owner(report)) <=
      report.o.buckets[b].percent
        + SumFunctionOnSet(estimate, Charged(Owner(report), report.at))

QuotaInv ==
  /\ TypeOK /\ QuotaTypes /\ RowsCover
  /\ \A report \in reports : ReportRight(report) /\ Covered(report)
  /\ NoOverspend

-----------------------------------------------------------------------------
(* Arithmetic of units.                                                       *)

LEMMA UnitsBound ==
  ASSUME NEW x \in Nat
  PROVE  /\ x <= Grain * UnitsUp(x) /\ Grain * UnitsDown(x) <= x
         /\ UnitsUp(x) \in Nat /\ UnitsDown(x) \in Nat
         /\ UnitsUp(0) = 0
<1>1. Grain \in Nat /\ Grain > 0
  BY PointAssumption
<1>2. ASSUME NEW g \in Nat, g > 0, NEW y \in Nat
      PROVE  /\ y \div g \in Nat /\ g * (y \div g) <= y
             /\ y < g * (y \div g) + g
  BY <1>2, SMT
<1>3. x + Grain - 1 \in Nat /\ 0 + Grain - 1 \in Nat
  BY <1>1
<1>4. UnitsUp(x) \in Nat /\ UnitsDown(x) \in Nat /\ Grain * UnitsDown(x) <= x
  BY <1>1, <1>2, <1>3 DEF UnitsUp, UnitsDown
<1>5. x <= Grain * UnitsUp(x)
  <2>1. x + Grain - 1 < Grain * UnitsUp(x) + Grain
    BY <1>1, <1>2, <1>3 DEF UnitsUp
  <2>2. PICK n \in Int : n = Grain * UnitsUp(x)
    BY <1>1, <1>4
  <2>. QED
    BY <1>1, <2>1, <2>2
<1>6. UnitsUp(0) = 0
  <2>1. PICK n \in Nat : n = (0 + Grain - 1) \div Grain
    BY <1>1, <1>2, <1>3
  <2>2. Grain * n <= 0 + Grain - 1
    BY <1>1, <1>2, <1>3, <2>1
  <2>3. n > 0 => Grain * n >= Grain
    BY <1>1
  <2>4. n = 0
    BY <1>1, <2>2, <2>3
  <2>. QED
    BY <2>1, <2>4 DEF UnitsUp
<1>. QED
  BY <1>4, <1>5, <1>6

(* What is charged to an account is among what admit() holds against a report *)
(* of it, and what runs is among what is charged.                             *)
LEMMA ChargedIsHeld ==
  ASSUME TypeOK, RowsCover, NEW report, ReportRight(report)
  PROVE  Charged(Owner(report), report.at)
           \subseteq HeldAgainst(attempts, <<report.provider, report.o.quota>>, report.at)
<1>1. ASSUME NEW a \in DOMAIN attempts, AccountBehind(attempts, a) = Owner(report)
      PROVE  /\ attempts[a].provider = report.provider
             /\ \/ report.o.quota = Unattributed
                \/ attempts[a].quota \in {report.o.quota, Unattributed}
  <2>1. attempts[a].provider \in Providers /\ attempts[a].context \in Contexts
    BY DEF TypeOK, Row
  <2>2. report.provider \in Providers /\ report.o.context \in Contexts
    BY DEF ReportRight, IsObservation
  <2>3. attempts[a].provider = report.provider
    BY <1>1, <2>1, <2>2, AccountAssumption DEF AccountBehind, Owner
  <2>. QED
    BY <1>1, <2>3 DEF RowsCover, ReportRight
<1>. QED
  BY <1>1 DEF Charged, HeldAgainst

LEMMA RunningIsCharged ==
  ASSUME NEW x, NEW at
  PROVE  /\ RunningOn(x) \subseteq Charged(x, at)
         /\ Charged(x, at) \subseteq DOMAIN attempts
BY DEF RunningOn, Charged

(* Sums of the two amounts, over attempts.                                    *)
LEMMA Amounts ==
  ASSUME NEW f \in [AttemptIds -> Nat], NEW S \in SUBSET AttemptIds
  PROVE  /\ SumFunctionOnSet(f, S) \in Nat
         /\ \A a \in S : SumFunctionOnSet(f, S) = f[a] + SumFunctionOnSet(f, S \ {a})
<1>1. f \in [AttemptIds -> Int] /\ IsFiniteSet(AttemptIds)
  BY InputAssumption
<1>2. /\ SumFunctionOnSet(f, S) \in Int /\ SumFunctionOnSet(f, {}) = 0
      /\ \A a \in S : SumFunctionOnSet(f, S) = f[a] + SumFunctionOnSet(f, S \ {a})
  BY <1>1, SumFacts
<1>3. {} \in SUBSET S /\ (\A a \in {} : f[a] <= f[a]) /\ \A a \in S \ {} : f[a] >= 0
  OBVIOUS
<1>4. SumFunctionOnSet(f, {}) <= SumFunctionOnSet(f, S)
  BY <1>1, <1>3, SumGrows
<1>. QED
  BY <1>2, <1>4

LEMMA AmountsSame ==
  ASSUME NEW f \in [AttemptIds -> Nat], NEW g \in [AttemptIds -> Nat],
         NEW S \in SUBSET AttemptIds, \A a \in S : f[a] = g[a]
  PROVE  SumFunctionOnSet(f, S) = SumFunctionOnSet(g, S)
<1>1. f \in [AttemptIds -> Int] /\ g \in [AttemptIds -> Int] /\ IsFiniteSet(AttemptIds)
  BY InputAssumption
<1>2. S \in SUBSET (AttemptIds \cap AttemptIds)
  OBVIOUS
<1>. QED
  BY <1>1, <1>2, SumSame

-----------------------------------------------------------------------------
(* What a step owes the invariant.                                            *)

LEMMA SumsTyped ==
  ASSUME TypeOK, QuotaTypes, NEW x \in Accounts, NEW at
  PROVE  /\ RunningOn(x) \in SUBSET AttemptIds /\ Charged(x, at) \in SUBSET AttemptIds
         /\ SumFunctionOnSet(left, RunningOn(x)) \in Nat
         /\ SumFunctionOnSet(estimate, Charged(x, at)) \in Nat
         /\ Burden(x) \in Nat
<1>1. RunningOn(x) \in SUBSET AttemptIds /\ Charged(x, at) \in SUBSET AttemptIds
  BY DEF RunningOn, Charged, TypeOK
<1>2. /\ SumFunctionOnSet(left, RunningOn(x)) \in Nat
      /\ SumFunctionOnSet(estimate, Charged(x, at)) \in Nat
  BY <1>1, Amounts DEF QuotaTypes
<1>3. used[x] \in Nat
  BY DEF QuotaTypes
<1>. QED
  BY <1>1, <1>2, <1>3 DEF Burden

\* The same after the step.
LEMMA SumsTypedNext ==
  ASSUME TypeOK', QuotaTypes', NEW x \in Accounts, NEW at
  PROVE  /\ RunningOn(x)' \in SUBSET AttemptIds /\ Charged(x, at)' \in SUBSET AttemptIds
         /\ SumFunctionOnSet(left, RunningOn(x))' \in Nat
         /\ SumFunctionOnSet(estimate, Charged(x, at))' \in Nat
         /\ Burden(x)' \in Nat
<1>1. RunningOn(x)' \in SUBSET AttemptIds /\ Charged(x, at)' \in SUBSET AttemptIds
  BY DEF RunningOn, Charged, TypeOK
<1>2. PICK f \in [AttemptIds -> Nat], g \in [AttemptIds -> Nat] : f = left' /\ g = estimate'
  BY DEF QuotaTypes
<1>3. /\ SumFunctionOnSet(f, RunningOn(x)') \in Nat
      /\ SumFunctionOnSet(g, Charged(x, at)') \in Nat
  BY <1>1, Amounts
<1>4. used'[x] \in Nat
  BY DEF QuotaTypes
<1>. QED
  BY <1>1, <1>2, <1>3, <1>4 DEF Burden

LEMMA OwnerIsAccount ==
  ASSUME NEW report, ReportRight(report)
  PROVE  Owner(report) \in Accounts
BY AccountAssumption DEF ReportRight, Owner, IsObservation

\* The burden grows by no more than what is charged.
Balanced(x, at) ==
  Burden(x)' + SumFunctionOnSet(estimate, Charged(x, at))
    <= Burden(x) + SumFunctionOnSet(estimate, Charged(x, at))'

\* Work that costs anything.
Costly(x) == \E a \in RunningOn(x) : attempts[a].points > 0

LEMMA CoverKept ==
  ASSUME QuotaInv, TypeOK', QuotaTypes', NEW report \in reports,
         Balanced(Owner(report), report.at)
  PROVE  ReportRight(report)' /\ Covered(report)'
<1>1. ReportRight(report) /\ Covered(report) /\ TypeOK /\ QuotaTypes
  BY DEF QuotaInv
<1>2. PICK x \in Accounts : x = Owner(report)
  BY <1>1, OwnerIsAccount
<1>3. PICK t : t = report.at
  OBVIOUS
<1>4. PICK m \in Nat, n \in Nat :
        m = Burden(x) /\ n = SumFunctionOnSet(estimate, Charged(x, t))
  BY <1>1, SumsTyped
<1>5. PICK k \in Nat, l \in Nat :
        k = Burden(x)' /\ l = SumFunctionOnSet(estimate, Charged(x, t))'
  <2>1. Burden(x)' \in Nat /\ SumFunctionOnSet(estimate, Charged(x, t))' \in Nat
    BY SumsTypedNext
  <2>. QED
    BY <2>1
<1>6. k + n <= m + l
  BY <1>2, <1>3, <1>4, <1>5 DEF Balanced
<1>7. ASSUME NEW b \in DOMAIN report.o.buckets
      PROVE  k <= report.o.buckets[b].percent + l
  <2>1. PICK p \in Int : p = report.o.buckets[b].percent
    BY <1>1 DEF ReportRight, IsObservation, Reading
  <2>2. m <= p + n
    BY <1>1, <1>2, <1>3, <1>4, <2>1 DEF Covered
  <2>. QED
    BY <1>6, <2>1, <2>2
<1>8. Covered(report)'
  BY <1>2, <1>3, <1>5, <1>7 DEF Covered, Owner
<1>. QED
  BY <1>1, <1>8 DEF ReportRight, Owner

LEMMA BudgetKept ==
  ASSUME QuotaInv, TypeOK', QuotaTypes', NEW x \in Accounts,
         Costly(x)' => Costly(x), Burden(x)' <= Burden(x)
  PROVE  Costly(x)' => Burden(x)' <= Full - Reserve
<1>1. Costly(x) => Burden(x) <= Full - Reserve
  BY DEF QuotaInv, NoOverspend, Costly, Burden
<1>2. PICK m \in Nat : m = Burden(x)
  BY SumsTyped DEF QuotaInv
<1>3. PICK k \in Nat : k = Burden(x)'
  <2>1. Burden(x)' \in Nat
    BY SumsTypedNext
  <2>. QED
    BY <2>1
<1>4. Full - Reserve \in Int
  BY PointAssumption
<1>. QED
  BY <1>1, <1>2, <1>3, <1>4

\* A step that uses reports up and reads none.
LEMMA StepInv ==
  ASSUME QuotaInv, TypeOK', QuotaTypes', RowsCover', reports' \subseteq reports,
         \A report \in reports' : Balanced(Owner(report), report.at),
         \A x \in Accounts : Costly(x)' => Burden(x)' <= Full - Reserve
  PROVE  QuotaInv'
<1>1. \A report \in reports' : ReportRight(report)' /\ Covered(report)'
  BY CoverKept
<1>2. NoOverspend'
  BY DEF NoOverspend, Costly, Burden
<1>. QED
  BY <1>1, <1>2 DEF QuotaInv

-----------------------------------------------------------------------------
(* Steps that move no amounts.                                                *)

\* To the accounts every row is as it was.
HoldsSame ==
  /\ DOMAIN attempts' = DOMAIN attempts
  /\ \A a \in DOMAIN attempts :
       /\ attempts'[a].provider = attempts[a].provider
       /\ attempts'[a].quota = attempts[a].quota
       /\ attempts'[a].context = attempts[a].context
       /\ attempts'[a].points = attempts[a].points
       /\ attempts'[a].settled = attempts[a].settled
       /\ IsActive(attempts', a) <=> IsActive(attempts, a)
       /\ attempts'[a].state = "launch_failed" <=> attempts[a].state = "launch_failed"

LEMMA SameSets ==
  ASSUME HoldsSame, NEW x, NEW at
  PROVE  RunningOn(x)' = RunningOn(x) /\ Charged(x, at)' = Charged(x, at)
BY DEF HoldsSame, RunningOn, Charged, AccountBehind

LEMMA SweptRow ==
  ASSUME TypeOK, NEW a \in DOMAIN attempts
  PROVE  /\ Swept(attempts)[a].provider = attempts[a].provider
         /\ Swept(attempts)[a].quota = attempts[a].quota
         /\ Swept(attempts)[a].context = attempts[a].context
         /\ Swept(attempts)[a].points = attempts[a].points
         /\ Swept(attempts)[a].settled = attempts[a].settled
         /\ IsActive(Swept(attempts), a) <=> IsActive(attempts, a)
         /\ Swept(attempts)[a].state = "launch_failed"
              <=> attempts[a].state = "launch_failed"
<1>1. attempts[a] \in Row
  BY DEF TypeOK
<1>. QED
  BY <1>1 DEF Swept, Overdue, Row, IsActive, Active

LEMMA SweptHolds ==
  ASSUME TypeOK, attempts' = Swept(attempts)
  PROVE  HoldsSame
BY SweptRow DEF HoldsSame, Swept

LEMMA QuietInv ==
  ASSUME QuotaInv, TypeOK', HoldsSame, UNCHANGED <<estimate, left>>,
         used' \in [Accounts -> Nat], \A x \in Accounts : used'[x] <= used[x],
         \A probe \in pending' : /\ probe.provider \in Providers
                                 /\ probe.context \in Contexts /\ probe.at \in Nat,
         reports' \subseteq reports
  PROVE  QuotaInv'
<1>1. QuotaTypes'
  BY DEF QuotaInv, QuotaTypes
<1>2. RowsCover'
  BY DEF QuotaInv, RowsCover, HoldsSame, AccountBehind
<1>3. ASSUME NEW x \in Accounts
      PROVE  /\ Burden(x)' <= Burden(x)
             /\ Costly(x)' <=> Costly(x)
             /\ \A at : Balanced(x, at)
  <2>1. PICK s \in Nat : /\ s = SumFunctionOnSet(left, RunningOn(x))
                         /\ s = SumFunctionOnSet(left, RunningOn(x))'
    BY SameSets, SumsTyped DEF QuotaInv
  <2>2. PICK u \in Nat, v \in Nat : u = used[x] /\ v = used'[x] /\ v <= u
    BY DEF QuotaInv, QuotaTypes
  <2>3. Burden(x) = u + s /\ Burden(x)' = v + s
    BY <2>1, <2>2 DEF Burden
  <2>4. Costly(x)' <=> Costly(x)
    BY SameSets DEF Costly, HoldsSame, RunningOn
  <2>5. ASSUME NEW at PROVE Balanced(x, at)
    <3>1. PICK n \in Nat : /\ n = SumFunctionOnSet(estimate, Charged(x, at))
                           /\ n = SumFunctionOnSet(estimate, Charged(x, at))'
      BY SameSets, SumsTyped DEF QuotaInv
    <3>. QED
      BY <2>2, <2>3, <3>1 DEF Balanced
  <2>. QED
    BY <2>2, <2>3, <2>4, <2>5
<1>4. \A report \in reports' : Balanced(Owner(report), report.at)
  BY <1>3, OwnerIsAccount DEF QuotaInv
<1>5. \A x \in Accounts : Costly(x)' => Burden(x)' <= Full - Reserve
  BY <1>1, <1>3, BudgetKept
<1>. QED
  BY <1>1, <1>2, <1>4, <1>5, StepInv

(* A probe that is read: what runs is charged to the account.                 *)
LEMMA TruthRight ==
  ASSUME QuotaInv, NEW p \in Providers, NEW c \in Contexts, NEW at \in Nat,
         NEW quota, quota \in {AccountOf[p][c], Unattributed}
  PROVE  /\ ReportRight([provider |-> p, at |-> at, o |-> Truth(p, c, quota)])
         /\ Covered([provider |-> p, at |-> at, o |-> Truth(p, c, quota)])
<1>1. PICK report : report = [provider |-> p, at |-> at, o |-> Truth(p, c, quota)]
  OBVIOUS
<1>2. PICK o : o = Truth(p, c, quota)
  OBVIOUS
<1>3. PICK x \in Accounts : x = AccountOf[p][c]
  BY AccountAssumption
<1>4. PICK u \in Nat : u = used[x]
  BY DEF QuotaInv, QuotaTypes
<1>5. /\ o.context = c /\ o.quota = quota /\ o.status = "ok"
      /\ o.buckets = [b \in BucketIds |-> [percent |-> u, source |-> "live", raw |-> "ok"]]
  BY <1>2, <1>3, <1>4 DEF Truth
<1>6. o.buckets \in [BucketIds -> Reading]
  BY <1>4, <1>5 DEF Reading
<1>7. IsObservation(o)
  BY <1>3, <1>5, <1>6, AccountAssumption DEF IsObservation
<1>8. Owner(report) = x /\ report.o = o /\ report.at = at /\ report.provider = p
  BY <1>1, <1>2, <1>3, <1>5 DEF Owner
<1>9. ReportRight(report)
  BY <1>3, <1>5, <1>7, <1>8 DEF ReportRight
<1>10. SumFunctionOnSet(left, RunningOn(x)) <= SumFunctionOnSet(estimate, Charged(x, at))
  <2>1. /\ left \in [AttemptIds -> Int] /\ estimate \in [AttemptIds -> Int]
        /\ Charged(x, at) \in SUBSET AttemptIds /\ IsFiniteSet(AttemptIds)
    BY SumsTyped, InputAssumption DEF QuotaInv, QuotaTypes
  <2>2. RunningOn(x) \in SUBSET Charged(x, at)
    BY RunningIsCharged
  <2>3. \A a \in RunningOn(x) : left[a] <= estimate[a]
    BY DEF QuotaInv, RowsCover, RunningOn
  <2>4. \A a \in Charged(x, at) \ RunningOn(x) : estimate[a] >= 0
    BY <2>1 DEF QuotaInv, QuotaTypes
  <2>. QED
    BY <2>1, <2>2, <2>3, <2>4, SumGrows
<1>11. PICK m \in Nat, n \in Nat : /\ m = SumFunctionOnSet(left, RunningOn(x))
                                   /\ n = SumFunctionOnSet(estimate, Charged(x, at))
  BY SumsTyped DEF QuotaInv
<1>12. Burden(x) = u + m /\ u + m <= u + n
  BY <1>4, <1>10, <1>11 DEF Burden
<1>13. Covered(report)
  BY <1>5, <1>8, <1>11, <1>12 DEF Covered
<1>. QED
  BY <1>1, <1>9, <1>13

LEMMA ProbeReadInv ==
  ASSUME QuotaInv, NEW probe \in pending, ProbeRead(probe)
  PROVE  QuotaInv'
<1>1. UNCHANGED <<vars, used, estimate, left>> /\ pending' \subseteq pending
  BY DEF ProbeRead
<1>2. TypeOK' /\ QuotaTypes' /\ RowsCover' /\ NoOverspend'
  BY <1>1 DEF QuotaInv, TypeOK, QuotaTypes, RowsCover, NoOverspend, RunningOn,
              AccountBehind, IsActive, vars
<1>3. ASSUME NEW report, ReportRight(report), Covered(report)
      PROVE  ReportRight(report)' /\ Covered(report)'
  BY <1>1, <1>3 DEF ReportRight, Covered, Owner, Burden, Charged, RunningOn,
                    AccountBehind, IsActive, vars
<1>4. ASSUME NEW report \in reports' PROVE ReportRight(report) /\ Covered(report)
  <2>1. CASE report \in reports
    BY <2>1 DEF QuotaInv
  <2>2. CASE report \notin reports
    <3>1. /\ probe.provider \in Providers /\ probe.context \in Contexts
          /\ probe.at \in Nat
      BY DEF QuotaInv, QuotaTypes
    <3>2. PICK quota : /\ quota \in {AccountOf[probe.provider][probe.context], Unattributed}
                       /\ report = [provider |-> probe.provider, at |-> probe.at,
                                    o |-> Truth(probe.provider, probe.context, quota)]
      BY <2>2 DEF ProbeRead
    <3>. QED
      BY <3>1, <3>2, TruthRight
  <2>. QED
    BY <2>1, <2>2
<1>. QED
  BY <1>2, <1>3, <1>4 DEF QuotaInv

-----------------------------------------------------------------------------
(* Work burns and settles.                                                    *)

LEMMA BehindIsAccount ==
  ASSUME TypeOK, NEW a \in DOMAIN attempts
  PROVE  AccountBehind(attempts, a) \in Accounts
BY AccountAssumption DEF TypeOK, Row, AccountBehind

LEMMA BurnInv ==
  ASSUME QuotaInv, NEW a \in AttemptIds, Burn(a)
  PROVE  QuotaInv'
<1>1. /\ TypeOK /\ a \in DOMAIN attempts /\ left[a] \in Nat /\ left[a] > 0
      /\ IsActive(attempts, a)
  BY DEF QuotaInv, QuotaTypes, Burn, IsActive
<1>2. PICK x \in Accounts : x = AccountBehind(attempts, a)
  BY <1>1, BehindIsAccount
<1>3. PICK l \in Nat : l = left[a] - 1 /\ left[a] = l + 1
  BY <1>1
<1>4. /\ used' = [used EXCEPT ![x] = @ + 1] /\ left' = [left EXCEPT ![a] = l]
      /\ UNCHANGED <<vars, estimate, pending, reports>>
  BY <1>2, <1>3 DEF Burn
<1>5. PICK f \in [AttemptIds -> Nat] : f = left' /\ f = [left EXCEPT ![a] = l]
  BY <1>4 DEF QuotaInv, QuotaTypes
<1>6. TypeOK' /\ HoldsSame
  BY <1>1, <1>4 DEF TypeOK, HoldsSame, vars, IsActive
<1>7. QuotaTypes'
  BY <1>4, <1>5 DEF QuotaInv, QuotaTypes
<1>8. RowsCover'
  <2>1. \A b \in DOMAIN attempts : f[b] <= left[b] /\ left[b] \in Nat /\ estimate[b] \in Nat
    BY <1>3, <1>5 DEF QuotaInv, QuotaTypes, TypeOK
  <2>2. \A b \in DOMAIN attempts : f[b] <= estimate[b]
    BY <1>5, <2>1 DEF QuotaInv, RowsCover
  <2>. QED
    BY <1>4, <1>5, <2>2 DEF QuotaInv, RowsCover, AccountBehind, vars
<1>9. ASSUME NEW y \in Accounts PROVE Burden(y)' = Burden(y)
  <2>1. /\ RunningOn(y)' = RunningOn(y) /\ RunningOn(y) \in SUBSET AttemptIds
        /\ left \in [AttemptIds -> Nat]
    BY <1>6, SameSets, SumsTyped DEF QuotaInv, QuotaTypes
  <2>2. PICK R \in SUBSET AttemptIds : R = RunningOn(y)
    BY <2>1
  <2>3. CASE y # x
    <3>1. a \notin R
      BY <1>2, <2>2, <2>3 DEF RunningOn
    <3>2. SumFunctionOnSet(f, R) = SumFunctionOnSet(left, R)
      <4>1. \A b \in R : f[b] = left[b]
        BY <1>5, <2>1, <3>1
      <4>. QED
        BY <2>1, <4>1, AmountsSame
    <3>3. used'[y] = used[y]
      BY <1>4, <2>3 DEF QuotaInv, QuotaTypes
    <3>. QED
      BY <1>5, <2>1, <2>2, <3>2, <3>3 DEF Burden
  <2>4. CASE y = x
    <3>1. a \in R /\ R \ {a} \in SUBSET AttemptIds
      BY <1>1, <1>2, <2>2, <2>4 DEF RunningOn
    <3>2. SumFunctionOnSet(f, R \ {a}) = SumFunctionOnSet(left, R \ {a})
      BY <1>5, <2>1, <3>1, AmountsSame
    <3>3. PICK s \in Nat : s = SumFunctionOnSet(left, R \ {a})
      BY <2>1, <3>1, Amounts
    <3>4. SumFunctionOnSet(f, R) = f[a] + s /\ SumFunctionOnSet(left, R) = left[a] + s
      BY <2>1, <3>1, <3>2, <3>3, Amounts
    <3>5. f[a] = l
      BY <1>5, <2>1
    <3>6. PICK u \in Nat : u = used[y] /\ used'[y] = u + 1
      BY <1>4, <2>4 DEF QuotaInv, QuotaTypes
    <3>7. (u + 1) + (l + s) = u + ((l + 1) + s)
      OBVIOUS
    <3>. QED
      BY <1>3, <1>5, <2>1, <2>2, <3>4, <3>5, <3>6, <3>7 DEF Burden
  <2>. QED
    BY <2>3, <2>4
<1>10. ASSUME NEW y \in Accounts
       PROVE  /\ Costly(y)' <=> Costly(y)
              /\ \A at : Balanced(y, at)
  <2>1. Costly(y)' <=> Costly(y)
    BY <1>6, SameSets DEF Costly, HoldsSame, RunningOn
  <2>2. ASSUME NEW at PROVE Balanced(y, at)
    <3>1. Charged(y, at)' = Charged(y, at)
      BY <1>6, SameSets
    <3>2. PICK n \in Nat, m \in Nat :
            n = SumFunctionOnSet(estimate, Charged(y, at)) /\ m = Burden(y)
      BY SumsTyped DEF QuotaInv
    <3>3. SumFunctionOnSet(estimate, Charged(y, at))' = n /\ Burden(y)' = m
      BY <1>4, <1>9, <3>1, <3>2
    <3>. QED
      BY <3>2, <3>3 DEF Balanced
  <2>. QED
    BY <2>1, <2>2
<1>11. \A report \in reports' : Balanced(Owner(report), report.at)
  BY <1>4, <1>10, OwnerIsAccount DEF QuotaInv
<1>12. ASSUME NEW y \in Accounts PROVE Burden(y)' <= Burden(y)
  BY <1>9, SumsTyped DEF QuotaInv
<1>13. \A y \in Accounts : Costly(y)' => Burden(y)' <= Full - Reserve
  BY <1>6, <1>7, <1>10, <1>12, BudgetKept
<1>. QED
  BY <1>4, <1>6, <1>7, <1>8, <1>11, <1>13, StepInv

LEMMA SettleRunInv ==
  ASSUME QuotaInv, NEW a \in AttemptIds, NEW outcome \in Endings, SettleRun(a, outcome)
  PROVE  QuotaInv'
<1>1. /\ TypeOK /\ a \in DOMAIN attempts /\ attempts[a] \in Row /\ now \in Nat
      /\ IsActive(attempts, a) /\ outcome \in Outcomes
  BY AccountAssumption
  DEF QuotaInv, TypeOK, SettleRun, Settle, Record, Confirmable, IsActive
<1>2. PICK x \in Accounts : x = AccountBehind(attempts, a)
  BY <1>1, BehindIsAccount
<1>3. /\ attempts' = [attempts EXCEPT ![a] =
                        [attempts[a] EXCEPT !.state = outcome, !.settled = now]]
      /\ left' = [left EXCEPT ![a] = 0]
      /\ UNCHANGED <<used, estimate, pending, reports>>
      /\ \A report \in reports : report.at < now
      /\ outcome = "launch_failed" => left[a] = estimate[a]
  BY DEF SettleRun, Settle, Put
<1>4. PICK f \in [AttemptIds -> Nat] : f = left' /\ f = [left EXCEPT ![a] = 0]
  BY <1>3 DEF QuotaInv, QuotaTypes
<1>5. PICK l \in Nat, e \in Nat : l = left[a] /\ e = estimate[a]
  BY DEF QuotaInv, QuotaTypes
<1>6. TypeOK'
  <2>1. <<a, "outcome">> \in EventIds
    BY AccountAssumption
  <2>2. Event(a, <<a, "outcome">>)
    BY <1>1 DEF SettleRun, Event
  <2>. QED
    BY <1>1, <2>1, <2>2, EventTyped
<1>7. QuotaTypes'
  BY <1>3, <1>4 DEF QuotaInv, QuotaTypes
<1>8. /\ DOMAIN attempts' = DOMAIN attempts
      /\ \A b \in DOMAIN attempts : b # a => attempts'[b] = attempts[b]
      /\ attempts'[a].state = outcome /\ attempts'[a].settled = now
      /\ \A b \in DOMAIN attempts :
           /\ attempts'[b].provider = attempts[b].provider
           /\ attempts'[b].quota = attempts[b].quota
           /\ attempts'[b].context = attempts[b].context
           /\ attempts'[b].points = attempts[b].points
      /\ outcome \notin Active
  BY <1>1, <1>3 DEF TypeOK, Row, Outcomes, Active
<1>9. \A b \in DOMAIN attempts : AccountBehind(attempts', b) = AccountBehind(attempts, b)
  BY <1>8 DEF AccountBehind
<1>10. RowsCover'
  <2>1. \A b \in DOMAIN attempts : f[b] <= estimate[b]
    BY <1>4 DEF QuotaInv, QuotaTypes, RowsCover, TypeOK
  <2>. QED
    BY <1>3, <1>4, <1>8, <1>9, <2>1 DEF QuotaInv, RowsCover
<1>11. ASSUME NEW y \in Accounts
       PROVE  /\ Burden(y)' <= Burden(y)
              /\ y = x => Burden(y) = Burden(y)' + l
  <2>1. RunningOn(y)' = RunningOn(y) \ {a}
    BY <1>8, <1>9 DEF RunningOn, IsActive
  <2>2. /\ RunningOn(y) \in SUBSET AttemptIds /\ left \in [AttemptIds -> Nat]
    BY SumsTyped DEF QuotaInv, QuotaTypes
  <2>3. PICK R \in SUBSET AttemptIds : R = RunningOn(y)
    BY <2>2
  <2>4. SumFunctionOnSet(f, R \ {a}) = SumFunctionOnSet(left, R \ {a})
    <3>1. R \ {a} \in SUBSET AttemptIds /\ \A b \in R \ {a} : f[b] = left[b]
      BY <1>4, <2>2
    <3>. QED
      BY <2>2, <3>1, AmountsSame
  <2>5. PICK s \in Nat, u \in Nat : s = SumFunctionOnSet(left, R \ {a}) /\ u = used[y]
    BY <2>2, Amounts DEF QuotaInv, QuotaTypes
  <2>6. Burden(y)' = u + s
    BY <1>3, <1>4, <2>1, <2>3, <2>4, <2>5 DEF Burden
  <2>7. a \in R => Burden(y) = u + (l + s)
    BY <1>5, <2>2, <2>3, <2>5, Amounts DEF Burden
  <2>8. a \notin R => Burden(y) = u + s
    <3>1. a \notin R => R \ {a} = R
      OBVIOUS
    <3>. QED
      BY <2>3, <2>5, <3>1 DEF Burden
  <2>9. y = x => a \in R
    BY <1>1, <1>2, <2>3 DEF RunningOn
  <2>10. u + s <= u + (l + s) /\ u + (l + s) = (u + s) + l
    OBVIOUS
  <2>. QED
    BY <2>6, <2>7, <2>8, <2>9, <2>10
<1>12. ASSUME NEW y \in Accounts, NEW at \in Nat, at < now
       PROVE  Balanced(y, at)
  <2>1. PICK C \in SUBSET AttemptIds : C = Charged(y, at)
    BY SumsTyped DEF QuotaInv
  <2>2. PICK n \in Nat, m \in Nat, k \in Nat :
          /\ n = SumFunctionOnSet(estimate, C) /\ m = Burden(y) /\ k = Burden(y)'
          /\ k <= m
    <3>1. Burden(y)' \in Nat
      BY <1>6, <1>7, SumsTypedNext
    <3>2. SumFunctionOnSet(estimate, C) \in Nat /\ Burden(y) \in Nat
      BY <2>1, SumsTyped DEF QuotaInv
    <3>. QED
      BY <1>11, <3>1, <3>2
  <2>3. CASE outcome # "launch_failed" \/ y # x
    <3>1. Charged(y, at)' = C
      BY <1>1, <1>2, <1>8, <1>9, <1>12, <2>1, <2>3 DEF Charged, IsActive
    <3>2. SumFunctionOnSet(estimate, Charged(y, at))' = n
      BY <1>3, <2>2, <3>1
    <3>. QED
      BY <2>1, <2>2, <3>2 DEF Balanced
  <2>4. CASE outcome = "launch_failed" /\ y = x
    <3>1. a \in C /\ Charged(y, at)' = C \ {a}
      BY <1>1, <1>2, <1>8, <1>9, <2>1, <2>4 DEF Charged, IsActive
    <3>2. PICK r \in Nat : r = SumFunctionOnSet(estimate, C \ {a}) /\ n = e + r
      BY <1>5, <2>2, <3>1, Amounts DEF QuotaInv, QuotaTypes
    <3>3. SumFunctionOnSet(estimate, Charged(y, at))' = r
      BY <1>3, <3>1, <3>2
    <3>4. m = k + l /\ l = e
      BY <1>3, <1>5, <1>11, <2>2, <2>4
    <3>. QED
      BY <2>1, <2>2, <3>2, <3>3, <3>4 DEF Balanced
  <2>. QED
    BY <2>3, <2>4
<1>13. \A report \in reports' : Balanced(Owner(report), report.at)
  BY <1>3, <1>12, OwnerIsAccount DEF QuotaInv, ReportRight
<1>14. ASSUME NEW y \in Accounts PROVE Costly(y)' => Costly(y)
  BY <1>8, <1>9 DEF Costly, RunningOn, IsActive
<1>15. \A y \in Accounts : Costly(y)' => Burden(y)' <= Full - Reserve
  BY <1>6, <1>7, <1>11, <1>14, BudgetKept
<1>. QED
  BY <1>3, <1>6, <1>7, <1>10, <1>13, <1>15, StepInv

-----------------------------------------------------------------------------
(* Admission.                                                                 *)

\* What admit() holds against a report is worth the estimates charged to it.
LEMMA HeldIsEnough ==
  ASSUME TypeOK, QuotaTypes, RowsCover, NEW report, ReportRight(report)
  PROVE  LET H == HeldAgainst(attempts, <<report.provider, report.o.quota>>, report.at) IN
         /\ Points(attempts, H) \in Nat
         /\ SumFunctionOnSet(estimate, Charged(Owner(report), report.at))
              <= Grain * Points(attempts, H)
<1>1. PICK D \in SUBSET AttemptIds : D = DOMAIN attempts
  BY DEF TypeOK
<1>2. PICK H : H = HeldAgainst(attempts, <<report.provider, report.o.quota>>, report.at)
  OBVIOUS
<1>3. PICK C : C = Charged(Owner(report), report.at)
  OBVIOUS
<1>4. H \in SUBSET D /\ C \in SUBSET H
  BY <1>1, <1>2, <1>3, ChargedIsHeld DEF HeldAgainst
<1>5. PICK w : w = [a \in DOMAIN attempts |-> attempts[a].points]
  OBVIOUS
<1>6. PICK v : v = [a \in DOMAIN attempts |-> estimate[a]]
  OBVIOUS
<1>7. IsFiniteSet(D) /\ IsFiniteSet(AttemptIds) /\ Grain \in Nat
  BY <1>1, InputAssumption, PointAssumption, FS_Subset
<1>8. w \in [D -> Int] /\ v \in [D -> Int] /\ \A a \in D : v[a] >= 0 /\ w[a] >= 0
  <2>1. \A a \in D : attempts[a].points \in Nat /\ estimate[a] \in Nat
    BY <1>1 DEF TypeOK, Row, QuotaTypes
  <2>. QED
    BY <1>1, <1>5, <1>6, <2>1
<1>9. \A a \in D : v[a] <= Grain * w[a]
  BY <1>1, <1>5, <1>6 DEF RowsCover
<1>10. SumFunctionOnSet(estimate, C) = SumFunctionOnSet(v, C)
  <2>1. C \in SUBSET (AttemptIds \cap D) /\ estimate \in [AttemptIds -> Int]
    BY <1>1, <1>4 DEF QuotaTypes
  <2>2. \A a \in C : estimate[a] = v[a]
    BY <1>1, <1>4, <1>6
  <2>. QED
    BY <1>7, <1>8, <2>1, <2>2, SumSame
<1>11. SumFunctionOnSet(v, C) <= SumFunctionOnSet(v, H)
  <2>1. (\A a \in C : v[a] <= v[a]) /\ \A a \in H \ C : v[a] >= 0
    BY <1>4, <1>8
  <2>. QED
    BY <1>4, <1>7, <1>8, <2>1, SumGrows
<1>12. SumFunctionOnSet(v, H) <= Grain * SumFunctionOnSet(w, H)
  <2>1. \A a \in H : v[a] <= Grain * w[a]
    BY <1>4, <1>9
  <2>. QED
    BY <1>4, <1>7, <1>8, <2>1, SumScaled
<1>13. PICK p \in Nat, q \in Int, n \in Int :
         /\ p = SumFunctionOnSet(w, H) /\ q = SumFunctionOnSet(v, H)
         /\ n = SumFunctionOnSet(v, C)
  <2>1. C \in SUBSET D
    BY <1>4
  <2>2. /\ SumFunctionOnSet(w, H) \in Int /\ SumFunctionOnSet(v, H) \in Int
        /\ SumFunctionOnSet(w, {}) = 0
    BY <1>4, <1>7, <1>8, SumFacts
  <2>3. SumFunctionOnSet(v, C) \in Int
    BY <1>7, <1>8, <2>1, SumFacts
  <2>4. SumFunctionOnSet(w, {}) <= SumFunctionOnSet(w, H)
    <3>1. {} \in SUBSET H /\ (\A a \in {} : w[a] <= w[a]) /\ \A a \in H \ {} : w[a] >= 0
      BY <1>4, <1>8
    <3>. QED
      BY <1>4, <1>7, <1>8, <3>1, SumGrows
  <2>. QED
    BY <2>2, <2>3, <2>4
<1>14. Points(attempts, H) = p /\ SumFunctionOnSet(estimate, C) = n
  BY <1>5, <1>10, <1>13 DEF Points
<1>15. n <= Grain * p
  <2>1. PICK k \in Int : k = Grain * p
    BY <1>7
  <2>. QED
    BY <1>11, <1>12, <1>13, <2>1
<1>. QED
  BY <1>2, <1>3, <1>14, <1>15

\* A capacity that leaves room for something is what the reading leaves.
LEMMA CapacityBound ==
  ASSUME NEW percent \in 0 .. Full, NEW reading, reading.percent = percent,
         NEW u \in Nat, u > 0, NEW n \in Nat, n + u <= Capacity(reading)
  PROVE  Grain * (n + u) <= Full - percent - Reserve
<1>1. Full - percent \in Nat /\ Reserve \in Nat /\ Grain \in Nat /\ Full \in Nat
  BY PointAssumption
<1>2. PICK d \in Nat, e \in Nat, room \in Nat :
        /\ d = UnitsDown(Full - percent) /\ e = UnitsUp(Reserve) /\ room = Full - percent
        /\ Grain * d <= room /\ Reserve <= Grain * e
  BY <1>1, UnitsBound
<1>3. PICK z \in Int : z = d - e
  OBVIOUS
<1>4. Capacity(reading) = Max({0, z})
  BY <1>2, <1>3 DEF Capacity
<1>5. Max({0, z}) \in {0, z}
  <2>1. \E x \in {0, z} : \A y \in {0, z} : x >= y
    BY <1>3
  <2>. QED
    BY <2>1 DEF Max
<1>6. n + u <= z
  BY <1>3, <1>4, <1>5
<1>7. Grain * (n + u) <= room - Reserve
  <2>1. Grain * (n + u) <= Grain * z
    <3>1. PICK m \in Int : m = n + u /\ m <= z
      BY <1>6
    <3>2. PICK k \in Nat : z = m + k
      <4>1. z - m \in Nat /\ z = m + (z - m)
        BY <3>1
      <4>. QED
        BY <4>1
    <3>3. Grain * (m + k) = Grain * m + Grain * k /\ Grain * k \in Nat
      BY <1>1
    <3>4. PICK s \in Int : s = Grain * m
      BY <1>1
    <3>. QED
      BY <3>1, <3>2, <3>3, <3>4
  <2>2. Grain * z = Grain * d - Grain * e
    BY <1>1, <1>3
  <2>3. PICK s \in Int, t \in Int, v \in Int :
          s = Grain * (n + u) /\ t = Grain * d /\ v = Grain * e
    BY <1>1
  <2>. QED
    BY <1>1, <1>2, <2>1, <2>2, <2>3
<1>. QED
  BY <1>2, <1>7

\* What a new attempt adds to the amounts, and where.
Added(a, x, cost) ==
  /\ a \in AttemptIds /\ a \notin DOMAIN attempts
  /\ left' = [left EXCEPT ![a] = cost] /\ estimate' = [estimate EXCEPT ![a] = cost]
  /\ RunningOn(x)' = RunningOn(x) \cup {a}
  /\ \A at : Charged(x, at)' = Charged(x, at) \cup {a}
  /\ \A y \in Accounts \ {x} :
       RunningOn(y)' = RunningOn(y) /\ \A at : Charged(y, at)' = Charged(y, at)
  /\ UNCHANGED used

\* A sum with one more term.
LEMMA OneMore ==
  ASSUME NEW f \in [AttemptIds -> Nat], NEW S \in SUBSET AttemptIds,
         NEW a \in AttemptIds, a \notin S, NEW g \in [AttemptIds -> Nat],
         \A b \in S : g[b] = f[b]
  PROVE  /\ SumFunctionOnSet(g, S) = SumFunctionOnSet(f, S)
         /\ SumFunctionOnSet(g, S \cup {a}) = SumFunctionOnSet(f, S) + g[a]
<1>1. SumFunctionOnSet(g, S) = SumFunctionOnSet(f, S)
  <2>1. \A b \in S : f[b] = g[b]
    OBVIOUS
  <2>. QED
    BY <2>1, AmountsSame
<1>2. PICK T : T = S \cup {a}
  OBVIOUS
<1>3. T \in SUBSET AttemptIds /\ a \in T
  BY <1>2
<1>4. T \ {a} = S
  BY <1>2
<1>5. SumFunctionOnSet(g, T) = g[a] + SumFunctionOnSet(g, T \ {a})
  BY <1>3, Amounts
<1>6. PICK s \in Nat, n \in Nat : s = SumFunctionOnSet(f, S) /\ n = g[a]
  BY Amounts
<1>7. n + s = s + n
  OBVIOUS
<1>. QED
  BY <1>1, <1>2, <1>4, <1>5, <1>6, <1>7

LEMMA AddedAmounts ==
  ASSUME TypeOK, QuotaTypes, NEW a, NEW x \in Accounts, NEW cost \in Nat, Added(a, x, cost)
  PROVE  /\ Burden(x)' = Burden(x) + cost
         /\ \A y \in Accounts : /\ y # x => Burden(y)' = Burden(y)
                                /\ \A at : Balanced(y, at)
<1>1. /\ a \in AttemptIds /\ a \notin DOMAIN attempts /\ used' = used
      /\ left \in [AttemptIds -> Nat] /\ estimate \in [AttemptIds -> Nat]
  BY DEF Added, QuotaTypes
<1>2. PICK f : f = [left EXCEPT ![a] = cost]
  OBVIOUS
<1>3. PICK g : g = [estimate EXCEPT ![a] = cost]
  OBVIOUS
<1>4. left' = f /\ estimate' = g
  BY <1>2, <1>3 DEF Added
<1>5. ASSUME NEW y \in Accounts
      PROVE  /\ y = x => Burden(y)' = Burden(y) + cost
             /\ y # x => Burden(y)' = Burden(y)
  <2>1. PICK R \in SUBSET AttemptIds : R = RunningOn(y) /\ a \notin R
    BY <1>1, SumsTyped DEF RunningOn
  <2>2. /\ SumFunctionOnSet(f, R) = SumFunctionOnSet(left, R)
        /\ SumFunctionOnSet(f, R \cup {a}) = SumFunctionOnSet(left, R) + cost
    <3>1. f \in [AttemptIds -> Nat] /\ f[a] = cost /\ \A b \in R : f[b] = left[b]
      BY <1>1, <1>2, <2>1
    <3>. QED
      BY <1>1, <2>1, <3>1, OneMore
  <2>3. PICK s \in Nat, u \in Nat : s = SumFunctionOnSet(left, R) /\ u = used[y]
    BY <1>1, <2>1, Amounts DEF QuotaTypes
  <2>4. Burden(y) = u + s
    BY <2>1, <2>3 DEF Burden
  <2>5. y = x => Burden(y)' = u + (s + cost)
    <3>1. y = x => RunningOn(y)' = R \cup {a}
      BY <2>1 DEF Added
    <3>. QED
      BY <1>1, <1>4, <2>2, <2>3, <3>1 DEF Burden
  <2>6. y # x => Burden(y)' = u + s
    <3>1. y # x => RunningOn(y)' = R
      BY <2>1 DEF Added
    <3>. QED
      BY <1>1, <1>4, <2>2, <2>3, <3>1 DEF Burden
  <2>7. u + (s + cost) = (u + s) + cost
    OBVIOUS
  <2>. QED
    BY <2>4, <2>5, <2>6, <2>7
<1>6. ASSUME NEW y \in Accounts, NEW at
      PROVE  Balanced(y, at)
  <2>1. PICK C \in SUBSET AttemptIds : C = Charged(y, at) /\ a \notin C
    BY <1>1, SumsTyped DEF Charged
  <2>2. /\ SumFunctionOnSet(g, C) = SumFunctionOnSet(estimate, C)
        /\ SumFunctionOnSet(g, C \cup {a}) = SumFunctionOnSet(estimate, C) + cost
    <3>1. g \in [AttemptIds -> Nat] /\ g[a] = cost /\ \A b \in C : g[b] = estimate[b]
      BY <1>1, <1>3, <2>1
    <3>. QED
      BY <1>1, <2>1, <3>1, OneMore
  <2>3. PICK n \in Nat, m \in Nat : n = SumFunctionOnSet(estimate, C) /\ m = Burden(y)
    BY <1>1, <2>1, Amounts, SumsTyped
  <2>4. y = x => SumFunctionOnSet(estimate, Charged(y, at))' = n + cost
    <3>1. y = x => Charged(y, at)' = C \cup {a}
      BY <2>1 DEF Added
    <3>. QED
      BY <1>4, <2>2, <2>3, <3>1
  <2>5. y # x => SumFunctionOnSet(estimate, Charged(y, at))' = n
    <3>1. y # x => Charged(y, at)' = C
      BY <2>1 DEF Added
    <3>. QED
      BY <1>4, <2>2, <2>3, <3>1
  <2>6. (m + cost) + n <= m + (n + cost) /\ m + n <= m + n
    OBVIOUS
  <2>. QED
    BY <1>5, <2>1, <2>3, <2>4, <2>5, <2>6 DEF Balanced
<1>. QED
  BY <1>5, <1>6

LEMMA NewAttemptInv ==
  ASSUME QuotaInv, NEW report \in reports, NEW r \in RequestKeys, NEW i \in Intents,
         NEW cost \in Costs, AdmitReported(report, r, i, cost), NEW a \in AttemptIds,
         AdmitNew(a, r, i, report.provider, report.o, report.at, NoLoad, cost)
  PROVE  QuotaInv'
<1> DEFINE p == report.provider
           o == report.o
           at == report.at
           H == HeldAgainst(attempts, <<p, o.quota>>, at)
<1>1. /\ TypeOK /\ QuotaTypes /\ RowsCover /\ ReportRight(report) /\ Covered(report)
      /\ p \in Providers /\ IsObservation(o) /\ at \in Nat
  BY DEF QuotaInv, ReportRight
<1>2. PICK x \in Accounts : x = Owner(report)
  BY <1>1, OwnerIsAccount
<1>3. cost \in Nat /\ UnitsUp(cost) \in Nat /\ cost <= Grain * UnitsUp(cost)
  BY UnitsBound, PointAssumption
<1>4. /\ a \in AttemptIds /\ a \notin DOMAIN attempts
      /\ DOMAIN attempts' = DOMAIN attempts \cup {a}
      /\ attempts'[a] = NewRow(r, i, p, o, cost)
      /\ \A b \in DOMAIN attempts : attempts'[b] = Swept(attempts)[b]
      /\ Admissible(<<p, o.quota>>, o, at, NoLoad, cost)
      /\ at <= now
  BY DEF AdmitNew, Considered, Current
<1>5. TypeOK'
  <2>1. at \in 0 .. now
    BY <1>1, <1>4 DEF TypeOK
  <2>2. Admit(r, i, p, o, at, NoLoad, cost)
    BY DEF AdmitReported
  <2>. QED
    BY <1>1, <2>1, <2>2, AdmitTyped
<1>6. /\ left' = [left EXCEPT ![a] = cost] /\ estimate' = [estimate EXCEPT ![a] = cost]
      /\ used' = used /\ pending' = pending /\ reports' \subseteq reports
  <2>1. \A b \in AttemptIds : b \in DOMAIN attempts' \ DOMAIN attempts <=> b = a
    BY <1>4
  <2>. QED
    BY <1>1, <2>1 DEF AdmitReported, QuotaTypes
<1>7. QuotaTypes'
  <2>1. left' \in [AttemptIds -> Nat] /\ estimate' \in [AttemptIds -> Nat]
    BY <1>1, <1>3, <1>6 DEF QuotaTypes
  <2>. QED
    BY <1>1, <1>6, <2>1 DEF QuotaTypes
<1>8. /\ attempts'[a].state = "admitted" /\ attempts'[a].quota = o.quota
      /\ attempts'[a].points = UnitsUp(cost) /\ AccountBehind(attempts', a) = x
  BY <1>2, <1>4 DEF NewRow, AccountBehind, Owner
<1>9. \A b \in DOMAIN attempts :
        /\ AccountBehind(attempts', b) = AccountBehind(attempts, b)
        /\ attempts'[b].quota = attempts[b].quota
        /\ attempts'[b].points = attempts[b].points
        /\ attempts'[b].settled = attempts[b].settled
        /\ IsActive(attempts', b) <=> IsActive(attempts, b)
        /\ attempts'[b].state = "launch_failed" <=> attempts[b].state = "launch_failed"
  BY <1>1, <1>4, SweptRow DEF AccountBehind, IsActive
<1>10. RowsCover'
  <2>1. ASSUME NEW b \in DOMAIN attempts
        PROVE  /\ attempts'[b].quota \in {AccountBehind(attempts', b), Unattributed}
               /\ estimate'[b] <= Grain * attempts'[b].points
               /\ left'[b] <= estimate'[b]
    <3>1. b # a /\ b \in AttemptIds
      BY <1>1, <1>4 DEF TypeOK
    <3>2. estimate'[b] = estimate[b] /\ left'[b] = left[b]
      BY <1>1, <1>6, <3>1 DEF QuotaTypes
    <3>. QED
      BY <1>1, <1>9, <3>2 DEF RowsCover
  <2>2. estimate'[a] = cost /\ left'[a] = cost
    BY <1>1, <1>6 DEF QuotaTypes
  <2>3. attempts'[a].quota \in {AccountBehind(attempts', a), Unattributed}
    BY <1>1, <1>2, <1>8 DEF ReportRight
  <2>4. estimate'[a] <= Grain * attempts'[a].points /\ left'[a] <= estimate'[a]
    BY <1>3, <1>8, <2>2
  <2>. QED
    BY <1>4, <2>1, <2>3, <2>4 DEF RowsCover
<1>11. Added(a, x, cost)
  <2>1. IsActive(attempts', a)
    BY <1>8 DEF IsActive, Active
  <2>2. \A y : /\ RunningOn(y)' = {b \in DOMAIN attempts' : /\ IsActive(attempts', b)
                                                            /\ AccountBehind(attempts', b) = y}
               /\ RunningOn(y) = {b \in DOMAIN attempts : /\ IsActive(attempts, b)
                                                          /\ AccountBehind(attempts, b) = y}
    BY DEF RunningOn
  <2>3. /\ RunningOn(x)' = RunningOn(x) \cup {a}
        /\ \A y : y # x => RunningOn(y)' = RunningOn(y)
    BY <1>4, <1>8, <1>9, <2>1, <2>2
  <2>4. ASSUME NEW t
        PROVE  /\ Charged(x, t)' = Charged(x, t) \cup {a}
               /\ \A y : y # x => Charged(y, t)' = Charged(y, t)
    BY <1>4, <1>8, <1>9, <2>1 DEF Charged
  <2>. QED
    BY <1>4, <1>6, <2>3, <2>4 DEF Added
<1>12. /\ Burden(x)' = Burden(x) + cost
       /\ \A y \in Accounts : y # x => Burden(y)' = Burden(y)
       /\ \A y \in Accounts : \A t : Balanced(y, t)
  BY <1>1, <1>3, <1>11, AddedAmounts
<1>13. \A other \in reports' : Balanced(Owner(other), other.at)
  BY <1>6, <1>12, OwnerIsAccount DEF QuotaInv
<1>14. ASSUME NEW y \in Accounts, y # x \/ UnitsUp(cost) = 0
       PROVE  Costly(y)' => Burden(y)' <= Full - Reserve
  <2>1. RunningOn(y)' \subseteq RunningOn(y) \cup {b \in {a} : y = x}
    BY <1>11 DEF Added
  <2>2. Costly(y)' => Costly(y)
    BY <1>4, <1>8, <1>9, <1>14, <2>1 DEF Costly, RunningOn
  <2>3. UnitsUp(cost) = 0 => cost = 0
    BY <1>3, PointAssumption
  <2>4. Burden(y) \in Nat
    BY <1>1, SumsTyped
  <2>5. Burden(y)' <= Burden(y)
    BY <1>12, <1>14, <2>3, <2>4
  <2>. QED
    BY <1>5, <1>7, <2>2, <2>5, BudgetKept
<1>15. ASSUME UnitsUp(cost) > 0
       PROVE  Burden(x)' <= Full - Reserve
  <2>1. PICK b \in DOMAIN o.buckets : Usable(o.buckets[b])
    BY <1>4 DEF Admissible, BucketsWhere
  <2>2. PICK percent \in 0 .. Full : percent = o.buckets[b].percent
    BY <2>1, PointAssumption DEF Usable, Bounded
  <2>3. PICK n \in Nat : n = Points(attempts, H)
    BY <1>1, HeldIsEnough
  <2>4. SumFunctionOnSet(estimate, Charged(x, at)) <= Grain * n
    BY <1>1, <1>2, <2>3, HeldIsEnough
  <2>5. n + UnitsUp(cost) <= Capacity(o.buckets[b])
    <3>1. UnitsUp(NoLoad.points) = 0
      BY UnitsBound DEF NoLoad
    <3>2. Spent(attempts, <<p, o.quota>>, at, NoLoad) = n
      BY <2>3, <3>1 DEF Spent
    <3>. QED
      BY <1>4, <2>1, <3>2 DEF Admissible, HasPoints
  <2>6. Grain * (n + UnitsUp(cost)) <= Full - percent - Reserve
    BY <1>3, <1>15, <2>2, <2>3, <2>5, CapacityBound
  <2>7. PICK e \in Nat, m \in Nat :
          e = SumFunctionOnSet(estimate, Charged(x, at)) /\ m = Burden(x)
    BY <1>1, SumsTyped
  <2>8. m <= percent + e
    BY <1>1, <1>2, <2>1, <2>2, <2>7 DEF Covered
  <2>9. PICK s \in Int, t \in Int : s = Grain * n /\ t = Grain * UnitsUp(cost)
    BY <1>3, PointAssumption
  <2>10. Grain * (n + UnitsUp(cost)) = s + t
    BY <1>3, <2>9, PointAssumption
  <2>11. s + t <= Full - percent - Reserve /\ e <= s /\ cost <= t
    BY <1>3, <2>4, <2>6, <2>7, <2>9, <2>10
  <2>12. Full \in Nat /\ Reserve \in Nat
    BY PointAssumption
  <2>. QED
    BY <1>3, <1>12, <2>7, <2>8, <2>11, <2>12
<1>16. UnitsUp(cost) = 0 \/ UnitsUp(cost) > 0
  BY <1>3
<1>17. \A y \in Accounts : Costly(y)' => Burden(y)' <= Full - Reserve
  BY <1>14, <1>15, <1>16
<1>. QED
  BY <1>1, <1>5, <1>6, <1>7, <1>10, <1>13, <1>17, StepInv DEF QuotaInv

LEMMA AdmitReportedInv ==
  ASSUME QuotaInv, NEW report \in reports, NEW r \in RequestKeys, NEW i \in Intents,
         NEW cost \in Costs, AdmitReported(report, r, i, cost)
  PROVE  QuotaInv'
<1> DEFINE p == report.provider
           o == report.o
           at == report.at
<1>1. /\ TypeOK /\ QuotaTypes /\ p \in Providers /\ IsObservation(o) /\ at \in Nat
  BY DEF QuotaInv, ReportRight
<1>2. Admit(r, i, p, o, at, NoLoad, cost)
  BY DEF AdmitReported
<1>3. CASE \E a \in AttemptIds : AdmitNew(a, r, i, p, o, at, NoLoad, cost)
  BY <1>3, NewAttemptInv
<1>4. CASE AdmitEarly(r, i, p, o, at) \/ AdmitWait(r, i, p, o, at, NoLoad, cost)
  <2>1. attempts' = Swept(attempts) /\ now' = now
    BY <1>4 DEF AdmitEarly, AdmitWait
  <2>2. HoldsSame
    BY <1>1, <2>1, SweptHolds
  <2>3. TypeOK'
    <3>1. Refreshed(denials[<<p, o.quota>>], o, at) \in SUBSET Denial
      BY <1>1, RefreshedTyped
    <3>2. [denials EXCEPT ![<<p, o.quota>>] = Refreshed(@, o, at)] \in [Refs -> SUBSET Denial]
      BY <1>1, <3>1 DEF TypeOK
    <3>. QED
      BY <1>1, <1>4, <2>1, <3>2, SweptTyped DEF AdmitEarly, AdmitWait, TypeOK
  <2>4. UNCHANGED <<estimate, left>>
    <3>1. DOMAIN attempts' \ DOMAIN attempts = {}
      BY <2>2 DEF HoldsSame
    <3>. QED
      BY <1>1, <3>1 DEF AdmitReported, QuotaTypes
  <2>5. used' = used /\ pending' = pending /\ reports' \subseteq reports
    BY DEF AdmitReported
  <2>6. /\ used' \in [Accounts -> Nat]
        /\ \A x \in Accounts : used'[x] <= used[x]
        /\ \A probe \in pending' : /\ probe.provider \in Providers
                                   /\ probe.context \in Contexts /\ probe.at \in Nat
    BY <1>1, <2>5 DEF QuotaTypes
  <2>. QED
    BY <2>2, <2>3, <2>4, <2>5, <2>6, QuietInv
<1>. QED
  BY <1>2, <1>3, <1>4 DEF Admit

-----------------------------------------------------------------------------
(* The invariant.                                                             *)

LEMMA ClaimLaunchInv ==
  ASSUME QuotaInv, NEW a \in AttemptIds, ClaimLaunch(a)
  PROVE  QuotaInv'
<1>1. /\ TypeOK /\ a \in DOMAIN attempts /\ attempts[a] \in Row
      /\ attempts[a].state = "admitted"
      /\ attempts' = [attempts EXCEPT ![a] = [attempts[a] EXCEPT !.state = "launching"]]
      /\ UNCHANGED environment
  BY DEF QuotaInv, TypeOK, ClaimLaunch, Claim, Record, Put
<1>2. TypeOK'
  <2>1. <<a, "claim">> \in EventIds /\ Event(a, <<a, "claim">>)
    BY AccountAssumption DEF ClaimLaunch, Event
  <2>. QED
    BY <1>1, <2>1, EventTyped
<1>3. HoldsSame
  BY <1>1 DEF HoldsSame, TypeOK, Row, IsActive, Active
<1>4. /\ UNCHANGED <<estimate, left, used, pending, reports>>
  BY <1>1 DEF environment
<1>. QED
  BY <1>2, <1>3, <1>4, QuietInv DEF QuotaInv, QuotaTypes

\* Steps of probes, providers, logins and the clock.
LEMMA QuietStepInv ==
  ASSUME QuotaInv, UNCHANGED <<attempts, estimate, left, reports>>, TypeOK',
         \/ UNCHANGED used
         \/ \E x \in Accounts : ResetWindow(x),
         \/ UNCHANGED pending
         \/ \E p \in Providers : ProbeBegin(p)
  PROVE  QuotaInv'
<1>1. HoldsSame
  BY DEF HoldsSame, IsActive
<1>2. used \in [Accounts -> Nat]
  BY DEF QuotaInv, QuotaTypes
<1>3. used' \in [Accounts -> Nat] /\ \A x \in Accounts : used'[x] <= used[x]
  BY <1>2 DEF ResetWindow
<1>4. \A probe \in pending' : /\ probe.provider \in Providers
                              /\ probe.context \in Contexts /\ probe.at \in Nat
  BY DEF QuotaInv, QuotaTypes, TypeOK, ProbeBegin
<1>. QED
  BY <1>1, <1>3, <1>4, QuietInv

LEMMA QuotaNextInv ==
  ASSUME QuotaInv, [QuotaNext]_allVars
  PROVE  QuotaInv'
<1>. TypeOK
  BY DEF QuotaInv
<1>1. CASE \E p \in Providers : ProbeBegin(p)
  BY <1>1, QuietStepInv DEF ProbeBegin, vars, TypeOK
<1>2. CASE \E probe \in pending : ProbeRead(probe)
  BY <1>2, ProbeReadInv
<1>3. CASE \E report \in reports, r \in RequestKeys, i \in Intents, cost \in Costs :
             AdmitReported(report, r, i, cost)
  BY <1>3, AdmitReportedInv
<1>4. CASE \E a \in AttemptIds : ClaimLaunch(a) \/ Burn(a)
  BY <1>4, ClaimLaunchInv, BurnInv
<1>5. CASE \E a \in AttemptIds, outcome \in Endings : SettleRun(a, outcome)
  BY <1>5, SettleRunInv
<1>6. CASE \E x \in Accounts : Refuse(x) \/ Relent(x) \/ ResetWindow(x)
  <2>1. UNCHANGED vars /\ UNCHANGED <<estimate, left, reports, pending>>
    BY <1>6 DEF Refuse, Relent, ResetWindow
  <2>2. UNCHANGED used \/ \E x \in Accounts : ResetWindow(x)
    BY <1>6 DEF Refuse, Relent
  <2>3. TypeOK' /\ UNCHANGED attempts
    BY <2>1 DEF vars, TypeOK
  <2>. QED
    BY <2>1, <2>2, <2>3, QuietStepInv
<1>7. CASE \E p \in Providers, c \in Contexts :
             SwitchAccount(p, c) /\ UNCHANGED environment
  BY <1>7, QuietStepInv DEF SwitchAccount, environment, TypeOK
<1>8. CASE Tick /\ UNCHANGED environment
  BY <1>8, QuietStepInv DEF Tick, environment, TypeOK
<1>9. CASE UNCHANGED allVars
  BY <1>9, QuietStepInv DEF allVars, vars, environment, TypeOK
<1>. QED
  BY <1>1, <1>2, <1>3, <1>4, <1>5, <1>6, <1>7, <1>8, <1>9 DEF QuotaNext

(* Every unused report stays a bound on what the account has used and may     *)
(* still use, whatever burns, settles, is admitted or is reset meanwhile.     *)
THEOREM QuotaInvariant == QuotaSpec => []QuotaInv
<1>1. QuotaInit => QuotaInv
  <2> SUFFICES ASSUME QuotaInit PROVE QuotaInv
    OBVIOUS
  <2>1. TypeOK
    BY DEF QuotaInit, Init, TypeOK
  <2>2. attempts = [a \in {} |-> {}] /\ pending = {} /\ reports = {}
    BY DEF QuotaInit, Init
  <2>3. QuotaTypes
    BY <2>2 DEF QuotaInit, QuotaTypes
  <2>4. RowsCover /\ NoOverspend
    BY <2>2 DEF RowsCover, NoOverspend, RunningOn
  <2>. QED
    BY <2>1, <2>2, <2>3, <2>4 DEF QuotaInv
<1>. QED
  BY <1>1, QuotaNextInv, PTL DEF QuotaSpec

(* However stale the snapshots of concurrent coordinators are, admissions     *)
(* never commit an account past its reserve (the point budget of admit()).    *)
THEOREM BudgetNeverOverspent == QuotaSpec => []NoOverspend
<1>1. QuotaInv => NoOverspend
  BY DEF QuotaInv
<1>. QED
  BY <1>1, QuotaInvariant, PTL

=============================================================================
