------------------------ MODULE ManagedLedger_proofs ------------------------
(* Theorems about the ledger, for every value of its constants.             *)
EXTENDS LedgerLease, FiniteSetTheorems, TLAPS

(* The functions an action stores are typed. *)

LEMMA UnitsNat ==
  ASSUME NEW x \in Nat
  PROVE  UnitsUp(x) \in Nat
<1>1. Grain \in Nat /\ Grain > 0
  BY PointAssumption
<1>2. x + Grain - 1 \in Nat
  BY <1>1
<1>3. ASSUME NEW y \in Nat, NEW g \in Nat, g > 0 PROVE y \div g \in Nat
  BY <1>3, SMT
<1>. QED
  BY <1>1, <1>2, <1>3 DEF UnitsUp

LEMMA SweptTyped ==
  ASSUME TypeOK
  PROVE  /\ DOMAIN Swept(attempts) = DOMAIN attempts
         /\ Swept(attempts) \in [DOMAIN attempts -> Row]
BY DEF Swept, Overdue, TypeOK, Row, Active, Terminal

LEMMA RefreshedTyped ==
  ASSUME TypeOK, NEW p \in Providers, NEW o, IsObservation(o), NEW at \in Nat
  PROVE  Refreshed(denials[<<p, o.quota>>], o, at) \in SUBSET Denial
<1>1. <<p, o.quota>> \in Refs
  BY DEF IsObservation, Refs, Quotas
<1>2. denials[<<p, o.quota>>] \subseteq Denial
  BY <1>1 DEF TypeOK
<1>3. Denied(o) \subseteq DenialIds
  BY DEF Denied, BucketsWhere, DenialIds, IsObservation
<1>4. [id : Denied(o), at : {at}, context : {o.context}] \subseteq Denial
  BY <1>3 DEF Denial, IsObservation
<1>. QED
  BY <1>2, <1>4 DEF Refreshed

LEMMA NewRowTyped ==
  ASSUME TypeOK, NEW r \in RequestKeys, NEW i \in Intents, NEW p \in Providers,
         NEW o, IsObservation(o), NEW cost \in Costs
  PROVE  NewRow(r, i, p, o, cost) \in Row
<1>1. UnitsUp(cost) \in Nat
  BY UnitsNat, PointAssumption
<1>2. o.quota \in Quotas /\ o.context \in Contexts
  BY DEF IsObservation, Quotas
<1>3. now + Lease \in Nat
  BY LimitAssumption DEF TypeOK
<1>. QED
  BY <1>1, <1>2, <1>3 DEF NewRow, Row, Active

(* What a lifecycle event stores. *)
LEMMA EventTyped ==
  ASSUME TypeOK, NEW a \in AttemptIds, NEW e \in EventIds, Event(a, e)
  PROVE  TypeOK'
<1>1. /\ a \in DOMAIN attempts
      /\ attempts[a] \in Row
      /\ events' \subseteq EventIds
      /\ UNCHANGED <<tasks, admissions, binding, now>>
  BY DEF Event, Prepare, Measure, Claim, Start, Produce, RequestCancel,
         Disconnect, Settle, Review, Record, TypeOK
<1>2. now \in Nat
  BY DEF TypeOK
<1>3. ASSUME NEW row \in Row, Put(a, row), UNCHANGED denials
      PROVE  TypeOK'
  BY <1>1, <1>3 DEF Put, TypeOK
<1>4. CASE Prepare(a, e)
  <2>1. [attempts[a] EXCEPT !.prepared = TRUE] \in Row
    BY <1>1 DEF Row
  <2>. QED  BY <1>3, <1>4, <2>1 DEF Prepare
<1>5. CASE Measure(a, e)
  BY <1>1, <1>5 DEF Measure, TypeOK
<1>6. CASE Claim(a, e)
  <2>1. [attempts[a] EXCEPT !.state = "launching"] \in Row
    BY <1>1 DEF Row, Active
  <2>. QED  BY <1>3, <1>6, <2>1 DEF Claim
<1>7. ASSUME NEW exact \in BOOLEAN, Start(a, e, exact)
      PROVE  TypeOK'
  <2>1. Started(attempts[a], exact) \in Row
    BY <1>1 DEF Started, StartedState, Row, Active
  <2>. QED  BY <1>3, <1>7, <2>1 DEF Start
<1>8. CASE Produce(a, e)
  <2>1. [attempts[a] EXCEPT !.state = "producing", !.output = TRUE] \in Row
    BY <1>1 DEF Row, Active
  <2>. QED  BY <1>3, <1>8, <2>1 DEF Produce
<1>9. CASE RequestCancel(a, e)
  <2>1. Cancelling(attempts[a]) \in Row
    BY <1>1, <1>2 DEF Cancelling, Row, Active, Terminal, Outcomes
  <2>. QED  BY <1>3, <1>9, <2>1 DEF RequestCancel
<1>10. CASE Disconnect(a, e)
  <2>1. [attempts[a] EXCEPT !.state = "reconciling"] \in Row
    BY <1>1 DEF Row, Active
  <2>. QED  BY <1>3, <1>10, <2>1 DEF Disconnect
<1>11. ASSUME NEW outcome \in Outcomes, Settle(a, e, outcome)
       PROVE  TypeOK'
  <2>1. [attempts[a] EXCEPT !.state = outcome, !.settled = now] \in Row
    BY <1>1, <1>2 DEF Row, Terminal
  <2>2. AccountDenial(attempts[a]) \in Denial
    BY <1>1, <1>2 DEF AccountDenial, Denial, DenialIds, Row
  <2>3. denials' \in [Refs -> SUBSET Denial]
    BY <1>11, <2>2 DEF Settle, TypeOK
  <2>. QED  BY <1>1, <1>11, <2>1, <2>3 DEF Settle, Put, TypeOK
<1>12. ASSUME NEW verdict \in Verdicts, Review(a, e, verdict)
       PROVE  TypeOK'
  <2>1. [attempts[a] EXCEPT !.state = verdict] \in Row
    BY <1>1 DEF Row, Terminal
  <2>. QED  BY <1>3, <1>12, <2>1 DEF Review
<1>. QED
  BY <1>4, <1>5, <1>6, <1>7, <1>8, <1>9, <1>10, <1>11, <1>12 DEF Event

(* What an admission stores. *)
LEMMA AdmitTyped ==
  ASSUME TypeOK, NEW r \in RequestKeys, NEW i \in Intents, NEW p \in Providers,
         NEW o, IsObservation(o), NEW at \in 0 .. now, NEW load,
         NEW cost \in Costs, Admit(r, i, p, o, at, load, cost)
  PROVE  TypeOK'
<1>1. at \in Nat
  BY DEF TypeOK
<1>2. i \in Intent
  BY InputAssumption
<1>3. Refreshed(denials[<<p, o.quota>>], o, at) \in SUBSET Denial
  BY <1>1, <1>2, RefreshedTyped
<1>4. [denials EXCEPT ![<<p, o.quota>>] = Refreshed(@, o, at)]
        \in [Refs -> SUBSET Denial]
  BY <1>3 DEF TypeOK
<1>5. CASE AdmitEarly(r, i, p, o, at)
  BY <1>5, SweptTyped DEF AdmitEarly, TypeOK
<1>6. CASE AdmitWait(r, i, p, o, at, load, cost)
  BY <1>4, <1>6, SweptTyped DEF AdmitWait, TypeOK
<1>7. ASSUME NEW a \in AttemptIds, AdmitNew(a, r, i, p, o, at, load, cost)
      PROVE  TypeOK'
  <2>1. /\ DOMAIN attempts' = DOMAIN attempts \cup {a}
        /\ attempts' \in [DOMAIN attempts \cup {a} -> Row]
    BY <1>7, SweptTyped, NewRowTyped DEF AdmitNew
  <2>2. /\ tasks' \in [DOMAIN tasks \cup {i.task} -> [spec : STRING, floor : 1..3]]
        /\ DOMAIN tasks' = DOMAIN tasks \cup {i.task}
        /\ i.task \in STRING
    BY <1>2, <1>7 DEF AdmitNew, TypeOK, Intent
  <2>. QED
    BY <1>4, <1>7, <2>1, <2>2 DEF AdmitNew, TypeOK
<1>. QED
  BY <1>5, <1>6, <1>7 DEF Admit

(* Every step leaves the tables typed. *)
LEMMA NextTypeOK ==
  ASSUME TypeOK, [Next]_vars
  PROVE  TypeOK'
<1>1. CASE \E r \in RequestKeys, i \in Intents, p \in Providers,
              o \in Observations, at \in 0 .. now, load \in Loads, cost \in Costs :
             Admit(r, i, p, o, at, load, cost)
  BY <1>1, AdmitTyped, InputAssumption
<1>2. CASE \E a \in AttemptIds, e \in EventIds : Event(a, e)
  BY <1>2, EventTyped
<1>3. ASSUME NEW a \in AttemptIds, Renew(a)
      PROVE  TypeOK'
  <2>1. now + Lease \in Nat
    BY LimitAssumption DEF TypeOK
  <2>2. [attempts[a] EXCEPT !.expires = now + Lease] \in Row
    BY <1>3, <2>1 DEF Renew, TypeOK, Row
  <2>. QED
    BY <1>3, <2>2 DEF Renew, Put, TypeOK
<1>4. CASE ReconcileExpired
  BY <1>4, SweptTyped DEF ReconcileExpired, TypeOK
<1>5. ASSUME NEW value \in {"enabled", "disabled"}, SetAdmissions(value)
      PROVE  TypeOK'
  BY <1>5 DEF SetAdmissions, TypeOK
<1>6. ASSUME NEW p \in Providers, NEW c \in Contexts, SwitchAccount(p, c)
      PROVE  TypeOK'
  BY <1>6 DEF SwitchAccount, TypeOK
<1>7. CASE Tick
  BY <1>7 DEF Tick, TypeOK
<1>8. CASE UNCHANGED vars
  BY <1>8 DEF vars, TypeOK
<1>. QED
  BY <1>1, <1>2, <1>3, <1>4, <1>5, <1>6, <1>7, <1>8 DEF Next

(* The tables always hold rows of their types, whatever the callers do. *)
THEOREM LedgerTypeOK == Spec => []TypeOK
<1>1. Init => TypeOK
  BY DEF Init, TypeOK
<1>. QED
  BY <1>1, NextTypeOK, PTL DEF Spec

-----------------------------------------------------------------------------
(* What every step does to the attempts that exist: nothing changes who they *)
(* are for, and nothing brings a released one back.                          *)

Kept(t, u, a) ==
  /\ u[a].request = t[a].request
  /\ u[a].intent = t[a].intent
  /\ u[a].provider = t[a].provider
  /\ u[a].quota = t[a].quota
  /\ u[a].context = t[a].context
  /\ u[a].points = t[a].points
  /\ IsActive(u, a) => IsActive(t, a)
  /\ ~IsActive(t, a) => u[a].settled = t[a].settled

AllKept == /\ DOMAIN attempts \subseteq DOMAIN attempts'
           /\ \A a \in DOMAIN attempts : Kept(attempts, attempts', a)

(* The ways a step can touch the attempts.                                   *)
Admission ==
  \E a \in AttemptIds, r \in RequestKeys, i \in Intents, p \in Providers,
     o \in Observations, at \in 0 .. now, load \in Loads, cost \in Costs :
    AdmitNew(a, r, i, p, o, at, load, cost)
SomeEvent == \E a \in AttemptIds, e \in EventIds : Event(a, e)
SomeRenewal == \E a \in AttemptIds : Renew(a)

LEMMA NextCases ==
  ASSUME [Next]_vars
  PROVE  \/ attempts' = Swept(attempts)
         \/ attempts' = attempts
         \/ Admission
         \/ SomeRenewal
         \/ SomeEvent
<1>1. ASSUME NEW r \in RequestKeys, NEW i \in Intents, NEW p \in Providers,
             NEW o \in Observations, NEW at \in 0 .. now, NEW load \in Loads,
             NEW cost \in Costs, Admit(r, i, p, o, at, load, cost)
      PROVE  attempts' = Swept(attempts) \/ Admission
  BY <1>1 DEF Admit, AdmitEarly, AdmitWait, Admission
<1>. QED
  BY <1>1 DEF Next, vars, SomeEvent, SomeRenewal, ReconcileExpired,
              SetAdmissions, SwitchAccount, Tick

LEMMA SweptKeeps ==
  ASSUME TypeOK, NEW a \in DOMAIN attempts
  PROVE  /\ Kept(attempts, Swept(attempts), a)
         /\ IsActive(Swept(attempts), a) <=> IsActive(attempts, a)
BY DEF Kept, IsActive, Swept, Overdue, TypeOK, Row, Active

LEMMA EventKeeps ==
  ASSUME TypeOK, NEW a \in AttemptIds, NEW e \in EventIds, Event(a, e)
  PROVE  AllKept /\ DOMAIN attempts' = DOMAIN attempts
<1>1. a \in DOMAIN attempts /\ attempts[a] \in Row
  BY DEF Event, Prepare, Measure, Claim, Start, Produce, RequestCancel,
         Disconnect, Settle, Review, Record, TypeOK
<1>2. ASSUME NEW row,
             attempts' = [attempts EXCEPT ![a] = row],
             Kept(attempts, [attempts EXCEPT ![a] = row], a)
      PROVE  AllKept /\ DOMAIN attempts' = DOMAIN attempts
  BY <1>1, <1>2 DEF AllKept, Kept, IsActive, TypeOK
<1>3. CASE Measure(a, e)
  BY <1>3 DEF Measure, AllKept, Kept
<1>4. CASE Prepare(a, e) \/ Claim(a, e) \/ Produce(a, e)
  BY <1>1, <1>2, <1>4
  DEF Prepare, Claim, Produce, Put, Kept, IsActive, Row, Active, TypeOK,
      PreparableFrom, ProducibleFrom
<1>5. ASSUME NEW exact \in BOOLEAN, Start(a, e, exact)
      PROVE  AllKept /\ DOMAIN attempts' = DOMAIN attempts
  BY <1>1, <1>2, <1>5
  DEF Start, Started, StartedState, Put, Kept, IsActive, Row, Active, TypeOK,
      StartableFrom
<1>6. CASE RequestCancel(a, e) \/ Disconnect(a, e)
  BY <1>1, <1>2, <1>6
  DEF RequestCancel, Disconnect, Cancelling, Put, Kept, IsActive, Row, TypeOK
<1>7. ASSUME NEW outcome \in Outcomes, Settle(a, e, outcome)
      PROVE  AllKept /\ DOMAIN attempts' = DOMAIN attempts
  BY <1>1, <1>2, <1>7
  DEF Settle, Confirmable, Put, Kept, IsActive, Row, TypeOK
<1>8. ASSUME NEW verdict \in Verdicts, Review(a, e, verdict)
      PROVE  AllKept /\ DOMAIN attempts' = DOMAIN attempts
  BY <1>1, <1>2, <1>8
  DEF Review, Put, Kept, IsActive, Row, TypeOK, Active, Verdicts
<1>. QED
  BY <1>3, <1>4, <1>5, <1>6, <1>7, <1>8 DEF Event

(* A step keeps every attempt, and adds one only by admission.               *)
LEMMA NextKeeps ==
  ASSUME TypeOK, [Next]_vars
  PROVE  AllKept /\ (DOMAIN attempts' = DOMAIN attempts \/ Admission)
<1>1. CASE attempts' = Swept(attempts)
  BY <1>1, SweptKeeps, SweptTyped DEF AllKept
<1>2. CASE attempts' = attempts
  BY <1>2 DEF AllKept, Kept
<1>3. CASE Admission
  <2>1. ASSUME NEW b \in DOMAIN attempts
        PROVE  attempts'[b] = Swept(attempts)[b] /\ b \in DOMAIN attempts'
    BY <1>3 DEF Admission, AdmitNew
  <2>. QED
    BY <1>3, <2>1, SweptKeeps DEF AllKept, Kept, IsActive
<1>4. CASE SomeRenewal
  BY <1>4 DEF SomeRenewal, Renew, Put, AllKept, Kept, IsActive, TypeOK, Row
<1>5. CASE SomeEvent
  BY <1>5, EventKeeps DEF SomeEvent
<1>. QED
  BY <1>1, <1>2, <1>3, <1>4, <1>5, NextCases

-----------------------------------------------------------------------------
(* The slot bound.  It is inductive given the types: a step that admits       *)
(* nothing only shrinks the set of attempts sharing a quota, and an admission *)
(* counts a superset of those it will share its quota with.                   *)

LEMMA SharingFinite ==
  ASSUME TypeOK, NEW S \in SUBSET DOMAIN attempts
  PROVE  IsFiniteSet(S) /\ Cardinality(S) \in Nat
BY InputAssumption, FS_Subset, FS_CardinalityType DEF TypeOK

LEMMA SharingShrinks ==
  ASSUME TypeOK, AllKept, NEW ref \in Refs
  PROVE  Sharing(ref)' \cap DOMAIN attempts \subseteq Sharing(ref)
BY DEF AllKept, Kept, Sharing

LEMMA AdmissionRespectsSlots ==
  ASSUME TypeOK, SlotBound, TypeOK', AllKept,
         NEW a \in AttemptIds, NEW r \in RequestKeys, NEW i \in Intents,
         NEW p \in Providers, NEW o \in Observations, NEW at \in 0 .. now,
         NEW load \in Loads, NEW cost \in Costs,
         AdmitNew(a, r, i, p, o, at, load, cost),
         NEW ref \in Refs
  PROVE  Cardinality(Sharing(ref)') <= SlotLimit[ref[1]]
<1> DEFINE mine == <<p, o.quota>>
           counted == {b \in HeldAgainst(attempts, mine, at) : IsActive(attempts, b)}
<1>1. /\ DOMAIN attempts' = DOMAIN attempts \cup {a}
      /\ a \notin DOMAIN attempts
      /\ attempts'[a].provider = p
      /\ attempts'[a].quota = o.quota
  BY DEF AdmitNew, NewRow
<1>2. Sharing(ref)' \subseteq Sharing(ref) \cup {a}
  BY <1>1, SharingShrinks DEF Sharing
<1>3. /\ Sharing(ref) \subseteq DOMAIN attempts
      /\ counted \subseteq DOMAIN attempts
  BY DEF Sharing, HeldAgainst
<1>4. /\ SlotLimit[ref[1]] \in Nat
      /\ Cardinality(Sharing(ref)) \in Nat
      /\ IsFiniteSet(Sharing(ref))
      /\ Cardinality(counted) \in Nat
      /\ IsFiniteSet(counted)
  BY <1>3, SharingFinite, LimitAssumption DEF Refs
<1>5. CASE a \notin Sharing(ref)'
  <2>1. Sharing(ref)' \subseteq Sharing(ref)
    BY <1>2, <1>5
  <2>2. /\ Cardinality(Sharing(ref)') <= Cardinality(Sharing(ref))
        /\ Cardinality(Sharing(ref)') \in Nat
    BY <1>4, <2>1, FS_Subset, FS_CardinalityType
  <2>. QED
    BY <1>4, <2>2 DEF SlotBound
<1>6. CASE a \in Sharing(ref)'
  <2>1. ref[1] = p /\ o.quota \in {ref[2], Unattributed}
    BY <1>1, <1>6 DEF Sharing
  <2>2. Sharing(ref) \subseteq counted
    BY <2>1 DEF Sharing, HeldAgainst, IsActive
  <2>3. Cardinality(counted) < SlotLimit[p]
    <3>1. Cardinality(counted) + load.slots < SlotLimit[p]
      BY DEF AdmitNew, Admissible, HasSlot, Slots
    <3>2. load.slots \in Nat
      BY InputAssumption
    <3>. QED
      BY <1>4, <2>1, <3>1, <3>2
  <2>4. Cardinality(Sharing(ref)) <= Cardinality(counted)
    BY <1>4, <2>2, FS_Subset
  <2>5. /\ IsFiniteSet(Sharing(ref) \cup {a})
        /\ Cardinality(Sharing(ref) \cup {a}) = Cardinality(Sharing(ref)) + 1
    BY <1>1, <1>3, <1>4, FS_AddElement
  <2>6. /\ Cardinality(Sharing(ref)') <= Cardinality(Sharing(ref)) + 1
        /\ Cardinality(Sharing(ref)') \in Nat
    BY <1>2, <2>5, FS_Subset, FS_CardinalityType
  <2>. QED
    BY <1>4, <2>1, <2>3, <2>4, <2>6
<1>. QED
  BY <1>5, <1>6

(* No account ever runs more attempts than its slot limit allows, counting    *)
(* every attempt that may turn out to run on it.                              *)
THEOREM LedgerSlotBound == Spec => []SlotBound
<1>1. Init => SlotBound
  <2> SUFFICES ASSUME Init, NEW ref \in Refs
               PROVE  Cardinality(Sharing(ref)) <= SlotLimit[ref[1]]
    BY DEF SlotBound
  <2>1. Sharing(ref) = {}
    BY DEF Init, Sharing
  <2>. QED
    BY <2>1, FS_EmptySet, LimitAssumption DEF Refs
<1>2. TypeOK /\ TypeOK' /\ SlotBound /\ [Next]_vars => SlotBound'
  <2> SUFFICES ASSUME TypeOK, TypeOK', SlotBound, [Next]_vars, NEW ref \in Refs
               PROVE  Cardinality(Sharing(ref)') <= SlotLimit[ref[1]]
    BY DEF SlotBound
  <2>1. AllKept
    BY NextKeeps
  <2>2. CASE DOMAIN attempts' = DOMAIN attempts
    <3>1. /\ Sharing(ref)' \subseteq Sharing(ref)
          /\ Sharing(ref) \subseteq DOMAIN attempts
      BY <2>1, <2>2, SharingShrinks DEF Sharing
    <3>2. IsFiniteSet(Sharing(ref)) /\ Cardinality(Sharing(ref)) \in Nat
      BY <3>1, SharingFinite
    <3>3. /\ Cardinality(Sharing(ref)') <= Cardinality(Sharing(ref))
          /\ Cardinality(Sharing(ref)') \in Nat
      BY <3>1, <3>2, FS_Subset, FS_CardinalityType
    <3>. QED
      BY <3>2, <3>3, LimitAssumption DEF SlotBound, Refs
  <2>3. CASE Admission
    BY <2>1, <2>3, AdmissionRespectsSlots DEF Admission
  <2>. QED
    BY <2>2, <2>3, NextKeeps
<1>. QED
  BY <1>1, <1>2, LedgerTypeOK, PTL DEF Spec

-----------------------------------------------------------------------------
(* Releases.                                                                 *)

LEMMA ReleaseIsEvent ==
  ASSUME TypeOK, [Next]_vars, NEW a \in DOMAIN attempts,
         IsActive(attempts, a), ~IsActive(attempts', a)
  PROVE  events' # events
<1>1. attempts' # Swept(attempts) /\ attempts' # attempts
  BY SweptKeeps DEF IsActive
<1>2. ~Admission
  <2> SUFFICES ASSUME NEW b \in AttemptIds, NEW r \in RequestKeys,
                      NEW i \in Intents, NEW p \in Providers,
                      NEW o \in Observations, NEW at \in 0 .. now,
                      NEW load \in Loads, NEW cost \in Costs,
                      AdmitNew(b, r, i, p, o, at, load, cost)
               PROVE  FALSE
    BY DEF Admission
  <2>1. attempts'[a] = Swept(attempts)[a]
    BY DEF AdmitNew
  <2>. QED
    BY <2>1, SweptKeeps DEF IsActive
<1>3. ~SomeRenewal
  BY DEF SomeRenewal, Renew, Put, IsActive, TypeOK, Row
<1>4. SomeEvent
  BY <1>1, <1>2, <1>3, NextCases
<1>. QED
  BY <1>4 DEF SomeEvent, Event, Prepare, Measure, Claim, Start, Produce,
              RequestCancel, Disconnect, Settle, Review, Record

(* Only a lifecycle event gives a hold back, and it is given back once.       *)
THEOREM LedgerReleasedOnce == Spec => ReleasedOnce
<1>1. TypeOK /\ [Next]_vars =>
        [\A a \in DOMAIN attempts :
           /\ a \in DOMAIN attempts'
           /\ IsActive(attempts, a) /\ ~IsActive(attempts', a) => events' # events
           /\ ~IsActive(attempts, a) =>
                /\ ~IsActive(attempts', a)
                /\ attempts'[a].settled = attempts[a].settled]_vars
  BY NextKeeps, ReleaseIsEvent DEF AllKept, Kept
<1>. QED
  BY <1>1, LedgerTypeOK, PTL DEF Spec, ReleasedOnce

-----------------------------------------------------------------------------
(* One live attempt per task.  Two attempts of one task cannot both block it: *)
(* an admission needs the task open, and nothing returns to the states that   *)
(* block it.                                                                  *)

BlockingKept == \A a \in DOMAIN attempts :
  attempts'[a].state \in Blocking => attempts[a].state \in Blocking

LEMMA NextKeepsBlocking ==
  ASSUME TypeOK, [Next]_vars
  PROVE  BlockingKept
<1>1. CASE attempts' = Swept(attempts)
  BY <1>1, SweptTyped DEF BlockingKept, Blocking, Swept, Overdue
<1>2. CASE attempts' = attempts
  BY <1>2 DEF BlockingKept
<1>3. CASE Admission
  BY <1>3, SweptTyped DEF Admission, AdmitNew, BlockingKept, Blocking, Swept, Overdue
<1>4. CASE SomeRenewal
  BY <1>4 DEF SomeRenewal, Renew, Put, BlockingKept, TypeOK, Row
<1>5. ASSUME NEW a \in AttemptIds, NEW e \in EventIds, Event(a, e)
      PROVE  BlockingKept
  <2>1. ASSUME NEW row, attempts' = [attempts EXCEPT ![a] = row],
               row.state \in Blocking => attempts[a].state \in Blocking
        PROVE  BlockingKept
    BY <2>1 DEF BlockingKept, TypeOK
  <2>2. CASE Measure(a, e)
    BY <2>2 DEF Measure, BlockingKept
  <2>3. CASE Prepare(a, e) \/ Claim(a, e) \/ Produce(a, e)
    BY <2>1, <2>3 DEF Prepare, Claim, Produce, Put, Record, PreparableFrom,
                      ProducibleFrom, Blocking, Active
  <2>4. ASSUME NEW exact \in BOOLEAN, Start(a, e, exact)
        PROVE  BlockingKept
    BY <2>1, <2>4 DEF Start, Put, StartableFrom, Blocking, Active
  <2>5. CASE RequestCancel(a, e) \/ Disconnect(a, e)
    BY <2>1, <2>5 DEF RequestCancel, Disconnect, Put, IsActive, Blocking
  <2>6. ASSUME NEW outcome \in Outcomes, Settle(a, e, outcome)
        PROVE  BlockingKept
    BY <2>1, <2>6 DEF Settle, Put, Confirmable, Blocking
  <2>7. ASSUME NEW verdict \in Verdicts, Review(a, e, verdict)
        PROVE  BlockingKept
    BY <2>1, <2>7 DEF Review, Put, Blocking
  <2>. QED
    BY <1>5, <2>2, <2>3, <2>4, <2>5, <2>6, <2>7 DEF Event
<1>. QED
  BY <1>1, <1>2, <1>3, <1>4, <1>5, NextCases DEF SomeEvent

(* A task never has two attempts that run, await review or are accepted.      *)
THEOREM LedgerOneLiveAttempt == Spec => []OneLiveAttempt
<1>1. Init => OneLiveAttempt
  BY DEF Init, OneLiveAttempt
<1>2. TypeOK /\ OneLiveAttempt /\ [Next]_vars => OneLiveAttempt'
  <2> SUFFICES ASSUME TypeOK, OneLiveAttempt, [Next]_vars,
                      NEW a \in DOMAIN attempts', NEW b \in DOMAIN attempts',
                      attempts'[a].intent.task = attempts'[b].intent.task,
                      attempts'[a].state \in Blocking,
                      attempts'[b].state \in Blocking
               PROVE  a = b
    BY DEF OneLiveAttempt
  <2>1. AllKept /\ BlockingKept
    BY NextKeeps, NextKeepsBlocking
  <2>2. CASE a \in DOMAIN attempts /\ b \in DOMAIN attempts
    BY <2>1, <2>2 DEF OneLiveAttempt, AllKept, Kept, BlockingKept
  <2>3. CASE Admission
    <3>1. PICK c \in AttemptIds, r \in RequestKeys, i \in Intents, p \in Providers,
               o \in Observations, at \in 0 .. now, load \in Loads, cost \in Costs :
            AdmitNew(c, r, i, p, o, at, load, cost)
      BY <2>3 DEF Admission
    <3>2. /\ DOMAIN attempts' = DOMAIN attempts \cup {c}
          /\ attempts'[c].intent = i
      BY <3>1 DEF AdmitNew, NewRow
    <3>3. ASSUME NEW d \in DOMAIN attempts, attempts'[d].state \in Blocking
          PROVE  attempts'[d].intent.task # i.task
      BY <2>1, <3>1, <3>3
      DEF AdmitNew, Considered, TaskOpen, OfTask, AllKept, Kept, BlockingKept
    <3>. QED
      BY <2>2, <3>2, <3>3
  <2>. QED
    BY <2>2, <2>3, NextKeeps
<1>. QED
  BY <1>1, <1>2, LedgerTypeOK, PTL DEF Spec

LEMMA TaskUnchanged ==
  ASSUME TypeOK, AllKept, DOMAIN attempts' = DOMAIN attempts, NEW id
  PROVE  OfTask(id)' = OfTask(id)
BY DEF AllKept, Kept, OfTask

(* A task never has more attempts than its limit.                             *)
THEOREM LedgerAttemptLimit == Spec => []AttemptLimit
<1>1. Init => AttemptLimit
  BY DEF Init, AttemptLimit
<1>2. TypeOK /\ AttemptLimit /\ [Next]_vars => AttemptLimit'
  <2> SUFFICES ASSUME TypeOK, AttemptLimit, [Next]_vars, NEW a \in DOMAIN attempts',
                      NEW id, id = attempts'[a].intent.task
               PROVE  Cardinality(OfTask(id)') <= MaxAttempts
    BY DEF AttemptLimit
  <2>1. AllKept
    BY NextKeeps
  <2>2. CASE DOMAIN attempts' = DOMAIN attempts
    BY <2>1, <2>2, TaskUnchanged DEF AttemptLimit, AllKept, Kept
  <2>3. CASE Admission
    <3>1. PICK c \in AttemptIds, r \in RequestKeys, i \in Intents, p \in Providers,
               o \in Observations, at \in 0 .. now, load \in Loads, cost \in Costs :
            AdmitNew(c, r, i, p, o, at, load, cost)
      BY <2>3 DEF Admission
    <3>2. /\ DOMAIN attempts' = DOMAIN attempts \cup {c}
          /\ attempts'[c].intent = i
          /\ c \notin DOMAIN attempts
          /\ Cardinality(OfTask(i.task)) < MaxAttempts
      BY <3>1 DEF AdmitNew, NewRow, Considered, TaskOpen
    <3>3. CASE id = i.task
      <4>1. OfTask(i.task)' = OfTask(i.task) \cup {c}
        BY <2>1, <3>2 DEF OfTask, AllKept, Kept
      <4>2. IsFiniteSet(OfTask(i.task)) /\ Cardinality(OfTask(i.task)) \in Nat
        BY SharingFinite DEF OfTask
      <4>3. Cardinality(OfTask(i.task) \cup {c}) = Cardinality(OfTask(i.task)) + 1
        <5>1. c \notin OfTask(i.task)
          BY <3>2 DEF OfTask
        <5>. QED
          BY <4>2, <5>1, FS_AddElement
      <4>4. Cardinality(OfTask(id)') = Cardinality(OfTask(i.task)) + 1
        BY <3>3, <4>1, <4>3
      <4>. QED
        BY <3>2, <4>2, <4>4, LimitAssumption
    <3>4. CASE id # i.task
      <4>1. OfTask(id)' = OfTask(id)
        BY <2>1, <3>2, <3>4 DEF OfTask, AllKept, Kept
      <4>2. a \in DOMAIN attempts /\ attempts'[a].intent = attempts[a].intent
        BY <2>1, <3>2, <3>4 DEF AllKept, Kept
      <4>. QED
        BY <4>1, <4>2 DEF AttemptLimit
    <3>. QED
      BY <3>3, <3>4
  <2>. QED
    BY <2>2, <2>3, NextKeeps
<1>. QED
  BY <1>1, <1>2, LedgerTypeOK, PTL DEF Spec

(* Work on a task is never dispatched twice at a time, nor beyond its limit.  *)
THEOREM LedgerTaskExclusive == Spec => []TaskExclusive
BY LedgerOneLiveAttempt, LedgerAttemptLimit, PTL DEF TaskExclusive

-----------------------------------------------------------------------------
(* A retry never weakens its task.                                           *)

LEMMA TasksKept ==
  ASSUME [Next]_vars
  PROVE  tasks' = tasks \/ Admission
<1>1. ASSUME NEW r \in RequestKeys, NEW i \in Intents, NEW p \in Providers,
             NEW o \in Observations, NEW at \in 0 .. now, NEW load \in Loads,
             NEW cost \in Costs, Admit(r, i, p, o, at, load, cost)
      PROVE  tasks' = tasks \/ Admission
  BY <1>1 DEF Admit, AdmitEarly, AdmitWait, Admission
<1>2. ASSUME NEW a \in AttemptIds, NEW e \in EventIds, Event(a, e)
      PROVE  tasks' = tasks
  BY <1>2 DEF Event, Prepare, Measure, Claim, Start, Produce, RequestCancel,
              Disconnect, Settle, Review, Record
<1>3. ASSUME NEW a \in AttemptIds, Renew(a)
      PROVE  tasks' = tasks
  BY <1>3 DEF Renew
<1>4. ASSUME NEW value, SetAdmissions(value)
      PROVE  tasks' = tasks
  BY <1>4 DEF SetAdmissions
<1>5. ASSUME NEW p \in Providers, NEW c \in Contexts, SwitchAccount(p, c)
      PROVE  tasks' = tasks
  BY <1>5 DEF SwitchAccount
<1>. QED
  BY <1>1, <1>2, <1>3, <1>4, <1>5 DEF Next, vars, ReconcileExpired, Tick

(* Every attempt of a task worked on its one specification, under a floor no  *)
(* higher than the recorded one.                                              *)
THEOREM LedgerTaskIdentity == Spec => []TaskIdentity
<1>1. Init => TaskIdentity
  BY DEF Init, TaskIdentity
<1>2. TypeOK /\ TypeOK' /\ TaskIdentity /\ [Next]_vars => TaskIdentity'
  <2> SUFFICES ASSUME TypeOK, TypeOK', TaskIdentity, [Next]_vars,
                      NEW a \in DOMAIN attempts'
               PROVE  LET i == attempts'[a].intent IN
                      /\ i.task \in DOMAIN tasks'
                      /\ tasks'[i.task].spec = i.spec
                      /\ i.floor <= tasks'[i.task].floor
    BY DEF TaskIdentity
  <2>1. AllKept
    BY NextKeeps
  <2>2. CASE tasks' = tasks /\ a \in DOMAIN attempts
    BY <2>1, <2>2 DEF TaskIdentity, AllKept, Kept
  <2>3. CASE Admission
    <3>1. PICK c \in AttemptIds, r \in RequestKeys, i \in Intents, p \in Providers,
               o \in Observations, at \in 0 .. now, load \in Loads, cost \in Costs :
            AdmitNew(c, r, i, p, o, at, load, cost)
      BY <2>3 DEF Admission
    <3>2. /\ DOMAIN attempts' = DOMAIN attempts \cup {c}
          /\ attempts'[c].intent = i
          /\ tasks' = [t \in DOMAIN tasks \cup {i.task} |->
                        IF t = i.task THEN [spec |-> i.spec, floor |-> i.floor]
                                      ELSE tasks[t]]
          /\ i.task \in DOMAIN tasks => /\ tasks[i.task].spec = i.spec
                                        /\ tasks[i.task].floor <= i.floor
      BY <3>1 DEF AdmitNew, NewRow, Considered, Compatible
    <3>3. i.floor \in 1 .. 3
      BY InputAssumption DEF Intent
    <3>4. CASE a = c
      BY <3>2, <3>3, <3>4
    <3>5. CASE a \in DOMAIN attempts
      <4> DEFINE old == attempts[a].intent
      <4>1. /\ attempts'[a].intent = old
            /\ old.task \in DOMAIN tasks
            /\ tasks[old.task].spec = old.spec
            /\ old.floor <= tasks[old.task].floor
        BY <2>1, <3>5 DEF TaskIdentity, AllKept, Kept
      <4>2. /\ old.floor \in 1 .. 3
            /\ tasks[old.task].floor \in 1 .. 3
        BY <3>5, <4>1, InputAssumption DEF TypeOK, Row, Intent
      <4>3. CASE old.task = i.task
        BY <3>2, <3>3, <4>1, <4>2, <4>3
      <4>4. CASE old.task # i.task
        BY <3>2, <4>1, <4>4
      <4>. QED
        BY <4>3, <4>4
    <3>. QED
      BY <3>2, <3>4, <3>5
  <2>. QED
    BY <2>2, <2>3, TasksKept, NextKeeps
<1>. QED
  BY <1>1, <1>2, LedgerTypeOK, PTL DEF Spec

-----------------------------------------------------------------------------
(* What a row records of its own history.  ExactCompletion is not inductive:  *)
(* a row also has to remember that a receipt of another launch leaves its     *)
(* mismatch mark.                                                             *)

Concluded == {"completed", "accepted", "rejected"}
RowInv(row, time) ==
  /\ row.settled = NotSettled <=> row.state \in Active
  /\ row.settled <= time
  /\ ~row.mismatch => row.receipt # "other"
  /\ row.state \in Concluded => row.receipt = "exact" /\ ~row.mismatch
RowsInv == \A a \in DOMAIN attempts : RowInv(attempts[a], now)

LEMMA SweptRows ==
  ASSUME TypeOK, RowsInv, NEW a \in DOMAIN attempts
  PROVE  RowInv(Swept(attempts)[a], now)
BY DEF RowsInv, RowInv, Swept, Overdue, TypeOK, Row, Active, Concluded

(* A row that keeps its receipt and its settlement, and stays where it was    *)
(* active or not.                                                            *)
LEMMA RowMoves ==
  ASSUME NEW row, NEW new, NEW time, RowInv(row, time),
         new.settled = row.settled, new.receipt = row.receipt,
         new.mismatch = row.mismatch,
         new.state \in Active <=> row.state \in Active,
         new.state \in Concluded => row.state \in Concluded
  PROVE  RowInv(new, time)
BY DEF RowInv

LEMMA EventRows ==
  ASSUME TypeOK, RowsInv, NEW a \in AttemptIds, NEW e \in EventIds, Event(a, e)
  PROVE  RowsInv'
<1>1. /\ a \in DOMAIN attempts
      /\ attempts[a] \in Row
      /\ RowInv(attempts[a], now)
      /\ now' = now
  BY DEF Event, Prepare, Measure, Claim, Start, Produce, RequestCancel,
         Disconnect, Settle, Review, Record, TypeOK, RowsInv
<1>2. ASSUME NEW row, attempts' = [attempts EXCEPT ![a] = row], RowInv(row, now)
      PROVE  RowsInv'
  BY <1>1, <1>2 DEF RowsInv, TypeOK
<1>3. CASE Measure(a, e)
  BY <1>1, <1>3 DEF Measure, RowsInv
<1>4. CASE Prepare(a, e) \/ Claim(a, e) \/ Produce(a, e)
  <2>1. PICK new : /\ attempts' = [attempts EXCEPT ![a] = new]
                   /\ new.settled = attempts[a].settled
                   /\ new.receipt = attempts[a].receipt
                   /\ new.mismatch = attempts[a].mismatch
                   /\ new.state \in Active
                   /\ attempts[a].state \in Active
    BY <1>1, <1>4 DEF Prepare, Claim, Produce, Put, PreparableFrom,
                      ProducibleFrom, Row, Active
  <2>2. RowInv(new, now)
    BY <1>1, <2>1, RowMoves DEF Active, Concluded
  <2>. QED
    BY <1>2, <2>1, <2>2
<1>5. ASSUME NEW exact \in BOOLEAN, Start(a, e, exact)
      PROVE  RowsInv'
  <2>1. RowInv(Started(attempts[a], exact), now)
    BY <1>1, <1>5
    DEF Start, Started, StartedState, StartableFrom, RowInv, Row, Active, Concluded
  <2>. QED
    BY <1>2, <1>5, <2>1 DEF Start, Put
<1>6. CASE RequestCancel(a, e)
  <2> DEFINE new == Cancelling(attempts[a])
  <2>1. now \in Nat /\ now # NotSettled
    BY DEF TypeOK, NotSettled
  <2>2. /\ new.receipt = attempts[a].receipt
        /\ new.mismatch = attempts[a].mismatch
        /\ \/ new.state = "cancelled" /\ new.settled = now
           \/ new.state = "cancelling" /\ new.settled = attempts[a].settled
    BY <1>1 DEF Cancelling, Row
  <2>3. RowInv(attempts[a], now) /\ attempts[a].state \in Active
    BY <1>1, <1>6 DEF RequestCancel, IsActive
  <2> HIDE DEF new
  <2>4. RowInv(new, now)
    BY <2>1, <2>2, <2>3 DEF RowInv, Active, Concluded
  <2>5. attempts' = [attempts EXCEPT ![a] = new]
    BY <1>6 DEF RequestCancel, Put, new
  <2>. QED
    BY <1>2, <2>4, <2>5
<1>7. CASE Disconnect(a, e)
  <2>1. RowInv([attempts[a] EXCEPT !.state = "reconciling"], now)
    BY <1>1, <1>7 DEF Disconnect, IsActive, RowInv, Row, Active, Concluded
  <2>. QED
    BY <1>2, <1>7, <2>1 DEF Disconnect, Put
<1>8. ASSUME NEW outcome \in Outcomes, Settle(a, e, outcome)
      PROVE  RowsInv'
  <2> DEFINE new == [attempts[a] EXCEPT !.state = outcome, !.settled = now]
  <2>1. now \in Nat /\ now # NotSettled
    BY DEF TypeOK, NotSettled
  <2>2. /\ new.state = outcome /\ new.settled = now
        /\ new.receipt = attempts[a].receipt
        /\ new.mismatch = attempts[a].mismatch
    BY <1>1 DEF Row
  <2>3. outcome \notin Active /\ (outcome \in Concluded => outcome = "completed")
    BY DEF Outcomes, Active, Concluded
  <2>4. outcome = "completed" => /\ attempts[a].receipt \in {"exact", "other"}
                                 /\ ~attempts[a].mismatch
    BY <1>1, <1>8 DEF Settle, Confirmable, Row
  <2>5. RowInv(attempts[a], now)
    BY <1>1
  <2> HIDE DEF new
  <2>6. RowInv(new, now)
    BY <2>1, <2>2, <2>3, <2>4, <2>5 DEF RowInv
  <2>7. attempts' = [attempts EXCEPT ![a] = new]
    BY <1>8 DEF Settle, Put, new
  <2>. QED
    BY <1>2, <2>6, <2>7
<1>9. ASSUME NEW verdict \in Verdicts, Review(a, e, verdict)
      PROVE  RowsInv'
  <2>1. RowInv([attempts[a] EXCEPT !.state = verdict], now)
    BY <1>1, <1>9 DEF Review, RowInv, Row, Active, Verdicts, Concluded
  <2>. QED
    BY <1>2, <1>9, <2>1 DEF Review, Put
<1>. QED
  BY <1>3, <1>4, <1>5, <1>6, <1>7, <1>8, <1>9 DEF Event

LEMMA RowsInvariant == Spec => []RowsInv
<1>1. Init => RowsInv
  BY DEF Init, RowsInv
<1>2. TypeOK /\ RowsInv /\ [Next]_vars => RowsInv'
  <2> SUFFICES ASSUME TypeOK, RowsInv, [Next]_vars
               PROVE  RowsInv'
    OBVIOUS
  <2>1. CASE SomeEvent
    BY <2>1, EventRows DEF SomeEvent
  <2>2. ASSUME ~SomeEvent
        PROVE  now' \in Nat /\ now <= now'
    <3>0. now \in Nat
      BY DEF TypeOK
    <3>1. CASE Tick
      BY <3>0, <3>1 DEF Tick
    <3>2. CASE ~Tick
      <4>1. ASSUME NEW r \in RequestKeys, NEW i \in Intents, NEW p \in Providers,
                   NEW o \in Observations, NEW at \in 0 .. now, NEW load \in Loads,
                   NEW cost \in Costs, Admit(r, i, p, o, at, load, cost)
            PROVE  now' = now
        BY <4>1 DEF Admit, AdmitEarly, AdmitWait, AdmitNew
      <4>2. ASSUME NEW a \in AttemptIds, Renew(a)
            PROVE  now' = now
        BY <4>2 DEF Renew
      <4>3. ASSUME ReconcileExpired
            PROVE  now' = now
        BY <4>3 DEF ReconcileExpired
      <4>4. ASSUME UNCHANGED vars
            PROVE  now' = now
        BY <4>4 DEF vars
      <4>5. ASSUME NEW value, SetAdmissions(value)
            PROVE  now' = now
        BY <4>5 DEF SetAdmissions
      <4>6. ASSUME NEW p \in Providers, NEW c \in Contexts, SwitchAccount(p, c)
            PROVE  now' = now
        BY <4>6 DEF SwitchAccount
      <4>7. now' = now
        BY <2>2, <3>2, <4>1, <4>2, <4>3, <4>4, <4>5, <4>6 DEF Next, SomeEvent
      <4>. QED
        BY <3>0, <4>7
    <3>. QED
      BY <3>1, <3>2
  <2>3. ASSUME NEW row \in Row, RowInv(row, now), ~SomeEvent
        PROVE  RowInv(row, now')
    BY <2>2, <2>3 DEF RowInv, TypeOK, Row, NotSettled
  <2>4. CASE attempts' = Swept(attempts) /\ ~SomeEvent
    BY <2>3, <2>4, SweptRows, SweptTyped DEF RowsInv
  <2>5. CASE attempts' = attempts /\ ~SomeEvent
    BY <2>3, <2>5 DEF RowsInv, TypeOK
  <2>6. CASE SomeRenewal /\ ~SomeEvent
    BY <2>6 DEF SomeRenewal, Renew, Put, RowsInv, RowInv, TypeOK, Row
  <2>7. CASE Admission /\ ~SomeEvent
    <3>1. PICK c \in AttemptIds, r \in RequestKeys, i \in Intents, p \in Providers,
               o \in Observations, at \in 0 .. now, load \in Loads, cost \in Costs :
            AdmitNew(c, r, i, p, o, at, load, cost)
      BY <2>7 DEF Admission
    <3>2. /\ DOMAIN attempts' = DOMAIN attempts \cup {c}
          /\ attempts'[c] = NewRow(r, i, p, o, cost)
          /\ \A b \in DOMAIN attempts : attempts'[b] = Swept(attempts)[b]
          /\ now' = now
      BY <3>1 DEF AdmitNew
    <3>3. RowInv(NewRow(r, i, p, o, cost), now)
      BY DEF RowInv, NewRow, NotSettled, Active, Concluded, TypeOK
    <3>. QED
      BY <3>2, <3>3, SweptRows DEF RowsInv
  <2>. QED
    BY <2>1, <2>4, <2>5, <2>6, <2>7, NextCases
<1>. QED
  BY <1>1, <1>2, LedgerTypeOK, PTL DEF Spec

(* Nothing is completed, accepted or rejected unless its launch was seen to be *)
(* exactly the admitted one and never another.                                *)
THEOREM LedgerExactCompletion == Spec => []ExactCompletion
<1>1. RowsInv => ExactCompletion
  BY DEF RowsInv, RowInv, Concluded, ExactCompletion
<1>. QED
  BY <1>1, RowsInvariant, PTL

(* Exactly the attempts that stopped carry their settlement time.             *)
THEOREM LedgerSettledExactly == Spec => []SettledExactly
<1>1. RowsInv => SettledExactly
  BY DEF RowsInv, RowInv, IsActive, SettledExactly
<1>. QED
  BY <1>1, RowsInvariant, PTL

-----------------------------------------------------------------------------
(* The ledger implements AdmissionLease.                                      *)

leases == [a \in DOMAIN attempts |-> LeaseOf(attempts[a])]

(* The contract's sets, in the ledger's terms.                                *)
LEMMA LoadIsSharing ==
  ASSUME NEW ref \in Refs
  PROVE  Contract!Load(ref) = Sharing(ref) /\ Contract!Load(ref)' = Sharing(ref)'
<1>1. \A s : StatusOf(s) = "held" <=> s \in Active
  BY DEF StatusOf
<1>. QED
  BY <1>1 DEF Contract!Held, Contract!Load, Sharing, LeaseOf, RefOf, Refs, IsActive

LEMMA SameCardinality ==
  ASSUME NEW S
  PROVE  Contract!Cardinality(S) = Cardinality(S)
BY DEF Contract!Cardinality, Cardinality

(* What a row is to the contract changes only with the status of its state.   *)
LEMMA SameStatus ==
  ASSUME TypeOK, AllKept, DOMAIN attempts' = DOMAIN attempts,
         \A a \in DOMAIN attempts :
           StatusOf(attempts'[a].state) = StatusOf(attempts[a].state)
  PROVE  leases' = leases
BY DEF leases, LeaseOf, RefOf, AllKept, Kept

LEMMA SweptStatus ==
  ASSUME TypeOK, NEW a \in DOMAIN attempts
  PROVE  StatusOf(Swept(attempts)[a].state) = StatusOf(attempts[a].state)
BY SweptKeeps, SweptTyped DEF StatusOf, Swept, Overdue, Active, TypeOK, Row

(* One row moved: the contract's step is the move of its lease.               *)
LEMMA OneMove ==
  ASSUME TypeOK, AllKept, NEW a \in DOMAIN attempts, NEW to,
         DOMAIN attempts' = DOMAIN attempts,
         \A b \in DOMAIN attempts \ {a} : attempts'[b] = attempts[b],
         StatusOf(attempts'[a].state) = to
  PROVE  leases' = [leases EXCEPT ![a].status = to]
<1>1. LeaseOf(attempts'[a]) = [LeaseOf(attempts[a]) EXCEPT !.status = to]
  BY DEF LeaseOf, RefOf, AllKept, Kept
<1>2. \A b \in DOMAIN attempts \ {a} : LeaseOf(attempts'[b]) = LeaseOf(attempts[b])
  OBVIOUS
<1>. QED
  BY <1>1, <1>2 DEF leases

(* The moves a lifecycle event makes, and what each is to the contract.       *)
StatusMoves(from, to) ==
  \/ from = to
  \/ from \in Active /\ to \in Active
  \/ from \in Active /\ to \in Outcomes
  \/ from = "completed" /\ to \in Verdicts

LEMMA MoveIsStep ==
  ASSUME TypeOK, AllKept, NEW a \in AttemptIds, a \in DOMAIN attempts,
         DOMAIN attempts' = DOMAIN attempts,
         \A b \in DOMAIN attempts \ {a} : attempts'[b] = attempts[b],
         StatusMoves(attempts[a].state, attempts'[a].state)
  PROVE  Contract!LeaseNext \/ leases' = leases
<1> DEFINE from == attempts[a].state
           to == attempts'[a].state
<1>1. /\ a \in DOMAIN leases
      /\ leases[a].status = StatusOf(from)
      /\ leases' = [leases EXCEPT ![a].status = StatusOf(to)]
  BY OneMove DEF leases, LeaseOf
<1>2. CASE from = to \/ (from \in Active /\ to \in Active)
  <2>1. StatusOf(to) = StatusOf(from)
    BY <1>2 DEF StatusOf
  <2>. QED
    BY <2>1, SameStatus
<1>3. CASE from \in Active /\ to \in Outcomes
  <2>1. StatusOf(from) = "held" /\ StatusOf(to) \in {"delivered", "void"}
    BY <1>3 DEF StatusOf, Outcomes, Active
  <2>2. Contract!Return(a)
    BY <1>1, <2>1 DEF Contract!Return, Contract!Move, leases
  <2>. QED
    BY <2>2 DEF Contract!LeaseNext
<1>4. CASE from = "completed" /\ to \in Verdicts
  <2>1. StatusOf(from) = "delivered" /\ StatusOf(to) \in {"accepted", "void"}
    BY <1>4 DEF StatusOf, Verdicts, Active
  <2>2. Contract!Decide(a)
    BY <1>1, <2>1 DEF Contract!Decide, Contract!Move, leases
  <2>. QED
    BY <2>2 DEF Contract!LeaseNext
<1>. QED
  BY <1>2, <1>3, <1>4 DEF StatusMoves

LEMMA EventMoves ==
  ASSUME TypeOK, NEW a \in AttemptIds, NEW e \in EventIds, Event(a, e)
  PROVE  /\ a \in DOMAIN attempts
         /\ \A b \in DOMAIN attempts \ {a} : attempts'[b] = attempts[b]
         /\ StatusMoves(attempts[a].state, attempts'[a].state)
<1>1. a \in DOMAIN attempts /\ attempts[a] \in Row
  BY DEF Event, Prepare, Measure, Claim, Start, Produce, RequestCancel,
         Disconnect, Settle, Review, Record, TypeOK
<1>2. ASSUME NEW row, attempts' = [attempts EXCEPT ![a] = row],
             StatusMoves(attempts[a].state, row.state)
      PROVE  /\ \A b \in DOMAIN attempts \ {a} : attempts'[b] = attempts[b]
             /\ StatusMoves(attempts[a].state, attempts'[a].state)
  BY <1>1, <1>2 DEF TypeOK
<1>3. CASE Measure(a, e)
  BY <1>1, <1>3 DEF Measure, StatusMoves
<1>4. CASE Prepare(a, e) \/ Claim(a, e) \/ Produce(a, e)
  BY <1>1, <1>2, <1>4
  DEF Prepare, Claim, Produce, Put, Row, StatusMoves, Active, PreparableFrom,
      ProducibleFrom
<1>5. ASSUME NEW exact \in BOOLEAN, Start(a, e, exact)
      PROVE  /\ \A b \in DOMAIN attempts \ {a} : attempts'[b] = attempts[b]
             /\ StatusMoves(attempts[a].state, attempts'[a].state)
  <2>1. /\ Started(attempts[a], exact).state \in Active
        /\ attempts[a].state \in Active
    BY <1>1, <1>5 DEF Start, Started, StartedState, StartableFrom, Row, Active
  <2>. QED
    BY <1>2, <1>5, <2>1 DEF Start, Put, StatusMoves
<1>6. CASE RequestCancel(a, e)
  <2>1. /\ Cancelling(attempts[a]).state \in {"cancelled", "cancelling"}
        /\ attempts[a].state \in Active
    BY <1>1, <1>6 DEF RequestCancel, Cancelling, IsActive, Row
  <2>2. StatusMoves(attempts[a].state, Cancelling(attempts[a]).state)
    BY <2>1 DEF StatusMoves, Active, Outcomes
  <2>3. attempts' = [attempts EXCEPT ![a] = Cancelling(attempts[a])]
    BY <1>6 DEF RequestCancel, Put
  <2>. QED
    BY <1>1, <1>2, <2>2, <2>3
<1>7. CASE Disconnect(a, e)
  BY <1>1, <1>2, <1>7 DEF Disconnect, Put, IsActive, Row, StatusMoves, Active
<1>8. ASSUME NEW outcome \in Outcomes, Settle(a, e, outcome)
      PROVE  /\ \A b \in DOMAIN attempts \ {a} : attempts'[b] = attempts[b]
             /\ StatusMoves(attempts[a].state, attempts'[a].state)
  BY <1>1, <1>2, <1>8 DEF Settle, Confirmable, Put, Row, StatusMoves
<1>9. ASSUME NEW verdict \in Verdicts, Review(a, e, verdict)
      PROVE  /\ \A b \in DOMAIN attempts \ {a} : attempts'[b] = attempts[b]
             /\ StatusMoves(attempts[a].state, attempts'[a].state)
  BY <1>1, <1>2, <1>9 DEF Review, Put, Row, StatusMoves
<1>. QED
  BY <1>1, <1>3, <1>4, <1>5, <1>6, <1>7, <1>8, <1>9 DEF Event

(* An admission is a grant: the task was open, and the pools hold the slot    *)
(* bound afterwards.                                                          *)
LEMMA AdmissionIsGrant ==
  ASSUME TypeOK, AllKept, SlotBound', NEW c \in AttemptIds,
         NEW r \in RequestKeys, NEW i \in Intents, NEW p \in Providers,
         NEW o \in Observations, NEW at \in 0 .. now, NEW load \in Loads,
         NEW cost \in Costs, AdmitNew(c, r, i, p, o, at, load, cost)
  PROVE  Contract!Grant(c, i.task, <<p, o.quota>>)
<1>1. /\ DOMAIN attempts' = DOMAIN attempts \cup {c}
      /\ c \notin DOMAIN attempts
      /\ attempts'[c] = NewRow(r, i, p, o, cost)
      /\ \A a \in DOMAIN attempts : attempts'[a] = Swept(attempts)[a]
  BY DEF AdmitNew
<1>2. LeaseOf(attempts'[c]) =
        [task |-> i.task, pool |-> <<p, o.quota>>, status |-> "held"]
  BY <1>1 DEF LeaseOf, NewRow, RefOf, StatusOf, Active
<1>3. \A a \in DOMAIN attempts : LeaseOf(attempts'[a]) = LeaseOf(attempts[a])
  BY <1>1, SweptStatus DEF LeaseOf, RefOf, AllKept, Kept
<1>4. leases' = [a \in DOMAIN leases \cup {c} |->
                   IF a = c
                   THEN [task |-> i.task, pool |-> <<p, o.quota>>, status |-> "held"]
                   ELSE leases[a]]
  BY <1>1, <1>2, <1>3 DEF leases
<1>5. \A a \in DOMAIN leases :
        leases[a].task = i.task => leases[a].status \notin Contract!Closing
  <2>1. ASSUME NEW a \in DOMAIN attempts, attempts[a].intent.task = i.task
        PROVE  StatusOf(attempts[a].state) \notin Contract!Closing
    BY <2>1 DEF AdmitNew, Considered, TaskOpen, OfTask, Blocking, StatusOf,
                Contract!Closing
  <2>. QED
    BY <2>1 DEF leases, LeaseOf
<1>6. ASSUME NEW ref \in Refs
      PROVE  Contract!Cardinality(Contract!Load(ref)') <= SlotLimit[ref[1]]
  <2>1. Contract!Cardinality(Contract!Load(ref)') = Cardinality(Sharing(ref)')
    BY LoadIsSharing, SameCardinality
  <2>. QED
    BY <2>1 DEF SlotBound
<1>7. c \notin DOMAIN leases
  BY <1>1 DEF leases
<1>. QED
  BY <1>4, <1>5, <1>6, <1>7 DEF Contract!Grant, leases

(* The ledger only ever does what the contract of a lease allows: every step   *)
(* of the ledger is a grant, a return or a decision of one lease, or nothing. *)
THEOREM LedgerImplementsLease == Spec => LeaseContract
<1>1. Init => Contract!LeaseInit
  BY DEF Init, Contract!LeaseInit
<1>2. TypeOK /\ TypeOK' /\ SlotBound /\ SlotBound' /\ [Next]_vars
        => [Contract!LeaseNext]_leases
  <2> SUFFICES ASSUME TypeOK, SlotBound', [Next]_vars
               PROVE  Contract!LeaseNext \/ leases' = leases
    OBVIOUS
  <2>1. AllKept
    BY NextKeeps
  <2>2. CASE attempts' = Swept(attempts)
    BY <2>1, <2>2, SweptTyped, SweptStatus, SameStatus
  <2>3. CASE attempts' = attempts
    BY <2>3 DEF leases, LeaseOf
  <2>4. CASE Admission
    <3>1. PICK c \in AttemptIds, r \in RequestKeys, i \in Intents, p \in Providers,
               o \in Observations, at \in 0 .. now, load \in Loads, cost \in Costs :
            AdmitNew(c, r, i, p, o, at, load, cost)
      BY <2>4 DEF Admission
    <3>2. <<p, o.quota>> \in Refs
      BY InputAssumption DEF Refs, Quotas, IsObservation
    <3>3. Contract!Grant(c, i.task, <<p, o.quota>>)
      BY <2>1, <3>1, AdmissionIsGrant
    <3>. QED
      BY <3>2, <3>3 DEF Contract!LeaseNext
  <2>5. CASE SomeRenewal
    <3>1. /\ DOMAIN attempts' = DOMAIN attempts
          /\ \A a \in DOMAIN attempts : attempts'[a].state = attempts[a].state
      BY <2>5 DEF SomeRenewal, Renew, Put, TypeOK, Row
    <3>. QED
      BY <2>1, <3>1, SameStatus
  <2>6. CASE SomeEvent
    BY <2>6, EventKeeps, EventMoves, MoveIsStep DEF SomeEvent
  <2>. QED
    BY <2>2, <2>3, <2>4, <2>5, <2>6, NextCases
<1>. QED
  BY <1>1, <1>2, LedgerTypeOK, LedgerSlotBound, PTL
  DEF Spec, LeaseContract, Contract!LeaseSpec, leases
=============================================================================
