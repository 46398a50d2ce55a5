--------------------------- MODULE Stores_proofs ---------------------------
(***************************************************************************)
(* The two stores on disk, each for every value of its constants.           *)
(***************************************************************************)
EXTENDS OutcomeStore, StateMigration, FiniteFacts, SequenceTheorems, TLAPS

(***************************************************************************)
(* What holds of the evidence store for every number of decisions,          *)
(* dispatches, events and timestamps.                                       *)
(*                                                                          *)
(* The properties support one another: an event can follow an acceptance    *)
(* neither as a new event (nothing is recorded any more) nor as a late      *)
(* binding (an accepted launch is linked), so StoreInv, their conjunction,  *)
(* is inductive once it also says that only launches have events.           *)
(***************************************************************************)

OnlyLaunched == \A d \in DispatchIds \ DOMAIN launches : log[d] = <<>>
StoreInv == /\ OutcomeTypeOK /\ OnlyLaunched
            /\ AttributionSound /\ AcceptanceEarned /\ AcceptedLast

(* Positions are counted from 1, so that some of them have a last one.        *)
LEMMA LastExists ==
  ASSUME NEW n \in Nat, NEW S \in SUBSET (1 .. n), S # {}
  PROVE  \E m \in S : \A k \in S : k <= m
<1> DEFINE T == {n - s : s \in S}
<1>1. \A s \in S : s \in 1 .. n /\ n - s \in Nat
  OBVIOUS
<1>2. \A s \in S : n - s \in T
  OBVIOUS
<1>3. \A t \in T : \E s \in S : t = n - s
  OBVIOUS
<1> HIDE DEF T
<1>4. T \in SUBSET Nat
  BY <1>1, <1>3
<1>5. T # {}
  BY <1>2
<1>6. PICK t \in T : \A k \in T : t <= k
  BY <1>4, <1>5, LeastNatural
<1>7. PICK m \in S : t = n - m
  BY <1>3
<1>. QED
  BY <1>1, <1>2, <1>6, <1>7

LEMMA LastIsMax ==
  ASSUME NEW S \in SUBSET Nat, NEW n \in S, \A y \in S : y <= n
  PROVE  Max(S) = n
<1>1. \E x \in S : \A y \in S : x >= y
  OBVIOUS
<1>2. Max(S) \in S /\ \A y \in S : Max(S) >= y
  BY <1>1 DEF Max
<1>3. Max(S) \in Nat /\ n \in Nat /\ Max(S) >= n /\ n >= Max(S)
  BY <1>2
<1>. QED
  BY <1>3

\* The last event of a kind, if there is one.
LEMMA LatestOf ==
  ASSUME OutcomeTypeOK, NEW d \in DispatchIds, NEW kind, Positions(d, {kind}) # {},
         NEW m, m = Max(Positions(d, {kind}))
  PROVE  /\ m \in Positions(d, {kind}) /\ m \in DOMAIN log[d] /\ m \in Nat
         /\ \A j \in Positions(d, {kind}) : j <= m
<1>1. log[d] \in Seq(Event)
  BY DEF OutcomeTypeOK
<1>2. Len(log[d]) \in Nat /\ DOMAIN log[d] = 1 .. Len(log[d])
  BY <1>1
<1>3. Positions(d, {kind}) \in SUBSET (1 .. Len(log[d]))
  BY <1>2 DEF Positions
<1>4. PICK n \in Positions(d, {kind}) : \A k \in Positions(d, {kind}) : k <= n
  BY <1>2, <1>3, LastExists
<1>5. Positions(d, {kind}) \in SUBSET Nat
  <2>1. 1 .. Len(log[d]) \subseteq Nat
    OBVIOUS
  <2>. QED
    BY <1>3, <2>1
<1>6. m = n
  BY <1>4, <1>5, LastIsMax
<1>. QED
  BY <1>3, <1>4, <1>5, <1>6, <1>2

-----------------------------------------------------------------------------
(* What an appended event changes, and what it does not.                      *)

Appended(d, event) ==
  /\ d \in DOMAIN launches
  /\ event \in Event /\ event.id \notin UsedIds
  /\ Append1(d, event)
  /\ UNCHANGED <<decisions, launches>>

LEMMA AppendedLog ==
  ASSUME OutcomeTypeOK, NEW d, NEW event, Appended(d, event),
         NEW n, n = Len(log[d])
  PROVE  /\ n \in Nat /\ d \in DispatchIds
         /\ log' \in [DispatchIds -> Seq(Event)]
         /\ DOMAIN log[d] = 1 .. n /\ DOMAIN log'[d] = 1 .. n + 1
         /\ Len(log'[d]) = n + 1
         /\ \A i \in 1 .. n : log'[d][i] = log[d][i]
         /\ log'[d][n + 1] = event
         /\ \A e \in DispatchIds \ {d} : log'[e] = log[e]
<1>1. d \in DispatchIds /\ log[d] \in Seq(Event) /\ event \in Event
  BY DEF OutcomeTypeOK, Appended
<1>2. log' = [log EXCEPT ![d] = Append(log[d], event)]
  BY DEF Appended, Append1
<1>3. log'[d] = Append(log[d], event) /\ Append(log[d], event) \in Seq(Event)
  BY <1>1, <1>2 DEF OutcomeTypeOK
<1>. QED
  BY <1>1, <1>2, <1>3 DEF OutcomeTypeOK

LEMMA AppendedPositions ==
  ASSUME OutcomeTypeOK, NEW d, NEW event, Appended(d, event), NEW kinds,
         NEW n, n = Len(log[d])
  PROVE  Positions(d, kinds)' =
           Positions(d, kinds) \cup (IF event.kind \in kinds THEN {n + 1} ELSE {})
<1>1. /\ n \in Nat /\ DOMAIN log[d] = 1 .. n /\ DOMAIN log'[d] = 1 .. n + 1
      /\ \A i \in 1 .. n : log'[d][i] = log[d][i]
      /\ log'[d][n + 1] = event
  BY AppendedLog
<1>. QED
  BY <1>1 DEF Positions

\* What is said of another dispatch stays.
LEMMA SameLog ==
  ASSUME NEW d, log'[d] = log[d], launches'[d] = launches[d]
  PROVE  /\ Effective(d)' = Effective(d)
         /\ \A kinds : Positions(d, kinds)' = Positions(d, kinds)
         /\ Completed(d)' = Completed(d) /\ Rejected(d)' = Rejected(d)
         /\ ReviewValid(d)' = ReviewValid(d)
BY DEF Effective, Positions, Latest, Completed, Rejected, ReviewValid

\* An event leaves what is said of other kinds as it is, ...
LEMMA OtherKinds ==
  ASSUME OutcomeTypeOK, NEW d, NEW event, Appended(d, event), NEW kinds,
         event.kind \notin kinds
  PROVE  Positions(d, kinds)' = Positions(d, kinds)
<1>0. PICK n : n = Len(log[d])
  OBVIOUS
<1>1. Positions(d, kinds)' =
        Positions(d, kinds) \cup (IF event.kind \in kinds THEN {n + 1} ELSE {})
  BY <1>0, AppendedPositions
<1>. QED
  BY <1>1

LEMMA OtherLatest ==
  ASSUME OutcomeTypeOK, NEW d, NEW event, Appended(d, event), NEW kind,
         event.kind # kind, Positions(d, {kind}) # {}
  PROVE  Latest(d, kind)' = Latest(d, kind)
<1>1. Positions(d, {kind})' = Positions(d, {kind})
  BY OtherKinds
<1>2. PICK m : m = Max(Positions(d, {kind}))
  OBVIOUS
<1>3. d \in DispatchIds /\ \A i \in DOMAIN log[d] : log'[d][i] = log[d][i]
  <2>1. PICK n : n = Len(log[d])
    OBVIOUS
  <2>. QED
    BY <2>1, AppendedLog
<1>4. m \in DOMAIN log[d]
  BY <1>2, <1>3, LatestOf
<1>. QED
  BY <1>1, <1>2, <1>3, <1>4 DEF Latest

\* ... the attribution, if it binds nothing, ...
LEMMA AttributionKept ==
  ASSUME OutcomeTypeOK, NEW d, NEW event, Appended(d, event),
         event.kind # "linked"
  PROVE  Effective(d)' = Effective(d)
<1>1. Positions(d, {"linked"})' = Positions(d, {"linked"})
  BY OtherKinds
<1>2. launches' = launches
  BY DEF Appended
<1>3. CASE Positions(d, {"linked"}) # {}
  <2>1. Latest(d, "linked")' = Latest(d, "linked")
    BY <1>3, OtherLatest
  <2>. QED
    BY <1>1, <1>2, <1>3, <2>1 DEF Effective
<1>. QED
  BY <1>1, <1>2, <1>3 DEF Effective

\* ... and every other dispatch.
LEMMA OthersKept ==
  ASSUME OutcomeTypeOK, NEW d, NEW event, Appended(d, event),
         NEW e \in DispatchIds \ {d}
  PROVE  log'[e] = log[e] /\ launches'[e] = launches[e]
<1>1. PICK n : n = Len(log[d])
  OBVIOUS
<1>. QED
  BY <1>1, AppendedLog DEF Appended

\* The event that binds a launch is the only one of its kind.
LEMMA BoundBy ==
  ASSUME OutcomeTypeOK, NEW d, NEW event, Appended(d, event),
         event.kind = "linked", Effective(d).decision = None
  PROVE  Effective(d)' = [launches[d] EXCEPT !.decision = event.data.decision,
                                             !.reason = event.data.reason]
<1>0. PICK n : n = Len(log[d])
  OBVIOUS
<1>1. /\ n \in Nat /\ DOMAIN log[d] = 1 .. n /\ log'[d][n + 1] = event
  BY <1>0, AppendedLog
<1>2. Positions(d, {"linked"})' = Positions(d, {"linked"}) \cup {n + 1}
  <2>1. Positions(d, {"linked"})' =
          Positions(d, {"linked"}) \cup (IF event.kind \in {"linked"} THEN {n + 1} ELSE {})
    BY <1>0, AppendedPositions
  <2>. QED
    BY <2>1
<1>3. PICK S : S = Positions(d, {"linked"})'
  OBVIOUS
<1>4. S \in SUBSET Nat /\ n + 1 \in S /\ \A y \in S : y <= n + 1
  BY <1>1, <1>2, <1>3 DEF Positions
<1>5. Max(S) = n + 1
  BY <1>4, LastIsMax
<1>6. Latest(d, "linked")' = event
  BY <1>1, <1>3, <1>5 DEF Latest
<1>. QED
  BY <1>2, <1>6 DEF Effective, Appended

-----------------------------------------------------------------------------
(* The properties, dispatch by dispatch.                                      *)

Attributed(d) ==
  LET launch == Effective(d) IN
  launch.decision # None =>
    /\ launch.decision \in DOMAIN decisions
    /\ decisions[launch.decision].subject = launch.subject
    /\ decisions[launch.decision].at <= launch.at
    /\ \/ launch.reason # None
       \/ /\ decisions[launch.decision].selected # None
          /\ ~Deviates(decisions[launch.decision], launch)
Accepted(d) == Positions(d, {"accepted"}) # {}
Earned(d) ==
  Accepted(d) =>
    LET decision == Effective(d).decision IN
    /\ decision \in DOMAIN decisions
    /\ Completed(d) /\ ~Rejected(d)
    /\ Positions(d, {"accepted"}) = {Len(log[d])}
    /\ decisions[decision].required =>
         /\ ReviewValid(d)
         /\ \E i \in DOMAIN log[d] :
              /\ IndependentYes(d, i)
              /\ \A j \in i + 1 .. Len(log[d]) :
                   log[d][j].kind \notin {"review", "rework"}
InTime(d) ==
  \A i \in Positions(d, {"accepted"}) :
    /\ log[d][i].at >= launches[d].at
    /\ \A j \in DOMAIN log[d] : log[d][j].at <= log[d][i].at

DispatchWise ==
  /\ AttributionSound <=> \A d \in DOMAIN launches : Attributed(d)
  /\ AcceptanceEarned <=> \A d \in DOMAIN launches : Earned(d)
  /\ AcceptedLast <=> \A d \in DOMAIN launches : InTime(d)
LEMMA IsDispatchWise == DispatchWise
<1>1. AttributionSound <=> \A d \in DOMAIN launches : Attributed(d)
  BY DEF AttributionSound, Attributed
<1>2. AcceptanceEarned <=> \A d \in DOMAIN launches : Earned(d)
  <2>1. ASSUME NEW d
        PROVE  /\ AuditRow(d).accepted = Accepted(d)
               /\ AuditRow(d).linked = (Effective(d).decision \in DOMAIN decisions)
               /\ AuditRow(d).completed = Completed(d)
               /\ AuditRow(d).rejected = Rejected(d)
               /\ AuditRow(d).missingReview =
                    /\ Effective(d).decision \in DOMAIN decisions
                    /\ decisions[Effective(d).decision].required
                    /\ ~ReviewValid(d)
    BY DEF AuditRow, Accepted
  <2>. QED
    BY <2>1 DEF AcceptanceEarned, Earned
<1>3. AcceptedLast <=> \A d \in DOMAIN launches : InTime(d)
  BY DEF AcceptedLast, InTime
<1>. QED
  BY <1>1, <1>2, <1>3 DEF DispatchWise

LEMMA ByDispatch ==
  ASSUME StoreInv, NEW d \in DOMAIN launches
  PROVE  Attributed(d) /\ Earned(d) /\ InTime(d)
BY IsDispatchWise DEF DispatchWise, StoreInv

LEMMA EveryDispatch ==
  ASSUME \A d \in DOMAIN launches' : Attributed(d)' /\ Earned(d)' /\ InTime(d)'
  PROVE  AttributionSound' /\ AcceptanceEarned' /\ AcceptedLast'
<1>1. DispatchWise'
  BY IsDispatchWise, PTL
<1>. QED
  BY <1>1 DEF DispatchWise

\* A dispatch to which nothing happens, whatever decisions are added.
LEMMA DispatchKept ==
  ASSUME StoreInv, NEW d \in DOMAIN launches,
         log'[d] = log[d], launches'[d] = launches[d],
         DOMAIN decisions \subseteq DOMAIN decisions',
         \A y \in DOMAIN decisions : decisions'[y] = decisions[y]
  PROVE  Attributed(d)' /\ Earned(d)' /\ InTime(d)'
<1>1. /\ Effective(d)' = Effective(d)
      /\ \A kinds : Positions(d, kinds)' = Positions(d, kinds)
      /\ Completed(d)' = Completed(d) /\ Rejected(d)' = Rejected(d)
      /\ ReviewValid(d)' = ReviewValid(d)
  BY SameLog
<1>2. Attributed(d) /\ Earned(d) /\ InTime(d)
  BY ByDispatch
<1>3. Attributed(d)'
  BY <1>1, <1>2 DEF Attributed, Deviates
<1>4. Earned(d)'
  BY <1>1, <1>2 DEF Earned, Accepted, IndependentYes
<1>5. InTime(d)'
  BY <1>1, <1>2 DEF InTime
<1>. QED
  BY <1>3, <1>4, <1>5

-----------------------------------------------------------------------------
(* A decision or a launch is new: nothing is said of it yet.                  *)

LEMMA DecisionInv ==
  ASSUME StoreInv, NEW x \in DecisionIds, NEW decision \in Decision,
         RecordDecision(x, decision)
  PROVE  StoreInv'
<1>1. /\ x \notin DOMAIN decisions
      /\ decisions' = [y \in DOMAIN decisions \cup {x} |->
                         IF y = x THEN decision ELSE decisions[y]]
      /\ UNCHANGED <<launches, log>>
  BY DEF RecordDecision
<1>2. /\ DOMAIN decisions \subseteq DOMAIN decisions'
      /\ \A y \in DOMAIN decisions : decisions'[y] = decisions[y]
  BY <1>1
<1>3. OutcomeTypeOK' /\ OnlyLaunched'
  BY <1>1 DEF StoreInv, OutcomeTypeOK, OnlyLaunched
<1>4. ASSUME NEW d \in DOMAIN launches
      PROVE  Attributed(d)' /\ Earned(d)' /\ InTime(d)'
  BY <1>1, <1>2, <1>4, DispatchKept
<1>5. AttributionSound' /\ AcceptanceEarned' /\ AcceptedLast'
  BY <1>1, <1>4, EveryDispatch
<1>. QED
  BY <1>3, <1>5 DEF StoreInv

LEMMA LaunchInv ==
  ASSUME StoreInv, NEW d \in DispatchIds, NEW launch \in Launch, RecordLaunch(d, launch)
  PROVE  StoreInv'
<1>1. /\ d \notin DOMAIN launches
      /\ launches' = [x \in DOMAIN launches \cup {d} |->
                        IF x = d THEN launch ELSE launches[x]]
      /\ UNCHANGED <<decisions, log>>
  BY DEF RecordLaunch
<1>2. OutcomeTypeOK' /\ OnlyLaunched'
  BY <1>1 DEF StoreInv, OutcomeTypeOK, OnlyLaunched
<1>3. ASSUME NEW e \in DOMAIN launches
      PROVE  Attributed(e)' /\ Earned(e)' /\ InTime(e)'
  BY <1>1, DispatchKept
<1>4. Attributed(d)' /\ Earned(d)' /\ InTime(d)'
  <2>1. log'[d] = <<>> /\ launches'[d] = launch
    BY <1>1 DEF StoreInv, OnlyLaunched
  <2>2. \A kinds : Positions(d, kinds)' = {}
    BY <2>1 DEF Positions
  <2>3. Effective(d)' = launch
    BY <2>1, <2>2 DEF Effective
  <2>4. Attributed(d)'
    BY <1>1, <2>3 DEF Attributed, RecordLaunch, Valid, Deviates, Launch, Decision,
                      Times, StoreInv, OutcomeTypeOK
  <2>. QED
    BY <2>2, <2>4 DEF Earned, Accepted, InTime
<1>5. AttributionSound' /\ AcceptanceEarned' /\ AcceptedLast'
  BY <1>1, <1>3, <1>4, EveryDispatch
<1>. QED
  BY <1>2, <1>5 DEF StoreInv

-----------------------------------------------------------------------------
(* An event is appended: only its own dispatch remains to be looked at.       *)

LEMMA AppendInv ==
  ASSUME StoreInv, NEW d, NEW event, Appended(d, event),
         Attributed(d)', Earned(d)', InTime(d)'
  PROVE  StoreInv'
<1>0. OutcomeTypeOK /\ decisions' = decisions /\ launches' = launches
  BY DEF StoreInv, Appended
<1>1. PICK n : n = Len(log[d])
  OBVIOUS
<1>2. /\ n \in Nat /\ d \in DispatchIds /\ log' \in [DispatchIds -> Seq(Event)]
      /\ DOMAIN log[d] = 1 .. n /\ DOMAIN log'[d] = 1 .. n + 1
      /\ \A i \in 1 .. n : log'[d][i] = log[d][i]
      /\ log'[d][n + 1] = event
      /\ \A e \in DispatchIds \ {d} : log'[e] = log[e]
  BY <1>0, <1>1, AppendedLog
<1>3. \A e \in DispatchIds : \A j \in DOMAIN log[e] : log[e][j].id # event.id
  BY DEF Appended, UsedIds
<1>4. OutcomeTypeOK'
  <2>1. ASSUME NEW e \in DispatchIds, NEW f \in DispatchIds,
               NEW i \in DOMAIN log'[e], NEW j \in DOMAIN log'[f],
               log'[e][i].id = log'[f][j].id
        PROVE  e = f /\ i = j
    <3>1. (e = d /\ i = n + 1) \/ (i \in DOMAIN log[e] /\ log'[e][i] = log[e][i])
      BY <1>2
    <3>2. (f = d /\ j = n + 1) \/ (j \in DOMAIN log[f] /\ log'[f][j] = log[f][j])
      BY <1>2
    <3>. QED
      BY <1>0, <1>2, <1>3, <2>1, <3>1, <3>2 DEF OutcomeTypeOK
  <2>. QED
    BY <1>0, <1>2, <2>1 DEF OutcomeTypeOK
<1>5. OnlyLaunched'
  BY <1>0, <1>2 DEF StoreInv, OnlyLaunched, Appended
<1>6. ASSUME NEW e \in DOMAIN launches \ {d}
      PROVE  Attributed(e)' /\ Earned(e)' /\ InTime(e)'
  <2>1. e \in DispatchIds /\ launches'[e] = launches[e] /\ log'[e] = log[e]
    BY <1>0, <1>2 DEF OutcomeTypeOK
  <2>. QED
    BY <1>0, <2>1, DispatchKept
<1>7. AttributionSound' /\ AcceptanceEarned' /\ AcceptedLast'
  BY <1>0, <1>6, EveryDispatch
<1>. QED
  BY <1>4, <1>5, <1>7 DEF StoreInv

\* The late binding of a launch that has none; it is not accepted yet.
LEMMA LinkInv ==
  ASSUME StoreInv, NEW d \in DispatchIds, NEW launch \in Launch, NEW at \in Times,
         LinkLaunch(d, launch, at)
  PROVE  StoreInv'
<1>1. PICK event :
        event = [id |-> LinkId(d), kind |-> "linked", at |-> at,
                 data |-> [decision |-> launch.decision, reason |-> launch.reason]]
  OBVIOUS
<1>2. /\ d \in DOMAIN launches /\ Append1(d, event) /\ event.id \notin UsedIds
      /\ UNCHANGED <<decisions, launches>> /\ Valid(launch) /\ Bindable(d, launch)
  BY <1>1 DEF LinkLaunch
<1>3. launch.decision \in DecisionIds /\ launch.reason \in Reasons \cup {None}
  BY <1>2 DEF Bindable, Launch
<1>4. event \in Event
  BY <1>1, <1>3 DEF Event, Binding
<1>5. Appended(d, event) /\ OutcomeTypeOK
  BY <1>2, <1>4 DEF Appended, StoreInv
<1>6. Effective(d).decision = None
  BY <1>2 DEF Bindable
<1>7. Effective(d)' = [launches[d] EXCEPT !.decision = launch.decision,
                                          !.reason = launch.reason]
  <2>1. event.kind = "linked" /\ event.data.decision = launch.decision
        /\ event.data.reason = launch.reason
    BY <1>1
  <2>2. Effective(d)' = [launches[d] EXCEPT !.decision = event.data.decision,
                                            !.reason = event.data.reason]
    BY <1>5, <1>6, <2>1, BoundBy
  <2>. QED
    BY <2>1, <2>2
<1>8. Positions(d, {"accepted"})' = {}
  <2>1. None \notin DecisionIds /\ DOMAIN decisions \subseteq DecisionIds
    BY <1>5, StoreAssumption DEF OutcomeTypeOK
  <2>2. Earned(d)
    BY <1>2, ByDispatch
  <2>3. Positions(d, {"accepted"}) = {}
    BY <1>6, <2>1, <2>2 DEF Earned, Accepted
  <2>4. event.kind \notin {"accepted"}
    BY <1>1
  <2>. QED
    BY <1>5, <2>3, <2>4, OtherKinds
<1>9. Attributed(d)'
  <2>1. launches[d] \in Launch
    BY <1>2, <1>5 DEF OutcomeTypeOK
  <2>2. /\ launch.subject = launches[d].subject /\ launch.actual = launches[d].actual
        /\ launch.at = launches[d].at
    BY <1>2, <2>1 DEF Bindable, Launch, Effective
  <2>3. PICK bound : bound = [launches[d] EXCEPT !.decision = launch.decision,
                                                 !.reason = launch.reason]
    OBVIOUS
  <2>4. /\ bound.decision = launch.decision /\ bound.reason = launch.reason
        /\ bound.subject = launch.subject /\ bound.actual = launch.actual
        /\ bound.at = launch.at
    BY <2>1, <2>2, <2>3 DEF Launch
  <2>5. Effective(d)' = bound /\ decisions' = decisions
    BY <1>2, <1>7, <2>3
  <2>. QED
    BY <1>2, <1>5, <2>4, <2>5
    DEF Attributed, Valid, Deviates, Launch, Decision, Times, OutcomeTypeOK
<1>10. Earned(d)' /\ InTime(d)'
  BY <1>8 DEF Earned, Accepted, InTime
<1>. QED
  BY <1>5, <1>9, <1>10, AppendInv

\* A new event of any kind, while nothing is accepted.
LEMMA NewEventInv ==
  ASSUME StoreInv, NEW d, NEW event \in Event, RecordEvent(d, event),
         event.kind \notin {"linked", "accepted"}
  PROVE  StoreInv'
<1>1. Appended(d, event) /\ OutcomeTypeOK
  BY DEF RecordEvent, Appended, StoreInv
<1>2. Effective(d)' = Effective(d) /\ decisions' = decisions
  BY <1>1, AttributionKept DEF Appended
<1>3. Positions(d, {"accepted"})' = {}
  <2>1. event.kind \notin {"accepted"} /\ Positions(d, {"accepted"}) = {}
    BY DEF RecordEvent
  <2>. QED
    BY <1>1, <2>1, OtherKinds
<1>4. Attributed(d)
  BY <1>1, ByDispatch DEF Appended
<1>5. Attributed(d)' /\ Earned(d)' /\ InTime(d)'
  BY <1>2, <1>3, <1>4 DEF Attributed, Deviates, Earned, Accepted, InTime
<1>. QED
  BY <1>1, <1>5, AppendInv

\* The acceptance: what it was granted for is still there after it.
LEMMA AcceptInv ==
  ASSUME StoreInv, NEW d \in DispatchIds, NEW e \in EventIds, NEW at \in Times,
         Accept(d, e, at)
  PROVE  StoreInv'
<1>1. PICK event : event = [id |-> e, kind |-> "accepted", at |-> at, data |-> None]
  OBVIOUS
<1>2. /\ event \in Event /\ event.id = e
      /\ event.kind = "accepted" /\ event.at = at
  BY <1>1 DEF Event, PlainKinds
<1>3. /\ d \in DOMAIN launches /\ Effective(d).decision \in DOMAIN decisions
      /\ Completed(d) /\ ~Rejected(d)
      /\ decisions[Effective(d).decision].required => ReviewValid(d)
      /\ RecordEvent(d, event)
  BY <1>1 DEF Accept
<1>4. Appended(d, event) /\ OutcomeTypeOK
  BY <1>2, <1>3 DEF RecordEvent, Appended, StoreInv
<1>5. PICK n : n = Len(log[d])
  OBVIOUS
<1>6. /\ n \in Nat /\ DOMAIN log[d] = 1 .. n /\ DOMAIN log'[d] = 1 .. n + 1
      /\ Len(log'[d]) = n + 1
      /\ \A i \in 1 .. n : log'[d][i] = log[d][i]
      /\ log'[d][n + 1] = event
  BY <1>4, <1>5, AppendedLog
<1>7. Effective(d)' = Effective(d) /\ UNCHANGED <<decisions, launches>>
  BY <1>2, <1>4, AttributionKept DEF Appended
<1>8. Positions(d, {"accepted"})' = {n + 1}
  <2>1. Positions(d, {"accepted"}) = {}
    BY <1>3 DEF RecordEvent
  <2>2. Positions(d, {"accepted"})' =
          Positions(d, {"accepted"})
            \cup (IF event.kind \in {"accepted"} THEN {n + 1} ELSE {})
    BY <1>4, <1>5, AppendedPositions
  <2>. QED
    BY <1>2, <2>1, <2>2
<1>9. /\ Positions(d, {"completed"})' = Positions(d, {"completed"})
      /\ Positions(d, TerminalKinds)' = Positions(d, TerminalKinds)
      /\ Positions(d, {"review"})' = Positions(d, {"review"})
      /\ Positions(d, {"rework"})' = Positions(d, {"rework"})
  <2>1. /\ event.kind \notin {"completed"} /\ event.kind \notin TerminalKinds
        /\ event.kind \notin {"review"} /\ event.kind \notin {"rework"}
    BY <1>2 DEF TerminalKinds
  <2>. QED
    BY <1>4, <2>1, OtherKinds
<1>10. Positions(d, {"review"}) # {} => Latest(d, "review")' = Latest(d, "review")
  BY <1>2, <1>4, OtherLatest
<1>11. Completed(d)' /\ ~Rejected(d)'
  BY <1>3, <1>9, <1>10 DEF Completed, Rejected
<1>12. ASSUME decisions[Effective(d).decision].required
       PROVE  /\ ReviewValid(d)'
              /\ \E i \in DOMAIN log'[d] :
                   /\ IndependentYes(d, i)'
                   /\ \A j \in i + 1 .. n + 1 :
                        log'[d][j].kind \notin {"review", "rework"}
  <2>1. ReviewValid(d)
    BY <1>3, <1>12
  <2>2. ReviewValid(d)'
    BY <1>7, <1>9, <1>10, <2>1 DEF ReviewValid
  <2>3. PICK m : m = Max(Positions(d, {"review"}))
    OBVIOUS
  <2>4. /\ m \in Positions(d, {"review"}) /\ m \in 1 .. n /\ m \in Nat
        /\ \A j \in Positions(d, {"review"}) : j <= m
    BY <1>4, <1>6, <2>1, <2>3, LatestOf DEF ReviewValid, Appended, OutcomeTypeOK
  <2>5. log'[d][m] = Latest(d, "review") /\ log'[d][m].kind = "review"
    BY <1>6, <2>3, <2>4 DEF Latest, Positions
  <2>6. IndependentYes(d, m)'
    BY <1>7, <2>1, <2>5 DEF IndependentYes, ReviewValid
  <2>7. ASSUME NEW j \in m + 1 .. n + 1
        PROVE  log'[d][j].kind \notin {"review", "rework"}
    <3>1. CASE j = n + 1
      BY <1>2, <1>6, <3>1
    <3>2. CASE j \in 1 .. n
      <4>1. j \notin Positions(d, {"review"}) /\ j \notin Positions(d, {"rework"})
        BY <2>1, <2>3, <2>4, <2>7 DEF ReviewValid
      <4>. QED
        BY <1>6, <3>2, <4>1 DEF Positions
    <3>. QED
      BY <1>6, <2>4, <3>1, <3>2
  <2>. QED
    BY <1>6, <2>2, <2>4, <2>6, <2>7
<1>13. Earned(d)'
  BY <1>3, <1>6, <1>7, <1>8, <1>11, <1>12 DEF Earned
<1>14. InTime(d)'
  <2>1. at >= launches[d].at /\ \A i \in 1 .. n : at >= log[d][i].at
    BY <1>2, <1>3, <1>6 DEF RecordEvent, InOrder
  <2>2. at \in Nat /\ \A i \in 1 .. n : log[d][i].at \in Nat
    <3>1. \A t \in Times : t \in Nat
      BY StoreAssumption DEF Times
    <3>2. log[d] \in Seq(Event)
      BY <1>4 DEF OutcomeTypeOK
    <3>3. \A i \in 1 .. n : log[d][i] \in Event
      BY <1>5, <3>2
    <3>4. \A v \in Event : v.at \in Times
      BY DEF Event
    <3>. QED
      BY <3>1, <3>3, <3>4
  <2>3. \A j \in 1 .. n + 1 : log'[d][j].at <= at
    <3>1. \A j \in 1 .. n : log'[d][j].at <= at
      BY <1>6, <2>1, <2>2
    <3>2. log'[d][n + 1].at <= at
      BY <1>2, <1>6, <2>2
    <3>. QED
      BY <1>6, <3>1, <3>2
  <2>. QED
    BY <1>2, <1>6, <1>7, <1>8, <2>1, <2>3 DEF InTime
<1>15. Attributed(d)'
  <2>1. Attributed(d)
    BY <1>3, ByDispatch
  <2>. QED
    BY <1>7, <2>1 DEF Attributed, Deviates
<1>. QED
  BY <1>4, <1>13, <1>14, <1>15, AppendInv

-----------------------------------------------------------------------------
(* The theorems.                                                              *)

LEMMA InitStoreInv == Init => StoreInv
BY DEF Init, StoreInv, OutcomeTypeOK, OnlyLaunched, AttributionSound,
       AcceptanceEarned, AcceptedLast

LEMMA StoreNextInv ==
  ASSUME StoreInv, [Next]_outcomeVars
  PROVE  StoreInv'
<1>1. ASSUME NEW x \in DecisionIds, NEW decision \in DecisionInputs,
             RecordDecision(x, decision)
      PROVE  StoreInv'
  BY <1>1, DecisionInv, StoreAssumption
<1>2. ASSUME NEW d \in DispatchIds, NEW launch \in LaunchInputs,
             \/ RecordLaunch(d, launch)
             \/ \E at \in Times : LinkLaunch(d, launch, at)
      PROVE  StoreInv'
  BY <1>2, LaunchInv, LinkInv, StoreAssumption
<1>3. ASSUME NEW d \in DispatchIds, NEW e \in EventIds, NEW kind \in PlainKinds,
             NEW at \in Times, Finish(d, e, kind, at) \/ Note(d, e, kind, at)
      PROVE  StoreInv'
  <2>1. PICK event : event = [id |-> e, kind |-> kind, at |-> at, data |-> None]
    OBVIOUS
  <2>2. event \in Event /\ event.kind = kind
    BY <2>1 DEF Event
  <2>3. RecordEvent(d, event) /\ kind \notin {"linked", "accepted"}
    BY <1>3, <2>1 DEF Finish, Note, TerminalKinds
  <2>. QED
    BY <2>2, <2>3, NewEventInv
<1>4. ASSUME NEW d \in DispatchIds, NEW e \in EventIds, NEW data \in ReviewData,
             NEW at \in Times, Review(d, e, data, at)
      PROVE  StoreInv'
  <2>1. PICK event : event = [id |-> e, kind |-> "review", at |-> at, data |-> data]
    OBVIOUS
  <2>2. event \in Event /\ event.kind = "review"
    BY <2>1 DEF Event
  <2>3. RecordEvent(d, event)
    BY <1>4, <2>1 DEF Review
  <2>. QED
    BY <2>2, <2>3, NewEventInv
<1>5. ASSUME NEW d \in DispatchIds, NEW e \in EventIds, NEW at \in Times,
             Accept(d, e, at)
      PROVE  StoreInv'
  BY <1>5, AcceptInv
<1>6. CASE UNCHANGED outcomeVars
  <2>1. UNCHANGED <<decisions, launches, log>>
    BY <1>6 DEF outcomeVars
  <2>2. OutcomeTypeOK' /\ OnlyLaunched'
    BY <2>1 DEF StoreInv, OutcomeTypeOK, OnlyLaunched
  <2>3. AttributionSound' /\ AcceptanceEarned' /\ AcceptedLast'
    BY <2>1, DispatchKept, EveryDispatch
  <2>. QED
    BY <2>2, <2>3 DEF StoreInv
<1>. QED
  BY <1>1, <1>2, <1>3, <1>4, <1>5, <1>6 DEF Next, TerminalKinds, PlainKinds

(* At every step of every history of the store.                               *)
THEOREM StoreInvariant == OutcomeSpec => []StoreInv
BY InitStoreInv, StoreNextInv, PTL DEF OutcomeSpec

(* Every table holds records of its type and no identifier names two events.  *)
THEOREM OutcomesTyped == OutcomeSpec => []OutcomeTypeOK
<1>1. StoreInv => OutcomeTypeOK
  BY DEF StoreInv
<1>. QED
  BY <1>1, StoreInvariant, PTL

(* An acceptance is earned by the whole record, and the audit says so.        *)
THEOREM AcceptanceIsEarned == OutcomeSpec => []AcceptanceEarned
<1>1. StoreInv => AcceptanceEarned
  BY DEF StoreInv
<1>. QED
  BY <1>1, StoreInvariant, PTL

(* A launch is attributed to an earlier decision about the same work.         *)
THEOREM AttributionIsSound == OutcomeSpec => []AttributionSound
<1>1. StoreInv => AttributionSound
  BY DEF StoreInv
<1>. QED
  BY <1>1, StoreInvariant, PTL

(* No event of an accepted dispatch is stamped later than the acceptance.     *)
THEOREM AcceptanceIsLast == OutcomeSpec => []AcceptedLast
<1>1. StoreInv => AcceptedLast
  BY DEF StoreInv
<1>. QED
  BY <1>1, StoreInvariant, PTL

\* What is appended without binding anything, and to whom.
LEMMA NextAttribution ==
  ASSUME StoreInv, [Next]_outcomeVars, NEW d \in DOMAIN launches,
         Effective(d).decision # None
  PROVE  Effective(d)' = Effective(d)
<1>0. d \in DispatchIds /\ OutcomeTypeOK
  BY DEF StoreInv, OutcomeTypeOK
<1>1. ASSUME launches'[d] = launches[d], log'[d] = log[d]
      PROVE  Effective(d)' = Effective(d)
  BY <1>1, SameLog
<1>2. ASSUME NEW x, NEW decision, RecordDecision(x, decision)
      PROVE  Effective(d)' = Effective(d)
  BY <1>1, <1>2 DEF RecordDecision
<1>3. ASSUME NEW e, NEW launch, RecordLaunch(e, launch)
      PROVE  Effective(d)' = Effective(d)
  BY <1>1, <1>3 DEF RecordLaunch
<1>4. ASSUME NEW e \in DispatchIds, NEW launch, NEW at, LinkLaunch(e, launch, at)
      PROVE  Effective(d)' = Effective(d)
  <2>1. e # d
    BY <1>4 DEF LinkLaunch, Bindable
  <2>. QED
    BY <1>0, <1>1, <1>4, <2>1 DEF LinkLaunch, Append1, OutcomeTypeOK
<1>5. ASSUME NEW e \in DispatchIds, NEW event \in Event, event.kind # "linked",
             RecordEvent(e, event)
      PROVE  Effective(d)' = Effective(d)
  <2>1. Appended(e, event)
    BY <1>5 DEF RecordEvent, Appended
  <2>2. CASE e = d
    BY <1>0, <1>5, <2>1, <2>2, AttributionKept
  <2>3. CASE e # d
    BY <1>0, <1>1, <2>1, <2>3, OthersKept
  <2>. QED
    BY <2>2, <2>3
<1>6. ASSUME NEW e \in DispatchIds, NEW id \in EventIds, NEW kind \in PlainKinds,
             NEW at \in Times,
             Finish(e, id, kind, at) \/ Note(e, id, kind, at) \/ Accept(e, id, at)
      PROVE  Effective(d)' = Effective(d)
  <2>1. PICK k \in PlainKinds :
          RecordEvent(e, [id |-> id, kind |-> k, at |-> at, data |-> None])
    BY <1>6 DEF Finish, Note, Accept, PlainKinds
  <2>2. PICK event : event = [id |-> id, kind |-> k, at |-> at, data |-> None]
    OBVIOUS
  <2>3. event \in Event /\ event.kind # "linked"
    BY <2>2 DEF Event, PlainKinds, TerminalKinds
  <2>. QED
    BY <1>5, <2>1, <2>2, <2>3
<1>7. ASSUME NEW e \in DispatchIds, NEW id \in EventIds, NEW data \in ReviewData,
             NEW at \in Times, Review(e, id, data, at)
      PROVE  Effective(d)' = Effective(d)
  <2>1. PICK event : event = [id |-> id, kind |-> "review", at |-> at, data |-> data]
    OBVIOUS
  <2>2. event \in Event /\ event.kind # "linked"
    BY <2>1 DEF Event
  <2>. QED
    BY <1>5, <1>7, <2>1, <2>2 DEF Review
<1>8. CASE UNCHANGED outcomeVars
  BY <1>1, <1>8 DEF outcomeVars
<1>. QED
  BY <1>2, <1>3, <1>4, <1>6, <1>7, <1>8 DEF Next, PlainKinds

(* A launch is attributed once: no later call binds it to another decision.   *)
THEOREM AttributionIsFinal == OutcomeSpec => BoundOnce
<1>1. ASSUME StoreInv, [Next]_outcomeVars
      PROVE  [\A d \in DOMAIN launches :
                Effective(d).decision # None => Effective(d)' = Effective(d)]_outcomeVars
  BY <1>1, NextAttribution
<1>. QED
  BY <1>1, StoreInvariant, PTL DEF OutcomeSpec, BoundOnce

----------------------------------------------------------------------------
(***************************************************************************)
(* What holds of the legacy file and its generations, for every number of   *)
(* reservations, migrations, managed attempts and crashes: types, the fence *)
(* of a rollback, that state.json never disappears, and that no reservation *)
(* is lost or left behind.                                                  *)
(*                                                                          *)
(* None of them is inductive alone.  A step that renames needs to know what *)
(* an earlier step, possibly of a call that was killed, left in the         *)
(* migration's directory; MigrationInv relates the step a call stands at to *)
(* the manifest's phase and to those files, and HoldsInv says which         *)
(* reservations each of the files holds.                                    *)
(***************************************************************************)

\* What a call that stands at a step has found or made.
Migrating == {"target", "source", "guard", "cutover", "enable", "activate"}
Rolling == {"disable", "gate", "archive", "restoring", "stage", "restore",
            "finish"}

\* The manifest licenses the step, and names the migration it belongs to.
StepMatchesPhase ==
  /\ job.step \in {"backup", "candidate", "publish"} => Legacy
  /\ job.step \in Migrating => record.phase = "prepared" /\ record.id = job.id
  /\ job.step \in Rolling =>
       record.phase \in {"active", "restoring"} /\ record.id = job.id
  /\ job.step \in {"archive", "restoring"} => record.phase = "active"
  /\ job.step \in {"stage", "restore", "finish"} => record.phase = "restoring"

\* What the rest of the transition swaps in or copies is there.
BackupsMade ==
  /\ job.step \in {"candidate", "publish"} => backups[job.id].state # Absent
  /\ job.step = "publish" => backups[job.id].candidate # Absent
  /\ job.step = "cutover" => backups[job.id].guard = Dir
  /\ job.step = "restore" => IsFile(backups[job.id].restore)
  /\ record.phase # "none" =>
       backups[record.id].state # Absent /\ backups[record.id].candidate # Absent

\* The new file exists once it counts, and the fence is down when it does not.
TargetMade ==
  /\ Legacy \/ job.step = "finish" => legacy # Dir
  /\ job.step \in Migrating \ {"target"} => target # Absent
  /\ record.phase \in {"active", "restoring"} => target # Absent

\* Admission stays off from the first transaction of a rollback on.
Fence ==
  /\ RollbackFenced
  /\ job.step \in Rolling \ {"disable"} => admissions = "disabled"
  /\ job.step \in Rolling \ {"disable", "gate"} => managed = 0

\* The inductive invariant.
MigrationInv ==
  MigrationTypeOK /\ StepMatchesPhase /\ BackupsMade /\ TargetMade /\ Fence

(* Parts of the type invariant, for the steps that disturb one of them.      *)
FilesOK ==
  legacy \in Old \cup {Dir} /\ target \in New /\ backups \in [Ids -> Backup]
RecordOK == record \in {NoRecord} \cup Record
JobOK == job \in {Idle} \cup [step : Steps, id : Ids]

(* Contents keep their generation under the writers.                      *)
LEMMA WithoutTyped ==
  ASSUME NEW g \in {1, 2}, NEW f \in Content(g), NEW gone,
         NEW added \in SUBSET Row
  PROVE  Without(f, gone, added) \in Content(g)
BY DEF Without, Content, HeldRows

(* migrate() makes the next generation of any content it reads.                *)
LEMMA MigratedTyped ==
  ASSUME NEW f \in Content(1)
  PROVE  Migrated(f) \in Content(2)
<1>1. \A r \in Row : [r EXCEPT !.migrated = TRUE] \in Row
  BY DEF Row
<1>. QED
  BY <1>1 DEF Migrated, Content

(* A state file nobody wrote yet counts as one without reservations.         *)
LEMMA EmptyTyped == Empty \in Content(1)
BY DEF Empty, Content

(* Before the first migration there is nothing to relate.                     *)
THEOREM InitInv == MigrationInit => MigrationInv
<1> SUFFICES ASSUME MigrationInit PROVE MigrationInv
  OBVIOUS
<1> USE EmptyTyped, FileAssumption, MigrationAssumption DEF MigrationInit,
MigrationAssumption, IsFile, Legacy
<1>1. MigrationTypeOK
  <2>1. NoBackup \in Backup
    BY DEF NoBackup, Backup, Old, New
  <2>2. legacy \in Old \cup {Dir} /\ target \in New
    BY DEF Old, New
  <2>3. managed \in 0 .. MaxManaged /\ crashes \in 0 .. MaxCrashes
    OBVIOUS
  <2>. QED
    BY <2>1, <2>2, <2>3 DEF MigrationTypeOK
<1>2. StepMatchesPhase /\ BackupsMade /\ TargetMade /\ Fence
  BY DEF StepMatchesPhase, BackupsMade, TargetMade, Fence, RollbackFenced,
         Idle, NoRecord, Migrating, Rolling
<1>. QED
  BY <1>1, <1>2 DEF MigrationInv


(* The first backup of a migration holds what was found.                      *)
LEMMA SavedTyped ==
  ASSUME NEW k \in Backup, NEW s \in Old, NEW p \in New
  PROVE  [k EXCEPT !.state = s, !.previous = p] \in Backup
BY DEF Backup

(* What is found is a file: the fence is down before a migration.             *)
LEMMA SaveBackupTyped ==
  ASSUME MigrationInv, SaveBackup
  PROVE  backups' \in [Ids -> Backup]
<1>1. job.id \in Ids /\ backups[job.id] \in Backup
  BY DEF MigrationInv, MigrationTypeOK, SaveBackup, At, Idle
<1>2. target \in New /\ (IF legacy = Absent THEN Empty ELSE legacy) \in Old
  BY EmptyTyped DEF MigrationInv, MigrationTypeOK, SaveBackup, At,
  StepMatchesPhase,
     TargetMade, Old
<1>3. [backups[job.id] EXCEPT
         !.state = IF legacy = Absent THEN Empty ELSE legacy,
         !.previous = target] \in Backup
  BY <1>1, <1>2, SavedTyped
<1>. QED
  BY <1>1, <1>3 DEF MigrationInv, MigrationTypeOK, SaveBackup

(* Every durable step of migrate() and rollback() leaves files of the
   generation that belongs in their place. *)
LEMMA TransitionFiles ==
  ASSUME MigrationInv, TransitionStep
  PROVE  FilesOK'
<1>0. Outside
  BY DEF TransitionStep
<1> USE <1>0, FileAssumption, EmptyTyped, MigratedTyped
        DEF MigrationInv, MigrationTypeOK, Outside, At, Goto, Done, Mine, Save,
            SetPhase, Swap, Legacy, IsFile, files, Idle,
            FilesOK, BackupsMade, TargetMade, StepMatchesPhase, JobOK, Old,
            New, Backup, NoBackup, Steps, MigrateInLedger, RollbackInLedger
<1>1. CASE \E i \in Ids : StartMigrate(i)
  BY <1>1 DEF StartMigrate
<1>2. CASE SaveBackup
  BY <1>2, SaveBackupTyped DEF SaveBackup
<1>3. CASE SaveCandidate
  BY <1>3 DEF SaveCandidate
<1>4. CASE Publish
  BY <1>4 DEF Publish
<1>5. CASE WriteTarget \/ WriteSource \/ CheckSource
  BY <1>5 DEF WriteTarget, WriteSource, CheckSource
<1>6. CASE MakeGuard \/ Cutover
  BY <1>6 DEF MakeGuard, Cutover
<1>7. CASE Enable \/ Activate
  BY <1>7 DEF Enable, Activate
<1>8. CASE StartRollback \/ Disable \/ Gate
  BY <1>8 DEF StartRollback, Disable, Gate
<1>9. CASE Archive \/ Restoring
  BY <1>9 DEF Archive, Restoring
<1>10. CASE Stage
  BY <1>10 DEF Stage
<1>11. CASE Restore \/ FinishRollback
  BY <1>11 DEF Restore, FinishRollback
<1>. QED
  BY <1>1, <1>2, <1>3, <1>4, <1>5, <1>6, <1>7, <1>8, <1>9, <1>10,
     <1>11 DEF TransitionStep

(* The manifest stays well formed, whatever step writes it. *)
LEMMA TransitionRecord ==
  ASSUME MigrationInv, TransitionStep
  PROVE  RecordOK'
<1>0. Outside
  BY DEF TransitionStep
<1> USE <1>0, FileAssumption, EmptyTyped, MigratedTyped
        DEF MigrationInv, MigrationTypeOK, Outside, At, Goto, Done, Mine, Save,
            SetPhase, Swap, Legacy, IsFile, files, Idle,
            FilesOK, RecordOK, JobOK, StepMatchesPhase, BackupsMade, Record,
            NoRecord, Migrating, Rolling, Old, Backup
<1>1. CASE \E i \in Ids : StartMigrate(i)
  BY <1>1 DEF StartMigrate
<1>2. CASE SaveBackup
  BY <1>2 DEF SaveBackup
<1>3. CASE SaveCandidate
  BY <1>3 DEF SaveCandidate
<1>4. CASE Publish
  BY <1>4 DEF Publish
<1>5. CASE WriteTarget \/ WriteSource \/ CheckSource
  BY <1>5 DEF WriteTarget, WriteSource, CheckSource
<1>6. CASE MakeGuard \/ Cutover
  BY <1>6 DEF MakeGuard, Cutover
<1>7. CASE Enable \/ Activate
  BY <1>7 DEF Enable, Activate
<1>8. CASE StartRollback \/ Disable \/ Gate
  BY <1>8 DEF StartRollback, Disable, Gate
<1>9. CASE Archive \/ Restoring
  BY <1>9 DEF Archive, Restoring
<1>10. CASE Stage
  BY <1>10 DEF Stage
<1>11. CASE Restore \/ FinishRollback
  BY <1>11 DEF Restore, FinishRollback
<1>. QED
  BY <1>1, <1>2, <1>3, <1>4, <1>5, <1>6, <1>7, <1>8, <1>9, <1>10,
     <1>11 DEF TransitionStep

(* A call stands at a step of its own transition. *)
LEMMA TransitionJob ==
  ASSUME MigrationInv, TransitionStep
  PROVE  JobOK'
<1>0. Outside
  BY DEF TransitionStep
<1> USE <1>0, FileAssumption, EmptyTyped, MigratedTyped
        DEF MigrationInv, MigrationTypeOK, Outside, At, Goto, Done, Mine, Save,
            SetPhase, Swap, Legacy, IsFile, files, Idle,
            JobOK, RecordOK, Record, NoRecord, Steps, MigrateInLedger,
            RollbackInLedger
<1>1. CASE \E i \in Ids : StartMigrate(i)
  BY <1>1 DEF StartMigrate
<1>2. CASE SaveBackup
  BY <1>2 DEF SaveBackup
<1>3. CASE SaveCandidate
  BY <1>3 DEF SaveCandidate
<1>4. CASE Publish
  BY <1>4 DEF Publish
<1>5. CASE WriteTarget \/ WriteSource \/ CheckSource
  BY <1>5 DEF WriteTarget, WriteSource, CheckSource
<1>6. CASE MakeGuard \/ Cutover
  BY <1>6 DEF MakeGuard, Cutover
<1>7. CASE Enable \/ Activate
  BY <1>7 DEF Enable, Activate
<1>8. CASE StartRollback \/ Disable \/ Gate
  BY <1>8 DEF StartRollback, Disable, Gate
<1>9. CASE Archive \/ Restoring
  BY <1>9 DEF Archive, Restoring
<1>10. CASE Stage
  BY <1>10 DEF Stage
<1>11. CASE Restore \/ FinishRollback
  BY <1>11 DEF Restore, FinishRollback
<1>. QED
  BY <1>1, <1>2, <1>3, <1>4, <1>5, <1>6, <1>7, <1>8, <1>9, <1>10,
     <1>11 DEF TransitionStep

(* A call is never at a step its manifest's phase does not allow. *)
LEMMA TransitionPhase ==
  ASSUME MigrationInv, TransitionStep
  PROVE  StepMatchesPhase'
<1>0. Outside
  BY DEF TransitionStep
<1> USE <1>0, FileAssumption, EmptyTyped, MigratedTyped
        DEF MigrationInv, MigrationTypeOK, Outside, At, Goto, Done, Mine, Save,
            SetPhase, Swap, Legacy, IsFile, files, Idle,
            RecordOK, JobOK, Record, NoRecord, StepMatchesPhase, Migrating,
            Rolling
<1>1. CASE \E i \in Ids : StartMigrate(i)
  BY <1>1 DEF StartMigrate
<1>2. CASE SaveBackup
  BY <1>2 DEF SaveBackup
<1>3. CASE SaveCandidate
  BY <1>3 DEF SaveCandidate
<1>4. CASE Publish
  BY <1>4 DEF Publish
<1>5. CASE WriteTarget \/ WriteSource \/ CheckSource
  BY <1>5 DEF WriteTarget, WriteSource, CheckSource
<1>6. CASE MakeGuard \/ Cutover
  BY <1>6 DEF MakeGuard, Cutover
<1>7. CASE Enable \/ Activate
  BY <1>7 DEF Enable, Activate
<1>8. CASE StartRollback \/ Disable \/ Gate
  BY <1>8 DEF StartRollback, Disable, Gate
<1>9. CASE Archive \/ Restoring
  BY <1>9 DEF Archive, Restoring
<1>10. CASE Stage
  BY <1>10 DEF Stage
<1>11. CASE Restore \/ FinishRollback
  BY <1>11 DEF Restore, FinishRollback
<1>. QED
  BY <1>1, <1>2, <1>3, <1>4, <1>5, <1>6, <1>7, <1>8, <1>9, <1>10,
     <1>11 DEF TransitionStep

(* The files a later step relies on exist when it is reached, also when
   another call, since killed, made them. *)
LEMMA TransitionBackups ==
  ASSUME MigrationInv, TransitionStep
  PROVE  BackupsMade' /\ TargetMade'
<1>0. Outside
  BY DEF TransitionStep
<1> USE <1>0, FileAssumption, EmptyTyped, MigratedTyped
        DEF MigrationInv, MigrationTypeOK, Outside, At, Goto, Done, Mine, Save,
            SetPhase, Swap, Legacy, IsFile, files, Idle,
            FilesOK, JobOK, Record, NoRecord, Old, New, Backup,
            StepMatchesPhase, BackupsMade, TargetMade, Migrating, Rolling
<1>1. CASE \E i \in Ids : StartMigrate(i)
  BY <1>1 DEF StartMigrate
<1>2. CASE SaveBackup
  BY <1>2 DEF SaveBackup
<1>3. CASE SaveCandidate
  BY <1>3 DEF SaveCandidate
<1>4. CASE Publish
  BY <1>4 DEF Publish
<1>5. CASE WriteTarget \/ WriteSource \/ CheckSource
  BY <1>5 DEF WriteTarget, WriteSource, CheckSource
<1>6. CASE MakeGuard \/ Cutover
  BY <1>6 DEF MakeGuard, Cutover
<1>7. CASE Enable \/ Activate
  BY <1>7 DEF Enable, Activate
<1>8. CASE StartRollback \/ Disable \/ Gate
  BY <1>8 DEF StartRollback, Disable, Gate
<1>9. CASE Archive \/ Restoring
  BY <1>9 DEF Archive, Restoring
<1>10. CASE Stage
  BY <1>10 DEF Stage
<1>11. CASE Restore \/ FinishRollback
  BY <1>11 DEF Restore, FinishRollback
<1>. QED
  BY <1>1, <1>2, <1>3, <1>4, <1>5, <1>6, <1>7, <1>8, <1>9, <1>10,
     <1>11 DEF TransitionStep

(* Admission is off, and nothing is running, from the gate of a rollback
   to the next migration's cutover. *)
LEMMA TransitionFence ==
  ASSUME MigrationInv, TransitionStep
  PROVE  Fence'
<1>0. Outside
  BY DEF TransitionStep
<1> USE <1>0, FileAssumption, EmptyTyped, MigratedTyped
        DEF MigrationInv, MigrationTypeOK, Outside, At, Goto, Done, Mine, Save,
            SetPhase, Swap, Legacy, IsFile, files, Idle,
            JobOK, RecordOK, Record, NoRecord, StepMatchesPhase, Fence,
            RollbackFenced, Migrating, Rolling
<1>1. CASE \E i \in Ids : StartMigrate(i)
  BY <1>1 DEF StartMigrate
<1>2. CASE SaveBackup
  BY <1>2 DEF SaveBackup
<1>3. CASE SaveCandidate
  BY <1>3 DEF SaveCandidate
<1>4. CASE Publish
  BY <1>4 DEF Publish
<1>5. CASE WriteTarget \/ WriteSource \/ CheckSource
  BY <1>5 DEF WriteTarget, WriteSource, CheckSource
<1>6. CASE MakeGuard \/ Cutover
  BY <1>6 DEF MakeGuard, Cutover
<1>7. CASE Enable \/ Activate
  BY <1>7 DEF Enable, Activate
<1>8. CASE StartRollback \/ Disable \/ Gate
  BY <1>8 DEF StartRollback, Disable, Gate
<1>9. CASE Archive \/ Restoring
  BY <1>9 DEF Archive, Restoring
<1>10. CASE Stage
  BY <1>10 DEF Stage
<1>11. CASE Restore \/ FinishRollback
  BY <1>11 DEF Restore, FinishRollback
<1>. QED
  BY <1>1, <1>2, <1>3, <1>4, <1>5, <1>6, <1>7, <1>8, <1>9, <1>10,
     <1>11 DEF TransitionStep


(* A writer of reservations changes rows of the file that counts, no more.    *)
LEMMA RewriteInv ==
  ASSUME MigrationInv, NEW gone, NEW added \in SUBSET Row, Rewrite(gone, added),
         fate' \in [Holds -> {"unused", "old", "new", "reported", "reaped"}]
  PROVE  MigrationInv'
<1> USE FileAssumption, EmptyTyped, WithoutTyped
    DEF MigrationInv, MigrationTypeOK, Rewrite, IsFile, Idle
<1>1. /\ legacy' \in Old \cup {Dir} /\ target' \in New
      /\ legacy' = legacy \/ IsFile(legacy')
      /\ target' = target \/ IsFile(target')
  <2>1. CASE legacy # Dir /\ legacy' = Without(Authority, gone,
  added) /\ UNCHANGED target
    <3>1. Authority \in Content(1)
      BY <2>1 DEF Authority, Old
    <3>2. legacy' \in Content(1)
      BY <2>1, <3>1, WithoutTyped
    <3>3. IsFile(legacy')
      BY <3>2, FileAssumption
    <3>. QED
      BY <2>1, <3>2, <3>3 DEF Old
  <2>2. CASE record.phase = "active" /\ target' = Without(target, gone,
  added) /\ UNCHANGED legacy
    <3>1. target \in Content(2)
      BY <2>2 DEF New, TargetMade
    <3>2. target' \in Content(2)
      BY <2>2, <3>1, WithoutTyped
    <3>3. IsFile(target')
      BY <3>2, FileAssumption
    <3>. QED
      BY <2>2, <3>2, <3>3 DEF New
  <2>. QED
    BY <2>1, <2>2
<1>5. changed' \in BOOLEAN
  OBVIOUS
<1>6. MigrationTypeOK'
  BY <1>1, <1>5
<1>2. StepMatchesPhase' /\ BackupsMade'
  BY DEF StepMatchesPhase, BackupsMade, Legacy
<1>3. TargetMade'
  BY <1>1 DEF TargetMade, Legacy
<1>4. Fence'
  BY DEF Fence, RollbackFenced
<1>. QED
  BY <1>6, <1>2, <1>3, <1>4

(* The inductive step: one case per disjunct of MigrationNext.                         *)
LEMMA StepInv ==
  ASSUME MigrationInv, [MigrationNext]_migrationVars
  PROVE  MigrationInv'
<1>1. CASE TransitionStep
  <2>1. MigrationTypeOK'
    BY <1>1, TransitionFiles, TransitionRecord, TransitionJob
       DEF MigrationInv, MigrationTypeOK, FilesOK, RecordOK, JobOK, TransitionStep,
           Outside, StartMigrate, SaveBackup, SaveCandidate, Publish, WriteTarget,
           WriteSource, CheckSource, MakeGuard, Cutover, Enable, Activate,
           StartRollback, Disable, Gate, Archive, Restoring, Stage, Restore,
           FinishRollback
  <2>. QED
    BY <1>1, <2>1, TransitionPhase, TransitionBackups, TransitionFence DEF MigrationInv
<1>2. ASSUME NEW h \in Holds, Reserve(h) \/ Report(h) \/ Reap(h)
      PROVE  MigrationInv'
  <2>1. [id |-> h, migrated |-> FALSE] \in Row
    BY DEF Row
  <2>2. \E gone, added : added \in SUBSET Row /\ Rewrite(gone, added)
    BY <1>2, <2>1 DEF Reserve, Report, Reap
  <2>3. fate' \in [Holds -> {"unused", "old", "new", "reported", "reaped"}]
    BY <1>2 DEF MigrationInv, MigrationTypeOK, Reserve, Report, Reap
  <2>. QED
    BY <2>2, <2>3, RewriteInv
<1>3. CASE Crash
  BY <1>3, MigrationAssumption
     DEF Crash, Done, files, Idle, MigrationInv, MigrationTypeOK, MigrationAssumption,
         StepMatchesPhase, BackupsMade, TargetMade, Fence, RollbackFenced, Legacy,
         Migrating, Rolling
<1>4. ASSUME NEW h \in Holds, Expire(h)
      PROVE  MigrationInv'
  BY <1>4 DEF Expire, files, MigrationInv, MigrationTypeOK, StepMatchesPhase,
              BackupsMade, TargetMade, Fence, RollbackFenced, Legacy
<1>5. CASE ManagedAdmit \/ ManagedSettle
  BY <1>5, MigrationAssumption
     DEF ManagedAdmit, ManagedSettle, files, Idle, MigrationInv, MigrationTypeOK,
         MigrationAssumption, StepMatchesPhase, BackupsMade, TargetMade, Fence,
         RollbackFenced, Legacy, Migrating, Rolling, RollbackInLedger
<1>6. CASE UNCHANGED migrationVars
  BY <1>6 DEF migrationVars, files, MigrationInv, MigrationTypeOK, StepMatchesPhase,
              BackupsMade, TargetMade, Fence, RollbackFenced, Legacy
<1>. QED
  BY <1>1, <1>2, <1>3, <1>4, <1>5, <1>6 DEF MigrationNext

(* MigrationInv holds in every reachable state.                               *)
THEOREM Inductive == MigrationSpec => []MigrationInv
BY InitInv, StepInv, PTL DEF MigrationSpec

(* Whatever is killed and resumed, and whoever writes in between, each path   *)
(* holds nothing, the fence, or a file of the generation it belongs to.       *)
THEOREM MigrationTypeCorrect == MigrationSpec => []MigrationTypeOK
<1>1. MigrationInv => MigrationTypeOK
  BY DEF MigrationInv
<1>. QED
  BY <1>1, Inductive, PTL

(* Once a rollback restores state.json, no managed attempt is admitted or     *)
(* running: the legacy file it brings back is the whole truth.                *)
THEOREM RollbackIsFenced == MigrationSpec => []RollbackFenced
<1>1. MigrationInv => RollbackFenced
  BY DEF MigrationInv, Fence
<1>. QED
  BY <1>1, Inductive, PTL

(* The exchange never leaves a moment without state.json: what a swap brings  *)
(* in was made by an earlier step, if need be of a call that was killed.      *)
THEOREM FileNeverMissing == MigrationSpec => NoMissingFile
<1>1. ASSUME MigrationInv, [MigrationNext]_migrationVars
      PROVE  legacy # Absent => legacy' # Absent
  <2> SUFFICES ASSUME legacy # Absent, legacy' # legacy PROVE legacy' # Absent
    OBVIOUS
  <2>1. CASE TransitionStep
    <3>1. WriteSource \/ Cutover \/ Restore
      BY <2>1 DEF TransitionStep, StartMigrate, SaveBackup, SaveCandidate, Publish,
           WriteTarget, CheckSource, MakeGuard, Enable, Activate, StartRollback,
           Disable, Gate, Archive, Restoring, Stage, FinishRollback, files
    <3>2. CASE Cutover
      BY <1>1, <3>2, FileAssumption DEF Cutover, Swap, Mine, At, MigrationInv, BackupsMade
    <3>3. CASE Restore
      BY <1>1, <3>3 DEF Restore, Swap, Mine, At, IsFile, MigrationInv, BackupsMade
    <3>. QED
      BY <3>1, <3>2, <3>3 DEF WriteSource
  <2>2. ASSUME NEW gone, NEW added \in SUBSET Row, Rewrite(gone, added)
        PROVE  legacy' # Absent
    <3>0. legacy # Dir /\ legacy' = Without(Authority, gone, added)
      BY <2>2 DEF Rewrite
    <3>1. Authority \in Content(1)
      BY <1>1, <3>0, EmptyTyped DEF Authority, MigrationInv, MigrationTypeOK, Old
    <3>2. legacy' \in Content(1)
      BY <3>1, <3>0, WithoutTyped
    <3>. QED
      BY <3>2, FileAssumption DEF IsFile
  <2>3. ASSUME NEW h \in Holds, Reserve(h) \/ Report(h) \/ Reap(h)
        PROVE  legacy' # Absent
    <3>1. [id |-> h, migrated |-> FALSE] \in Row
      BY DEF Row
    <3>. QED
      BY <2>2, <2>3, <3>1 DEF Reserve, Report, Reap
  <2>4. CASE Crash \/ ManagedAdmit \/ ManagedSettle \/ UNCHANGED migrationVars
    BY <2>4 DEF Crash, ManagedAdmit, ManagedSettle, migrationVars, files
  <2>5. ASSUME NEW h \in Holds, Expire(h) PROVE legacy' # Absent
    BY <2>5 DEF Expire, files
  <2>. QED
    BY <1>1, <2>1, <2>3, <2>4, <2>5 DEF MigrationNext
<1>. QED
  BY <1>1, Inductive, PTL DEF NoMissingFile, MigrationSpec

-----------------------------------------------------------------------------
(* The reservations.  That none is lost relates what the files of one        *)
(* migration hold to what state.json holds while a call stands at a step,    *)
(* and between the calls that resume it.                                     *)

\* A manifest that names a migration not yet undone, and its backup.
Ongoing == record.phase \in {"prepared", "active", "restoring"}
Kept == backups[record.id]
SameHolds(f, g) == {r.id : r \in f.rows} = {r.id : r \in g.rows}

\* What migrate() saves is what it found, also when a later call resumes.
BackupsRight ==
  /\ job.step \in {"candidate", "publish"} =>
       Mine.state = IF legacy = Absent THEN Empty ELSE legacy
  /\ job.step = "publish" => SameHolds(Mine.candidate, Mine.state)
  /\ Ongoing => /\ record.source = Kept.state
                /\ SameHolds(Kept.candidate, Kept.state)
                /\ ~record.exists => record.source = Empty

\* Which file is behind the fence, and whether the fence is up.
FenceRight ==
  /\ job.step \in {"guard", "cutover"} => legacy = record.source
  /\ job.step \in {"source", "guard", "cutover"} => target = Mine.candidate
  /\ job.step = "source" => legacy # Dir
  /\ record.phase = "prepared" /\ legacy = Dir => target = Kept.candidate
  /\ job.step \in {"enable", "activate", "restore"} \/ record.phase = "active" =>
       legacy = Dir
  /\ job.step \in {"archive", "restoring"} \/ record.phase = "restoring" =>
       HeldRows(target) = {}

\* state.json and its staged copy, as long as nobody else wrote the former.
SourceRight ==
  /\ job.step \in {"backup", "candidate", "publish"} => Mine.restore = Absent
  /\ record.phase \in {"prepared", "active"} => Kept.restore = Absent
  /\ record.phase = "restoring" /\ legacy = Dir =>
       Kept.restore \in {Absent, record.source}
  /\ record.phase = "prepared" /\ ~changed =>
       legacy \in {record.source, Dir} \cup
                    (IF record.exists THEN {} ELSE {Absent})
  /\ record.phase = "restoring" /\ ~changed => legacy \in {record.source, Dir}

\* A reservation has one row in a file, and was made before it has one.
RowsOf(f) == IF IsFile(f) THEN f.rows ELSE {}
RowsRight(f, made) ==
  /\ \A r, s \in RowsOf(f) : r.id = s.id => r = s
  /\ \A r \in RowsOf(f) : r.id \in made
Made == {h \in Holds : fate[h] # "unused"}
EveryRowRight ==
  /\ RowsRight(legacy, Made) /\ RowsRight(target, Made)
  /\ \A i \in Ids : /\ RowsRight(backups[i].state, Made)
                    /\ RowsRight(backups[i].candidate, Made)
                    /\ RowsRight(backups[i].restore, Made)

\* The inductive invariant of the reservations.
HoldsInv ==
  /\ MigrationInv /\ BackupsRight /\ FenceRight /\ SourceRight
  /\ EveryRowRight /\ HoldsSurvive

(* Migrating a file marks rows; it neither adds nor drops one.               *)
LEMMA MigratedRows ==
  ASSUME NEW f \in Content(1), NEW made
  PROVE  /\ SameHolds(Migrated(f), f)
         /\ RowsRight(f, made) => RowsRight(Migrated(f), made)
<1> DEFINE mark(r) == IF r \in HeldRows(f) THEN [r EXCEPT !.migrated = TRUE] ELSE r
<1>1. Migrated(f).rows = {mark(r) : r \in f.rows}
  BY DEF Migrated
<1>2. \A r \in f.rows : mark(r).id = r.id
  BY DEF Content, Row
<1> HIDE DEF mark
<1>3. SameHolds(Migrated(f), f)
  <2>1. \A r \in Migrated(f).rows : \E s \in f.rows : s.id = r.id
    BY <1>1, <1>2
  <2>2. \A r \in f.rows : \E s \in Migrated(f).rows : s.id = r.id
    BY <1>1, <1>2
  <2>. QED
    BY <2>1, <2>2 DEF SameHolds
<1>4. IsFile(f) /\ IsFile(Migrated(f))
  BY MigratedTyped, FileAssumption
<1>5. ASSUME RowsRight(f, made) PROVE RowsRight(Migrated(f), made)
  <2>1. RowsOf(f) = f.rows /\ RowsOf(Migrated(f)) = Migrated(f).rows
    BY <1>4 DEF RowsOf
  <2>2. ASSUME NEW r \in Migrated(f).rows, NEW s \in Migrated(f).rows, r.id = s.id
        PROVE  r = s
    <3>1. PICK a \in f.rows : r = mark(a)
      BY <1>1
    <3>2. PICK b \in f.rows : s = mark(b)
      BY <1>1
    <3>3. a = b
      BY <1>2, <1>5, <2>1, <2>2, <3>1, <3>2 DEF RowsRight
    <3>. QED
      BY <3>1, <3>2, <3>3
  <2>3. ASSUME NEW r \in Migrated(f).rows PROVE r.id \in made
    BY <1>1, <1>2, <1>5, <2>1, <2>3 DEF RowsRight
  <2>. QED
    BY <2>1, <2>2, <2>3 DEF RowsRight
<1>. QED
  BY <1>3, <1>5

(* Before the first migration nothing is reserved.                           *)
LEMMA HoldsInit == MigrationInit => HoldsInv
<1> SUFFICES ASSUME MigrationInit PROVE HoldsInv
  OBVIOUS
<1> USE FileAssumption, EmptyTyped DEF MigrationInit, Idle, NoRecord
<1>1. MigrationInv
  BY InitInv
<1>2. BackupsRight /\ FenceRight /\ SourceRight
  BY DEF BackupsRight, FenceRight, SourceRight, Ongoing
<1>3. RowsRight(legacy, Made) /\ RowsRight(Absent, Made)
  BY DEF RowsRight, RowsOf, IsFile, Empty
<1>4. EveryRowRight
  BY <1>3 DEF EveryRowRight, NoBackup
<1>5. HoldsSurvive
  BY DEF HoldsSurvive
<1>. QED
  BY <1>1, <1>2, <1>4, <1>5 DEF HoldsInv

(* What a migration saved stays what it found. *)
LEMMA TransitionKept ==
  ASSUME HoldsInv, TransitionStep
  PROVE  BackupsRight'
<1>0. Outside
  BY DEF TransitionStep
<1>00. \A f \in Content(1) : SameHolds(Migrated(f), f)
  BY MigratedRows
<1> USE <1>0, FileAssumption, EmptyTyped, MigratedTyped
    DEF HoldsInv, MigrationInv, MigrationTypeOK, StepMatchesPhase, BackupsMade,
        TargetMade, Outside, At, Goto, Done, Mine, Save, SetPhase, Swap, Legacy,
        IsFile, files, Idle, Record, NoRecord, Migrating, Rolling, Old, New,
        Backup, NoBackup, BackupsRight, Ongoing, Kept
<1>1. CASE \E i \in Ids : StartMigrate(i)
  BY <1>1 DEF StartMigrate
<1>2. CASE SaveBackup
  BY <1>2 DEF SaveBackup
<1>3. CASE SaveCandidate
  BY <1>00, <1>3 DEF SaveCandidate
<1>4. CASE Publish
  BY <1>4 DEF Publish
<1>5. CASE WriteTarget \/ WriteSource \/ CheckSource
  BY <1>5 DEF WriteTarget, WriteSource, CheckSource
<1>6. CASE MakeGuard \/ Cutover
  BY <1>6 DEF MakeGuard, Cutover
<1>7. CASE Enable \/ Activate
  BY <1>7 DEF Enable, Activate
<1>8. CASE StartRollback \/ Disable \/ Gate
  BY <1>8 DEF StartRollback, Disable, Gate
<1>9. CASE Archive \/ Restoring
  BY <1>9 DEF Archive, Restoring
<1>10. CASE Stage
  BY <1>10 DEF Stage
<1>11. CASE Restore \/ FinishRollback
  BY <1>11 DEF Restore, FinishRollback
<1>. QED
  BY <1>1, <1>2, <1>3, <1>4, <1>5, <1>6, <1>7, <1>8, <1>9, <1>10,
     <1>11 DEF TransitionStep

(* A swap finds behind the fence what belongs there. *)
LEMMA TransitionSwaps ==
  ASSUME HoldsInv, TransitionStep
  PROVE  FenceRight'
<1>0. Outside
  BY DEF TransitionStep
<1> USE <1>0, FileAssumption, EmptyTyped, MigratedTyped
    DEF HoldsInv, MigrationInv, MigrationTypeOK, StepMatchesPhase, BackupsMade,
        TargetMade, Outside, At, Goto, Done, Mine, Save, SetPhase, Swap, Legacy,
        IsFile, files, Idle, Record, NoRecord, Migrating, Rolling, Old, New,
        Backup, NoBackup, BackupsRight, FenceRight, Ongoing, Kept
<1>00. target' = target => HeldRows(target)' = HeldRows(target)
  BY <1>0 DEF Outside, HeldRows
<1>1. CASE \E i \in Ids : StartMigrate(i)
  BY <1>1 DEF StartMigrate
<1>2. CASE SaveBackup
  BY <1>2 DEF SaveBackup
<1>3. CASE SaveCandidate
  BY <1>3 DEF SaveCandidate
<1>4. CASE Publish
  BY <1>4 DEF Publish
<1>5. CASE WriteTarget \/ WriteSource \/ CheckSource
  BY <1>5 DEF WriteTarget, WriteSource, CheckSource
<1>6. CASE MakeGuard \/ Cutover
  BY <1>6 DEF MakeGuard, Cutover
<1>7. CASE Enable \/ Activate
  BY <1>7 DEF Enable, Activate
<1>8. CASE StartRollback \/ Disable \/ Gate
  BY <1>00, <1>8 DEF StartRollback, Disable, Gate
<1>9. CASE Archive \/ Restoring
  BY <1>00, <1>9 DEF Archive, Restoring
<1>10. CASE Stage
  BY <1>00, <1>10 DEF Stage
<1>11. CASE Restore \/ FinishRollback
  BY <1>00, <1>11 DEF Restore, FinishRollback
<1>. QED
  BY <1>1, <1>2, <1>3, <1>4, <1>5, <1>6, <1>7, <1>8, <1>9, <1>10,
     <1>11 DEF TransitionStep

(* Only a writer of state.json makes it differ from what was saved. *)
LEMMA TransitionSource ==
  ASSUME HoldsInv, TransitionStep
  PROVE  SourceRight'
<1>0. Outside
  BY DEF TransitionStep
<1> USE <1>0, FileAssumption, EmptyTyped, MigratedTyped
    DEF HoldsInv, MigrationInv, MigrationTypeOK, StepMatchesPhase, BackupsMade,
        TargetMade, Outside, At, Goto, Done, Mine, Save, SetPhase, Swap, Legacy,
        IsFile, files, Idle, Record, NoRecord, Migrating, Rolling, Old, New,
        Backup, NoBackup, BackupsRight, FenceRight, SourceRight, Ongoing, Kept
<1>1. CASE \E i \in Ids : StartMigrate(i)
  BY <1>1 DEF StartMigrate
<1>2. CASE SaveBackup
  BY <1>2 DEF SaveBackup
<1>3. CASE SaveCandidate
  BY <1>3 DEF SaveCandidate
<1>4. CASE Publish
  BY <1>4 DEF Publish
<1>5. CASE WriteTarget \/ WriteSource \/ CheckSource
  BY <1>5 DEF WriteTarget, WriteSource, CheckSource
<1>6. CASE MakeGuard \/ Cutover
  BY <1>6 DEF MakeGuard, Cutover
<1>7. CASE Enable \/ Activate
  BY <1>7 DEF Enable, Activate
<1>8. CASE StartRollback \/ Disable \/ Gate
  BY <1>8 DEF StartRollback, Disable, Gate
<1>9. CASE Archive \/ Restoring
  BY <1>9 DEF Archive, Restoring
<1>10. CASE Stage
  BY <1>10 DEF Stage
<1>11. CASE Restore \/ FinishRollback
  BY <1>11 DEF Restore, FinishRollback
<1>. QED
  BY <1>1, <1>2, <1>3, <1>4, <1>5, <1>6, <1>7, <1>8, <1>9, <1>10,
     <1>11 DEF TransitionStep

(* No step of a transition makes a row twice. *)
LEMMA TransitionRows ==
  ASSUME HoldsInv, TransitionStep
  PROVE  EveryRowRight'
<1>0. Outside
  BY DEF TransitionStep
<1> USE <1>0, FileAssumption, EmptyTyped, MigratedTyped, MigratedRows
    DEF HoldsInv, MigrationInv, MigrationTypeOK, StepMatchesPhase, BackupsMade,
        TargetMade, Outside, At, Goto, Done, Mine, Save, SetPhase, Swap, Legacy,
        IsFile, files, Idle, Record, NoRecord, Migrating, Rolling, Old, New,
        Backup, NoBackup, EveryRowRight
<1>00. /\ Made' = Made
       /\ RowsRight(Absent, Made) /\ RowsRight(Dir, Made) /\ RowsRight(Empty, Made)
  BY <1>0 DEF Outside, Made, RowsRight, RowsOf, Empty
<1> USE <1>00
<1>1. CASE \E i \in Ids : StartMigrate(i)
  BY <1>1 DEF StartMigrate
<1>2. CASE SaveBackup
  BY <1>2 DEF SaveBackup
<1>3. CASE SaveCandidate
  BY <1>3 DEF SaveCandidate
<1>4. CASE Publish
  BY <1>4 DEF Publish
<1>5. CASE WriteTarget \/ WriteSource \/ CheckSource
  BY <1>5 DEF WriteTarget, WriteSource, CheckSource
<1>6. CASE MakeGuard \/ Cutover
  BY <1>6 DEF MakeGuard, Cutover
<1>7. CASE Enable \/ Activate
  BY <1>7 DEF Enable, Activate
<1>8. CASE StartRollback \/ Disable \/ Gate
  BY <1>8 DEF StartRollback, Disable, Gate
<1>9. CASE Archive \/ Restoring
  BY <1>9 DEF Archive, Restoring
<1>10. CASE Stage
  BY <1>10 DEF Stage
<1>11. CASE Restore \/ FinishRollback
  BY <1>11 DEF Restore, FinishRollback
<1>. QED
  BY <1>1, <1>2, <1>3, <1>4, <1>5, <1>6, <1>7, <1>8, <1>9, <1>10,
     <1>11 DEF TransitionStep

(* The file that counts changes at a cutover, where the new one has the same
   reservations, and at a restore, where none is live any more. *)
LEMMA TransitionSurvive ==
  ASSUME HoldsInv, TransitionStep
  PROVE  HoldsSurvive'
<1>0. UNCHANGED <<fate, expired>>
  BY DEF TransitionStep, Outside
<1>1. CASE SameHolds(Authority', Authority)
  BY <1>0, <1>1 DEF HoldsInv, HoldsSurvive, SameHolds
<1>2. CASE HeldRows(Authority) = {}
  BY <1>0, <1>2 DEF HoldsInv, HoldsSurvive, HeldRows
<1>3. CASE UNCHANGED <<legacy, target>>
  <2>1. Authority' = Authority
    BY <1>3 DEF Authority
  <2>. QED
    BY <1>1, <2>1 DEF SameHolds
<1>4. CASE WriteTarget
  <2>1. Authority' = Authority
    BY <1>4 DEF WriteTarget, Authority, HoldsInv, FenceRight, MigrationInv, At, Mine, Kept,
                StepMatchesPhase, Migrating
  <2>. QED
    BY <1>1, <2>1 DEF SameHolds
<1>5. CASE WriteSource
  <2>1. Authority = Empty /\ legacy' = Empty
    BY <1>5, FileAssumption
       DEF WriteSource, Authority, HoldsInv, BackupsRight, MigrationInv, At, Mine, Kept,
           Ongoing, StepMatchesPhase, Migrating
  <2>2. Authority' = Empty
    BY <2>1, EmptyTyped, FileAssumption DEF Authority, IsFile
  <2>. QED
    BY <1>1, <2>1, <2>2 DEF SameHolds
<1>6. CASE Cutover
  <2>1. record.phase = "prepared" /\ record.id = job.id
    BY <1>6 DEF Cutover, At, HoldsInv, MigrationInv, StepMatchesPhase, Migrating
  <2>2. legacy = Kept.state /\ target = Kept.candidate
    BY <1>6, <2>1 DEF Cutover, At, HoldsInv, FenceRight, BackupsRight, Ongoing, Mine, Kept
  <2>3. record.source \in Content(1)
    BY <2>1 DEF HoldsInv, MigrationInv, MigrationTypeOK, Record, NoRecord
  <2>4. Authority = Kept.state /\ SameHolds(target, Kept.state)
    BY <2>1, <2>2, <2>3, FileAssumption
       DEF Authority, HoldsInv, BackupsRight, Ongoing, Kept, IsFile
  <2>5. legacy' = Dir /\ target' = target
    BY <1>6 DEF Cutover, At, Swap, Mine, HoldsInv, MigrationInv, BackupsMade
  <2>6. Authority' = target
    BY <2>5 DEF Authority
  <2>. QED
    BY <1>1, <2>4, <2>6
<1>7. CASE Restore
  <2>1. HeldRows(target) = {} /\ legacy = Dir
    BY <1>7 DEF Restore, At, HoldsInv, FenceRight, MigrationInv, StepMatchesPhase
  <2>. QED
    BY <1>2, <2>1 DEF Authority
<1>. QED
  BY <1>3, <1>4, <1>5, <1>6, <1>7
     DEF TransitionStep, StartMigrate, SaveBackup, SaveCandidate, Publish, CheckSource,
         MakeGuard, Enable, Activate, StartRollback, Disable, Gate, Archive, Restoring,
         Stage, FinishRollback, files

(* A writer saves a file in place of the one that counts, and which that is
   does not change. *)
LEMMA RewriteAuthority ==
  ASSUME MigrationInv, NEW gone, NEW added \in SUBSET Row, Rewrite(gone, added)
  PROVE  /\ Authority \in Content(1) \cup Content(2)
         /\ Authority' = Without(Authority, gone, added)
         /\ \/ /\ legacy # Dir /\ IsFile(legacy') /\ legacy' = Authority'
               /\ changed' = (changed \/ ~Legacy) /\ target' = target
            \/ /\ record.phase = "active" /\ legacy = Dir /\ target' = Authority'
               /\ UNCHANGED <<legacy, changed>>
<1> USE FileAssumption, EmptyTyped
<1>1. CASE /\ legacy # Dir /\ legacy' = Without(Authority, gone, added)
           /\ changed' = (changed \/ ~Legacy) /\ UNCHANGED target
  <2>1. Authority \in Content(1)
    BY <1>1 DEF Authority, MigrationInv, MigrationTypeOK, Old
  <2>2. IsFile(legacy')
    BY <1>1, <2>1, WithoutTyped
  <2>3. Authority' = legacy'
    BY <2>2 DEF Authority, IsFile
  <2>. QED
    BY <1>1, <2>1, <2>2, <2>3
<1>2. CASE /\ record.phase = "active" /\ legacy = Dir
           /\ target' = Without(target, gone, added)
           /\ UNCHANGED <<legacy, changed>>
  <2>1. target \in Content(2)
    BY <1>2 DEF MigrationInv, MigrationTypeOK, TargetMade, New
  <2>. QED
    BY <1>2, <2>1 DEF Authority
<1>. QED
  BY <1>1, <1>2 DEF Rewrite

(* A writer leaves no second row of a reservation and loses none that is
   live: it drops what ran out, what it was told has ended, and guesses only
   about rows that were never migrated. *)
LEMMA WriterHolds ==
  ASSUME HoldsInv, NEW h \in Holds, Reserve(h) \/ Report(h) \/ Reap(h)
  PROVE  /\ BackupsRight' /\ FenceRight' /\ SourceRight'
         /\ EveryRowRight' /\ HoldsSurvive'
<1> DEFINE row == [id |-> h, migrated |-> FALSE]
<1>0. row \in Row
  BY DEF Row
<1>1. PICK gone, added :
        /\ Rewrite(gone, added)
        /\ \/ Reserve(h) /\ gone = {} /\ added = {row}
           \/ (Report(h) \/ Reap(h)) /\ gone = {h} /\ added = {}
  BY DEF Reserve, Report, Reap
<1>2. added \in SUBSET Row
  BY <1>0, <1>1
<1>3. /\ Authority \in Content(1) \cup Content(2)
      /\ Authority' = Without(Authority, gone, added)
      /\ \/ /\ legacy # Dir /\ IsFile(legacy') /\ legacy' = Authority'
            /\ changed' = (changed \/ ~Legacy) /\ target' = target
         \/ /\ record.phase = "active" /\ legacy = Dir /\ target' = Authority'
            /\ UNCHANGED <<legacy, changed>>
  BY <1>1, <1>2, RewriteAuthority DEF HoldsInv
<1>4. UNCHANGED <<backups, record, expired, job>> /\ job = Idle
  BY <1>1 DEF Rewrite
<1>5. BackupsRight'
  BY <1>4 DEF HoldsInv, BackupsRight, Ongoing, Kept, Idle
<1>6. FenceRight'
  BY <1>3, <1>4 DEF HoldsInv, FenceRight, Kept, Idle, IsFile, HeldRows
<1>7. SourceRight'
  BY <1>3, <1>4 DEF HoldsInv, SourceRight, Kept, Idle, IsFile, Legacy
<1>8. /\ Authority'.rows = {r \in HeldRows(Authority) : r.id \notin gone} \cup added
      /\ HeldRows(Authority) \subseteq Authority.rows
      /\ IsFile(Authority) /\ IsFile(Authority')
  <2>1. Authority' \in Content(1) \cup Content(2)
    BY <1>2, <1>3, WithoutTyped
  <2>2. Authority' = [Authority EXCEPT
          !.rows = {r \in HeldRows(Authority) : r.id \notin gone} \cup added]
    BY <1>3 DEF Without
  <2>. QED
    BY <1>3, <2>1, <2>2, FileAssumption DEF Content, HeldRows
<1>9. fate \in [Holds -> {"unused", "old", "new", "reported", "reaped"}]
  BY DEF HoldsInv, MigrationInv, MigrationTypeOK
<1>10. EveryRowRight'
  <2>1. Made \subseteq Made' /\ (Reserve(h) => h \notin Made /\ h \in Made')
    BY <1>9 DEF Made, Reserve, Report, Reap
  <2>2. RowsRight(Authority, Made)
    BY DEF Authority, HoldsInv, EveryRowRight, RowsRight, RowsOf, Empty
  <2>3. RowsOf(Authority) = Authority.rows /\ RowsOf(Authority') = Authority'.rows
    BY <1>8 DEF RowsOf
  <2>4. RowsRight(Authority', Made')
    <3>1. CASE Reserve(h) /\ gone = {} /\ added = {row}
      <4>1. Authority'.rows = HeldRows(Authority) \cup {row}
        BY <1>8, <3>1
      <4>2. row.id = h /\ h \in Made'
        BY <2>1, <3>1
      <4>3. \A r \in HeldRows(Authority) : r.id \in Made /\ r.id # h
        BY <1>8, <2>1, <2>2, <2>3, <3>1 DEF RowsRight
      <4> HIDE DEF row
      <4>4. ASSUME NEW r \in Authority'.rows, NEW s \in Authority'.rows, r.id = s.id
            PROVE  r = s
        <5>1. CASE r = row \/ s = row
          BY <4>1, <4>2, <4>3, <4>4, <5>1
        <5>2. CASE r \in HeldRows(Authority) /\ s \in HeldRows(Authority)
          BY <1>8, <2>2, <2>3, <4>4, <5>2 DEF RowsRight
        <5>. QED
          BY <4>1, <4>4, <5>1, <5>2
      <4>5. \A r \in Authority'.rows : r.id \in Made'
        BY <2>1, <4>1, <4>2, <4>3
      <4>. QED
        BY <2>3, <4>4, <4>5 DEF RowsRight
    <3>2. CASE added = {}
      BY <1>8, <2>1, <2>2, <2>3, <3>2 DEF RowsRight
    <3>. QED
      BY <1>1, <3>1, <3>2
  <2>5. \A f : RowsRight(f, Made) => RowsRight(f, Made')
    BY <2>1 DEF RowsRight
  <2>. QED
    BY <1>3, <1>4, <2>4, <2>5 DEF HoldsInv, EveryRowRight
<1>11. HoldsSurvive'
  <2> SUFFICES ASSUME NEW k \in Holds, fate'[k] \in {"old", "new"}, k \notin expired
               PROVE  \E r \in Authority'.rows : r.id = k
    BY <1>4 DEF HoldsSurvive
  <2>1. CASE Reserve(h) /\ k = h
    BY <1>1, <1>8, <2>1 DEF Reserve, Report, Reap
  <2>2. CASE fate[k] \in {"old", "new"} /\ (k # h \/ (Report(h) /\ ~Held(h)))
    <3>1. PICK r \in Authority.rows : r.id = k
      BY <2>2 DEF HoldsInv, HoldsSurvive
    <3>2. r \in HeldRows(Authority)
      BY <3>1 DEF HeldRows
    <3>3. k # h
      BY <2>2, <3>1, <3>2 DEF Held
    <3>. QED
      BY <1>1, <1>8, <3>1, <3>2, <3>3
  <2>3. k # h => fate'[k] = fate[k]
    BY <1>9 DEF Reserve, Report, Reap
  <2>4. Report(h) => fate'[h] = "reported" \/ (~Held(h) /\ fate'[h] = fate[h])
    BY <1>9 DEF Report
  <2>5. Reap(h) => fate'[h] = "reaped"
    BY <1>9 DEF Reap
  <2>6. CASE k = h /\ Report(h)
    BY <2>2, <2>4, <2>6
  <2>7. CASE k = h /\ Reap(h)
    BY <2>5, <2>7
  <2>8. CASE k # h
    BY <2>2, <2>3, <2>8
  <2>. QED
    BY <2>1, <2>6, <2>7, <2>8
<1>. QED
  BY <1>5, <1>6, <1>7, <1>10, <1>11

(* The inductive step for the reservations.                                   *)
LEMMA HoldsStep ==
  ASSUME HoldsInv, [MigrationNext]_migrationVars
  PROVE  HoldsInv'
<1>0. MigrationInv'
  BY StepInv DEF HoldsInv
<1>1. CASE TransitionStep
  BY <1>0, <1>1, TransitionKept, TransitionSwaps, TransitionSource, TransitionRows,
     TransitionSurvive DEF HoldsInv
<1>2. ASSUME NEW h \in Holds, Reserve(h) \/ Report(h) \/ Reap(h)
      PROVE  HoldsInv'
  BY <1>0, <1>2, WriterHolds DEF HoldsInv
<1>3. CASE /\ UNCHANGED <<files, fate, changed>> /\ expired \subseteq expired'
           /\ job' \in {job, Idle}
  <2>1. BackupsRight'
    BY <1>3 DEF files, Idle, HoldsInv, BackupsRight, Ongoing, Kept, Mine
  <2>2. SourceRight'
    BY <1>3 DEF files, Idle, HoldsInv, SourceRight, Kept, Mine
  <2>3. HeldRows(target) = {} => HeldRows(target)' = {}
    BY <1>3 DEF files, HeldRows
  <2>4. FenceRight'
    BY <1>3, <2>3 DEF files, Idle, HoldsInv, FenceRight, Kept, Mine
  <2>5. EveryRowRight'
    BY <1>3 DEF files, HoldsInv, EveryRowRight, Made
  <2>6. HoldsSurvive'
    BY <1>3 DEF files, HoldsInv, HoldsSurvive, Authority
  <2>. QED
    BY <1>0, <2>1, <2>2, <2>4, <2>5, <2>6 DEF HoldsInv
<1>. QED
  BY <1>1, <1>2, <1>3
     DEF MigrationNext, Crash, Expire, ManagedAdmit, ManagedSettle, Done, migrationVars, files

(* HoldsInv holds in every reachable state.                                   *)
THEOREM HoldsInvariant == MigrationSpec => []HoldsInv
BY HoldsInit, HoldsStep, PTL DEF MigrationSpec

(* No reservation is lost between the generations, with any number of         *)
(* migrations, rollbacks, crashes and earlier CLIs that write in between.     *)
THEOREM HoldsAreKept == MigrationSpec => []HoldsSurvive
<1>1. HoldsInv => HoldsSurvive
  BY DEF HoldsInv
<1>. QED
  BY <1>1, HoldsInvariant, PTL

(* A resumed transition is never blocked by what it left itself: it refuses   *)
(* to go on only after somebody else wrote state.json.                        *)
THEOREM RefusalIsOthersDoing == MigrationSpec => []RefusesOnlyChanges
<1>1. HoldsInv => RefusesOnlyChanges
  BY DEF HoldsInv, MigrationInv, StepMatchesPhase, Migrating, Rolling, FenceRight,
         SourceRight, Kept, Mine, At, RefusesOnlyChanges
<1>. QED
  BY <1>1, HoldsInvariant, PTL

(* A hold that was live at the cutover leaves the new file by a completion    *)
(* report: a guess drops only rows that were never migrated, and no row of    *)
(* the same reservation hides behind one of those.                            *)
THEOREM MigratedHoldsStay == MigrationSpec => MigratedStay
<1>1. ASSUME HoldsInv, [MigrationNext]_migrationVars
      PROVE  \A r \in (IF target = Absent THEN {} ELSE target.rows) :
               record.phase = "active" /\ r.migrated =>
                 r \in target'.rows \/ fate'[r.id] = "reported"
  <2> SUFFICES ASSUME target # Absent, NEW r \in target.rows,
                      record.phase = "active", r.migrated, target' # target
               PROVE  r \in target'.rows \/ fate'[r.id] = "reported"
    OBVIOUS
  <2>1. \E h \in Holds : Reserve(h) \/ Report(h) \/ Reap(h)
    BY <1>1 DEF HoldsInv, MigrationInv, StepMatchesPhase, Migrating, At, MigrationNext,
       TransitionStep, StartMigrate, SaveBackup, SaveCandidate, Publish, WriteTarget,
       WriteSource, CheckSource, MakeGuard, Cutover, Enable, Activate, StartRollback,
       Disable, Gate, Archive, Restoring, Stage, Restore, FinishRollback, Crash, Expire,
       ManagedAdmit, ManagedSettle, migrationVars, files
  <2>2. PICK h \in Holds : Reserve(h) \/ Report(h) \/ Reap(h)
    BY <2>1
  <2> DEFINE row == [id |-> h, migrated |-> FALSE]
  <2>3. PICK gone, added :
          /\ Rewrite(gone, added) /\ gone \subseteq {h} /\ added \in SUBSET Row
          /\ Reserve(h) => gone = {}
    <3>1. row \in Row
      BY DEF Row
    <3>2. \/ Rewrite({}, {row})
          \/ Rewrite({h}, {}) /\ ~Reserve(h)
          \/ Rewrite({h}, {}) /\ fate[h] # "unused"
      BY <2>2 DEF Reserve, Report, Reap
    <3>3. CASE Rewrite({}, {row})
      <4> WITNESS {}, {row}
      <4>. QED
        BY <3>1, <3>3
    <3>4. CASE Rewrite({h}, {}) /\ ~Reserve(h)
      <4> WITNESS {h}, {}
      <4>. QED
        BY <3>4
    <3>5. CASE Rewrite({h}, {}) /\ fate[h] # "unused"
      <4> WITNESS {h}, {}
      <4>. QED
        BY <3>5 DEF Reserve
    <3>. QED
      BY <3>2, <3>3, <3>4, <3>5
  <2>4. /\ legacy = Dir /\ Authority = target /\ target' = Without(target, gone, added)
    BY <1>1, <2>3, RewriteAuthority DEF HoldsInv, Authority
  <2>5. target \in Content(2) /\ RowsRight(target, Made)
    BY <1>1 DEF HoldsInv, MigrationInv, MigrationTypeOK, New, EveryRowRight
  <2>6. r \in HeldRows(target)
    BY DEF HeldRows
  <2>7. r \in target'.rows \/ r.id \in gone
    BY <2>4, <2>5, <2>6 DEF Without, Content
  <2>8. CASE r.id = h /\ Report(h)
    BY <1>1, <2>4, <2>6, <2>8
       DEF Report, Held, HoldsInv, MigrationInv, MigrationTypeOK
  <2>9. CASE r.id = h /\ Reap(h)
    <3>1. row \in HeldRows(target)
      BY <2>4, <2>9 DEF Reap
    <3>2. row \in target.rows /\ row.id = r.id
      BY <2>9, <3>1 DEF HeldRows
    <3>3. row = r
      BY <2>5, <3>2, FileAssumption DEF RowsRight, RowsOf
    <3>. QED
      BY <3>3
  <2>. QED
    BY <2>2, <2>3, <2>7, <2>8, <2>9
<1>. QED
  BY <1>1, HoldsInvariant, PTL DEF MigratedStay, MigrationSpec
=============================================================================
