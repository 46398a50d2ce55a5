---------------------------- MODULE OutcomeStore ----------------------------
(***************************************************************************)
(* The evidence store of decisions, launches and outcomes                   *)
(* (src/outcome_store.py), which the CLI and the launch hook both write.    *)
(*                                                                          *)
(* Every method of class OutcomeStore is one SQLite transaction under an    *)
(* exclusive file lock, hence one action.  A call that raises, and the      *)
(* replay of a recorded identifier (answered when the record is equal,      *)
(* refused when it is not), leave the store as it was: neither is a step.   *)
(*                                                                          *)
(* Abstractions.  A subject is a (project, task digest) pair; evidence      *)
(* digests, token counts and launch metadata that only has to be equal      *)
(* between two records are left out; timestamps are given by the caller or  *)
(* by a wall clock, so any stamp can come at any time.                      *)
(***************************************************************************)
EXTENDS Integers, Sequences, FiniteSets, FiniteSetsExt

CONSTANTS
  DecisionIds, DispatchIds,
  EventIds,       \* identifiers of events, chosen by callers
  Subjects,       \* (project, task) pairs
  Selections,        \* what can be selected or run, [provider, model, effort, family]
  Reasons,        \* override reasons
  ReviewData,     \* what reviewers report, [verdict, provider, family]
  DecisionInputs, LaunchInputs,  \* records callers hand in
  None,           \* null
  MaxEvents,      \* bound of the events of one dispatch
  MaxTime         \* bound of the timestamps

Times == 0 .. MaxTime
\* Identifier of the event that binds a dispatch to its decision.  The code
\* takes it from the namespace of the callers: EventIds may contain it.
LinkId(d) == <<"link:", d>>

Decision == [subject : Subjects, selected : Selections \cup {None},
             required : BOOLEAN, at : Times]
Launch == [decision : DecisionIds \cup {None}, subject : Subjects,
           actual : Selections, reason : Reasons \cup {None}, at : Times]

ASSUME StoreAssumption ==
  /\ MaxEvents \in Nat /\ MaxTime \in Nat
  /\ None \notin DecisionIds \cup Reasons \cup Selections
  /\ \A c \in Selections : DOMAIN c = {"provider", "model", "effort", "family"}
  /\ \A r \in ReviewData : /\ DOMAIN r = {"verdict", "provider", "family"}
                           /\ r.verdict \in {"accepted", "rejected"}
  /\ DecisionInputs \subseteq Decision /\ LaunchInputs \subseteq Launch

VARIABLES
  decisions,   \* table decisions: [known ids -> Decision]
  launches,    \* table launches, as first recorded: [known ids -> Launch]
  log          \* table events in rowid order, by dispatch

outcomeVars == <<decisions, launches, log>>

TerminalKinds == {"completed", "failed", "cancelled"}
PlainKinds == TerminalKinds \cup {"rework", "usage", "accepted"}
Binding == [decision : DecisionIds, reason : Reasons \cup {None}]
Event == [id : EventIds, kind : PlainKinds, at : Times, data : {None}]
           \cup [id : EventIds, kind : {"review"}, at : Times, data : ReviewData]
           \cup [id : {LinkId(d) : d \in DispatchIds}, kind : {"linked"}, at : Times, data : Binding]

Init ==
  /\ decisions = [x \in {} |-> {}]
  /\ launches = [x \in {} |-> {}]
  /\ log = [d \in DispatchIds |-> <<>>]

----------------------------------------------------------------------------
(* What a dispatch's events say *)

UsedIds == UNION {{log[d][i].id : i \in DOMAIN log[d]} : d \in DispatchIds}
\* Positions of the events of some kinds, and the last of them.
Positions(d, kinds) == {i \in DOMAIN log[d] : log[d][i].kind \in kinds}
Latest(d, kind) == log[d][Max(Positions(d, {kind}))]

\* _launch(): the record under its latest binding.
Effective(d) ==
  IF Positions(d, {"linked"}) = {} THEN launches[d]
  ELSE [launches[d] EXCEPT !.decision = Latest(d, "linked").data.decision,
                           !.reason = Latest(d, "linked").data.reason]

Completed(d) == \E i \in Positions(d, {"completed"}) :
                  \A j \in Positions(d, TerminalKinds) : j <= i
Rejected(d) == /\ Positions(d, {"review"}) # {}
               /\ Latest(d, "review").data.verdict = "rejected"

\* Mutant: a review outlives the repairs made after it.
ReviewEver(d) ==
  /\ Positions(d, {"review"}) # {}
  /\ Latest(d, "review").data.verdict = "accepted"
  /\ Latest(d, "review").data.provider # launches[d].actual.provider
  /\ Latest(d, "review").data.family # launches[d].actual.family
\* _review_valid(): the latest review is accepted, independent of the author
\* and later than every repair.
ReviewValid(d) ==
  /\ Positions(d, {"review"}) # {}
  /\ Latest(d, "review").data.verdict = "accepted"
  /\ Latest(d, "review").data.provider # launches[d].actual.provider
  /\ Latest(d, "review").data.family # launches[d].actual.family
  /\ \A i \in Positions(d, {"rework"}) : i < Max(Positions(d, {"review"}))

----------------------------------------------------------------------------
(* decision() and launch() *)

RecordDecision(x, decision) ==
  /\ x \notin DOMAIN decisions
  /\ decisions' = [y \in DOMAIN decisions \cup {x} |->
                     IF y = x THEN decision ELSE decisions[y]]
  /\ UNCHANGED <<launches, log>>

Deviates(decision, launch) ==
  \/ decision.selected = None
  \/ \E k \in {"provider", "model", "effort"} : decision.selected[k] # launch.actual[k]

\* Mutant: a launch may follow a decision about other work.
ValidAnySubject(launch) ==
  launch.decision # None =>
    /\ launch.decision \in DOMAIN decisions
    /\ LET decision == decisions[launch.decision] IN
         /\ launch.at >= decision.at
         /\ Deviates(decision, launch) => launch.reason # None
\* _validate_launch(): against the decision it names, if any.
Valid(launch) ==
  launch.decision # None =>
    /\ launch.decision \in DOMAIN decisions
    /\ LET decision == decisions[launch.decision] IN
         /\ decision.subject = launch.subject
         /\ launch.at >= decision.at
         /\ Deviates(decision, launch) => launch.reason # None

RecordLaunch(d, launch) ==
  /\ d \notin DOMAIN launches
  /\ Valid(launch)
  /\ launches' = [x \in DOMAIN launches \cup {d} |->
                    IF x = d THEN launch ELSE launches[x]]
  /\ UNCHANGED <<decisions, log>>

Append1(d, event) == log' = [log EXCEPT ![d] = Append(@, event)]

\* Mutant: a later call binds the launch to another decision.
BindableAgain(d, launch) ==
  /\ launch.decision \notin {None, Effective(d).decision}
  /\ [launch EXCEPT !.decision = None, !.reason = None] =
       [Effective(d) EXCEPT !.decision = None, !.reason = None]
\* The call repeats an unlinked launch, now with its decision.
Bindable(d, launch) ==
  /\ Effective(d).decision = None
  /\ launch.decision # None
  /\ [launch EXCEPT !.decision = None, !.reason = None] =
       [Effective(d) EXCEPT !.decision = None, !.reason = None]

\* The binding is stamped by the clock and compared with nothing.
LinkLaunch(d, launch, at) ==
  /\ d \in DOMAIN launches /\ Len(log[d]) < MaxEvents
  /\ Valid(launch)
  /\ Bindable(d, launch)
  /\ LinkId(d) \notin UsedIds
  /\ Append1(d, [id |-> LinkId(d), kind |-> "linked", at |-> at,
                 data |-> [decision |-> launch.decision,
                           reason |-> launch.reason]])
  /\ UNCHANGED <<decisions, launches>>

----------------------------------------------------------------------------
(* event() *)

\* Mutant: only the launch is older than its events.
InOrderOfLaunch(d, at) == at >= launches[d].at
InOrder(d, at) == /\ at >= launches[d].at
                  /\ \A i \in DOMAIN log[d] : at >= log[d][i].at

\* Mutant: a retry is recorded a second time.
RecordEventAnyId(d, event) ==
  /\ Len(log[d]) < MaxEvents
  /\ d \in DOMAIN launches
  /\ InOrder(d, event.at)
  /\ Positions(d, {"accepted"}) = {}
  /\ Append1(d, event)
  /\ UNCHANGED <<decisions, launches>>
RecordEvent(d, event) ==
  /\ Len(log[d]) < MaxEvents
  /\ event.id \notin UsedIds
  /\ d \in DOMAIN launches
  /\ InOrder(d, event.at)
  /\ Positions(d, {"accepted"}) = {}
  /\ Append1(d, event)
  /\ UNCHANGED <<decisions, launches>>

\* "completed", "failed", "cancelled": one of them, once.
Finish(d, e, kind, at) ==
  /\ kind \in TerminalKinds
  /\ Positions(d, TerminalKinds) = {}
  /\ RecordEvent(d, [id |-> e, kind |-> kind, at |-> at, data |-> None])

Note(d, e, kind, at) ==
  /\ kind \in {"rework", "usage"}
  /\ RecordEvent(d, [id |-> e, kind |-> kind, at |-> at, data |-> None])

Review(d, e, data, at) ==
  RecordEvent(d, [id |-> e, kind |-> "review", at |-> at, data |-> data])

Accept(d, e, at) ==
  /\ d \in DOMAIN launches
  /\ Effective(d).decision \in DOMAIN decisions
  /\ Completed(d)
  /\ ~Rejected(d)
  /\ decisions[Effective(d).decision].required => ReviewValid(d)
  /\ RecordEvent(d, [id |-> e, kind |-> "accepted", at |-> at, data |-> None])

Next ==
  \/ \E x \in DecisionIds, decision \in DecisionInputs : RecordDecision(x, decision)
  \/ \E d \in DispatchIds, launch \in LaunchInputs : RecordLaunch(d, launch)
  \/ \E d \in DispatchIds, launch \in LaunchInputs, at \in Times :
       LinkLaunch(d, launch, at)
  \/ \E d \in DispatchIds, e \in EventIds, kind \in TerminalKinds, at \in Times :
       Finish(d, e, kind, at)
  \/ \E d \in DispatchIds, e \in EventIds, kind \in PlainKinds, at \in Times :
       Note(d, e, kind, at)
  \/ \E d \in DispatchIds, e \in EventIds, data \in ReviewData, at \in Times :
       Review(d, e, data, at)
  \/ \E d \in DispatchIds, e \in EventIds, at \in Times : Accept(d, e, at)

OutcomeSpec == Init /\ [][Next]_outcomeVars

----------------------------------------------------------------------------
(* audit(): the row of a dispatch *)

AuditRow(d) ==
  LET known == Effective(d).decision \in DOMAIN decisions IN
  [linked |-> known, completed |-> Completed(d),
   accepted |-> Positions(d, {"accepted"}) # {},
   rejected |-> Rejected(d),
   missingReview |-> /\ known /\ decisions[Effective(d).decision].required
                     /\ ~ReviewValid(d)]

----------------------------------------------------------------------------
(* Properties *)

\* Every table holds records of its type, and an event identifier is used by
\* one event only.
OutcomeTypeOK ==
  /\ DOMAIN decisions \subseteq DecisionIds
  /\ decisions \in [DOMAIN decisions -> Decision]
  /\ DOMAIN launches \subseteq DispatchIds
  /\ launches \in [DOMAIN launches -> Launch]
  /\ log \in [DispatchIds -> Seq(Event)]
  /\ \A d, e \in DispatchIds : \A i \in DOMAIN log[d], j \in DOMAIN log[e] :
       log[d][i].id = log[e][j].id => d = e /\ i = j

\* Position i of d holds a favourable review by neither the provider nor the
\* model family of the author.
IndependentYes(d, i) ==
  /\ log[d][i].kind = "review"
  /\ log[d][i].data.verdict = "accepted"
  /\ log[d][i].data.provider # launches[d].actual.provider
  /\ log[d][i].data.family # launches[d].actual.family

\* However a record grew (binding before or after the outcome, repairs and
\* reviews in any order), an accepted launch is linked and completed, its last
\* review is no rejection, a required review is independent and later than
\* every repair, and nothing follows the acceptance; the audit says the same.
AcceptanceEarned ==
  \A d \in DOMAIN launches :
    LET row == AuditRow(d) IN
    row.accepted =>
      /\ row.linked /\ row.completed /\ ~row.rejected /\ ~row.missingReview
      /\ Positions(d, {"accepted"}) = {Len(log[d])}
      /\ decisions[Effective(d).decision].required =>
           \E i \in DOMAIN log[d] :
             /\ IndependentYes(d, i)
             /\ \A j \in i + 1 .. Len(log[d]) :
                  log[d][j].kind \notin {"review", "rework"}

\* A launch is attributed to a decision about the same work that was made
\* before it, and a departure from the recommendation gives its reason; the
\* late binding of a hook's launch is held to the same.
AttributionSound ==
  \A d \in DOMAIN launches :
    LET launch == Effective(d) IN
    launch.decision # None =>
      /\ launch.decision \in DOMAIN decisions
      /\ decisions[launch.decision].subject = launch.subject
      /\ decisions[launch.decision].at <= launch.at
      /\ \/ launch.reason # None
         \/ /\ decisions[launch.decision].selected # None
            /\ ~Deviates(decisions[launch.decision], launch)

\* An attribution, once made, stays: the binding is for once.
BoundOnce ==
  [][\A d \in DOMAIN launches :
       Effective(d).decision # None => Effective(d)' = Effective(d)]_outcomeVars

\* The acceptance is the latest event by its stamp as well, binding included,
\* so that no time to acceptance in the audit is negative.
AcceptedLast ==
  \A d \in DOMAIN launches : \A i \in Positions(d, {"accepted"}) :
    /\ log[d][i].at >= launches[d].at
    /\ \A j \in DOMAIN log[d] : log[d][j].at <= log[d][i].at

=============================================================================
