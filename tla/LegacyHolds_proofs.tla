------------------------- MODULE LegacyHolds_proofs -------------------------
(***************************************************************************)
(* What holds of every number of coordinators, providers, candidates,       *)
(* dispatches and holds, of every ladder and of every reading.              *)
(*                                                                          *)
(* ChoiceRight says of the routing policy alone that whatever it is given   *)
(* to choose from, what it chooses respects the task, the exclusions and    *)
(* the retries; CoordsOK says what each step of a command has in its hands, *)
(* so that this is what every command ends up with; FileOK and QueuesSettle *)
(* relate the holds in the file to what a command remembers of them.        *)
(***************************************************************************)
EXTENDS LegacyHolds, FiniteFacts, FiniteSetTheorems, SequenceTheorems, TLAPS

\* What a command has read of the providers.
ProbesOK(probes) ==
  \A p \in Providers : \E ids \in SUBSET DOMAIN WindowOf : probes[p].buckets \in [ids -> Buckets]
\* What the providers have answered it.
AnswersOK(answers) ==
  \A p \in Providers :
    \E ids \in SUBSET DOMAIN WindowOf : answers[p].said.buckets \in [ids -> Buckets]
\* The headroom that a command decides on.
RowOK(row) == "resets" \in DOMAIN row /\ row.resets \in Int
EligOK(elig) ==
  /\ elig = [p \in Providers |-> elig[p]]
  /\ \A p \in Providers : RowOK(elig[p])

\* A decision keeps the rules of the properties PolicyHolds and QualityKept.
RightFor(ask, task, d) ==
  /\ d.pick \in Candidates \cup {None}
  /\ d.pick \in Forbidden => /\ ask.exception # None /\ d.pick = ask.exception.model
                             /\ ask.exception.approved \/ d.blocked # "none"
  /\ d.review \in Candidates \cup {None} /\ d.review \notin Forbidden
  /\ d.pick # None =>
       /\ d.band >= d.floor /\ d.pick \in Range(Bands[d.band])
       /\ Profiles[d.pick].maxBand >= TaskProfiles[task.judgment.tier].floor
       /\ d.pick \notin ask.tried
       /\ ask.cmd = "rerun" =>
            \A b \in 1 .. 2 : Range(Bands[b]) \cap ask.tried # {} => d.band > b
       /\ ask.cmd = "plan" => d.band = d.floor
       /\ d.review # None =>
            /\ d.review.provider # d.pick.provider
            /\ Profiles[d.review].family # Profiles[d.pick].family
            /\ "review" \in Profiles[d.review].capable \cup Profiles[d.review].retry
            /\ d.review \notin ask.tried
\* What a command recommends: a right decision, held only if it can be launched.
MadeRight(ask, m) ==
  /\ DOMAIN m = {"task", "decision", "hold"}
  /\ m.task \in Tasks /\ RightFor(ask, m.task, m.decision)
  /\ m.hold # NoId => Dispatchable(m.decision)
Recommended(ask, made) ==
  /\ made \in Seq(Range(made))
  /\ \A i \in 1 .. Len(made) : MadeRight(ask, made[i])

\* What a command has in its hands at each step.
Steps == {"start", "bind", "fetch", "confirm", "save", "baseline", "snapshot", "deny", "look", "hold",
           "again", "log", "place", "book", "flush", "decided", "tasks", "survey", "release"}
Shape(r) ==
  LET has(fields) == DOMAIN r = {"pc", "ask"} \cup fields IN
  /\ r.pc \in Steps
  /\ r.pc = "start" => has({})
  /\ r.pc = "bind" => has({"identity", "fresh"})
  /\ r.pc = "fetch" => has({"identity", "fresh", "bound"})
  /\ r.pc = "confirm" => has({"identity", "fresh", "bound", "answers"})
  /\ r.pc = "save" => has({"identity", "fresh", "probes"})
  /\ r.pc = "baseline" => has({"probes", "fresh"})
  /\ r.pc \in {"snapshot", "deny"} => has({"probes", "fresh", "before"})
  /\ r.pc = "look" => has({"probes", "fresh", "before", "denied"})
  /\ r.pc \in {"hold", "again", "log"} => has({"elig", "made"})
  /\ r.pc \in {"place", "book", "flush"} =>
       has({"elig", "todo", "waiting", "wave", "placed", "made", "unlogged", "points"})
  /\ r.pc = "decided" => has({"made"})
  /\ r.pc = "tasks" => has({"settled"})
  /\ r.pc = "survey" => has({"settled", "briefs"})
  /\ r.pc = "release" => has({"queue"})
Knowing == {"save", "baseline", "snapshot", "deny", "look"}
Seeing == {"snapshot", "deny", "look"}
Single == {"hold", "again", "log"}
Placing == {"place", "book", "flush"}
CommandOK(r) ==
  /\ Shape(r)
  /\ r.ask \in Asks
  /\ r.pc \in {"fetch", "confirm"} => r.bound \in [Providers -> Credentials]
  /\ r.pc = "confirm" => AnswersOK(r.answers)
  /\ r.pc \in Knowing => ProbesOK(r.probes)
  /\ r.pc \in Seeing => \A s \in r.before : s.percent \in Int
  /\ r.pc \in {"bind", "fetch", "confirm"} \cup Knowing \cup Single \cup Placing =>
       r.ask.cmd \in {"route", "rerun", "plan"}
  /\ r.pc \in Single \cup Placing => EligOK(r.elig)
  /\ r.pc \in Single \cup Placing \cup {"decided"} => Recommended(r.ask, r.made)
  /\ r.pc \in Single => Len(r.made) = 1
  /\ r.pc \in Placing => r.todo \in Seq(Tasks) /\ r.waiting \in Seq(Tasks)
  /\ r.pc = "book" => Len(r.made) # 0 /\ Dispatchable(r.made[Len(r.made)].decision)
CoordsOK ==
  /\ DOMAIN coord = Coords
  /\ \A c \in Coords : CommandOK(coord[c])

WorldOK ==
  /\ DOMAIN reading = Providers
  /\ \A p \in Providers : /\ DOMAIN reading[p] = Accounts
                          /\ \A a \in Accounts : IsAnswer(reading[p][a])
  /\ login \in [Providers -> Credentials] /\ managed \in [Providers -> Nat]
  /\ DOMAIN workers = Dispatches

\* The holds have an id and a dispatch of their own; denials and minutes are of
\* providers.
HoldsOK(holds, serial) ==
  /\ IsFiniteSet(holds) /\ Distinct(holds) /\ serial \in Nat
  /\ \A h \in holds : IsHold(h) /\ h.id < serial
FileOK ==
  /\ DOMAIN file = {"holds", "serial", "decisions", "denials", "exhausted", "snapshots",
                    "cache"}
  /\ HoldsOK(file.holds, file.serial)
  /\ \A d \in file.denials : d.scope[1] \in Providers
  /\ \A s \in file.snapshots : s.percent \in Int
  /\ file.cache # None => ProbesOK(file.cache.probes)

\* The worker of a dispatch has ended.
Ended(d) == workers[d] # None /\ workers[d].state = "settled"
\* A hold that is to be given back is still the one that was listed, unless it
\* was not bound to a dispatch then; and its worker has ended.
Settles(r) ==
  /\ r.pc \in {"tasks", "survey"} => \A d \in r.settled : d \in Dispatches /\ Ended(d)
  /\ r.pc = "release" =>
       \A q \in r.queue :
         /\ q.id \in Nat /\ q.id < file.serial
         /\ q.dispatch # NoId =>
              /\ q.dispatch \in Dispatches /\ Ended(q.dispatch)
              /\ \A h \in file.holds : h.id = q.id => h.dispatch = q.dispatch
QueuesSettle == \A c \in Coords : Settles(coord[c])

\* The inductive invariant.
LegacyInv == WorldOK /\ CoordsOK /\ FileOK /\ QueuesSettle

----------------------------------------------------------------------------
(* The routing policy                                                        *)

LEMMA MaxOfIntegers ==
  ASSUME NEW S \in SUBSET Int, S # {}, IsFiniteSet(S)
  PROVE  Max(S) \in S /\ \A k \in S : Max(S) >= k
BY GreatestInteger DEF Max

LEMMA MinOfIntegers ==
  ASSUME NEW S \in SUBSET Int, S # {}, IsFiniteSet(S)
  PROVE  Min(S) \in S /\ \A k \in S : Min(S) <= k
BY LeastInteger DEF Min

(* The places of a ladder.                                                    *)
LEMMA LadderTyped ==
  ASSUME NEW ladder \in Seq(Candidates)
  PROVE  /\ Len(ladder) \in Nat /\ DOMAIN ladder = 1 .. Len(ladder)
         /\ \A i \in DOMAIN ladder : ladder[i] \in Candidates
BY LenProperties, ElementOfSeq

(* Of the places that are open the order of pick() has a first one.           *)
LEMMA FirstExists ==
  ASSUME NEW ladder \in Seq(Candidates), NEW elig, EligOK(elig), NEW band \in 1 .. 3,
         NEW open \in SUBSET DOMAIN ladder, open # {}
  PROVE  \E i \in open : \A j \in open : Precedes(ladder, elig, band, i, j)
<1> DEFINE soon == [i \in open |-> elig[ladder[i].provider].resets]
           Times == {soon[i] : i \in open}
<1>1. open \in SUBSET Nat /\ IsFiniteSet(open)
  <2>1. IsFiniteSet(1 .. Len(ladder))
    BY LadderTyped, FS_Interval
  <2>. QED
    BY <2>1, LadderTyped, FS_Subset
<1>2. soon \in [open -> Int]
  <2>1. \A i \in open : ladder[i].provider \in Providers
    BY LadderTyped, PolicyAssumption
  <2>. QED
    BY <2>1 DEF EligOK, RowOK
<1>3. Times \in SUBSET Int /\ Times # {} /\ IsFiniteSet(Times)
  <2> HIDE DEF soon
  <2>1. IsFiniteSet(Times)
    BY <1>1, <1>2, FiniteImage
  <2>. QED
    BY <1>2, <2>1
<1>4. PICK t \in Times : \A u \in Times : t <= u
  BY <1>3, LeastInteger
<1> DEFINE Soonest == {i \in open : soon[i] = t}
<1>5. CASE band >= 3
  <2>1. PICK i \in open : \A j \in open : i <= j
    BY <1>1, LeastNatural
  <2>2. \A j \in open : Precedes(ladder, elig, band, i, j)
    BY <1>5, <2>1 DEF Precedes
  <2>. QED
    BY <2>2
<1>6. CASE ~(band >= 3)
  <2>1. Soonest \in SUBSET Nat /\ Soonest # {}
    BY <1>1
  <2>2. PICK i \in Soonest : \A j \in Soonest : i <= j
    BY <2>1, LeastNatural
  <2>3. ASSUME NEW j \in open PROVE Precedes(ladder, elig, band, i, j)
    <3>1. soon[j] \in Times /\ soon[i] = t /\ i \in open
      OBVIOUS
    <3>2. soon[i] \in Int /\ soon[j] \in Int /\ soon[i] <= soon[j]
      BY <1>2, <1>4, <3>1
    <3>3. soon[i] = soon[j] => i <= j
      BY <2>2, <3>1
    <3>4. soon[i] = elig[ladder[i].provider].resets /\ soon[j] = elig[ladder[j].provider].resets
      BY <3>1
    <3> HIDE DEF soon
    <3>5. soon[i] < soon[j] \/ (soon[i] = soon[j] /\ i <= j)
      BY <3>2, <3>3
    <3>. QED
      BY <1>6, <3>4, <3>5 DEF Precedes
  <2>. QED
    BY <2>3
<1>. QED
  BY <1>5, <1>6

(* What pick() takes is one of its places, and passes every gate.             *)
LEMMA PickAdmitted ==
  ASSUME NEW ladder \in Seq(Candidates), NEW places \in SUBSET DOMAIN ladder,
         NEW elig, EligOK(elig), NEW band \in 1 .. 3, NEW excluded, NEW relax, NEW t
  PROVE  Pick(ladder, places, elig, band, excluded, relax, t) = None \/
           \E i \in places :
             /\ Pick(ladder, places, elig, band, excluded, relax, t) = ladder[i]
             /\ ladder[i] \in Candidates
             /\ Admits(ladder[i], elig, band, excluded, relax, t)
<1> DEFINE open == {i \in places : Admits(ladder[i], elig, band, excluded, relax, t)}
           first == CHOOSE i \in open : \A j \in open : Precedes(ladder, elig, band, i, j)
<1>1. CASE open = {}
  BY <1>1 DEF Pick
<1>2. CASE open # {}
  <2>1. open \in SUBSET DOMAIN ladder
    OBVIOUS
  <2>2. first \in open
    BY <1>2, <2>1, FirstExists
  <2>3. Pick(ladder, places, elig, band, excluded, relax, t) = ladder[first]
    BY <1>2 DEF Pick
  <2>. QED
    BY <2>2, <2>3, LadderTyped
<1>. QED
  BY <1>1, <1>2

(* A set of bands is finite.                                                  *)
LEMMA BandsFinite ==
  ASSUME NEW S \in SUBSET (0 .. 4)
  PROVE  S \in SUBSET Int /\ IsFiniteSet(S)
<1>1. 0 \in Int /\ 4 \in Int
  OBVIOUS
<1>2. IsFiniteSet(0 .. 4)
  BY <1>1, FS_Interval, Zenon
<1>3. IsFiniteSet(S)
  BY <1>2, FS_Subset
<1>. QED
  BY <1>3

(* A floor is a band, not below the task's own, nor below the next band of a  *)
(* retry as long as there is one.                                             *)
LEMMA FloorBounds ==
  ASSUME NEW j \in Judgment, NEW low \in 0 .. 4
  PROVE  /\ Floor(j, low) \in 1 .. 3 /\ Floor(j, low) >= TaskProfiles[j.tier].floor
         /\ \A b \in 1 .. 2 : low > b => Floor(j, low) > b
<1> DEFINE own == TaskProfiles[j.tier].floor
           S == {BandFor(j), low, own}
           T == {3, Max(S)}
<1>1. BandFor(j) \in 1 .. 3 /\ own \in 1 .. 3
  BY PolicyAssumption DEF BandFor, Judgment
<1> HIDE DEF own
<1>2. S \in SUBSET Int /\ S # {} /\ IsFiniteSet(S)
  <2>1. S \in SUBSET (0 .. 4) /\ S # {}
    BY <1>1
  <2>. QED
    BY <2>1, BandsFinite
<1>3. Max(S) \in S /\ \A k \in S : Max(S) >= k
  BY <1>2, MaxOfIntegers
<1>4. Max(S) \in 1 .. 4 /\ Max(S) >= own /\ Max(S) >= low
  BY <1>1, <1>3
<1> HIDE DEF S
<1>5. T \in SUBSET Int /\ T # {} /\ IsFiniteSet(T)
  <2>1. T \in SUBSET (0 .. 4) /\ T # {}
    BY <1>4
  <2>. QED
    BY <2>1, BandsFinite
<1>6. Min(T) \in T /\ \A k \in T : Min(T) <= k
  BY <1>5, MinOfIntegers
<1>7. Floor(j, low) = Min(T)
  BY DEF Floor, S, own
<1>. QED
  BY <1>1, <1>4, <1>6, <1>7 DEF own

LEMMA RetryFloorBounds ==
  ASSUME NEW tried
  PROVE  /\ RetryFloor(tried) \in 0 .. 4
         /\ \A b \in 1 .. 3 : Range(Bands[b]) \cap tried # {} => RetryFloor(tried) > b
<1> DEFINE was == {b \in 1 .. 3 : Range(Bands[b]) \cap tried # {}}
           S == {0} \cup {b + 1 : b \in was}
<1>1. S \in SUBSET (0 .. 4) /\ S # {}
  OBVIOUS
<1>2. S \in SUBSET Int /\ IsFiniteSet(S)
  BY <1>1, BandsFinite
<1>3. Max(S) \in S /\ \A k \in S : Max(S) >= k
  BY <1>1, <1>2, MaxOfIntegers
<1>4. RetryFloor(tried) = Max(S)
  BY DEF RetryFloor
<1>5. \A b \in was : b + 1 \in S
  OBVIOUS
<1>. QED
  BY <1>1, <1>3, <1>4, <1>5

(* The candidate of a band for the work fits it.                              *)
LEMMA PickAtFits ==
  ASSUME NEW b \in 1 .. 3, NEW relax, NEW j, NEW elig, EligOK(elig), NEW floor,
         NEW excluded, NEW attempt, NEW t
  PROVE  LET c == PickAt(b, relax, j, elig, floor, excluded, attempt, t) IN
         c = None \/ /\ c \in Candidates /\ c \in Range(Bands[b])
                     /\ Fits(c, j, floor, FALSE, attempt)
                     /\ c \notin excluded /\ elig[c.provider].eligible
<1> DEFINE places == Qualified(Bands[b], j, floor, FALSE, attempt)
           c == PickAt(b, relax, j, elig, floor, excluded, attempt, t)
<1>1. Bands[b] \in Seq(Candidates) /\ places \in SUBSET DOMAIN Bands[b]
  BY PolicyAssumption DEF Qualified
<1>2. c = Pick(Bands[b], places, elig, b, excluded, relax, t)
  BY DEF PickAt
<1> HIDE DEF places
<1>3. \/ Pick(Bands[b], places, elig, b, excluded, relax, t) = None
      \/ \E i \in places :
             /\ Pick(Bands[b], places, elig, b, excluded, relax, t) = Bands[b][i]
             /\ Bands[b][i] \in Candidates
             /\ Admits(Bands[b][i], elig, b, excluded, relax, t)
  BY <1>1, PickAdmitted, Zenon
<1> USE DEF places
<1>4. ASSUME NEW i \in places, c = Bands[b][i], c \in Candidates,
             Admits(c, elig, b, excluded, relax, t)
      PROVE  /\ c \in Candidates /\ c \in Range(Bands[b])
             /\ Fits(c, j, floor, FALSE, attempt)
             /\ c \notin excluded /\ elig[c.provider].eligible
  <2> HIDE DEF c
  <2>1. c \in Range(Bands[b]) /\ Fits(c, j, floor, FALSE, attempt)
    BY <1>4 DEF Qualified, Range
  <2>2. c \notin excluded /\ elig[c.provider].eligible
    BY <1>4 DEF Admits
  <2>. QED
    BY <1>4, <2>1, <2>2
<1>. QED
  BY <1>2, <1>3, <1>4

(* The work goes to the floor's band or, unless a plan is made, to a higher one. *)
LEMMA WorkFits ==
  ASSUME NEW j, NEW elig, EligOK(elig), NEW floor \in 1 .. 3, NEW fallback \in BOOLEAN,
         NEW excluded, NEW attempt, NEW t, NEW w,
         w = Implementer(j, elig, floor, fallback, excluded, attempt, t)
  PROVE  /\ w.band \in floor .. 3 /\ (fallback \/ w.band = floor)
         /\ w.pick = None \/ /\ w.pick \in Candidates /\ w.pick \in Range(Bands[w.band])
                             /\ Profiles[w.pick].maxBand >= floor
                             /\ w.pick \notin excluded /\ elig[w.pick.provider].eligible
<1> DEFINE at(b) == PickAt(b, FALSE, j, elig, floor, excluded, attempt, t)
           eased == PickAt(floor, TRUE, j, elig, floor, excluded, attempt, t)
           relaxed == IF fallback /\ floor < 3 THEN eased ELSE None
           higher == {b \in floor + 1 .. 3 : fallback /\ at(b) # None}
           Good(c, b) == /\ c \in Candidates /\ c \in Range(Bands[b])
                         /\ Profiles[c].maxBand >= floor
                         /\ c \notin excluded /\ elig[c.provider].eligible
<1>1. /\ \A b \in 1 .. 3 : at(b) = None \/ Good(at(b), b)
      /\ eased = None \/ Good(eased, floor)
  BY PickAtFits DEF Fits
<1>2. w = IF at(floor) # None THEN [band |-> floor, pick |-> at(floor)]
          ELSE IF relaxed # None THEN [band |-> floor, pick |-> relaxed]
          ELSE IF higher # {} THEN [band |-> Min(higher), pick |-> at(Min(higher))]
          ELSE [band |-> floor, pick |-> None]
  BY DEF Implementer
<1>3. higher # {} => Min(higher) \in higher
  <2>0. floor + 1 .. 3 \subseteq 0 .. 4
    OBVIOUS
  <2>1. higher \in SUBSET (0 .. 4)
    BY <2>0
  <2> HIDE DEF higher
  <2>2. SUFFICES ASSUME higher # {} PROVE Min(higher) \in higher
    OBVIOUS
  <2>3. higher \in SUBSET Int /\ IsFiniteSet(higher)
    BY <2>1, BandsFinite
  <2>. QED
    BY <2>2, <2>3, MinOfIntegers
<1> SUFFICES /\ w.band \in floor .. 3 /\ (fallback \/ w.band = floor)
             /\ w.pick = None \/ Good(w.pick, w.band)
  OBVIOUS
<1> HIDE DEF at, eased, Good
<1>4. CASE at(floor) # None
  <2>1. w = [band |-> floor, pick |-> at(floor)]
    BY <1>2, <1>4
  <2>2. Good(at(floor), floor)
    BY <1>1, <1>4
  <2>. QED
    BY <2>1, <2>2
<1>5. CASE at(floor) = None /\ relaxed # None
  <2>1. w = [band |-> floor, pick |-> eased]
    BY <1>2, <1>5
  <2>2. Good(eased, floor)
    BY <1>1, <1>5
  <2>. QED
    BY <2>1, <2>2
<1>6. CASE at(floor) = None /\ relaxed = None /\ higher # {}
  <2> DEFINE b == Min(higher)
  <2>1. b \in floor + 1 .. 3 /\ fallback /\ at(b) # None
    BY <1>3, <1>6
  <2>2. w = [band |-> b, pick |-> at(b)]
    BY <1>2, <1>6
  <2> HIDE DEF b, higher
  <2>3. b \in 1 .. 3 /\ b \in floor .. 3
    BY <2>1
  <2>4. Good(at(b), b)
    BY <1>1, <2>1, <2>3
  <2>5. w.band = b /\ w.pick = at(b)
    BY <2>2
  <2>. QED
    BY <2>1, <2>3, <2>4, <2>5
<1>7. CASE at(floor) = None /\ relaxed = None /\ higher = {}
  <2>1. w = [band |-> floor, pick |-> None]
    BY <1>2, <1>7
  <2>. QED
    BY <2>1
<1>. QED
  BY <1>4, <1>5, <1>6, <1>7

(* Whoever reviews it is independent of the author and can review.            *)
LEMMA ReviewerFits ==
  ASSUME NEW j, NEW elig, EligOK(elig), NEW floor \in 1 .. 3, NEW author,
         NEW excluded, NEW attempt, NEW t
  PROVE  LET c == Reviewer(j, elig, floor, author, excluded, attempt, t) IN
         c = None \/ /\ c \in Candidates /\ c \notin excluded /\ Independent(c, author)
                     /\ "review" \in Profiles[c].capable \cup Profiles[c].retry
<1> DEFINE ladder == IF floor = 1 THEN ReviewLadder ELSE Bands[floor]
           others == {i \in Qualified(ladder, j, floor, TRUE, attempt) :
                        Independent(ladder[i], author)}
           c == Reviewer(j, elig, floor, author, excluded, attempt, t)
<1>1. ladder \in Seq(Candidates) /\ others \in SUBSET DOMAIN ladder
  BY PolicyAssumption DEF Qualified
<1>2. c = Pick(ladder, others, elig, floor, excluded, FALSE, t)
  BY DEF Reviewer
<1> HIDE DEF c, ladder, others
<1>3. \/ Pick(ladder, others, elig, floor, excluded, FALSE, t) = None
      \/ \E i \in others :
           /\ Pick(ladder, others, elig, floor, excluded, FALSE, t) = ladder[i]
           /\ ladder[i] \in Candidates /\ Admits(ladder[i], elig, floor, excluded, FALSE, t)
  BY <1>1, PickAdmitted, Zenon
<1>4. ASSUME NEW i \in others, c = ladder[i], c \in Candidates,
             Admits(c, elig, floor, excluded, FALSE, t)
      PROVE  /\ c \in Candidates /\ c \notin excluded /\ Independent(c, author)
             /\ "review" \in Profiles[c].capable \cup Profiles[c].retry
  <2>1. Independent(c, author) /\ Fits(c, j, floor, TRUE, attempt)
    BY <1>4 DEF Qualified, others
  <2>2. c \notin excluded
    BY <1>4 DEF Admits
  <2>3. Capable(Profiles[c], j.tier, TRUE, attempt)
    BY <2>1 DEF Fits
  <2>4. "review" \in Required(Profiles[c], j.tier, TRUE)
    BY DEF Required
  <2>5. "review" \in Profiles[c].capable \cup Profiles[c].retry
    BY <2>3, <2>4 DEF Capable
  <2>. QED
    BY <1>4, <2>1, <2>2, <2>5
<1>. QED
  BY <1>2, <1>3, <1>4 DEF c

(* Whatever headroom a command decides on, its decision is right for the      *)
(* task, and its model is on a provider that is eligible.                     *)
LEMMA ChoiceRight ==
  ASSUME NEW ask \in Asks, ask.cmd \in {"route", "rerun", "plan"}, NEW task \in Tasks,
         NEW elig, EligOK(elig)
  PROVE  /\ RightFor(ask, task, Choose(ask, task, elig))
         /\ Choose(ask, task, elig).pick = None
              \/ elig[Choose(ask, task, elig).pick.provider].eligible
<1> DEFINE d == Choose(ask, task, elig)
           j == task.judgment
           e == ask.exception
           low == IF ask.cmd = "rerun" THEN RetryFloor(ask.tried) ELSE 0
           floor == Floor(j, low)
           attempt == Cardinality(ask.tried)
           work == Implementer(j, elig, floor, ask.cmd # "plan", ask.tried \cup Barred(e), attempt, now)
           review == Reviewer(j, elig, floor, work.pick, ReviewExcluded(ask.tried, e), attempt, now)
<1>1. d = Decision(j, elig, ask.cmd # "plan", floor, ask.tried, e, work, now)
  BY DEF Choose, Decide, DecideAt
<1>2. j \in Judgment /\ low \in 0 .. 4
  BY RetryFloorBounds DEF Tasks
<1>3. /\ floor \in 1 .. 3 /\ floor >= TaskProfiles[j.tier].floor
      /\ \A b \in 1 .. 2 : low > b => floor > b
  BY <1>2, FloorBounds
<1>4. e = None \/ e \in Exception
  BY DEF Asks
<1> HIDE DEF floor, j, e, attempt, low
<1>a. work = Implementer(j, elig, floor, ask.cmd # "plan", ask.tried \cup Barred(e), attempt, now)
  OBVIOUS
<1> HIDE DEF work
<1>5. /\ work.band \in floor .. 3 /\ (ask.cmd = "plan" => work.band = floor)
      /\ work.pick = None \/ /\ work.pick \in Candidates /\ work.pick \in Range(Bands[work.band])
                             /\ Profiles[work.pick].maxBand >= floor
                             /\ work.pick \notin ask.tried \cup Barred(e)
                             /\ elig[work.pick.provider].eligible
  <2>1. floor \in 1 .. 3
    BY <1>3
  <2>2. PICK barred : barred = ask.tried \cup Barred(e)
    OBVIOUS
  <2>3. PICK fallback \in BOOLEAN : fallback = (ask.cmd # "plan")
    OBVIOUS
  <2>4. work = Implementer(j, elig, floor, fallback, barred, attempt, now)
    BY <1>a, <2>2, <2>3
  <2>5. /\ work.band \in floor .. 3 /\ (fallback \/ work.band = floor)
        /\ work.pick = None \/ /\ work.pick \in Candidates /\ work.pick \in Range(Bands[work.band])
                               /\ Profiles[work.pick].maxBand >= floor
                               /\ work.pick \notin barred
                               /\ elig[work.pick.provider].eligible
    BY <2>1, <2>4, WorkFits
  <2>. QED
    BY <2>2, <2>3, <2>5
<1>6. review = None \/ /\ review \in Candidates /\ review \notin ReviewExcluded(ask.tried, e)
                       /\ Independent(review, work.pick)
                       /\ "review" \in Profiles[review].capable \cup Profiles[review].retry
  BY <1>3, ReviewerFits, Zenon
<1> HIDE DEF review, d
<1>7. /\ d.pick = work.pick /\ d.band = work.band /\ d.floor = floor
      /\ d.review = None \/ (d.review = review /\ d.pick # None)
  BY <1>1 DEF Decision, review, attempt
<1>8. e # None /\ work.pick = e.model /\ ~e.approved => d.blocked # "none"
  <2>1. SUFFICES ASSUME e # None, work.pick = e.model, ~e.approved PROVE d.blocked # "none"
    OBVIOUS
  <2>2. work.pick # None
    BY <1>4, <2>1, PolicyAssumption DEF Exception
  <2>. QED
    BY <1>1, <2>1, <2>2 DEF Decision
<1>9. d.pick \in Candidates \cup {None}
  BY <1>5, <1>7
<1>10. d.pick \in Forbidden => /\ e # None /\ d.pick = e.model
                               /\ e.approved \/ d.blocked # "none"
  <2>1. SUFFICES ASSUME d.pick \in Forbidden
                 PROVE  e # None /\ d.pick = e.model /\ (e.approved \/ d.blocked # "none")
    OBVIOUS
  <2>2. d.pick # None
    BY <2>1, PolicyAssumption
  <2>3. d.pick \notin Barred(e)
    BY <1>5, <1>7, <2>2
  <2>4. e # None /\ d.pick = e.model
    BY <2>1, <2>3 DEF Barred
  <2>. QED
    BY <1>7, <1>8, <2>4
<1>11. d.review \in Candidates \cup {None} /\ d.review \notin Forbidden
  BY <1>6, <1>7, PolicyAssumption DEF ReviewExcluded
<1>12. ASSUME d.pick # None
       PROVE  /\ d.band >= d.floor /\ d.pick \in Range(Bands[d.band])
              /\ Profiles[d.pick].maxBand >= TaskProfiles[j.tier].floor
              /\ d.pick \notin ask.tried
  <2>1. d.pick \in Candidates /\ Profiles[d.pick].maxBand >= floor
    BY <1>5, <1>7, <1>12
  <2>2. Profiles[d.pick].maxBand \in Nat /\ TaskProfiles[j.tier].floor \in 1 .. 3
    BY <1>2, <2>1, PolicyAssumption DEF Judgment
  <2>3. Profiles[d.pick].maxBand >= TaskProfiles[j.tier].floor
    BY <1>3, <2>1, <2>2
  <2>4. d.band >= d.floor
    BY <1>3, <1>5, <1>7
  <2>5. d.pick \in Range(Bands[d.band]) /\ d.pick \notin ask.tried
    BY <1>5, <1>7, <1>12
  <2>. QED
    BY <2>3, <2>4, <2>5
<1>13. ask.cmd = "rerun" => \A b \in 1 .. 2 : Range(Bands[b]) \cap ask.tried # {} => d.band > b
  <2>1. SUFFICES ASSUME ask.cmd = "rerun", NEW b \in 1 .. 2, Range(Bands[b]) \cap ask.tried # {}
                 PROVE  d.band > b
    OBVIOUS
  <2>2. low > b
    BY <2>1, RetryFloorBounds DEF low
  <2>3. floor > b
    BY <1>3, <2>1, <2>2
  <2>. QED
    BY <1>3, <1>5, <1>7, <2>1, <2>3
<1>14. ask.cmd = "plan" => d.band = d.floor
  BY <1>5, <1>7
<1>15. d.pick # None /\ d.review # None =>
         /\ d.review.provider # d.pick.provider
         /\ Profiles[d.review].family # Profiles[d.pick].family
         /\ "review" \in Profiles[d.review].capable \cup Profiles[d.review].retry
         /\ d.review \notin ask.tried
  BY <1>6, <1>7 DEF Independent, ReviewExcluded
<1>16. RightFor(ask, task, d)
  BY <1>9, <1>10, <1>11, <1>12, <1>13, <1>14, <1>15 DEF RightFor, j, e
<1>17. d.pick = None \/ elig[d.pick.provider].eligible
  BY <1>5, <1>7
<1>. QED
  BY <1>16, <1>17 DEF d

----------------------------------------------------------------------------
(* The headroom of the providers                                             *)

LEMMA RememberedTyped ==
  ASSUME NEW bucket \in Buckets, NEW before, before = None \/ before.percent \in Int, NEW t
  PROVE  /\ Remembered(bucket, before, t).percent \in Int
         /\ Remembered(bucket, before, t).resets \in Int
BY DEF Remembered, Buckets, Missing

(* The reset of the fullest bucket is a time.                                 *)
LEMMA RoomTyped ==
  ASSUME NEW buckets, IsFiniteSet(DOMAIN buckets),
         \A b \in DOMAIN buckets : buckets[b].percent \in Int /\ buckets[b].resets \in Int,
         NEW reserve, NEW before, NEW t
  PROVE  Room(buckets, reserve, before, t).resets \in Int
<1> DEFINE read == {b \in DOMAIN buckets : buckets[b].percent # Missing}
           of == [b \in read |-> buckets[b].percent]
           percents == {of[b] : b \in read}
           most == Max({buckets[b].percent : b \in read})
           worst == CHOOSE b \in read : buckets[b].percent = most
<1>1. Room(buckets, reserve, before, t).resets =
        IF read = {} \/ buckets[worst].resets = Missing THEN Never ELSE buckets[worst].resets
  BY DEF Room
<1>2. CASE read = {}
  BY <1>1, <1>2 DEF Never
<1>3. CASE read # {}
  <2>1. of \in [read -> Int] /\ IsFiniteSet(read)
    BY FS_Subset
  <2>2. percents = {buckets[b].percent : b \in read}
    OBVIOUS
  <2> HIDE DEF of
  <2>3. IsFiniteSet(percents) /\ percents \in SUBSET Int /\ percents # {}
    <3>1. IsFiniteSet(percents)
      BY <2>1, FiniteImage
    <3>. QED
      BY <1>3, <2>1, <3>1
  <2> HIDE DEF percents
  <2>4. most \in percents
    BY <2>2, <2>3, MaxOfIntegers
  <2>5. \E b \in read : buckets[b].percent = most
    BY <2>2, <2>4
  <2> HIDE DEF most
  <2>6. worst \in read
    BY <2>5
  <2> HIDE DEF worst
  <2>7. buckets[worst].resets \in Int
    BY <2>6
  <2>. QED
    BY <1>1, <2>7 DEF Never
<1>. QED
  BY <1>2, <1>3

LEMMA RowTyped ==
  ASSUME NEW p, NEW probe, NEW info, info.resets \in Int, NEW denied, NEW until, NEW load,
         NEW t
  PROVE  /\ RowOK(Row(p, probe, info, denied, until, load, t))
         /\ Row(p, probe, info, denied, until, load, t).eligible => denied = {}
BY DEF Row, RowOK

(* The rows of eligibility(): well formed, and not eligible when denied.      *)
LEMMA EligTyped ==
  ASSUME CoordsOK, LegacyAssumption, NEW c \in Coords, coord[c].pc = "look"
  PROVE  /\ EligOK(Elig(c))
         /\ \A p \in Providers : Elig(c)[p].eligible => DeniedOf(c, p) = {}
<1>1. ProbesOK(coord[c].probes) /\ \A s \in coord[c].before : s.percent \in Int
  BY DEF CoordsOK, CommandOK, Knowing, Seeing
<1>2. ASSUME NEW p \in Providers
      PROVE  RowOK(Elig(c)[p]) /\ (Elig(c)[p].eligible => DeniedOf(c, p) = {})
  <2> DEFINE probe == coord[c].probes[p]
             ids == DOMAIN probe.buckets
             before == Before(c, p)
             filled == [b \in ids |-> Remembered(probe.buckets[b], before[b], now)]
             head == Headroom(probe, ReserveOf[p], before, now)
             info == [head EXCEPT !.usable = @ - Load(p).points]
  <2>1. /\ ids \in SUBSET DOMAIN WindowOf /\ IsFiniteSet(ids)
        /\ \A b \in ids : probe.buckets[b] \in Buckets
    <3>1. PICK known \in SUBSET DOMAIN WindowOf : probe.buckets \in [known -> Buckets]
      BY <1>1 DEF ProbesOK
    <3>2. IsFiniteSet(known)
      BY FS_Subset DEF LegacyAssumption
    <3>. QED
      BY <3>1, <3>2
  <2>2. \A b \in ids : before[b] = None \/ before[b].percent \in Int
    BY <1>1 DEF Before
  <2> HIDE DEF before
  <2>3. \A b \in ids : filled[b].percent \in Int /\ filled[b].resets \in Int
    BY <2>1, <2>2, RememberedTyped
  <2>4. DOMAIN filled = ids
    OBVIOUS
  <2>5. head = Room(filled, ReserveOf[p], before, now)
    BY DEF Headroom
  <2> HIDE DEF filled, ids
  <2>6. Room(filled, ReserveOf[p], before, now).resets \in Int
    BY <2>1, <2>3, <2>4, RoomTyped
  <2>7. head.resets \in Int
    BY <2>5, <2>6
  <2>8. info.resets = head.resets
    BY <2>5 DEF Room
  <2>9. Elig(c)[p] = Row(p, probe, info, DeniedOf(c, p), file.exhausted[p], Load(p), now)
    BY DEF Elig, Eligibility, before
  <2> HIDE DEF info, head, probe
  <2>. QED
    BY <2>7, <2>8, <2>9, RowTyped
<1>3. Elig(c) = [p \in Providers |-> Elig(c)[p]]
  BY DEF Elig
<1>. QED
  BY <1>2, <1>3 DEF EligOK

LEMMA RowSpent ==
  ASSUME NEW row, RowOK(row), NEW usable, NEW reserved, NEW inflight
  PROVE  RowOK([row EXCEPT !.usable = usable, !.reserved = reserved, !.inflight = inflight])
BY DEF RowOK

LEMMA RowJudged ==
  ASSUME NEW row, RowOK(row), NEW overrun, NEW eligible
  PROVE  RowOK([row EXCEPT !.overrun = overrun, !.eligible = eligible])
BY DEF RowOK

(* A batch spends headroom; the rows stay well formed.                        *)
LEMMA DebitTyped ==
  ASSUME NEW elig, EligOK(elig), NEW p \in Providers, NEW cost, NEW t
  PROVE  EligOK(Debit(elig, p, cost, t))
<1>1. PICK next : /\ Debit(elig, p, cost, t) = [elig EXCEPT ![p] = next]
                  /\ RowOK(next)
  <2> DEFINE info == elig[p]
             spent == info.reserved + cost
             left == [info EXCEPT !.usable = @ - cost, !.reserved = spent, !.inflight = @ + 1]
             paced == \E b \in DOMAIN info.buckets :
                        /\ info.buckets[b].percent # Missing
                        /\ OverPace(b, info.buckets[b].percent + spent, info.buckets[b].resets, t)
             next == [left EXCEPT
                        !.overrun = left.overrun \/ paced,
                        !.eligible = left.eligible /\ left.inflight < SlotLimit[p] /\ ~BelowReserve(left)]
  <2>1. Debit(elig, p, cost, t) = [elig EXCEPT ![p] = next]
    BY DEF Debit
  <2>2. RowOK(info)
    BY DEF EligOK
  <2> HIDE DEF info
  <2>3. RowOK(left)
    BY <2>2, RowSpent
  <2> HIDE DEF left, paced
  <2>4. RowOK(next)
    BY <2>3, RowJudged
  <2>. QED
    BY <2>1, <2>4
<1>. QED
  BY <1>1 DEF EligOK

LEMMA StartWaveTyped ==
  ASSUME NEW elig, EligOK(elig)
  PROVE  EligOK(StartWave(elig))
<1>1. ASSUME NEW p \in Providers
      PROVE  RowOK(StartWave(elig)[p])
  <2>1. RowOK(elig[p])
    BY DEF EligOK
  <2>2. StartWave(elig)[p] = [elig[p] EXCEPT !.inflight = 0,
                                !.eligible = ~elig[p].hard /\ ~BelowReserve(elig[p])]
    BY DEF StartWave, EligOK
  <2>. QED
    BY <2>1, <2>2 DEF RowOK
<1>2. DOMAIN elig = Providers
  BY DEF EligOK
<1>3. StartWave(elig) = [p \in Providers |-> StartWave(elig)[p]]
  BY <1>2 DEF StartWave
<1>. QED
  BY <1>1, <1>3 DEF EligOK

LEMMA WithoutSlotTyped ==
  ASSUME NEW elig, EligOK(elig), NEW p
  PROVE  EligOK(WithoutSlot(elig, p))
<1>1. ASSUME NEW q \in Providers
      PROVE  RowOK(WithoutSlot(elig, p)[q])
  <2>1. RowOK(elig[q])
    BY DEF EligOK
  <2>2. RowOK([elig[q] EXCEPT !.eligible = FALSE])
    BY <2>1 DEF RowOK
  <2>3. WithoutSlot(elig, p)[q] \in {elig[q], [elig[q] EXCEPT !.eligible = FALSE]}
    BY <2>1 DEF WithoutSlot, EligOK
  <2>. QED
    BY <2>1, <2>2, <2>3
<1>2. WithoutSlot(elig, p) = [q \in Providers |-> WithoutSlot(elig, p)[q]]
  BY DEF WithoutSlot, EligOK
<1>. QED
  BY <1>1, <1>2 DEF EligOK

----------------------------------------------------------------------------
(* Holds                                                                     *)

\* An earlier hold keeps its dispatch; later ones have later ids.
HoldsKept(holds, serial, after) ==
  \A h \in after : \/ h \in holds
                   \/ h.id \in Nat /\ h.id >= serial
                   \/ \E k \in holds : k.id = h.id /\ k.dispatch = NoId

(* Of the holds that are asked for the oldest is one of them.                 *)
LEMMA OldestIn ==
  ASSUME NEW holds, holds # {}, \A h \in holds : h.id \in Nat
  PROVE  Oldest(holds) \in holds /\ \A k \in holds : Oldest(holds).id <= k.id
<1> DEFINE ids == {h.id : h \in holds}
<1>1. ids \in SUBSET Nat /\ ids # {}
  OBVIOUS
<1>2. PICK m \in ids : \A k \in ids : m <= k
  BY <1>1, LeastNatural
<1>3. PICK h \in holds : m = h.id
  OBVIOUS
<1>4. \A k \in holds : h.id <= k.id
  BY <1>2, <1>3
<1>. QED
  BY <1>4 DEF Oldest

(* reserve() adds a hold with an id of its own.                               *)
LEMMA HoldAdded ==
  ASSUME NEW holds, NEW serial, HoldsOK(holds, serial), NEW h, IsHold(h), h.id = serial,
         h.dispatch = NoId
  PROVE  /\ HoldsOK(Swept(holds) \cup {h}, serial + 1)
         /\ HoldsKept(holds, serial, Swept(holds) \cup {h})
<1>1. IsFiniteSet(Swept(holds)) /\ IsFiniteSet(Swept(holds) \cup {h})
  BY FS_Subset, FS_AddElement DEF HoldsOK, Swept
<1>2. \A k \in Swept(holds) : k \in holds /\ IsHold(k) /\ k.id \in Nat /\ k.id < serial
  BY DEF Swept, HoldsOK, IsHold
<1>3. serial \in Nat
  BY DEF HoldsOK
<1>4. Distinct(Swept(holds) \cup {h})
  BY <1>2, <1>3 DEF Distinct, HoldsOK
<1>5. \A k \in Swept(holds) \cup {h} : IsHold(k) /\ k.id < serial + 1
  BY <1>2, <1>3
<1>. QED
  BY <1>1, <1>2, <1>3, <1>4, <1>5 DEF HoldsOK, HoldsKept

(* Holds only go.                                                             *)
LEMMA HoldsGone ==
  ASSUME NEW holds, NEW serial, HoldsOK(holds, serial), NEW rest \in SUBSET holds
  PROVE  HoldsOK(rest, serial) /\ HoldsKept(holds, serial, rest)
BY FS_Subset DEF HoldsOK, HoldsKept, Distinct

(* A receipt binds a dispatch that no hold has, to a hold without one or to a *)
(* new one.                                                                   *)
LEMMA HoldBound ==
  ASSUME NEW holds, NEW serial, HoldsOK(holds, serial), NEW held, NEW bound, NEW d,
         \/ held \in holds /\ held.dispatch = NoId
         \/ held.id = serial,
         d # NoId, \A h \in Swept(holds) : h.dispatch # d,
         IsHold(bound), bound.id = held.id, bound.dispatch = d
  PROVE  /\ HoldsOK((Swept(holds) \ {held}) \cup {bound}, serial + 1)
         /\ HoldsKept(holds, serial, (Swept(holds) \ {held}) \cup {bound})
<1> DEFINE after == (Swept(holds) \ {held}) \cup {bound}
<1>1. IsFiniteSet(after)
  BY FS_Subset, FS_AddElement DEF HoldsOK, Swept
<1>2. \A k \in Swept(holds) : k \in holds /\ IsHold(k) /\ k.id \in Nat /\ k.id < serial
  BY DEF Swept, HoldsOK, IsHold
<1>3. serial \in Nat
  BY DEF HoldsOK
<1>4. held.id \in Nat /\ held.id <= serial
  BY <1>3 DEF HoldsOK, IsHold
<1>5. \A k \in Swept(holds) \ {held} : k.id # held.id /\ k.dispatch # d
  BY <1>2, <1>3 DEF HoldsOK, Distinct
<1>6. Distinct(after)
  <2>1. Distinct(holds)
    BY DEF HoldsOK
  <2>. QED
    BY <1>2, <1>5, <2>1 DEF Distinct
<1>7. \A k \in after : IsHold(k) /\ k.id < serial + 1
  BY <1>2, <1>3, <1>4
<1>8. HoldsKept(holds, serial, after)
  BY <1>2, <1>3 DEF HoldsKept
<1>. QED
  BY <1>1, <1>3, <1>6, <1>7, <1>8 DEF HoldsOK

----------------------------------------------------------------------------
(* What a step leaves alone                                                  *)

\* Workers that have ended stay so, and holds keep their dispatches.
Onward ==
  /\ \A d \in Dispatches : Ended(d) => Ended(d)'
  /\ HoldsKept(file.holds, file.serial, file'.holds)
  /\ file.serial \in Nat /\ file'.serial \in Nat /\ file'.serial >= file.serial

LEMMA SettlesKept ==
  ASSUME Onward, NEW r, Settles(r)
  PROVE  Settles(r)'
<1>1. ASSUME r.pc \in {"tasks", "survey"}, NEW d \in r.settled
      PROVE  d \in Dispatches /\ Ended(d)'
  BY <1>1 DEF Settles, Onward
<1>2. ASSUME r.pc = "release", NEW q \in r.queue
      PROVE  /\ q.id \in Nat /\ q.id < file'.serial
             /\ q.dispatch # NoId =>
                  /\ q.dispatch \in Dispatches /\ Ended(q.dispatch)'
                  /\ \A h \in file'.holds : h.id = q.id => h.dispatch = q.dispatch
  <2>1. /\ q.id \in Nat /\ q.id < file.serial
        /\ q.dispatch # NoId =>
             /\ q.dispatch \in Dispatches /\ Ended(q.dispatch)
             /\ \A h \in file.holds : h.id = q.id => h.dispatch = q.dispatch
    BY <1>2 DEF Settles
  <2>2. ASSUME q.dispatch # NoId, NEW h \in file'.holds, h.id = q.id
        PROVE  h.dispatch = q.dispatch
    BY <2>1, <2>2 DEF Onward, HoldsKept
  <2>. QED
    BY <2>1, <2>2 DEF Onward
<1>. QED
  BY <1>1, <1>2 DEF Settles

LEMMA AroundStep ==
  ASSUME LegacyInv, coord' = coord, WorldOK', FileOK', Onward
  PROVE  LegacyInv'
<1>1. CoordsOK'
  BY DEF LegacyInv, CoordsOK
<1>2. ASSUME NEW c \in Coords PROVE Settles(coord[c])'
  <2>1. PICK r : r = coord[c]
    OBVIOUS
  <2>2. Settles(r)
    BY <2>1 DEF LegacyInv, QueuesSettle
  <2>3. Settles(r)' /\ coord'[c] = r
    BY <2>1, <2>2, SettlesKept
  <2>. QED
    BY <2>3 DEF Settles
<1>. QED
  BY <1>1, <1>2 DEF LegacyInv, QueuesSettle

LEMMA CommandStep ==
  ASSUME LegacyInv, NEW c \in Coords, NEW r, coord' = [coord EXCEPT ![c] = r], CommandOK(r),
         UNCHANGED <<outside, workers>>, FileOK', Onward, Settles(r)'
  PROVE  LegacyInv'
<1>1. DOMAIN coord' = Coords /\ \A e \in Coords : coord'[e] = IF e = c THEN r ELSE coord[e]
  BY DEF LegacyInv, CoordsOK
<1>2. CoordsOK'
  BY <1>1 DEF LegacyInv, CoordsOK
<1>3. ASSUME NEW e \in Coords PROVE Settles(coord[e])'
  <2>1. CASE e = c
    BY <1>1, <2>1 DEF Settles
  <2>2. CASE e # c
    <3>1. PICK s : s = coord[e]
      OBVIOUS
    <3>2. Settles(s)
      BY <3>1 DEF LegacyInv, QueuesSettle
    <3>3. Settles(s)' /\ coord'[e] = s
      BY <1>1, <2>2, <3>1, <3>2, SettlesKept
    <3>. QED
      BY <3>3 DEF Settles
  <2>. QED
    BY <2>1, <2>2
<1>4. WorldOK'
  BY DEF LegacyInv, WorldOK, outside
<1>. QED
  BY <1>2, <1>3, <1>4 DEF LegacyInv, QueuesSettle

(* The steps that leave holds and workers alone.                              *)
LEMMA SameHolds ==
  ASSUME FileOK, file'.holds = file.holds, file'.serial = file.serial, workers' = workers
  PROVE  Onward
BY DEF Onward, HoldsKept, FileOK, HoldsOK, Ended

LEMMA NoteStep ==
  ASSUME LegacyInv, NEW c \in Coords, NEW r, coord' = [coord EXCEPT ![c] = r], CommandOK(r),
         UNCHANGED <<outside, workers>>, FileOK',
         file'.holds = file.holds, file'.serial = file.serial,
         r.pc \notin {"tasks", "survey", "release"}
  PROVE  LegacyInv'
<1>1. Onward
  BY SameHolds DEF LegacyInv
<1>2. Settles(r)'
  BY DEF Settles
<1>. QED
  BY <1>1, <1>2, CommandStep

LEMMA QuietStep ==
  ASSUME LegacyInv, NEW c \in Coords, NEW r, coord' = [coord EXCEPT ![c] = r], CommandOK(r),
         UNCHANGED <<outside, workers, file>>,
         r.pc \notin {"tasks", "survey", "release"}
  PROVE  LegacyInv'
<1>1. FileOK'
  BY DEF LegacyInv, FileOK
<1>. QED
  BY <1>1, NoteStep

(* The notes that a command writes beside the holds.                          *)
LEMMA NotesOK ==
  ASSUME FileOK, DOMAIN file' = DOMAIN file, file'.holds = file.holds,
         file'.serial = file.serial,
         \A d \in file'.denials : d.scope[1] \in Providers,
         \A s \in file'.snapshots : s.percent \in Int,
         file'.cache # None => ProbesOK(file'.cache.probes)
  PROVE  FileOK'
BY DEF FileOK

----------------------------------------------------------------------------
(* What is recommended                                                       *)

LEMMA RecommendedOne ==
  ASSUME NEW ask, NEW m, MadeRight(ask, m)
  PROVE  Recommended(ask, <<m>>) /\ Len(<<m>>) = 1
<1>1. <<m>> \in Seq({m}) /\ Len(<<m>>) = 1 /\ <<m>>[1] = m /\ DOMAIN <<m>> = 1 .. 1
  OBVIOUS
<1>2. m \in Range(<<m>>)
  BY <1>1 DEF Range
<1>3. <<m>> \in Seq(Range(<<m>>))
  BY <1>1, <1>2
<1>. QED
  BY <1>1, <1>3 DEF Recommended

(* A nonempty list has the places from 1 to its length.                       *)
LEMMA ListTyped ==
  ASSUME NEW list, list \in Seq(Range(list))
  PROVE  /\ Len(list) \in Nat /\ DOMAIN list = 1 .. Len(list)
         /\ \A i \in 1 .. Len(list) : list[i] \in Range(list)
BY LenProperties, ElementOfSeq

LEMMA RecommendedMore ==
  ASSUME NEW ask, NEW made, Recommended(ask, made), NEW m, MadeRight(ask, m)
  PROVE  Recommended(ask, Append(made, m)) /\ Len(Append(made, m)) = Len(made) + 1
<1> DEFINE S == Range(made) \cup {m}
<1>1. made \in Seq(S) /\ Len(made) \in Nat
  BY ListTyped DEF Recommended
<1>2. PICK more : more = Append(made, m)
  OBVIOUS
<1>3. /\ more \in Seq(S) /\ Len(more) = Len(made) + 1 /\ more[Len(made) + 1] = m
      /\ \A i \in 1 .. Len(made) : more[i] = made[i]
  BY <1>1, <1>2, AppendProperties
<1>4. more \in Seq(Range(more))
  BY <1>3, SeqOfRange
<1>5. \A i \in 1 .. Len(more) : MadeRight(ask, more[i])
  <2>1. \A i \in 1 .. Len(more) : i \in 1 .. Len(made) \/ i = Len(made) + 1
    BY <1>1, <1>3
  <2>. QED
    BY <1>3, <2>1 DEF Recommended
<1>. QED
  BY <1>2, <1>3, <1>4, <1>5 DEF Recommended

LEMMA RecommendedOther ==
  ASSUME NEW ask, NEW made, Recommended(ask, made), NEW i \in 1 .. Len(made), NEW m,
         MadeRight(ask, m)
  PROVE  Recommended(ask, [made EXCEPT ![i] = m]) /\ Len([made EXCEPT ![i] = m]) = Len(made)
<1>1. Len(made) \in Nat /\ DOMAIN made = 1 .. Len(made) /\ made = [k \in 1 .. Len(made) |-> made[k]]
  BY LenProperties DEF Recommended
<1>2. PICK other : other = [made EXCEPT ![i] = m]
  OBVIOUS
<1>3. /\ DOMAIN other = 1 .. Len(made) /\ other = [k \in 1 .. Len(made) |-> other[k]]
      /\ \A k \in 1 .. Len(made) : other[k] = IF k = i THEN m ELSE made[k]
  BY <1>1, <1>2
<1>4. \A k \in 1 .. Len(made) : other[k] \in Range(other)
  BY <1>3 DEF Range
<1>5. other \in Seq(Range(other)) /\ Len(other) = Len(made)
  <2>1. other \in [1 .. Len(made) -> Range(other)]
    BY <1>3, <1>4
  <2>2. other \in Seq(Range(other))
    BY <1>1, <2>1, SeqDef, Zenon
  <2>. QED
    BY <1>1, <1>3, <2>2, LenProperties
<1>6. \A k \in 1 .. Len(other) : MadeRight(ask, other[k])
  BY <1>3, <1>5 DEF Recommended
<1>. QED
  BY <1>2, <1>5, <1>6 DEF Recommended

(* A hold is taken for what can be launched.                                  *)
LEMMA HeldRight ==
  ASSUME NEW ask, NEW m, MadeRight(ask, m), NEW id, id # NoId => Dispatchable(m.decision)
  PROVE  MadeRight(ask, [m EXCEPT !.hold = id])
BY DEF MadeRight

----------------------------------------------------------------------------
(* The initial situations                                                    *)

LEMMA InitInv ==
  ASSUME Init PROVE LegacyInv
<1>1. PICK world \in Worlds :
        /\ reading \in world.readings /\ managed = world.managed
        /\ login = [p \in Providers |-> [account |-> world.login[p], stamp |-> 0]]
        /\ file = [holds |-> world.holds, serial |-> FirstSerial, decisions |-> <<>>,
                   denials |-> world.denials, exhausted |-> [p \in Providers |-> 0],
                   snapshots |-> world.snapshots, cache |-> None]
        /\ coord \in {[c \in Coords |-> [pc |-> "start", ask |-> a[c]]] : a \in world.asks}
        /\ workers = world.workers
  BY DEF Init
<1>2. IsWorld(world)
  BY LegacyAssumption
<1>3. WorldOK
  BY <1>1, <1>2 DEF IsWorld, WorldOK, Credentials
<1>4. CoordsOK /\ \A c \in Coords : coord[c].pc = "start"
  <2>1. PICK a \in [Coords -> Asks] : coord = [c \in Coords |-> [pc |-> "start", ask |-> a[c]]]
    BY <1>1, <1>2 DEF IsWorld
  <2>2. \A c \in Coords : coord[c] = [pc |-> "start", ask |-> a[c]] /\ a[c] \in Asks
    BY <2>1
  <2>3. ASSUME NEW c \in Coords PROVE CommandOK(coord[c])
    <3>1. PICK r : r = coord[c]
      OBVIOUS
    <3>2. PICK ask \in Asks : ask = a[c]
      OBVIOUS
    <3>3. r = [pc |-> "start", ask |-> ask]
      BY <2>2, <3>1, <3>2
    <3>4. r.pc = "start" /\ r.ask \in Asks /\ DOMAIN r = {"pc", "ask"}
      BY <3>3
    <3>5. CommandOK(r)
      BY <3>4 DEF CommandOK, Shape, Steps, Knowing, Seeing, Single, Placing
    <3>. QED
      BY <3>1, <3>5
  <2>. QED
    BY <2>1, <2>2, <2>3 DEF CoordsOK
<1>5. FileOK
  <2>1. HoldsOK(world.holds, FirstSerial)
    BY <1>2 DEF IsWorld, HoldsOK, FirstSerial
  <2>2. /\ file.holds = world.holds /\ file.serial = FirstSerial /\ file.denials = world.denials
        /\ file.snapshots = world.snapshots /\ file.cache = None
        /\ DOMAIN file = {"holds", "serial", "decisions", "denials", "exhausted", "snapshots",
                          "cache"}
    BY <1>1
  <2>3. \A d \in world.denials : d.scope[1] \in Providers
    BY <1>2 DEF IsWorld
  <2>4. \A s \in world.snapshots : s.percent \in Int
    BY <1>2 DEF IsWorld
  <2>. QED
    BY <2>1, <2>2, <2>3, <2>4 DEF FileOK
<1>6. QueuesSettle
  BY <1>4 DEF QueuesSettle, Settles
<1>. QED
  BY <1>3, <1>4, <1>5, <1>6 DEF LegacyInv

----------------------------------------------------------------------------
(* The steps of a command: reading the quota                                 *)

LEMMA ReadCacheStep ==
  ASSUME LegacyInv, NEW c \in Coords, ReadCache(c)
  PROVE  LegacyInv'
<1>1. PICK s : s = coord[c]
  OBVIOUS
<1>2. CommandOK(s) /\ s.pc = "start" /\ s.ask.cmd \in {"route", "rerun", "plan"}
  BY <1>1 DEF LegacyInv, CoordsOK, ReadCache, Deciding
<1>3. CASE Cached(s.ask)
  <2>1. PICK r : r = [pc |-> "baseline", ask |-> s.ask, probes |-> file.cache.probes,
                      fresh |-> FALSE]
    OBVIOUS
  <2>2. coord' = [coord EXCEPT ![c] = r]
    BY <1>1, <1>3, <2>1 DEF ReadCache
  <2>3. ProbesOK(file.cache.probes)
    BY <1>3 DEF Cached, LegacyInv, FileOK
  <2>4. DOMAIN r = {"pc", "ask", "probes", "fresh"} /\ r.pc = "baseline" /\ r.ask = s.ask
        /\ r.probes = file.cache.probes
    BY <2>1
  <2>5. CommandOK(r)
    BY <1>2, <2>3, <2>4 DEF CommandOK, Shape, Steps, Knowing, Seeing, Single, Placing
  <2>. QED
    BY <2>2, <2>4, <2>5, QuietStep DEF ReadCache, orca
<1>4. CASE ~Cached(s.ask)
  <2>1. PICK r : r = [pc |-> "bind", ask |-> s.ask, identity |-> login, fresh |-> TRUE]
    OBVIOUS
  <2>2. coord' = [coord EXCEPT ![c] = r]
    BY <1>1, <1>4, <2>1 DEF ReadCache
  <2>3. DOMAIN r = {"pc", "ask", "identity", "fresh"} /\ r.pc = "bind" /\ r.ask = s.ask
    BY <2>1
  <2>4. CommandOK(r)
    BY <1>2, <2>3 DEF CommandOK, Shape, Steps, Knowing, Seeing, Single, Placing
  <2>. QED
    BY <2>2, <2>3, <2>4, QuietStep DEF ReadCache, orca
<1>. QED
  BY <1>3, <1>4

LEMMA BindStep ==
  ASSUME LegacyInv, NEW c \in Coords, Bind(c)
  PROVE  LegacyInv'
<1>1. PICK s : s = coord[c]
  OBVIOUS
<1>2. CommandOK(s) /\ s.pc = "bind"
  BY <1>1 DEF LegacyInv, CoordsOK, Bind
<1>3. PICK r : r = [pc |-> "fetch", ask |-> s.ask, identity |-> s.identity,
                    fresh |-> s.fresh, bound |-> login]
  OBVIOUS
<1>4. coord' = [coord EXCEPT ![c] = r]
  BY <1>1, <1>3 DEF Bind
<1>5. /\ DOMAIN r = {"pc", "ask", "identity", "fresh", "bound"} /\ r.pc = "fetch"
      /\ r.ask = s.ask /\ r.bound = login
  BY <1>3
<1>6. login \in [Providers -> Credentials]
  BY DEF LegacyInv, WorldOK
<1>7. CommandOK(r)
  BY <1>2, <1>5, <1>6 DEF CommandOK, Shape, Steps, Knowing, Seeing, Single, Placing
<1>. QED
  BY <1>4, <1>5, <1>7, QuietStep DEF Bind, orca

LEMMA FetchStep ==
  ASSUME LegacyInv, NEW c \in Coords, Fetch(c)
  PROVE  LegacyInv'
<1>1. PICK s : s = coord[c]
  OBVIOUS
<1>2. CommandOK(s) /\ s.pc = "fetch" /\ s.bound \in [Providers -> Credentials]
  BY <1>1 DEF LegacyInv, CoordsOK, Fetch, CommandOK
<1>3. PICK answers : answers = [p \in Providers |->
                                  [said |-> reading[p][login[p].account], by |-> login[p]]]
  OBVIOUS
<1>4. AnswersOK(answers)
  <2>1. ASSUME NEW p \in Providers
        PROVE  \E ids \in SUBSET DOMAIN WindowOf : answers[p].said.buckets \in [ids -> Buckets]
    <3>1. login[p].account \in Accounts
      BY DEF LegacyInv, WorldOK, Credentials
    <3>2. IsAnswer(reading[p][login[p].account])
      BY <3>1 DEF LegacyInv, WorldOK
    <3>3. answers[p].said = reading[p][login[p].account]
      BY <1>3
    <3>. QED
      BY <3>2, <3>3 DEF IsAnswer
  <2>. QED
    BY <2>1 DEF AnswersOK
<1>5. PICK r : r = [pc |-> "confirm", ask |-> s.ask, identity |-> s.identity,
                    fresh |-> s.fresh, bound |-> s.bound, answers |-> answers]
  OBVIOUS
<1>6. coord' = [coord EXCEPT ![c] = r]
  BY <1>1, <1>3, <1>5 DEF Fetch
<1>7. /\ DOMAIN r = {"pc", "ask", "identity", "fresh", "bound", "answers"}
      /\ r.pc = "confirm" /\ r.ask = s.ask /\ r.bound = s.bound /\ r.answers = answers
  BY <1>5
<1>8. CommandOK(r)
  BY <1>2, <1>4, <1>7 DEF CommandOK, Shape, Steps, Knowing, Seeing, Single, Placing
<1>. QED
  BY <1>6, <1>7, <1>8, QuietStep DEF Fetch, orca

(* Whatever the credential is by then, a probe has the answer's buckets or     *)
(* none.                                                                      *)
LEMMA ProbeTyped ==
  ASSUME NEW p \in Providers, NEW bound, NEW answer,
         \E ids \in SUBSET DOMAIN WindowOf : answer.said.buckets \in [ids -> Buckets]
  PROVE  \E ids \in SUBSET DOMAIN WindowOf :
           Probe(p, answer, bound).buckets \in [ids -> Buckets]
<1>2. CASE Confirmed(p, bound)
  <2>1. Probe(p, answer, bound).buckets = answer.said.buckets
    BY <1>2 DEF Probe
  <2>. QED
    BY <2>1
<1>3. CASE ~Confirmed(p, bound)
  <2>1. Probe(p, answer, bound).buckets = <<>>
    BY <1>3 DEF Probe
  <2>2. <<>> \in [{} -> Buckets]
    OBVIOUS
  <2>. QED
    BY <2>1, <2>2
<1>. QED
  BY <1>2, <1>3

LEMMA ConfirmStep ==
  ASSUME LegacyInv, NEW c \in Coords, Confirm(c)
  PROVE  LegacyInv'
<1>1. PICK s : s = coord[c]
  OBVIOUS
<1>2. CommandOK(s) /\ s.pc = "confirm" /\ AnswersOK(s.answers)
  BY <1>1 DEF LegacyInv, CoordsOK, Confirm, CommandOK
<1>3. PICK probes : probes = [p \in Providers |-> Probe(p, s.answers[p], s.bound[p])]
  OBVIOUS
<1>4. ProbesOK(probes)
  <2>1. ASSUME NEW p \in Providers
        PROVE  \E ids \in SUBSET DOMAIN WindowOf : probes[p].buckets \in [ids -> Buckets]
    <3>1. probes[p] = Probe(p, s.answers[p], s.bound[p])
      BY <1>3
    <3>. QED
      BY <1>2, <3>1, ProbeTyped DEF AnswersOK
  <2>. QED
    BY <2>1 DEF ProbesOK
<1>5. PICK r : r = [pc |-> "save", ask |-> s.ask, identity |-> s.identity, fresh |-> TRUE,
                    probes |-> probes]
  OBVIOUS
<1>6. coord' = [coord EXCEPT ![c] = r]
  BY <1>1, <1>3, <1>5 DEF Confirm
<1>7. /\ DOMAIN r = {"pc", "ask", "identity", "fresh", "probes"} /\ r.pc = "save"
      /\ r.ask = s.ask /\ r.probes = probes
  BY <1>5
<1>8. CommandOK(r)
  BY <1>2, <1>4, <1>7 DEF CommandOK, Shape, Steps, Knowing, Seeing, Single, Placing
<1>. QED
  BY <1>6, <1>7, <1>8, QuietStep DEF Confirm, orca

LEMMA SaveCacheStep ==
  ASSUME LegacyInv, NEW c \in Coords, SaveCache(c)
  PROVE  LegacyInv'
<1>1. PICK s : s = coord[c]
  OBVIOUS
<1>2. CommandOK(s) /\ s.pc = "save" /\ ProbesOK(s.probes)
  BY <1>1 DEF LegacyInv, CoordsOK, SaveCache, CommandOK, Knowing
<1>3. PICK r : r = [pc |-> "baseline", ask |-> s.ask, probes |-> s.probes, fresh |-> TRUE]
  OBVIOUS
<1>4. coord' = [coord EXCEPT ![c] = r]
  BY <1>1, <1>3 DEF SaveCache
<1>5. /\ DOMAIN r = {"pc", "ask", "probes", "fresh"} /\ r.pc = "baseline"
      /\ r.ask = s.ask /\ r.probes = s.probes
  BY <1>3
<1>6. CommandOK(r)
  BY <1>2, <1>5 DEF CommandOK, Shape, Steps, Knowing, Seeing, Single, Placing
<1>7. PICK cache : cache = [at |-> now, probes |-> s.probes, accounts |-> s.identity]
  OBVIOUS
<1>8. file' = [file EXCEPT !.cache = cache] /\ cache.probes = s.probes
  BY <1>1, <1>7 DEF SaveCache
<1>9. file'.holds = file.holds /\ file'.serial = file.serial
  BY <1>8 DEF LegacyInv, FileOK
<1>10. FileOK'
  <2>1. /\ file'.denials = file.denials /\ file'.snapshots = file.snapshots
        /\ file'.cache = cache /\ DOMAIN file' = DOMAIN file
    BY <1>8 DEF LegacyInv, FileOK
  <2>2. \A d \in file'.denials : d.scope[1] \in Providers
    BY <2>1 DEF LegacyInv, FileOK
  <2>3. \A sn \in file'.snapshots : sn.percent \in Int
    BY <2>1 DEF LegacyInv, FileOK
  <2>. QED
    BY <1>2, <1>8, <1>9, <2>1, <2>2, <2>3, NotesOK DEF LegacyInv
<1>. QED
  BY <1>4, <1>5, <1>6, <1>9, <1>10, NoteStep DEF SaveCache, orca

LEMMA ReadBaselineStep ==
  ASSUME LegacyInv, NEW c \in Coords, ReadBaseline(c)
  PROVE  LegacyInv'
<1>1. PICK s : s = coord[c]
  OBVIOUS
<1>2. CommandOK(s) /\ s.pc = "baseline" /\ ProbesOK(s.probes)
  BY <1>1 DEF LegacyInv, CoordsOK, ReadBaseline, CommandOK, Knowing
<1>3. PICK pc : pc = IF s.fresh THEN "snapshot" ELSE "deny"
  OBVIOUS
<1>4. PICK r : r = [pc |-> pc, ask |-> s.ask, probes |-> s.probes, fresh |-> s.fresh,
                    before |-> file.snapshots]
  OBVIOUS
<1>5. coord' = [coord EXCEPT ![c] = r]
  BY <1>1, <1>3, <1>4 DEF ReadBaseline
<1>6. /\ DOMAIN r = {"pc", "ask", "probes", "fresh", "before"} /\ r.pc \in {"snapshot", "deny"}
      /\ r.ask = s.ask /\ r.probes = s.probes /\ r.before = file.snapshots
  BY <1>3, <1>4
<1>7. \A sn \in file.snapshots : sn.percent \in Int
  BY DEF LegacyInv, FileOK
<1>8. CommandOK(r)
  BY <1>2, <1>6, <1>7 DEF CommandOK, Shape, Steps, Knowing, Seeing, Single, Placing
<1>. QED
  BY <1>5, <1>6, <1>8, QuietStep DEF ReadBaseline, orca

LEMMA SaveSnapshotStep ==
  ASSUME LegacyInv, NEW c \in Coords, SaveSnapshot(c)
  PROVE  LegacyInv'
<1>1. PICK s : s = coord[c]
  OBVIOUS
<1>2. CommandOK(s) /\ s.pc = "snapshot" /\ ProbesOK(s.probes)
      /\ DOMAIN s = {"pc", "ask", "probes", "fresh", "before"}
  BY <1>1 DEF LegacyInv, CoordsOK, SaveSnapshot, CommandOK, Knowing, Shape
<1>3. PICK r : r = [s EXCEPT !.pc = "deny"]
  OBVIOUS
<1>4. coord' = [coord EXCEPT ![c] = r]
  BY <1>1, <1>3 DEF SaveSnapshot, Goto
<1>5. /\ DOMAIN r = DOMAIN s /\ r.pc = "deny" /\ r.ask = s.ask /\ r.probes = s.probes
      /\ r.before = s.before
  BY <1>2, <1>3
<1>6. CommandOK(r)
  BY <1>2, <1>5 DEF CommandOK, Shape, Steps, Knowing, Seeing, Single, Placing
<1>7. PICK minutes : minutes =
        {[scope |-> Scope(k[1], s.probes[k[1]].account), bucket |-> k[2], at |-> now,
          percent |-> s.probes[k[1]].buckets[k[2]].percent] : k \in Known(s.probes)}
  OBVIOUS
<1>8. file' = [file EXCEPT !.snapshots = minutes]
  BY <1>1, <1>7 DEF SaveSnapshot
<1>9. \A minute \in minutes : minute.percent \in Int
  <2>1. ASSUME NEW p \in Providers, NEW b \in DOMAIN s.probes[p].buckets
        PROVE  s.probes[p].buckets[b].percent \in Int
    BY <1>2 DEF ProbesOK, Buckets, Missing
  <2>2. ASSUME NEW k \in Known(s.probes)
        PROVE  s.probes[k[1]].buckets[k[2]].percent \in Int
    BY <2>1 DEF Known
  <2>. QED
    BY <1>7, <2>2
<1>10. /\ file'.denials = file.denials /\ file'.snapshots = minutes
       /\ file'.cache = file.cache /\ DOMAIN file' = DOMAIN file
       /\ file'.holds = file.holds /\ file'.serial = file.serial
  BY <1>8 DEF LegacyInv, FileOK
<1>11. FileOK'
  <2>1. \A d \in file'.denials : d.scope[1] \in Providers
    BY <1>10 DEF LegacyInv, FileOK
  <2>2. file'.cache # None => ProbesOK(file'.cache.probes)
    BY <1>10 DEF LegacyInv, FileOK
  <2>. QED
    BY <1>9, <1>10, <2>1, <2>2, NotesOK DEF LegacyInv
<1>. QED
  BY <1>4, <1>5, <1>6, <1>10, <1>11, NoteStep DEF SaveSnapshot, orca

LEMMA DenyStep ==
  ASSUME LegacyInv, NEW c \in Coords, Deny(c)
  PROVE  LegacyInv'
<1>1. PICK s : s = coord[c]
  OBVIOUS
<1>2. CommandOK(s) /\ s.pc = "deny" /\ ProbesOK(s.probes)
      /\ DOMAIN s = {"pc", "ask", "probes", "fresh", "before"}
  BY <1>1 DEF LegacyInv, CoordsOK, Deny, CommandOK, Knowing, Shape
<1>3. PICK denials :
        denials = IF s.fresh
                  THEN UNION {{d \in Recorded(file.denials, p, s.probes[p]) : d.scope[1] = p} :
                                p \in Providers}
                  ELSE file.denials
  OBVIOUS
<1>4. PICK r : r = [pc |-> "look", ask |-> s.ask, probes |-> s.probes, fresh |-> s.fresh,
                    before |-> s.before, denied |-> denials]
  OBVIOUS
<1>5. coord' = [coord EXCEPT ![c] = r] /\ file' = [file EXCEPT !.denials = denials]
  BY <1>1, <1>3, <1>4 DEF Deny
<1>6. /\ DOMAIN r = {"pc", "ask", "probes", "fresh", "before", "denied"} /\ r.pc = "look"
      /\ r.ask = s.ask /\ r.probes = s.probes /\ r.before = s.before
  BY <1>4
<1>7. CommandOK(r)
  BY <1>2, <1>6 DEF CommandOK, Shape, Steps, Knowing, Seeing, Single, Placing
<1>8. \A d \in denials : d.scope[1] \in Providers
  <2>1. \A d \in file.denials : d.scope[1] \in Providers
    BY DEF LegacyInv, FileOK
  <2>. QED
    BY <1>3, <2>1
<1>9. /\ file'.denials = denials /\ file'.snapshots = file.snapshots
      /\ file'.cache = file.cache /\ DOMAIN file' = DOMAIN file
      /\ file'.holds = file.holds /\ file'.serial = file.serial
  BY <1>5 DEF LegacyInv, FileOK
<1>10. FileOK'
  <2>1. \A sn \in file'.snapshots : sn.percent \in Int
    BY <1>9 DEF LegacyInv, FileOK
  <2>2. file'.cache # None => ProbesOK(file'.cache.probes)
    BY <1>9 DEF LegacyInv, FileOK
  <2>. QED
    BY <1>8, <1>9, <2>1, <2>2, NotesOK DEF LegacyInv
<1>. QED
  BY <1>5, <1>6, <1>7, <1>9, <1>10, NoteStep DEF Deny, orca

----------------------------------------------------------------------------
(* The steps of a command: deciding and holding                              *)

(* What a decision is made of.                                                *)
LEMMA MadeOK ==
  ASSUME NEW ask \in Asks, ask.cmd \in {"route", "rerun", "plan"}, NEW task \in Tasks,
         NEW elig, EligOK(elig)
  PROVE  LET m == Made(task, Choose(ask, task, elig), NoId) IN
         /\ MadeRight(ask, m)
         /\ m.decision.pick = None \/ elig[m.decision.pick.provider].eligible
<1>1. PICK d : d = Choose(ask, task, elig)
  OBVIOUS
<1>2. RightFor(ask, task, d) /\ (d.pick = None \/ elig[d.pick.provider].eligible)
  BY <1>1, ChoiceRight, Zenon
<1>3. PICK m : m = Made(task, d, NoId)
  OBVIOUS
<1>4. /\ DOMAIN m = {"task", "decision", "hold"} /\ m.task = task /\ m.decision = d
      /\ m.hold = NoId
  BY <1>3 DEF Made
<1>5. MadeRight(ask, m)
  BY <1>2, <1>4 DEF MadeRight
<1>. QED
  BY <1>1, <1>2, <1>3, <1>4, <1>5

LEMMA LookStep ==
  ASSUME LegacyInv, NEW c \in Coords, Look(c)
  PROVE  LegacyInv'
<1>1. PICK s : s = coord[c]
  OBVIOUS
<1>2. CommandOK(s) /\ s.pc = "look" /\ s.ask \in Asks /\ s.ask.cmd \in {"route", "rerun", "plan"}
  BY <1>1 DEF LegacyInv, CoordsOK, Look, CommandOK, Knowing
<1>3. PICK elig : elig = Elig(c)
  OBVIOUS
<1>4. EligOK(elig)
  BY <1>1, <1>2, <1>3, EligTyped, LegacyAssumption DEF LegacyInv
<1>5. coord' = [coord EXCEPT ![c] = Start(s.ask, elig)]
  BY <1>1, <1>3 DEF Look
<1>6. CASE s.ask.cmd = "plan"
  <2>1. PICK r : r = Start(s.ask, elig)
    OBVIOUS
  <2>2. r = [pc |-> "place", ask |-> s.ask, elig |-> elig, todo |-> s.ask.tasks, waiting |-> <<>>,
        wave |-> 1, placed |-> FALSE, made |-> <<>>, unlogged |-> <<>>, points |-> 0]
    BY <1>6, <2>1 DEF Start
  <2>3. /\ DOMAIN r = {"pc", "ask", "elig", "todo", "waiting", "wave", "placed", "made",
                       "unlogged", "points"}
        /\ r.pc = "place" /\ r.ask = s.ask /\ r.elig = elig /\ r.todo = s.ask.tasks
        /\ r.waiting = <<>> /\ r.made = <<>>
    BY <2>2
  <2>4. s.ask.tasks \in Seq(Tasks) /\ <<>> \in Seq(Tasks)
    BY <1>2 DEF Asks
  <2>5. Recommended(s.ask, <<>>)
    BY EmptySeq DEF Recommended
  <2>6. CommandOK(r)
    BY <1>2, <1>4, <2>3, <2>4, <2>5 DEF CommandOK, Shape, Steps, Knowing, Seeing, Single, Placing
  <2>. QED
    BY <1>5, <2>1, <2>3, <2>6, QuietStep DEF Look, orca
<1>7. CASE s.ask.cmd # "plan"
  <2>1. PICK task : task = Head(s.ask.tasks)
    OBVIOUS
  <2>2. task \in Tasks
    BY <1>2, <1>7, <2>1 DEF Asks
  <2>3. PICK m : m = Made(task, Choose(s.ask, task, elig), NoId)
    OBVIOUS
  <2>4. MadeRight(s.ask, m)
    BY <1>2, <1>4, <2>2, <2>3, MadeOK
  <2>5. PICK pc \in {"hold", "log"} : pc = IF s.ask.hold THEN "hold" ELSE "log"
    OBVIOUS
  <2>6. PICK r : r = [pc |-> pc, ask |-> s.ask, elig |-> elig, made |-> <<m>>]
    OBVIOUS
  <2>7. coord' = [coord EXCEPT ![c] = r]
    BY <1>5, <1>7, <2>1, <2>3, <2>5, <2>6 DEF Start
  <2>8. /\ DOMAIN r = {"pc", "ask", "elig", "made"} /\ r.pc \in {"hold", "log"}
        /\ r.ask = s.ask /\ r.elig = elig /\ r.made = <<m>>
    BY <2>6
  <2>9. Recommended(s.ask, <<m>>) /\ Len(<<m>>) = 1
    BY <2>4, RecommendedOne
  <2>10. CommandOK(r)
    BY <1>2, <1>4, <2>8, <2>9 DEF CommandOK, Shape, Steps, Knowing, Seeing, Single, Placing
  <2>. QED
    BY <2>7, <2>8, <2>10, QuietStep DEF Look, orca
<1>. QED
  BY <1>6, <1>7

(* A hold that is new.                                                        *)
LEMMA FreshHold ==
  ASSUME FileOK, NEW p, NEW points, NEW task, NEW worktree, NEW ttl, NEW by
  PROVE  LET h == Fresh(p, points, task, worktree, ttl, by) IN
         IsHold(h) /\ h.id = file.serial /\ h.dispatch = NoId /\ h.by = by /\ h.provider = p
<1>1. file.serial \in Nat
  BY DEF FileOK, HoldsOK
<1>2. PICK h : h = Fresh(p, points, task, worktree, ttl, by)
  OBVIOUS
<1>3. /\ DOMAIN h = {"id", "provider", "points", "brief", "worktree", "dispatch", "expires",
                 "migrated", "by"}
      /\ h.id = file.serial /\ h.dispatch = NoId /\ h.by = by /\ h.provider = p
  BY <1>2 DEF Fresh
<1>. QED
  BY <1>1, <1>2, <1>3 DEF IsHold

LEMMA ReserveOK ==
  ASSUME FileOK, workers' = workers, NEW hold, IsHold(hold), hold.id = file.serial,
         hold.dispatch = NoId, NEW limit, Reserve(hold, limit)
  PROVE  FileOK' /\ Onward
<1>1. HoldsOK(file.holds, file.serial) /\ file.serial \in Nat
  BY DEF FileOK, HoldsOK
<1>2. CASE file' = file
  BY <1>2, SameHolds DEF FileOK
<1>3. CASE file' # file
  <2>1. file' = [file EXCEPT !.holds = Swept(@) \cup {hold}, !.serial = @ + 1]
    BY <1>3 DEF Reserve
  <2>2. /\ file'.holds = Swept(file.holds) \cup {hold} /\ file'.serial = file.serial + 1
        /\ DOMAIN file' = DOMAIN file /\ file'.denials = file.denials
        /\ file'.snapshots = file.snapshots /\ file'.cache = file.cache
    BY <2>1 DEF FileOK
  <2>3. PICK after : after = Swept(file.holds) \cup {hold}
    OBVIOUS
  <2>4. HoldsOK(after, file.serial + 1) /\ HoldsKept(file.holds, file.serial, after)
    BY <1>1, <2>3, HoldAdded
  <2>5. HoldsOK(file'.holds, file'.serial) /\ HoldsKept(file.holds, file.serial, file'.holds)
    BY <2>2, <2>3, <2>4
  <2>6. FileOK'
    BY <2>2, <2>5 DEF FileOK, HoldsOK, Distinct, IsHold
  <2>7. \A d \in Dispatches : Ended(d) => Ended(d)'
    BY DEF Ended
  <2>. QED
    BY <1>1, <2>2, <2>5, <2>6, <2>7 DEF Onward
<1>. QED
  BY <1>2, <1>3

LEMMA HoldStep ==
  ASSUME LegacyInv, NEW c \in Coords, Hold(c)
  PROVE  LegacyInv'
<1>1. PICK s : s = coord[c]
  OBVIOUS
<1>2. /\ CommandOK(s) /\ s.pc \in {"hold", "again"} /\ s.ask \in Asks
      /\ DOMAIN s = {"pc", "ask", "elig", "made"}
      /\ EligOK(s.elig) /\ Recommended(s.ask, s.made) /\ Len(s.made) = 1
  BY <1>1 DEF LegacyInv, CoordsOK, Hold, CommandOK, Single, Shape
<1>3. PICK m : m = s.made[1]
  OBVIOUS
<1>4. MadeRight(s.ask, m) /\ 1 \in 1 .. Len(s.made)
  BY <1>2, <1>3 DEF Recommended
<1>5. PICK p : p = m.decision.pick.provider
  OBVIOUS
<1>6. FileOK' /\ Onward
  <2>1. CASE Dispatchable(m.decision)
    <3>1. PICK hold : hold = HoldFor(m)
      OBVIOUS
    <3>2. Reserve(hold, SlotLimit[p])
      BY <1>1, <1>3, <1>5, <2>1, <3>1 DEF Hold
    <3>3. IsHold(hold) /\ hold.id = file.serial /\ hold.dispatch = NoId
      BY <3>1, FreshHold DEF HoldFor, LegacyInv
    <3>. QED
      BY <3>2, <3>3, ReserveOK DEF Hold, orca, LegacyInv
  <2>2. CASE ~Dispatchable(m.decision)
    <3>1. file' = file
      BY <1>1, <1>3, <2>2 DEF Hold
    <3>. QED
      BY <3>1, SameHolds DEF Hold, orca, LegacyInv, FileOK
  <2>. QED
    BY <2>1, <2>2
<1>7. PICK r : /\ coord' = [coord EXCEPT ![c] = r] /\ CommandOK(r)
               /\ r.pc \in {"log", "again"}
  <2>1. CASE Dispatchable(m.decision) /\ ~Refuses(p, SlotLimit[p])
    <3>1. PICK n : n = [m EXCEPT !.hold = file.serial]
      OBVIOUS
    <3>2. MadeRight(s.ask, n)
      BY <1>4, <2>1, <3>1, HeldRight
    <3>3. PICK made : made = [s.made EXCEPT ![1] = n]
      OBVIOUS
    <3>4. Recommended(s.ask, made) /\ Len(made) = 1
      BY <1>2, <1>4, <3>2, <3>3, RecommendedOther
    <3>5. PICK r : r = [s EXCEPT !.pc = "log", !.made = made]
      OBVIOUS
    <3>6. made = [s.made EXCEPT ![1].hold = file.serial]
      BY <1>3, <3>1, <3>3
    <3>7. r = [s EXCEPT !.pc = "log", !.made[1].hold = file.serial]
      BY <3>5, <3>6
    <3>8. coord' = [coord EXCEPT ![c] = r]
      BY <1>1, <1>3, <1>5, <2>1, <3>7 DEF Hold
    <3>9. /\ DOMAIN r = DOMAIN s /\ r.pc = "log" /\ r.ask = s.ask /\ r.elig = s.elig
          /\ r.made = made
      BY <1>2, <3>5
    <3>10. CommandOK(r)
      BY <1>2, <3>4, <3>9 DEF CommandOK, Shape, Steps, Knowing, Seeing, Single, Placing
    <3>. QED
      BY <3>8, <3>9, <3>10
  <2>2. CASE /\ ~(Dispatchable(m.decision) /\ ~Refuses(p, SlotLimit[p]))
             /\ s.pc = "again" \/ m.decision.pick = None
    <3>1. PICK r : r = [s EXCEPT !.pc = "log"]
      OBVIOUS
    <3>2. coord' = [coord EXCEPT ![c] = r]
      BY <1>1, <1>3, <1>5, <2>2, <3>1 DEF Hold
    <3>3. /\ DOMAIN r = DOMAIN s /\ r.pc = "log" /\ r.ask = s.ask /\ r.elig = s.elig
          /\ r.made = s.made
      BY <1>2, <3>1
    <3>4. CommandOK(r)
      BY <1>2, <3>3 DEF CommandOK, Shape, Steps, Knowing, Seeing, Single, Placing
    <3>. QED
      BY <3>2, <3>3, <3>4
  <2>3. CASE /\ ~(Dispatchable(m.decision) /\ ~Refuses(p, SlotLimit[p]))
             /\ ~(s.pc = "again" \/ m.decision.pick = None)
    <3>1. PICK elig : elig = WithoutSlot(s.elig, p)
      OBVIOUS
    <3>2. EligOK(elig)
      BY <1>2, <3>1, WithoutSlotTyped
    <3>3. PICK n : n = Made(m.task, Choose(s.ask, m.task, elig), NoId)
      OBVIOUS
    <3>4. MadeRight(s.ask, n)
      <4>1. m.task \in Tasks /\ s.ask.cmd \in {"route", "rerun", "plan"}
        BY <1>2, <1>4 DEF MadeRight, CommandOK, Single
      <4>. QED
        BY <1>2, <3>2, <3>3, <4>1, MadeOK
    <3>5. PICK made : made = [s.made EXCEPT ![1] = n]
      OBVIOUS
    <3>6. Recommended(s.ask, made) /\ Len(made) = 1
      BY <1>2, <1>4, <3>4, <3>5, RecommendedOther
    <3>7. PICK r : r = [s EXCEPT !.pc = "again", !.elig = elig, !.made = made]
      OBVIOUS
    <3>8. r = [s EXCEPT !.pc = "again", !.elig = elig, !.made[1] = n]
      BY <3>5, <3>7
    <3>9. coord' = [coord EXCEPT ![c] = r]
      BY <1>1, <1>3, <1>5, <2>3, <3>1, <3>3, <3>8 DEF Hold
    <3>10. /\ DOMAIN r = DOMAIN s /\ r.pc = "again" /\ r.ask = s.ask /\ r.elig = elig
           /\ r.made = made
      BY <1>2, <3>7
    <3>11. CommandOK(r)
      BY <1>2, <3>2, <3>6, <3>10 DEF CommandOK, Shape, Steps, Knowing, Seeing, Single, Placing
    <3>. QED
      BY <3>9, <3>10, <3>11
  <2>. QED
    BY <2>1, <2>2, <2>3
<1>8. Settles(r)'
  BY <1>7 DEF Settles
<1>9. UNCHANGED <<outside, workers>>
  BY DEF Hold, orca
<1>. QED
  BY <1>6, <1>7, <1>8, <1>9, CommandStep

LEMMA OnlyLog ==
  ASSUME FileOK, NEW log, file' = [file EXCEPT !.decisions = log]
  PROVE  FileOK' /\ file'.holds = file.holds /\ file'.serial = file.serial
<1>1. /\ DOMAIN file' = DOMAIN file /\ file'.holds = file.holds /\ file'.serial = file.serial
      /\ file'.denials = file.denials /\ file'.snapshots = file.snapshots
      /\ file'.cache = file.cache
  BY DEF FileOK
<1>2. \A d \in file'.denials : d.scope[1] \in Providers
  BY <1>1 DEF FileOK
<1>3. \A sn \in file'.snapshots : sn.percent \in Int
  BY <1>1 DEF FileOK
<1>4. file'.cache # None => ProbesOK(file'.cache.probes)
  BY <1>1 DEF FileOK
<1>. QED
  BY <1>1, <1>2, <1>3, <1>4, NotesOK

LEMMA LogStep ==
  ASSUME LegacyInv, NEW c \in Coords, Log(c)
  PROVE  LegacyInv'
<1>1. PICK s : s = coord[c]
  OBVIOUS
<1>2. CommandOK(s) /\ s.pc = "log" /\ Recommended(s.ask, s.made)
  BY <1>1 DEF LegacyInv, CoordsOK, Log, CommandOK, Single
<1>3. PICK r : r = Decided(s.ask, s.made)
  OBVIOUS
<1>4. coord' = [coord EXCEPT ![c] = r]
  BY <1>1, <1>3 DEF Log
<1>5. DOMAIN r = {"pc", "ask", "made"} /\ r.pc = "decided" /\ r.ask = s.ask /\ r.made = s.made
  BY <1>3 DEF Decided
<1>6. CommandOK(r)
  BY <1>2, <1>5 DEF CommandOK, Shape, Steps, Knowing, Seeing, Single, Placing
<1>7. PICK log : log = Logged(file.decisions, coord[c].made[1], coord[c].ask.hold)
  OBVIOUS
<1>8. file' = [file EXCEPT !.decisions = log]
  BY <1>7 DEF Log
<1>9. FileOK' /\ file'.holds = file.holds /\ file'.serial = file.serial
  BY <1>8, OnlyLog DEF LegacyInv
<1>. QED
  BY <1>4, <1>5, <1>6, <1>9, NoteStep DEF Log, orca

LEMMA FlushStep ==
  ASSUME LegacyInv, NEW c \in Coords, Flush(c)
  PROVE  LegacyInv'
<1>1. PICK s : s = coord[c]
  OBVIOUS
<1>2. CommandOK(s) /\ s.pc = "flush" /\ Recommended(s.ask, s.made)
      /\ DOMAIN s = {"pc", "ask", "elig", "todo", "waiting", "wave", "placed", "made",
                     "unlogged", "points"}
  BY <1>1 DEF LegacyInv, CoordsOK, Flush, CommandOK, Placing, Shape
<1>3. CASE s.unlogged = <<>>
  <2>1. PICK r : r = Decided(s.ask, s.made)
    OBVIOUS
  <2>2. coord' = [coord EXCEPT ![c] = r] /\ file' = file
    BY <1>1, <1>3, <2>1 DEF Flush
  <2>3. DOMAIN r = {"pc", "ask", "made"} /\ r.pc = "decided" /\ r.ask = s.ask /\ r.made = s.made
    BY <2>1 DEF Decided
  <2>4. CommandOK(r)
    BY <1>2, <2>3 DEF CommandOK, Shape, Steps, Knowing, Seeing, Single, Placing
  <2>. QED
    BY <2>2, <2>3, <2>4, QuietStep DEF Flush, orca
<1>4. CASE s.unlogged # <<>>
  <2>1. PICK r : r = [s EXCEPT !.unlogged = Tail(s.unlogged)]
    OBVIOUS
  <2>2. coord' = [coord EXCEPT ![c] = r]
    BY <1>1, <1>4, <2>1 DEF Flush
  <2>3. /\ DOMAIN r = DOMAIN s /\ r.pc = "flush" /\ r.ask = s.ask /\ r.made = s.made
        /\ r.elig = s.elig /\ r.todo = s.todo /\ r.waiting = s.waiting
    BY <1>2, <2>1
  <2>4. CommandOK(r)
    BY <1>2, <2>3 DEF CommandOK, Shape, Steps, Knowing, Seeing, Single, Placing
  <2>5. PICK log : file' = [file EXCEPT !.decisions = log]
    <3>1. file' = [file EXCEPT !.decisions = Logged(file.decisions, Head(s.unlogged), FALSE)]
      BY <1>1, <1>4 DEF Flush
    <3>. QED
      BY <3>1, Zenon
  <2>6. FileOK' /\ file'.holds = file.holds /\ file'.serial = file.serial
    BY <2>5, OnlyLog DEF LegacyInv
  <2>. QED
    BY <2>2, <2>3, <2>4, <2>6, NoteStep DEF Flush, orca
<1>. QED
  BY <1>3, <1>4

LEMMA WaveStep ==
  ASSUME LegacyInv, NEW c \in Coords, Wave(c)
  PROVE  LegacyInv'
<1>1. PICK s : s = coord[c]
  OBVIOUS
<1>2. CommandOK(s) /\ s.pc = "place" /\ EligOK(s.elig)
      /\ s.todo \in Seq(Tasks) /\ s.waiting \in Seq(Tasks) /\ <<>> \in Seq(Tasks)
      /\ DOMAIN s = {"pc", "ask", "elig", "todo", "waiting", "wave", "placed", "made",
                     "unlogged", "points"}
  BY <1>1 DEF LegacyInv, CoordsOK, Wave, CommandOK, Placing, Shape
<1>3. CASE More(c)
  <2>1. PICK elig : elig = StartWave(s.elig)
    OBVIOUS
  <2>2. EligOK(elig)
    BY <1>2, <2>1, StartWaveTyped
  <2>3. PICK r : r = [s EXCEPT !.elig = elig, !.todo = s.waiting, !.waiting = <<>>,
                               !.wave = s.wave + 1, !.placed = FALSE]
    OBVIOUS
  <2>4. coord' = [coord EXCEPT ![c] = r]
    BY <1>1, <1>3, <2>1, <2>3 DEF Wave
  <2>5. /\ DOMAIN r = DOMAIN s /\ r.pc = "place" /\ r.ask = s.ask /\ r.made = s.made
        /\ r.elig = elig /\ r.todo = s.waiting /\ r.waiting = <<>>
    BY <1>2, <2>3
  <2>6. CommandOK(r)
    BY <1>2, <2>2, <2>5 DEF CommandOK, Shape, Steps, Knowing, Seeing, Single, Placing
  <2>. QED
    BY <2>4, <2>5, <2>6, QuietStep DEF Wave, orca
<1>4. CASE ~More(c)
  <2>1. PICK r : r = [s EXCEPT !.pc = "flush"]
    OBVIOUS
  <2>2. coord' = [coord EXCEPT ![c] = r]
    BY <1>1, <1>4, <2>1 DEF Wave
  <2>3. /\ DOMAIN r = DOMAIN s /\ r.pc = "flush" /\ r.ask = s.ask /\ r.made = s.made
        /\ r.elig = s.elig /\ r.todo = s.todo /\ r.waiting = s.waiting
    BY <1>2, <2>1
  <2>4. CommandOK(r)
    BY <1>2, <2>3 DEF CommandOK, Shape, Steps, Knowing, Seeing, Single, Placing
  <2>. QED
    BY <2>2, <2>3, <2>4, QuietStep DEF Wave, orca
<1>. QED
  BY <1>3, <1>4

LEMMA BookStep ==
  ASSUME LegacyInv, NEW c \in Coords, Book(c)
  PROVE  LegacyInv'
<1>1. PICK s : s = coord[c]
  OBVIOUS
<1>2. CommandOK(s) /\ s.pc = "book" /\ Recommended(s.ask, s.made)
      /\ DOMAIN s = {"pc", "ask", "elig", "todo", "waiting", "wave", "placed", "made",
                     "unlogged", "points"}
      /\ Len(s.made) # 0 /\ Dispatchable(s.made[Len(s.made)].decision)
  BY <1>1 DEF LegacyInv, CoordsOK, Book, CommandOK, Placing, Shape
<1>3. PICK last : last = Len(s.made)
  OBVIOUS
<1>4. last \in 1 .. Len(s.made)
  BY <1>2, <1>3, ListTyped DEF Recommended
<1>5. PICK m : m = s.made[last]
  OBVIOUS
<1>6. MadeRight(s.ask, m) /\ Dispatchable(m.decision)
  BY <1>2, <1>3, <1>4, <1>5 DEF Recommended
<1>7. PICK id : id = IF Refuses(m.decision.pick.provider, -1) THEN NoId ELSE file.serial
  OBVIOUS
<1>8. PICK n : n = [m EXCEPT !.hold = id]
  OBVIOUS
<1>9. MadeRight(s.ask, n) /\ n.decision = m.decision
  <2>1. MadeRight(s.ask, n)
    BY <1>6, <1>8, HeldRight
  <2>. QED
    BY <1>6, <1>8, <2>1 DEF MadeRight
<1>10. PICK made : made = [s.made EXCEPT ![last] = n]
  OBVIOUS
<1>11. Recommended(s.ask, made) /\ Len(made) = Len(s.made)
  BY <1>2, <1>4, <1>9, <1>10, RecommendedOther
<1>12. PICK r : r = [s EXCEPT !.pc = "place", !.made = made]
  OBVIOUS
<1>13. coord' = [coord EXCEPT ![c] = r]
  <2>1. made = [s.made EXCEPT ![last].hold = id]
    BY <1>5, <1>8, <1>10
  <2>2. r = [s EXCEPT !.pc = "place", !.made[last].hold = id]
    BY <1>12, <2>1
  <2>. QED
    BY <1>1, <1>3, <1>5, <1>7, <2>2 DEF Book
<1>14. /\ DOMAIN r = DOMAIN s /\ r.pc = "place" /\ r.ask = s.ask /\ r.made = made
       /\ r.elig = s.elig /\ r.todo = s.todo /\ r.waiting = s.waiting
  BY <1>2, <1>12
<1>15. CommandOK(r)
  BY <1>2, <1>11, <1>14 DEF CommandOK, Shape, Steps, Knowing, Seeing, Single, Placing
<1>16. PICK hold : hold = Fresh(m.decision.pick.provider, s.points, m.task, m.task.brief,
                               UnconfirmedTTL, "plan")
  OBVIOUS
<1>17. IsHold(hold) /\ hold.id = file.serial /\ hold.dispatch = NoId
  BY <1>16, FreshHold DEF LegacyInv
<1>18. Reserve(hold, -1) /\ UNCHANGED <<outside, workers>>
  BY <1>1, <1>3, <1>5, <1>16 DEF Book, orca
<1>19. FileOK' /\ Onward
  BY <1>17, <1>18, ReserveOK DEF LegacyInv
<1>20. Settles(r)'
  BY <1>14 DEF Settles
<1>. QED
  BY <1>13, <1>15, <1>18, <1>19, <1>20, CommandStep

LEMMA PlaceStep ==
  ASSUME LegacyInv, NEW c \in Coords, Place(c)
  PROVE  LegacyInv'
<1>1. PICK s : s = coord[c]
  OBVIOUS
<1>2. /\ CommandOK(s) /\ s.pc = "place" /\ s.ask \in Asks /\ s.ask.cmd \in {"route", "rerun", "plan"}
      /\ EligOK(s.elig) /\ Recommended(s.ask, s.made)
      /\ s.todo \in Seq(Tasks) /\ s.waiting \in Seq(Tasks) /\ s.todo # <<>>
      /\ DOMAIN s = {"pc", "ask", "elig", "todo", "waiting", "wave", "placed", "made",
                     "unlogged", "points"}
  BY <1>1 DEF LegacyInv, CoordsOK, Place, CommandOK, Placing, Shape
<1>3. PICK task \in Tasks : task = Head(s.todo)
  BY <1>2, HeadTailProperties
<1>4. PICK d : d = Choose(s.ask, task, s.elig)
  OBVIOUS
<1>5. RightFor(s.ask, task, d)
  BY <1>2, <1>3, <1>4, ChoiceRight, Zenon
<1>6. PICK m : m = Made(task, d, NoId)
  OBVIOUS
<1>7. MadeRight(s.ask, m) /\ m.decision = d
  <2>1. MadeRight(s.ask, m)
    BY <1>2, <1>3, <1>4, <1>6, MadeOK
  <2>. QED
    BY <1>6, <2>1 DEF Made
<1>8. PICK rest : rest = [s EXCEPT !.todo = Tail(s.todo)]
  OBVIOUS
<1>9. /\ DOMAIN rest = DOMAIN s /\ rest.pc = "place" /\ rest.ask = s.ask /\ rest.elig = s.elig
      /\ rest.made = s.made /\ rest.waiting = s.waiting /\ rest.todo = Tail(s.todo)
  BY <1>2, <1>8
<1>10. Tail(s.todo) \in Seq(Tasks)
  BY <1>2, HeadTailProperties
<1>11. PlaceAs(c, task, d) /\ UNCHANGED <<outside, workers>>
  BY <1>1, <1>3, <1>4 DEF Place, orca
<1>12. CASE d.blocked # "none"
  <2>1. PICK r : r = [rest EXCEPT !.unlogged = Append(rest.unlogged, m)]
    OBVIOUS
  <2>2. coord' = [coord EXCEPT ![c] = r] /\ file' = file
    BY <1>1, <1>6, <1>8, <1>11, <1>12, <2>1 DEF PlaceAs, Dispatchable
  <2>3. /\ DOMAIN r = DOMAIN s /\ r.pc = "place" /\ r.ask = s.ask /\ r.elig = s.elig
        /\ r.made = s.made /\ r.waiting = s.waiting /\ r.todo = Tail(s.todo)
    BY <1>2, <1>9, <2>1
  <2>4. CommandOK(r)
    BY <1>2, <1>10, <2>3 DEF CommandOK, Shape, Steps, Knowing, Seeing, Single, Placing
  <2>. QED
    BY <1>11, <2>2, <2>3, <2>4, QuietStep
<1>13. CASE d.blocked = "none" /\ d.pick = None
  <2>1. PICK r : r = [rest EXCEPT !.waiting = Append(rest.waiting, task)]
    OBVIOUS
  <2>2. coord' = [coord EXCEPT ![c] = r] /\ file' = file
    BY <1>1, <1>8, <1>11, <1>13, <2>1 DEF PlaceAs, Dispatchable
  <2>3. Append(s.waiting, task) \in Seq(Tasks)
    BY <1>2
  <2>4. /\ DOMAIN r = DOMAIN s /\ r.pc = "place" /\ r.ask = s.ask /\ r.elig = s.elig
        /\ r.made = s.made /\ r.waiting = Append(s.waiting, task) /\ r.todo = Tail(s.todo)
    BY <1>2, <1>9, <2>1
  <2>5. CommandOK(r)
    BY <1>2, <1>10, <2>3, <2>4 DEF CommandOK, Shape, Steps, Knowing, Seeing, Single, Placing
  <2>. QED
    BY <1>11, <2>2, <2>4, <2>5, QuietStep
<1>14. CASE Dispatchable(d)
  <2>1. PICK p \in Providers : p = d.pick.provider
    BY <1>5, <1>14, PolicyAssumption DEF RightFor, Dispatchable
  <2>2. PICK cost : cost = DispatchCost(d.pick, d.band, now)
    OBVIOUS
  <2>3. PICK worked : worked = Debit(s.elig, p, cost, now)
    OBVIOUS
  <2>4. EligOK(worked)
    BY <1>2, <2>3, DebitTyped
  <2>5. PICK made : made = Append(s.made, m)
    OBVIOUS
  <2>6. Recommended(s.ask, made) /\ Len(made) = Len(s.made) + 1
    BY <1>2, <1>7, <2>5, RecommendedMore
  <2>7. Len(s.made) \in Nat /\ Len(made) # 0
    BY <1>2, <2>6, ListTyped DEF Recommended
  <2>8. made[Len(made)] = m
    <3>1. s.made \in Seq(Range(s.made) \cup {m}) /\ m \in Range(s.made) \cup {m}
      BY <1>2, SeqMonotonic DEF Recommended
    <3>. QED
      BY <2>5, <2>6, <3>1, AppendProperties
  <2>9. PICK pc \in {"book", "place"} : pc = IF s.ask.hold THEN "book" ELSE "place"
    OBVIOUS
  <2>10. PICK placed : placed = [rest EXCEPT !.placed = TRUE, !.made = made, !.pc = pc]
    OBVIOUS
  <2>11. /\ DOMAIN placed = DOMAIN s /\ placed.pc = pc /\ placed.ask = s.ask
         /\ placed.made = made /\ placed.waiting = s.waiting /\ placed.todo = Tail(s.todo)
    BY <1>2, <1>9, <2>10
  <2>12. PICK elig, points :
           /\ EligOK(elig)
           /\ coord' = [coord EXCEPT ![c] = [placed EXCEPT !.elig = elig, !.points = points]]
    <3>0. placed = [rest EXCEPT !.placed = TRUE, !.made = Append(rest.made, m),
                                !.pc = IF coord[c].ask.hold THEN "book" ELSE "place"]
      BY <1>1, <1>9, <2>5, <2>9, <2>10
    <3>1. CASE d.review = None
      <4>1. coord' = [coord EXCEPT ![c] = [placed EXCEPT !.elig = worked, !.points = cost]]
        BY <1>1, <1>6, <1>8, <1>11, <1>14, <2>1, <2>2, <2>3, <3>0, <3>1
           DEF PlaceAs, Dispatchable
      <4>. QED
        BY <2>4, <4>1
    <3>2. CASE d.review # None
      <4>1. PICK q \in Providers : q = d.review.provider
        BY <1>5, <3>2, PolicyAssumption DEF RightFor
      <4>2. PICK reviewCost : reviewCost = DispatchCost(d.review, d.floor, now)
        OBVIOUS
      <4>3. PICK reviewed : reviewed = Debit(worked, q, reviewCost, now)
        OBVIOUS
      <4>4. EligOK(reviewed)
        BY <2>4, <4>3, DebitTyped
      <4>5. PICK points : points = cost + reviewCost
        OBVIOUS
      <4>6. coord' = [coord EXCEPT ![c] = [placed EXCEPT !.elig = reviewed, !.points = points]]
        BY <1>1, <1>6, <1>8, <1>11, <1>14, <2>1, <2>2, <2>3, <3>0, <3>2, <4>1, <4>2, <4>3, <4>5
           DEF PlaceAs, Dispatchable
      <4>. QED
        BY <4>4, <4>6
    <3>. QED
      BY <3>1, <3>2
  <2>13. PICK r : r = [placed EXCEPT !.elig = elig, !.points = points]
    OBVIOUS
  <2>14. /\ DOMAIN r = DOMAIN s /\ r.pc = pc /\ r.ask = s.ask /\ r.elig = elig
         /\ r.made = made /\ r.waiting = s.waiting /\ r.todo = Tail(s.todo)
    BY <1>2, <2>11, <2>13
  <2>15. CommandOK(r)
    BY <1>2, <1>7, <1>10, <1>14, <2>6, <2>7, <2>8, <2>9, <2>12, <2>14
       DEF CommandOK, Shape, Steps, Knowing, Seeing, Single, Placing
  <2>16. PICK log : file' = [file EXCEPT !.decisions = log]
    <3>1. file' = [file EXCEPT !.decisions = Logged(file.decisions, m, coord[c].ask.hold)]
      BY <1>6, <1>11, <1>14 DEF PlaceAs, Dispatchable
    <3>. QED
      BY <3>1, Zenon
  <2>17. FileOK' /\ file'.holds = file.holds /\ file'.serial = file.serial
    BY <2>16, OnlyLog DEF LegacyInv
  <2>. QED
    BY <1>11, <2>9, <2>12, <2>13, <2>14, <2>15, <2>17, NoteStep
<1>. QED
  BY <1>12, <1>13, <1>14 DEF Dispatchable

----------------------------------------------------------------------------
(* The steps of a command: giving back what has settled                      *)

LEMMA AskWorkersStep ==
  ASSUME LegacyInv, NEW c \in Coords, AskWorkers(c)
  PROVE  LegacyInv'
<1>1. PICK s : s = coord[c]
  OBVIOUS
<1>2. CommandOK(s) /\ s.pc = "start"
  BY <1>1 DEF LegacyInv, CoordsOK, AskWorkers
<1>3. PICK settled : settled = {d \in Dispatches : workers[d] # None /\ workers[d].state = "settled"}
  OBVIOUS
<1>4. PICK r : r = [pc |-> "tasks", ask |-> s.ask, settled |-> settled]
  OBVIOUS
<1>5. coord' = [coord EXCEPT ![c] = r] /\ file' = file /\ UNCHANGED <<outside, workers>>
  BY <1>1, <1>3, <1>4 DEF AskWorkers, orca
<1>6. DOMAIN r = {"pc", "ask", "settled"} /\ r.pc = "tasks" /\ r.ask = s.ask /\ r.settled = settled
  BY <1>4
<1>7. CommandOK(r)
  BY <1>2, <1>6 DEF CommandOK, Shape, Steps, Knowing, Seeing, Single, Placing
<1>8. FileOK' /\ Onward
  BY <1>5, SameHolds DEF LegacyInv, FileOK
<1>9. Settles(r)'
  BY <1>3, <1>5, <1>6 DEF Settles, Ended
<1>. QED
  BY <1>5, <1>7, <1>8, <1>9, CommandStep

LEMMA AskTasksStep ==
  ASSUME LegacyInv, NEW c \in Coords, AskTasks(c)
  PROVE  LegacyInv'
<1>1. PICK s : s = coord[c]
  OBVIOUS
<1>2. CommandOK(s) /\ s.pc = "tasks" /\ Settles(s)
  BY <1>1 DEF LegacyInv, CoordsOK, QueuesSettle, AskTasks
<1>3. PICK r : r = [pc |-> "survey", ask |-> s.ask, settled |-> s.settled, briefs |-> finished]
  OBVIOUS
<1>4. coord' = [coord EXCEPT ![c] = r] /\ file' = file /\ UNCHANGED <<outside, workers>>
  BY <1>1, <1>3 DEF AskTasks, orca
<1>5. /\ DOMAIN r = {"pc", "ask", "settled", "briefs"} /\ r.pc = "survey" /\ r.ask = s.ask
      /\ r.settled = s.settled
  BY <1>3
<1>6. CommandOK(r)
  BY <1>2, <1>5 DEF CommandOK, Shape, Steps, Knowing, Seeing, Single, Placing
<1>7. FileOK' /\ Onward
  BY <1>4, SameHolds DEF LegacyInv, FileOK
<1>8. Settles(r)'
  <2>1. Settles(s)'
    BY <1>2, <1>7, SettlesKept
  <2>. QED
    BY <1>2, <1>5, <2>1 DEF Settles
<1>. QED
  BY <1>4, <1>6, <1>7, <1>8, CommandStep

LEMMA SurveyStep ==
  ASSUME LegacyInv, NEW c \in Coords, Survey(c)
  PROVE  LegacyInv'
<1>1. PICK s : s = coord[c]
  OBVIOUS
<1>2. CommandOK(s) /\ s.pc = "survey" /\ \A d \in s.settled : d \in Dispatches /\ Ended(d)
  BY <1>1 DEF LegacyInv, CoordsOK, QueuesSettle, Settles, Survey
<1>3. PICK queue : queue = {h \in Swept(file.holds) : Settled(h, c)}
  OBVIOUS
<1>4. PICK r : r = [pc |-> "release", ask |-> s.ask, queue |-> queue]
  OBVIOUS
<1>5. coord' = [coord EXCEPT ![c] = r] /\ file' = file /\ UNCHANGED <<outside, workers>>
  BY <1>1, <1>3, <1>4 DEF Survey, orca
<1>6. DOMAIN r = {"pc", "ask", "queue"} /\ r.pc = "release" /\ r.ask = s.ask /\ r.queue = queue
  BY <1>4
<1>7. CommandOK(r)
  BY <1>2, <1>6 DEF CommandOK, Shape, Steps, Knowing, Seeing, Single, Placing
<1>8. FileOK' /\ Onward
  BY <1>5, SameHolds DEF LegacyInv, FileOK
<1>9. ASSUME NEW q \in queue
      PROVE  /\ q.id \in Nat /\ q.id < file.serial
             /\ q.dispatch # NoId =>
                  /\ q.dispatch \in Dispatches /\ Ended(q.dispatch)
                  /\ \A h \in file.holds : h.id = q.id => h.dispatch = q.dispatch
  <2>1. q \in file.holds /\ Settled(q, c)
    BY <1>3 DEF Swept
  <2>2. q.id \in Nat /\ q.id < file.serial /\ \A h \in file.holds : h.id = q.id => h = q
    BY <2>1 DEF LegacyInv, FileOK, HoldsOK, Distinct, IsHold
  <2>3. q.dispatch # NoId => q.dispatch \in s.settled
    BY <1>1, <2>1 DEF Settled
  <2>. QED
    BY <1>2, <2>2, <2>3
<1>10. Settles(r)
  BY <1>6, <1>9 DEF Settles
<1>11. Settles(r)'
  BY <1>8, <1>10, SettlesKept
<1>. QED
  BY <1>5, <1>7, <1>8, <1>11, CommandStep

(* A release takes the expired holds and at most one that matches.            *)
LEMMA ReleasedOK ==
  ASSUME FileOK, workers' = workers, NEW mine, file' = Released(mine)
  PROVE  /\ FileOK' /\ Onward
         /\ file'.holds \subseteq file.holds
         /\ \A h \in file.holds \ file'.holds : Live(h) => mine # {} /\ h = Oldest(mine)
<1>1. PICK gone : gone = IF mine = {} THEN {} ELSE {Oldest(mine)}
  OBVIOUS
<1>2. PICK rest : rest = Swept(file.holds) \ gone
  OBVIOUS
<1>3. file' = [file EXCEPT !.holds = rest]
  BY <1>1, <1>2 DEF Released
<1>4. /\ DOMAIN file' = DOMAIN file /\ file'.holds = rest /\ file'.serial = file.serial
      /\ file'.denials = file.denials /\ file'.snapshots = file.snapshots
      /\ file'.cache = file.cache
  BY <1>3 DEF FileOK
<1>5. rest \in SUBSET file.holds /\ HoldsOK(file.holds, file.serial) /\ file.serial \in Nat
  BY <1>2 DEF Swept, FileOK, HoldsOK
<1>6. HoldsOK(rest, file.serial) /\ HoldsKept(file.holds, file.serial, rest)
  BY <1>5, HoldsGone
<1>7. HoldsOK(file'.holds, file'.serial) /\ HoldsKept(file.holds, file.serial, file'.holds)
  BY <1>4, <1>6
<1>8. FileOK'
  BY <1>4, <1>7 DEF FileOK, HoldsOK, Distinct, IsHold
<1>9. Onward
  BY <1>4, <1>5, <1>7 DEF Onward, Ended
<1>10. \A h \in file.holds \ file'.holds : Live(h) => mine # {} /\ h = Oldest(mine)
  BY <1>1, <1>2, <1>4 DEF Swept
<1>. QED
  BY <1>4, <1>5, <1>8, <1>9, <1>10

LEMMA ReleaseNextStep ==
  ASSUME LegacyInv, NEW c \in Coords, ReleaseNext(c)
  PROVE  LegacyInv'
<1>1. PICK s : s = coord[c]
  OBVIOUS
<1>2. CommandOK(s) /\ s.pc = "release" /\ DOMAIN s = {"pc", "ask", "queue"} /\ Settles(s)
  BY <1>1 DEF LegacyInv, CoordsOK, QueuesSettle, ReleaseNext, CommandOK, Shape
<1>3. PICK queue : queue = s.queue \ {Oldest(s.queue)}
  OBVIOUS
<1>4. PICK r : r = [s EXCEPT !.queue = queue]
  OBVIOUS
<1>5. coord' = [coord EXCEPT ![c] = r] /\ UNCHANGED <<outside, workers>>
  BY <1>1, <1>3, <1>4 DEF ReleaseNext, orca
<1>6. DOMAIN r = DOMAIN s /\ r.pc = "release" /\ r.ask = s.ask /\ r.queue = queue
  BY <1>2, <1>4
<1>7. CommandOK(r)
  BY <1>2, <1>6 DEF CommandOK, Shape, Steps, Knowing, Seeing, Single, Placing
<1>8. FileOK' /\ Onward
  <2>1. PICK mine : file' = Released(mine)
    BY DEF ReleaseNext
  <2>. QED
    BY <1>5, <2>1, ReleasedOK DEF LegacyInv
<1>9. Settles(r)'
  <2>1. Settles(s)'
    BY <1>2, <1>8, SettlesKept
  <2>2. r.queue \subseteq s.queue
    BY <1>3, <1>6
  <2>. QED
    BY <1>2, <1>6, <2>1, <2>2 DEF Settles
<1>. QED
  BY <1>5, <1>7, <1>8, <1>9, CommandStep

LEMMA FinishStep ==
  ASSUME LegacyInv, NEW c \in Coords, Finish(c)
  PROVE  LegacyInv'
<1>1. PICK s : s = coord[c]
  OBVIOUS
<1>2. CommandOK(s)
  BY <1>1 DEF LegacyInv, CoordsOK
<1>3. PICK r : r = Decided(s.ask, <<>>)
  OBVIOUS
<1>4. coord' = [coord EXCEPT ![c] = r]
  BY <1>1, <1>3 DEF Finish
<1>5. DOMAIN r = {"pc", "ask", "made"} /\ r.pc = "decided" /\ r.ask = s.ask /\ r.made = <<>>
  BY <1>3 DEF Decided
<1>6. Recommended(s.ask, <<>>)
  BY EmptySeq DEF Recommended
<1>7. CommandOK(r)
  BY <1>2, <1>5, <1>6 DEF CommandOK, Shape, Steps, Knowing, Seeing, Single, Placing
<1>. QED
  BY <1>4, <1>5, <1>7, QuietStep DEF Finish, orca

----------------------------------------------------------------------------
(* The steps around the commands                                             *)

(* The worker of a dispatch that had none, or one that comes to its end.      *)
LEMMA WorkerStep ==
  ASSUME LegacyInv, NEW d \in Dispatches, NEW w, workers' = [workers EXCEPT ![d] = w],
         ~Ended(d), UNCHANGED <<outside, file, coord>>
  PROVE  LegacyInv'
<1>1. DOMAIN workers = Dispatches
  BY DEF LegacyInv, WorldOK
<1>2. DOMAIN workers' = Dispatches /\ \A e \in Dispatches : e # d => workers'[e] = workers[e]
  BY <1>1
<1>3. WorldOK'
  BY <1>2 DEF LegacyInv, WorldOK, outside
<1>4. FileOK'
  BY DEF LegacyInv, FileOK
<1>5. Onward
  <2>1. ASSUME NEW e \in Dispatches, Ended(e)
        PROVE  Ended(e)'
    BY <1>2, <2>1 DEF Ended
  <2>. QED
    BY <2>1 DEF Onward, HoldsKept, LegacyInv, FileOK, HoldsOK
<1>. QED
  BY <1>3, <1>4, <1>5, AroundStep

LEMMA LaunchStep ==
  ASSUME LegacyInv, NEW c, NEW i, NEW d \in Dispatches, NEW worktree,
         Launch(c, i, d, worktree)
  PROVE  LegacyInv'
<1>1. ~Ended(d)
  BY DEF Launch, Ended
<1>2. PICK w : workers' = [workers EXCEPT ![d] = w]
  BY DEF Launch
<1>. QED
  BY <1>1, <1>2, WorkerStep DEF Launch

LEMMA WorkerEndsStep ==
  ASSUME LegacyInv, NEW d \in Dispatches, WorkerEnds(d)
  PROVE  LegacyInv'
<1>1. ~Ended(d)
  BY DEF WorkerEnds, Ended
<1>2. PICK w : w = [workers[d] EXCEPT !.state = "settled"]
  OBVIOUS
<1>3. workers' = [workers EXCEPT ![d] = w]
  BY <1>2 DEF WorkerEnds
<1>. QED
  BY <1>1, <1>3, WorkerStep DEF WorkerEnds

(* The steps that change neither a worker nor a hold.                         *)
LEMMA NoHoldStep ==
  ASSUME LegacyInv, WorldOK', FileOK', UNCHANGED <<workers, coord>>,
         file'.holds = file.holds, file'.serial = file.serial
  PROVE  LegacyInv'
BY SameHolds, AroundStep DEF LegacyInv

LEMMA QuotaErrorStep ==
  ASSUME LegacyInv, NEW p \in Providers, QuotaError(p)
  PROVE  LegacyInv'
<1>1. PICK refused : refused = IF file.cache = None THEN {} ELSE DeniedBuckets(file.cache.probes[p])
  OBVIOUS
<1>2. PICK before : before = {d \in file.denials : d.scope = Legacy(p)}
  OBVIOUS
<1>3. PICK known : known = {d \in before : d.id \notin refused} \cup
        {[scope |-> Legacy(p), id |-> b, resets |-> ResetOf(file.cache.probes[p], b)] : b \in refused}
  OBVIOUS
<1>4. PICK until : file' = [file EXCEPT !.denials = (@ \ before) \cup known,
                                        !.exhausted[p] = until, !.cache = None]
  BY <1>1, <1>2, <1>3 DEF QuotaError
<1>5. /\ DOMAIN file' = DOMAIN file /\ file'.holds = file.holds /\ file'.serial = file.serial
      /\ file'.denials = (file.denials \ before) \cup known
      /\ file'.snapshots = file.snapshots /\ file'.cache = None
  BY <1>4 DEF LegacyInv, FileOK
<1>6. \A d \in file'.denials : d.scope[1] \in Providers
  <2>1. \A d \in file.denials : d.scope[1] \in Providers
    BY DEF LegacyInv, FileOK
  <2>2. Legacy(p)[1] = p
    BY DEF Legacy, Scope
  <2>3. ASSUME NEW b \in refused, NEW d,
               d = [scope |-> Legacy(p), id |-> b, resets |-> ResetOf(file.cache.probes[p], b)]
        PROVE  d.scope[1] \in Providers
    BY <2>2, <2>3
  <2>. QED
    BY <1>2, <1>3, <1>5, <2>1, <2>3
<1>7. \A sn \in file'.snapshots : sn.percent \in Int
  BY <1>5 DEF LegacyInv, FileOK
<1>8. FileOK'
  BY <1>5, <1>6, <1>7, NotesOK DEF LegacyInv
<1>9. WorldOK' /\ UNCHANGED <<workers, coord>>
  BY DEF QuotaError, LegacyInv, WorldOK, outside, orca
<1>. QED
  BY <1>5, <1>8, <1>9, NoHoldStep

LEMMA ClearStep ==
  ASSUME LegacyInv, NEW p \in Providers, Clear(p)
  PROVE  LegacyInv'
<1>1. file' = [file EXCEPT !.exhausted[p] = 0, !.cache = None]
  BY DEF Clear
<1>2. /\ DOMAIN file' = DOMAIN file /\ file'.holds = file.holds /\ file'.serial = file.serial
      /\ file'.denials = file.denials /\ file'.snapshots = file.snapshots
      /\ file'.cache = None
  BY <1>1 DEF LegacyInv, FileOK
<1>3. \A d \in file'.denials : d.scope[1] \in Providers
  BY <1>2 DEF LegacyInv, FileOK
<1>4. \A sn \in file'.snapshots : sn.percent \in Int
  BY <1>2 DEF LegacyInv, FileOK
<1>5. FileOK'
  BY <1>2, <1>3, <1>4, NotesOK DEF LegacyInv
<1>6. WorldOK' /\ UNCHANGED <<workers, coord>>
  BY DEF Clear, LegacyInv, WorldOK, outside, orca
<1>. QED
  BY <1>2, <1>5, <1>6, NoHoldStep

LEMMA ReportDoneStep ==
  ASSUME LegacyInv, NEW p, NEW id, ReportDone(p, id)
  PROVE  LegacyInv'
<1>1. PICK mine : file' = Released(mine)
  BY DEF ReportDone
<1>2. WorldOK' /\ UNCHANGED <<workers, coord>>
  BY DEF ReportDone, LegacyInv, WorldOK, outside, orca
<1>3. FileOK' /\ Onward
  BY <1>1, <1>2, ReleasedOK DEF LegacyInv
<1>. QED
  BY <1>2, <1>3, AroundStep

(* A receipt binds one hold to the dispatch.                                  *)
LEMMA ReceiptBinds ==
  ASSUME FileOK, LegacyAssumption, NEW d \in Dispatches, Receipt(d), ~Booked(d)
  PROVE  \E held, bound :
           /\ HoldsOK((Swept(file.holds) \ {held}) \cup {bound}, file.serial + 1)
           /\ HoldsKept(file.holds, file.serial, (Swept(file.holds) \ {held}) \cup {bound})
           /\ bound.dispatch = d
           /\ held.id = file.serial \/ (held \in Swept(file.holds) /\ held.dispatch = NoId)
           /\ \E log : file' = [file EXCEPT !.holds = (Swept(@) \ {held}) \cup {bound},
                                            !.serial = @ + 1, !.decisions = log]
<1>1. PICK w : w = workers[d]
  OBVIOUS
<1>2. PICK cost : cost = StandardCost(w.pick, BandOf(w.pick))
  OBVIOUS
<1>3. PICK free : free = Matching(Swept(file.holds), w)
  OBVIOUS
<1>4. PICK held :
        held = IF free = {}
               THEN Fresh(w.pick.provider, cost, [brief |-> w.brief], w.worktree, ConfirmedTTL, "launch")
               ELSE Oldest(free)
  OBVIOUS
<1>5. PICK bound : bound = [held EXCEPT !.points = cost, !.dispatch = d, !.expires = now + ConfirmedTTL]
  OBVIOUS
<1>6. PICK log : file' = [file EXCEPT !.holds = (Swept(file.holds) \ {held}) \cup {bound},
                                      !.serial = @ + 1, !.decisions = log]
  BY <1>1, <1>2, <1>3, <1>4, <1>5 DEF Receipt
<1>7. HoldsOK(file.holds, file.serial)
  BY DEF FileOK
<1>8. /\ IsHold(held)
      /\ held.id = file.serial
           \/ (held \in Swept(file.holds) /\ held \in file.holds /\ held.dispatch = NoId)
  <2>1. CASE free = {}
    BY <1>4, <2>1, FreshHold
  <2>2. CASE free # {}
    <3>1. \A h \in free : h \in Swept(file.holds) /\ h \in file.holds /\ h.dispatch = NoId
      BY <1>3 DEF Matching, Swept
    <3>2. \A h \in free : IsHold(h) /\ h.id \in Nat
      BY <1>7, <3>1 DEF HoldsOK, IsHold
    <3>3. held \in free
      BY <1>4, <2>2, <3>2, OldestIn
    <3>. QED
      BY <3>1, <3>2, <3>3
  <2>. QED
    BY <2>1, <2>2
<1>9. IsHold(bound) /\ bound.id = held.id /\ bound.dispatch = d
  BY <1>5, <1>8 DEF IsHold
<1>10. d # NoId /\ \A h \in Swept(file.holds) : h.dispatch # d
  BY DEF Booked, Holds, LegacyAssumption
<1>11. /\ HoldsOK((Swept(file.holds) \ {held}) \cup {bound}, file.serial + 1)
       /\ HoldsKept(file.holds, file.serial, (Swept(file.holds) \ {held}) \cup {bound})
  BY <1>7, <1>8, <1>9, <1>10, HoldBound
<1>. QED
  BY <1>6, <1>8, <1>9, <1>11

LEMMA ReceiptStep ==
  ASSUME LegacyInv, NEW d \in Dispatches, Receipt(d)
  PROVE  LegacyInv'
<1>1. WorldOK' /\ UNCHANGED <<workers, coord>>
  BY DEF Receipt, LegacyInv, WorldOK, outside, orca
<1>2. CASE Booked(d)
  <2>1. file' = file
    BY <1>2 DEF Receipt
  <2>. QED
    BY <1>1, <2>1, NoHoldStep DEF LegacyInv, FileOK
<1>3. CASE ~Booked(d)
  <2>1. PICK held, bound :
          /\ HoldsOK((Swept(file.holds) \ {held}) \cup {bound}, file.serial + 1)
          /\ HoldsKept(file.holds, file.serial, (Swept(file.holds) \ {held}) \cup {bound})
          /\ \E log : file' = [file EXCEPT !.holds = (Swept(@) \ {held}) \cup {bound},
                                           !.serial = @ + 1, !.decisions = log]
    BY <1>3, ReceiptBinds, LegacyAssumption DEF LegacyInv
  <2>2. PICK after : after = (Swept(file.holds) \ {held}) \cup {bound}
    OBVIOUS
  <2>3. /\ DOMAIN file' = DOMAIN file /\ file'.holds = after /\ file'.serial = file.serial + 1
        /\ file'.denials = file.denials /\ file'.snapshots = file.snapshots
        /\ file'.cache = file.cache
    BY <2>1, <2>2 DEF LegacyInv, FileOK
  <2>4. HoldsOK(file'.holds, file'.serial) /\ HoldsKept(file.holds, file.serial, file'.holds)
    BY <2>1, <2>2, <2>3
  <2>5. FileOK'
    BY <2>3, <2>4 DEF LegacyInv, FileOK, HoldsOK, Distinct, IsHold
  <2>6. file.serial \in Nat
    BY DEF LegacyInv, FileOK, HoldsOK
  <2>7. Onward
    BY <1>1, <2>3, <2>4, <2>6 DEF Onward, Ended
  <2>. QED
    BY <1>1, <2>5, <2>7, AroundStep
<1>. QED
  BY <1>2, <1>3

LEMMA OutsideStep ==
  ASSUME LegacyInv, LegacyAssumption,
         \/ Tick
         \/ \E b \in Briefs : TaskEnds(b)
         \/ \E p \in Providers : \E a \in LoginsOf[p] : Login(p, a)
         \/ \E p \in Providers, a \in Accounts : \E probe \in ProbesOf[p] : Quota(p, a, probe)
         \/ \E p \in Providers, n \in 0 .. 1 : Managed(p, n)
  PROVE  LegacyInv'
<1>1. UNCHANGED <<workers, coord, file>>
  BY DEF Tick, TaskEnds, Login, Quota, Managed, orca
<1>2. FileOK'
  BY <1>1 DEF LegacyInv, FileOK
<1>3. WorldOK'
  <2>1. CASE Tick \/ \E b \in Briefs : TaskEnds(b)
    BY <2>1 DEF Tick, TaskEnds, LegacyInv, WorldOK, outside, orca
  <2>2. ASSUME NEW p \in Providers, NEW a \in LoginsOf[p], Login(p, a)
        PROVE  WorldOK'
    <3>1. a \in Accounts
      BY DEF LegacyAssumption
    <3>2. login[p] \in Credentials
      BY DEF LegacyInv, WorldOK
    <3>3. PICK credential : credential = [account |-> a, stamp |-> login[p].stamp + 1]
      OBVIOUS
    <3>4. credential \in Credentials
      BY <3>1, <3>2, <3>3 DEF Credentials
    <3>5. login' = [login EXCEPT ![p] = credential] /\ UNCHANGED <<reading, managed>>
      BY <2>2, <3>3 DEF Login
    <3>6. login' \in [Providers -> Credentials]
      BY <3>4, <3>5 DEF LegacyInv, WorldOK
    <3>. QED
      BY <1>1, <3>5, <3>6 DEF LegacyInv, WorldOK
  <2>3. ASSUME NEW p \in Providers, NEW a \in Accounts, NEW probe \in ProbesOf[p],
               Quota(p, a, probe)
        PROVE  WorldOK'
    <3>1. IsAnswer(probe)
      BY DEF LegacyAssumption
    <3>2. reading' = [reading EXCEPT ![p][a] = probe] /\ UNCHANGED <<login, managed>>
      BY <2>3 DEF Quota
    <3>3. DOMAIN reading' = Providers
      BY <3>2 DEF LegacyInv, WorldOK
    <3>4. ASSUME NEW q \in Providers
          PROVE  /\ DOMAIN reading'[q] = Accounts
                 /\ \A e \in Accounts : IsAnswer(reading'[q][e])
      <4>1. DOMAIN reading[q] = Accounts /\ \A e \in Accounts : IsAnswer(reading[q][e])
        BY DEF LegacyInv, WorldOK
      <4>2. reading'[q] = IF q = p THEN [reading[q] EXCEPT ![a] = probe] ELSE reading[q]
        BY <3>2 DEF LegacyInv, WorldOK
      <4>3. CASE q = p
        <5>1. reading'[q] = [reading[q] EXCEPT ![a] = probe]
          BY <4>2, <4>3
        <5>2. DOMAIN reading'[q] = Accounts
          BY <4>1, <5>1
        <5>3. \A e \in Accounts : reading'[q][e] = IF e = a THEN probe ELSE reading[q][e]
          BY <4>1, <5>1
        <5>. QED
          BY <3>1, <4>1, <5>2, <5>3
      <4>4. CASE q # p
        BY <4>1, <4>2, <4>4
      <4>. QED
        BY <4>3, <4>4
    <3>5. \A q \in Providers : /\ DOMAIN reading'[q] = Accounts
                               /\ \A e \in Accounts : IsAnswer(reading[q][e])'
      BY <3>4 DEF IsAnswer
    <3>. QED
      BY <1>1, <3>2, <3>3, <3>5 DEF LegacyInv, WorldOK
  <2>4. ASSUME NEW p \in Providers, NEW n \in 0 .. 1, Managed(p, n)
        PROVE  WorldOK'
    BY <1>1, <2>4 DEF Managed, LegacyInv, WorldOK
  <2>. QED
    BY <2>1, <2>2, <2>3, <2>4
<1>. QED
  BY <1>1, <1>2, <1>3, NoHoldStep

LEMMA StutterStep ==
  ASSUME LegacyInv, UNCHANGED vars
  PROVE  LegacyInv'
<1>1. UNCHANGED <<outside, workers, coord, file>>
  BY DEF vars, orca
<1>2. WorldOK' /\ FileOK'
  BY <1>1 DEF LegacyInv, WorldOK, FileOK, outside
<1>. QED
  BY <1>1, <1>2, NoHoldStep

LEMMA CommandKeeps ==
  ASSUME LegacyInv, NEW c \in Coords, Command(c)
  PROVE  LegacyInv'
BY ReadCacheStep, BindStep, FetchStep, ConfirmStep, SaveCacheStep, ReadBaselineStep, SaveSnapshotStep,
   DenyStep, LookStep, HoldStep, LogStep, PlaceStep, BookStep, WaveStep, FlushStep,
   AskWorkersStep, AskTasksStep, SurveyStep, ReleaseNextStep, FinishStep DEF Command

LEMMA EnvironmentKeeps ==
  ASSUME LegacyInv, Environment
  PROVE  LegacyInv'
<1>1. CASE \E c \in Coords, i \in 1 .. 2, d \in Dispatches, t \in Briefs \cup {"elsewhere"} :
             Launch(c, i, d, t)
  BY <1>1, LaunchStep
<1>2. CASE \E d \in Dispatches : Receipt(d) \/ WorkerEnds(d)
  BY <1>2, ReceiptStep, WorkerEndsStep
<1>3. CASE \E p \in Providers : QuotaError(p) \/ Clear(p)
  BY <1>3, QuotaErrorStep, ClearStep
<1>4. CASE \E p \in Providers, id \in {NoId} \cup {h.id : h \in file.holds} : ReportDone(p, id)
  BY <1>4, ReportDoneStep
<1>5. CASE \/ Tick
           \/ \E b \in Briefs : TaskEnds(b)
           \/ \E p \in Providers : \E a \in LoginsOf[p] : Login(p, a)
           \/ \E p \in Providers, a \in Accounts : \E probe \in ProbesOf[p] : Quota(p, a, probe)
           \/ \E p \in Providers, n \in 0 .. 1 : Managed(p, n)
  BY <1>5, OutsideStep, LegacyAssumption
<1>. QED
  BY <1>1, <1>2, <1>3, <1>4, <1>5 DEF Environment

LEMMA StepInv ==
  ASSUME LegacyInv, [Next]_vars PROVE LegacyInv'
BY CommandKeeps, EnvironmentKeeps, StutterStep DEF Next

(* What every command has in its hands, and that the holds of the file have   *)
(* an id and a dispatch of their own and stay what a command listed them as,  *)
(* whatever the others do between its steps.                                  *)
THEOREM LegacyInvariant == Spec => []LegacyInv
<1>1. Init => LegacyInv
  BY InitInv
<1>2. LegacyInv /\ [Next]_vars => LegacyInv'
  BY StepInv
<1>. QED
  BY <1>1, <1>2, PTL DEF Spec

LEMMA MadeIsRight ==
  ASSUME LegacyInv, NEW c \in Coords, NEW m \in MadeBy(c)
  PROVE  MadeRight(coord[c].ask, m)
<1>1. PICK s : s = coord[c]
  OBVIOUS
<1>2. CommandOK(s) /\ "made" \in DOMAIN s /\ m \in Range(s.made)
  BY <1>1 DEF LegacyInv, CoordsOK, MadeBy
<1>3. s.pc \in Single \cup Placing \cup {"decided"}
  BY <1>2 DEF CommandOK, Shape, Steps, Single, Placing
<1>4. Recommended(s.ask, s.made)
  BY <1>2, <1>3 DEF CommandOK
<1>5. PICK i \in 1 .. Len(s.made) : m = s.made[i]
  BY <1>2, <1>4, ListTyped DEF Recommended, Range
<1>. QED
  BY <1>1, <1>4, <1>5 DEF Recommended

(* Whatever the quota, the holds and the other coordinators do, a forbidden   *)
(* model is used only under the task's own exception and never reviews, and a *)
(* blocked decision holds nothing (decide's exclusions, hold_capacity).       *)
THEOREM PolicyIsHeld == Spec => []PolicyHolds
<1>1. LegacyInv => PolicyHolds
  BY MadeIsRight DEF PolicyHolds, MadeRight, RightFor, Dispatchable
<1>. QED
  BY <1>1, LegacyInvariant, PTL

(* Work goes to a model that can do it, at or above its floor, without models *)
(* that were tried, and to an independent reviewer (decide, rerun).           *)
THEOREM QualityIsKept == Spec => []QualityKept
<1>1. LegacyInv => QualityKept
  BY MadeIsRight DEF QualityKept, MadeRight, RightFor
<1>. QED
  BY <1>1, LegacyInvariant, PTL

----------------------------------------------------------------------------
(* Which steps change the holds                                              *)

LEMMA QuietCommands ==
  ASSUME FileOK, NEW c \in Coords,
         \/ ReadCache(c) \/ Bind(c) \/ Fetch(c) \/ Confirm(c) \/ SaveCache(c) \/ ReadBaseline(c)
         \/ SaveSnapshot(c) \/ Deny(c) \/ Look(c) \/ Log(c) \/ Place(c) \/ Wave(c) \/ Flush(c)
         \/ AskWorkers(c) \/ AskTasks(c) \/ Survey(c) \/ Finish(c)
  PROVE  file'.holds = file.holds
<1>1. CASE \/ ReadCache(c) \/ Bind(c) \/ Fetch(c) \/ Confirm(c) \/ ReadBaseline(c) \/ Look(c)
           \/ Wave(c) \/ AskWorkers(c) \/ AskTasks(c) \/ Survey(c) \/ Finish(c)
  BY <1>1 DEF ReadCache, Bind, Fetch, Confirm, ReadBaseline, Look, Wave, AskWorkers, AskTasks, Survey,
              Finish
<1>2. CASE SaveCache(c)
  <2>1. PICK cache : file' = [file EXCEPT !.cache = cache]
    BY <1>2 DEF SaveCache
  <2>. QED
    BY <2>1 DEF FileOK
<1>3. CASE SaveSnapshot(c)
  <2>1. PICK minutes : file' = [file EXCEPT !.snapshots = minutes]
    BY <1>3 DEF SaveSnapshot
  <2>. QED
    BY <2>1 DEF FileOK
<1>4. CASE Deny(c)
  <2>1. PICK denials : file' = [file EXCEPT !.denials = denials]
    BY <1>4 DEF Deny
  <2>. QED
    BY <2>1 DEF FileOK
<1>5. CASE Log(c)
  <2>1. PICK log : file' = [file EXCEPT !.decisions = log]
    BY <1>5 DEF Log
  <2>. QED
    BY <2>1 DEF FileOK
<1>6. CASE Place(c)
  <2>1. PICK task, d : PlaceAs(c, task, d)
    BY <1>6 DEF Place
  <2>2. \/ file' = file
        \/ file' = [file EXCEPT !.decisions =
                      Logged(file.decisions, Made(task, d, NoId), coord[c].ask.hold)]
    BY <2>1 DEF PlaceAs
  <2>3. file' = file \/ \E log : file' = [file EXCEPT !.decisions = log]
    BY <2>2, Zenon
  <2>. QED
    BY <2>3 DEF FileOK
<1>7. CASE Flush(c)
  <2>1. \/ file' = file
        \/ file' = [file EXCEPT !.decisions = Logged(file.decisions, Head(coord[c].unlogged), FALSE)]
    BY <1>7 DEF Flush
  <2>2. file' = file \/ \E log : file' = [file EXCEPT !.decisions = log]
    BY <2>1, Zenon
  <2>. QED
    BY <2>2 DEF FileOK
<1>. QED
  BY <1>1, <1>2, <1>3, <1>4, <1>5, <1>6, <1>7

LEMMA QuietSteps ==
  ASSUME FileOK,
         \/ UNCHANGED vars
         \/ \E c \in Coords, i \in 1 .. 2, d \in Dispatches, t \in Briefs \cup {"elsewhere"} :
              Launch(c, i, d, t)
         \/ \E d \in Dispatches : WorkerEnds(d)
         \/ \E b \in Briefs : TaskEnds(b)
         \/ \E p \in Providers : QuotaError(p) \/ Clear(p)
         \/ Tick
         \/ \E p \in Providers : \E a \in LoginsOf[p] : Login(p, a)
         \/ \E p \in Providers, a \in Accounts : \E probe \in ProbesOf[p] : Quota(p, a, probe)
         \/ \E p \in Providers, n \in 0 .. 1 : Managed(p, n)
  PROVE  file'.holds = file.holds
<1>1. CASE \E p \in Providers : QuotaError(p) \/ Clear(p)
  <2>1. PICK p \in Providers : QuotaError(p) \/ Clear(p)
    BY <1>1
  <2>2. CASE Clear(p)
    BY <2>2 DEF Clear, FileOK
  <2>3. CASE QuotaError(p)
    <3>1. PICK denials, until : file' = [file EXCEPT !.denials = denials, !.exhausted[p] = until,
                                                     !.cache = None]
      BY <2>3 DEF QuotaError
    <3>. QED
      BY <3>1 DEF FileOK
  <2>. QED
    BY <2>1, <2>2, <2>3
<1>2. CASE \/ UNCHANGED vars
           \/ \E c \in Coords, i \in 1 .. 2, d \in Dispatches, t \in Briefs \cup {"elsewhere"} :
                Launch(c, i, d, t)
           \/ \E d \in Dispatches : WorkerEnds(d)
           \/ \E b \in Briefs : TaskEnds(b)
           \/ Tick
           \/ \E p \in Providers : \E a \in LoginsOf[p] : Login(p, a)
           \/ \E p \in Providers, a \in Accounts : \E probe \in ProbesOf[p] : Quota(p, a, probe)
           \/ \E p \in Providers, n \in 0 .. 1 : Managed(p, n)
  BY <1>2 DEF vars, Launch, WorkerEnds, TaskEnds, Tick, Login, Quota, Managed
<1>. QED
  BY <1>1, <1>2

LEMMA HoldSteps ==
  ASSUME FileOK, [Next]_vars, file'.holds # file.holds
  PROVE  \/ \E c \in Coords : Hold(c) \/ Book(c) \/ ReleaseNext(c)
         \/ \E d \in Dispatches : Receipt(d)
         \/ \E p \in Providers : \E id : ReportDone(p, id)
<1>1. CASE \E c \in Coords : Command(c)
  BY <1>1, QuietCommands DEF Command
<1>2. CASE Environment
  BY <1>2, QuietSteps DEF Environment
<1>3. CASE UNCHANGED vars
  BY <1>3, QuietSteps
<1>. QED
  BY <1>1, <1>2, <1>3 DEF Next

(* What is new in the file comes from a route that was not refused, from a    *)
(* plan, or from the receipt of a dispatch that was not booked.               *)
LEMMA NewHolds ==
  ASSUME LegacyInv, [Next]_vars, NEW h \in file'.holds, h \notin file.holds
  PROVE  \/ /\ h.dispatch = NoId /\ h.provider \in Providers
            /\ ~Refuses(h.provider, SlotLimit[h.provider])
            /\ file'.holds = Swept(file.holds) \cup {h}
         \/ h.dispatch = NoId /\ h.by = "plan"
         \/ h.dispatch \in Dispatches /\ ~Booked(h.dispatch)
<1>1. ASSUME NEW hold, NEW limit, Reserve(hold, limit)
      PROVE  ~Refuses(hold.provider, limit) /\ file'.holds = Swept(file.holds) \cup {hold} /\ h = hold
  <2>1. file' # file
    OBVIOUS
  <2>2. /\ ~Refuses(hold.provider, limit)
        /\ file' = [file EXCEPT !.holds = Swept(@) \cup {hold}, !.serial = @ + 1]
    BY <1>1, <2>1 DEF Reserve
  <2>3. file'.holds = Swept(file.holds) \cup {hold}
    BY <2>2 DEF LegacyInv, FileOK
  <2>. QED
    BY <2>2, <2>3 DEF Swept
<1>2. ASSUME NEW c \in Coords, Hold(c)
      PROVE  /\ h.dispatch = NoId /\ h.provider \in Providers
             /\ ~Refuses(h.provider, SlotLimit[h.provider])
             /\ file'.holds = Swept(file.holds) \cup {h}
  <2>1. PICK m : m = coord[c].made[1]
    OBVIOUS
  <2>2. PICK p : p = m.decision.pick.provider
    OBVIOUS
  <2>3. Dispatchable(m.decision) /\ Reserve(HoldFor(m), SlotLimit[p])
    <3>1. file' # file
      OBVIOUS
    <3>. QED
      BY <1>2, <2>1, <2>2, <3>1 DEF Hold
  <2>4. PICK hold : hold = HoldFor(m)
    OBVIOUS
  <2>5. hold.dispatch = NoId /\ hold.provider = p
    BY <2>2, <2>4, FreshHold DEF HoldFor, LegacyInv
  <2>6. ~Refuses(p, SlotLimit[p]) /\ file'.holds = Swept(file.holds) \cup {hold} /\ h = hold
    BY <1>1, <2>3, <2>4, <2>5
  <2>7. p \in Providers
    <3>1. CommandOK(coord[c]) /\ coord[c].pc \in {"hold", "again"}
      BY <1>2 DEF LegacyInv, CoordsOK, Hold
    <3>2. Recommended(coord[c].ask, coord[c].made) /\ Len(coord[c].made) = 1
      BY <3>1 DEF CommandOK, Single
    <3>3. 1 \in 1 .. Len(coord[c].made)
      BY <3>2
    <3>4. m.decision.pick \in Candidates \cup {None}
      BY <2>1, <3>2, <3>3 DEF Recommended, MadeRight, RightFor
    <3>. QED
      BY <2>2, <2>3, <3>4, PolicyAssumption DEF Dispatchable
  <2>. QED
    BY <2>5, <2>6, <2>7
<1>3. ASSUME NEW c \in Coords, Book(c)
      PROVE  h.dispatch = NoId /\ h.by = "plan"
  <2>1. PICK m : m = coord[c].made[Len(coord[c].made)]
    OBVIOUS
  <2>2. PICK hold : hold = Fresh(m.decision.pick.provider, coord[c].points, m.task, m.task.brief,
                                UnconfirmedTTL, "plan")
    OBVIOUS
  <2>3. Reserve(hold, -1)
    BY <1>3, <2>1, <2>2 DEF Book
  <2>4. hold.dispatch = NoId /\ hold.by = "plan"
    BY <2>2, FreshHold DEF LegacyInv
  <2>. QED
    BY <1>1, <2>3, <2>4
<1>4. ASSUME NEW mine, file' = Released(mine)
      PROVE  FALSE
  <2>1. PICK rest : file' = [file EXCEPT !.holds = Swept(file.holds) \ rest]
    BY <1>4 DEF Released
  <2>2. file'.holds = Swept(file.holds) \ rest
    BY <2>1 DEF LegacyInv, FileOK
  <2>. QED
    BY <2>2 DEF Swept
<1>5. ASSUME NEW d \in Dispatches, Receipt(d)
      PROVE  h.dispatch \in Dispatches /\ ~Booked(h.dispatch)
  <2>1. ~Booked(d)
    BY <1>5 DEF Receipt
  <2>2. PICK held, bound :
          /\ HoldsOK((Swept(file.holds) \ {held}) \cup {bound}, file.serial + 1)
          /\ HoldsKept(file.holds, file.serial, (Swept(file.holds) \ {held}) \cup {bound})
          /\ bound.dispatch = d
          /\ held.id = file.serial \/ (held \in Swept(file.holds) /\ held.dispatch = NoId)
          /\ \E log : file' = [file EXCEPT !.holds = (Swept(@) \ {held}) \cup {bound},
                                           !.serial = @ + 1, !.decisions = log]
    <3>1. FileOK
      BY DEF LegacyInv
    <3>. QED
      BY <1>5, <2>1, <3>1, ReceiptBinds, LegacyAssumption, Zenon
  <2>3. file'.holds = (Swept(file.holds) \ {held}) \cup {bound}
    BY <2>2 DEF LegacyInv, FileOK
  <2>4. h = bound
    BY <2>3 DEF Swept
  <2>. QED
    BY <2>1, <2>2, <2>4
<1>6. \/ \E c \in Coords : Hold(c) \/ Book(c) \/ ReleaseNext(c)
      \/ \E d \in Dispatches : Receipt(d)
      \/ \E p \in Providers : \E id : ReportDone(p, id)
  BY HoldSteps DEF LegacyInv
<1>7. ~ (\E c \in Coords : ReleaseNext(c)) /\ ~ (\E p \in Providers : \E id : ReportDone(p, id))
  BY <1>4 DEF ReleaseNext, ReportDone
<1>. QED
  BY <1>2, <1>3, <1>5, <1>6, <1>7

(* When route takes a hold, the provider is within its limit by the lock's    *)
(* own count, whatever the others have reserved since its quota was read.     *)
THEOREM LastSlotIsOnce == Spec => LastSlotOnce
<1>1. ASSUME LegacyInv, [Next]_vars, NEW h \in file'.holds, h \notin file.holds,
             h.by = "route", h.dispatch = NoId
      PROVE  /\ Cardinality({k \in Of(file'.holds, h.provider) : k.migrated \/ k.expires > now}) <=
                  SlotLimit[h.provider]
             /\ managed[h.provider] = 0
  <2>1. /\ h.provider \in Providers /\ ~Refuses(h.provider, SlotLimit[h.provider])
        /\ file'.holds = Swept(file.holds) \cup {h}
    BY <1>1, NewHolds, LegacyAssumption
  <2>2. SlotLimit[h.provider] \in Nat /\ managed[h.provider] \in Nat
    BY <1>1, <2>1, PolicyAssumption DEF LegacyInv, WorldOK
  <2>3. managed[h.provider] = 0
    BY <2>1, <2>2 DEF Refuses
  <2>4. ~(Cardinality(Of(Swept(file.holds), h.provider)) >= SlotLimit[h.provider])
    BY <2>1, <2>2 DEF Refuses
  <2> DEFINE before == Of(Swept(file.holds), h.provider)
             after == {k \in Of(file'.holds, h.provider) : k.migrated \/ k.expires > now}
  <2>5. IsFiniteSet(before)
    <3>1. IsFiniteSet(file.holds) /\ before \subseteq file.holds
      BY <1>1 DEF LegacyInv, FileOK, HoldsOK, Of, Swept
    <3>. QED
      BY <3>1, FS_Subset
  <2>6. h \notin before
    BY <1>1 DEF Of, Swept
  <2>7. IsFiniteSet(before \cup {h}) /\ Cardinality(before \cup {h}) = Cardinality(before) + 1
        /\ Cardinality(before) \in Nat
    BY <2>5, <2>6, FS_AddElement, FS_CardinalityType
  <2>8. after \subseteq before \cup {h}
    BY <2>1 DEF Of
  <2>9. Cardinality(after) \in Nat /\ Cardinality(after) <= Cardinality(before) + 1
    BY <2>7, <2>8, FS_Subset, FS_CardinalityType
  <2>10. Cardinality(before) < SlotLimit[h.provider]
    BY <2>2, <2>4, <2>7
  <2>. QED
    BY <2>2, <2>3, <2>7, <2>9, <2>10
<1>2. LegacyInv /\ [Next]_vars =>
        [\A h \in file'.holds \ file.holds :
           h.by = "route" /\ h.dispatch = NoId =>
             /\ Cardinality({k \in Of(file'.holds, h.provider) : k.migrated \/ k.expires > now}) <=
                  SlotLimit[h.provider]
             /\ managed[h.provider] = 0]_vars
  BY <1>1
<1>. QED
  BY <1>2, LegacyInvariant, PTL DEF Spec, LastSlotOnce

(* A launch has one hold, and no new one as long as the log knows it.         *)
THEOREM BookedIsOnce == Spec => BookedOnce
<1>1. ASSUME LegacyInv, [Next]_vars, NEW d \in Dispatches
      PROVE  LET bound(f) == {h.id : h \in {k \in f.holds : k.dispatch = d}} IN
             /\ Cardinality(bound(file')) <= 1
             /\ Logs(d) => bound(file') \subseteq bound(file)
  <2> DEFINE mine == {k \in file'.holds : k.dispatch = d}
             ids == {h.id : h \in mine}
             before == {h.id : h \in {k \in file.holds : k.dispatch = d}}
  <2>1. d # NoId
    BY LegacyAssumption
  <2>2. Cardinality(ids) <= 1
    <3>1. \A h, k \in mine : h = k
      BY <1>1, <2>1, StepInv DEF LegacyInv, FileOK, HoldsOK, Distinct
    <3>2. CASE mine = {}
      <4>1. ids = {}
        BY <3>2
      <4>. QED
        BY <4>1, FS_EmptySet
    <3>3. CASE mine # {}
      <4>1. PICK id : ids = {id}
        <5>1. PICK h : h \in mine
          BY <3>3
        <5>2. mine = {h}
          BY <3>1, <5>1
        <5> HIDE DEF mine
        <5>3. ids = {h.id}
          BY <5>2
        <5>. QED
          BY <5>3
      <4> HIDE DEF ids
      <4>2. Cardinality(ids) = 1
        BY <4>1, FS_Singleton
      <4>. QED
        BY <4>2
    <3>. QED
      BY <3>2, <3>3
  <2>3. ASSUME Logs(d), NEW h \in mine
        PROVE  h.id \in before
    <3>1. CASE h \in file.holds
      BY <3>1
    <3>2. CASE h \notin file.holds
      <4>1. ~Booked(d)
        BY <1>1, <2>1, <3>2, NewHolds, LegacyAssumption
      <4>. QED
        BY <2>3, <4>1 DEF Booked
    <3>. QED
      BY <3>1, <3>2
  <2>. QED
    BY <2>2, <2>3
<1>2. LegacyInv /\ [Next]_vars =>
        [\A d \in Dispatches :
           LET bound(f) == {h.id : h \in {k \in f.holds : k.dispatch = d}} IN
           /\ Cardinality(bound(file')) <= 1
           /\ Logs(d) => bound(file') \subseteq bound(file)]_vars
  BY <1>1
<1>. QED
  BY <1>2, LegacyInvariant, PTL DEF Spec, BookedOnce

(* A command is changed by its own steps only.                                *)
LEMMA OwnSteps ==
  ASSUME LegacyInv, [Next]_vars, NEW c \in Coords, coord'[c] # coord[c]
  PROVE  Command(c)
<1>1. ASSUME NEW e \in Coords, NEW r, coord' = [coord EXCEPT ![e] = r]
      PROVE  e = c
  BY <1>1 DEF LegacyInv, CoordsOK
<1>2. ASSUME NEW e \in Coords,
             \/ ReadCache(e) \/ Bind(e) \/ Fetch(e) \/ Confirm(e) \/ SaveCache(e) \/ ReadBaseline(e)
             \/ Deny(e) \/ Look(e) \/ Log(e) \/ AskWorkers(e) \/ AskTasks(e) \/ Survey(e)
             \/ Finish(e)
      PROVE  e = c
  <2>1. \E r : coord' = [coord EXCEPT ![e] = r]
    BY <1>2 DEF ReadCache, Bind, Fetch, Confirm, SaveCache, ReadBaseline, Deny, Look, Log,
                AskWorkers, AskTasks, Survey, Finish
  <2>. QED
    BY <1>1, <2>1
<1>3. ASSUME NEW e \in Coords, Hold(e) \/ Book(e) \/ Wave(e)
      PROVE  e = c
  <2>1. \E r : coord' = [coord EXCEPT ![e] = r]
    BY <1>3 DEF Hold, Book, Wave
  <2>. QED
    BY <1>1, <2>1
<1>4. ASSUME NEW e \in Coords, SaveSnapshot(e) \/ ReleaseNext(e) \/ Flush(e)
      PROVE  e = c
  <2>1. \/ \E r : coord' = [coord EXCEPT ![e] = r]
        \/ \E pc : coord' = [coord EXCEPT ![e].pc = pc]
        \/ \E queue : coord' = [coord EXCEPT ![e].queue = queue]
        \/ \E unlogged : coord' = [coord EXCEPT ![e].unlogged = unlogged]
    BY <1>4 DEF SaveSnapshot, Goto, ReleaseNext, Flush
  <2>. QED
    BY <1>1, <2>1 DEF LegacyInv, CoordsOK
<1>5. ASSUME NEW e \in Coords, Place(e)
      PROVE  e = c
  <2>1. PICK task, d : PlaceAs(e, task, d)
    BY <1>5 DEF Place
  <2>2. \E r : coord' = [coord EXCEPT ![e] = r]
    BY <2>1 DEF PlaceAs
  <2>. QED
    BY <1>1, <2>2
<1>6. ASSUME Environment \/ UNCHANGED vars PROVE FALSE
  <2>1. coord' = coord
    BY <1>6 DEF Environment, vars, Launch, Receipt, WorkerEnds, TaskEnds, QuotaError, Clear,
                ReportDone, Tick, Login, Quota, Managed
  <2>. QED
    BY <2>1
<1>7. ASSUME NEW e \in Coords, Command(e)
      PROVE  Command(c)
  BY <1>2, <1>3, <1>4, <1>5, <1>7 DEF Command
<1>. QED
  BY <1>6, <1>7 DEF Next

(* What a command gives back is the hold that it listed: of a worker that has *)
(* ended, or not bound to a launch when it was listed.                        *)
THEOREM RunningIsKept == Spec => RunningKept
<1>1. ASSUME LegacyInv, [Next]_vars, NEW c \in Coords, NEW h \in file.holds, h \notin file'.holds,
             coord[c].pc = "release", coord'[c] # coord[c], Live(h), h.dispatch # NoId
      PROVE  \/ workers[h.dispatch].state = "settled"
             \/ \E q \in coord[c].queue : q.id = h.id /\ q.dispatch = NoId
  <2>1. Command(c)
    BY <1>1, OwnSteps
  <2>2. file'.holds # file.holds
    BY <1>1
  <2>3. Hold(c) \/ Book(c) \/ ReleaseNext(c)
    BY <1>1, <2>1, <2>2, QuietCommands DEF Command, LegacyInv
  <2>4. ReleaseNext(c)
    BY <1>1, <2>3 DEF Hold, Book
  <2>5. PICK queue : queue = coord[c].queue
    OBVIOUS
  <2>6. PICK q : q = Oldest(queue)
    OBVIOUS
  <2>7. PICK mine : mine = {k \in Swept(file.holds) : k.id = q.id /\ k.provider = q.provider}
    OBVIOUS
  <2>8. file' = Released(mine) /\ workers' = workers /\ queue # {}
    BY <2>4, <2>5, <2>6, <2>7 DEF ReleaseNext, orca
  <2>9. mine # {} /\ h = Oldest(mine)
    BY <1>1, <2>8, ReleasedOK DEF LegacyInv
  <2>10. \A k \in mine : k.id \in Nat
    BY <1>1, <2>7 DEF LegacyInv, FileOK, HoldsOK, Swept, IsHold
  <2>11. h \in mine /\ h.id = q.id
    BY <2>7, <2>9, <2>10, OldestIn
  <2>12. \A k \in queue :
           /\ k.id \in Nat
           /\ k.dispatch # NoId =>
                /\ Ended(k.dispatch)
                /\ \A g \in file.holds : g.id = k.id => g.dispatch = k.dispatch
    BY <1>1, <2>5 DEF LegacyInv, QueuesSettle, Settles
  <2>13. q \in queue
    BY <2>6, <2>8, <2>12, OldestIn
  <2>14. q.dispatch # NoId => Ended(h.dispatch)
    BY <1>1, <2>11, <2>12, <2>13
  <2>. QED
    BY <2>5, <2>11, <2>13, <2>14 DEF Ended
<1>2. LegacyInv /\ [Next]_vars =>
        [\A c \in Coords : \A h \in file.holds \ file'.holds :
           coord[c].pc = "release" /\ coord'[c] # coord[c] /\ Live(h) /\ h.dispatch # NoId =>
             \/ workers[h.dispatch].state = "settled"
             \/ \E q \in coord[c].queue : q.id = h.id /\ q.dispatch = NoId]_vars
  BY <1>1
<1>. QED
  BY <1>2, LegacyInvariant, PTL DEF Spec, RunningKept

----------------------------------------------------------------------------
(* Credentials                                                               *)

\* A credential is told by its stamp: an account that comes back has another.
Follows(before, after) ==
  before.stamp <= after.stamp /\ (before.stamp = after.stamp => before = after)
\* What a command bound, the credential that was answered and the one in use
\* now come in this order; a reading is used of the one that was bound.
Bindings(r) ==
  /\ r.pc \in {"fetch", "confirm"} => \A p \in Providers : Follows(r.bound[p], login[p])
  /\ r.pc = "confirm" => \A p \in Providers :
       /\ r.answers[p].by \in Credentials
       /\ Follows(r.bound[p], r.answers[p].by) /\ Follows(r.answers[p].by, login[p])
  /\ r.pc = "save" \/ (r.pc \in Knowing /\ r.fresh = TRUE) => \A p \in Providers :
       DOMAIN r.probes[p].buckets # {} => r.probes[p].by = r.probes[p].bound
BindingsOK == \A c \in Coords : Bindings(coord[c])

LEMMA LoginGrows ==
  ASSUME LegacyInv, [Next]_vars, NEW p \in Providers
  PROVE  login[p] \in Credentials /\ login'[p] \in Credentials /\ Follows(login[p], login'[p])
<1>1. login[p] \in Credentials
  BY DEF LegacyInv, WorldOK
<1>2. login'[p] \in Credentials
  BY StepInv DEF LegacyInv, WorldOK
<1>3. CASE login' = login
  BY <1>1, <1>3 DEF Follows, Credentials
<1>4. ASSUME NEW q \in Providers, NEW a \in LoginsOf[q], Login(q, a)
      PROVE  Follows(login[p], login'[p])
  <2>1. PICK credential : credential = [account |-> a, stamp |-> login[q].stamp + 1]
    OBVIOUS
  <2>2. login' = [login EXCEPT ![q] = credential] /\ credential.stamp = login[q].stamp + 1
    BY <1>4, <2>1 DEF Login
  <2>3. login'[p] = IF p = q THEN credential ELSE login[p]
    BY <2>2 DEF LegacyInv, WorldOK
  <2>. QED
    BY <1>1, <2>2, <2>3 DEF Follows, Credentials
<1>5. ASSUME NEW c \in Coords, Command(c) PROVE login' = login
  <2>1. CASE \E task, d : PlaceAs(c, task, d) /\ UNCHANGED outside
    BY <2>1 DEF outside
  <2>. QED
    BY <1>5, <2>1 DEF Command, ReadCache, Bind, Fetch, Confirm, SaveCache, ReadBaseline,
                      SaveSnapshot, Deny, Look, Hold, Log, Place, Book, Wave, Flush, AskWorkers,
                      AskTasks, Survey, ReleaseNext, Finish, outside
<1>6. ASSUME Environment, ~\E q \in Providers : \E a \in LoginsOf[q] : Login(q, a)
      PROVE  login' = login
  BY <1>6 DEF Environment, Launch, Receipt, WorkerEnds, TaskEnds, QuotaError, Clear, ReportDone,
              Tick, Quota, Managed, outside
<1>7. CASE UNCHANGED vars
  BY <1>3, <1>7 DEF vars, outside
<1>. QED
  BY <1>1, <1>2, <1>3, <1>4, <1>5, <1>6, <1>7 DEF Next

LEMMA FollowsOn ==
  ASSUME NEW x \in Credentials, NEW y \in Credentials, NEW z \in Credentials,
         Follows(x, y), Follows(y, z)
  PROVE  Follows(x, z)
BY DEF Follows, Credentials

(* The steps that neither bind nor read.                                      *)
LEMMA OtherSteps ==
  ASSUME LegacyInv, NEW c \in Coords,
         \/ Look(c) \/ Hold(c) \/ Log(c) \/ Place(c) \/ Book(c) \/ Wave(c) \/ Flush(c)
         \/ AskWorkers(c) \/ AskTasks(c) \/ Survey(c) \/ ReleaseNext(c) \/ Finish(c)
  PROVE  coord'[c].pc \notin {"fetch", "confirm"} \cup Knowing
<1>1. PICK s : s = coord[c]
  OBVIOUS
<1>2. "pc" \in DOMAIN s
  BY <1>1 DEF LegacyInv, CoordsOK, CommandOK, Shape, Steps
<1>3. ASSUME NEW r, coord' = [coord EXCEPT ![c] = r] PROVE coord'[c] = r
  BY <1>3 DEF LegacyInv, CoordsOK
<1>4. CASE Look(c)
  <2>1. PICK r : r = Start(s.ask, Elig(c))
    OBVIOUS
  <2>2. coord'[c] = r
    BY <1>1, <1>3, <1>4, <2>1 DEF Look
  <2>3. r.pc \in {"place", "hold", "log"}
    BY <2>1 DEF Start
  <2>. QED
    BY <2>2, <2>3 DEF Knowing
<1>5. CASE Log(c) \/ Finish(c) \/ AskWorkers(c) \/ AskTasks(c) \/ Survey(c)
  BY <1>3, <1>5 DEF Log, Finish, AskWorkers, AskTasks, Survey, Decided, Knowing
<1>6. CASE ReleaseNext(c)
  BY <1>1, <1>2, <1>6 DEF ReleaseNext, Knowing, LegacyInv, CoordsOK
<1>7. CASE Flush(c)
  <2>1. CASE s.unlogged = <<>>
    <3>1. coord'[c].pc = "decided"
      BY <1>1, <1>3, <1>7, <2>1 DEF Flush, Decided
    <3>. QED
      BY <3>1 DEF Knowing
  <2>2. CASE s.unlogged # <<>>
    <3>1. coord' = [coord EXCEPT ![c].unlogged = Tail(s.unlogged)] /\ s.pc = "flush"
      BY <1>1, <1>7, <2>2 DEF Flush
    <3>2. coord'[c].pc = "flush"
      BY <1>1, <1>2, <3>1 DEF LegacyInv, CoordsOK
    <3>. QED
      BY <3>2 DEF Knowing
  <2>. QED
    BY <2>1, <2>2
<1>8. CASE Wave(c)
  <2>1. coord'[c].pc \in {"place", "flush"}
    BY <1>1, <1>2, <1>8 DEF Wave, LegacyInv, CoordsOK
  <2>. QED
    BY <2>1 DEF Knowing
<1>9. CASE Book(c)
  <2>1. PICK made, hold : coord' = [coord EXCEPT ![c] = [s EXCEPT !.pc = "place", !.made[made].hold = hold]]
    BY <1>1, <1>9 DEF Book
  <2>. QED
    BY <1>2, <2>1 DEF Knowing, LegacyInv, CoordsOK
<1>10. CASE Hold(c)
  <2>1. PICK made, elig, hold :
          coord'[c] \in {[s EXCEPT !.pc = "log", !.made[1].hold = hold], [s EXCEPT !.pc = "log"],
                         [s EXCEPT !.pc = "again", !.elig = elig, !.made[1] = made]}
    BY <1>1, <1>10 DEF Hold, LegacyInv, CoordsOK
  <2>. QED
    BY <1>2, <2>1 DEF Knowing
<1>11. CASE Place(c)
  <2>1. PICK task, d : PlaceAs(c, task, d) /\ s.pc = "place"
    BY <1>1, <1>11 DEF Place
  <2>2. coord'[c].pc \in {"place", "book"}
    BY <1>1, <1>2, <2>1 DEF PlaceAs, LegacyInv, CoordsOK
  <2>. QED
    BY <2>2 DEF Knowing
<1>. QED
  BY <1>4, <1>5, <1>6, <1>7, <1>8, <1>9, <1>10, <1>11

LEMMA ProbeBound ==
  ASSUME NEW p, NEW answer, NEW bound, NEW probe, probe = Probe(p, answer, bound)
  PROVE  /\ probe.by = answer.by /\ probe.bound = bound
         /\ DOMAIN probe.buckets # {} => login[p] = bound
<1>1. PICK said : said = IF Confirmed(p, bound) THEN answer.said
                         ELSE [status |-> "account-changed", buckets |-> <<>>, free |-> FALSE,
                               unmetered |-> FALSE]
  OBVIOUS
<1>2. probe = [status |-> said.status, buckets |-> said.buckets, free |-> said.free,
               unmetered |-> said.unmetered, account |-> bound.account, bound |-> bound,
               by |-> answer.by]
  BY <1>1 DEF Probe
<1>3. probe.by = answer.by /\ probe.bound = bound /\ probe.buckets = said.buckets
  BY <1>2
<1>4. ~Confirmed(p, bound) => said.buckets = <<>>
  BY <1>1
<1>5. DOMAIN <<>> = {}
  OBVIOUS
<1>. QED
  BY <1>3, <1>4, <1>5 DEF Confirmed

LEMMA BindingsKept ==
  ASSUME LegacyInv, BindingsOK, [Next]_vars, NEW c \in Coords
  PROVE  Bindings(coord[c])'
<1>1. PICK s : s = coord[c]
  OBVIOUS
<1>2. CommandOK(s) /\ Bindings(s)
  BY <1>1 DEF LegacyInv, CoordsOK, BindingsOK
<1>3. ASSUME NEW r, coord' = [coord EXCEPT ![c] = r] PROVE coord'[c] = r
  BY <1>3 DEF LegacyInv, CoordsOK
<1>4. \A p \in Providers : /\ login[p] \in Credentials /\ login'[p] \in Credentials
                           /\ Follows(login[p], login'[p])
  BY LoginGrows
<1>5. CASE coord'[c] = coord[c]
  <2>1. s.pc \in {"fetch", "confirm"} => \A p \in Providers : Follows(s.bound[p], login'[p])
    BY <1>2, <1>4, FollowsOn DEF Bindings, CommandOK
  <2>2. s.pc = "confirm" => \A p \in Providers : Follows(s.answers[p].by, login'[p])
    BY <1>2, <1>4, FollowsOn DEF Bindings
  <2>. QED
    BY <1>1, <1>2, <1>5, <2>1, <2>2 DEF Bindings
<1>6. CASE coord'[c] # coord[c]
  <2>1. Command(c)
    BY <1>6, OwnSteps
  <2>2. CASE ReadCache(c)
    <3>1. PICK r : r = IF Cached(s.ask)
                       THEN [pc |-> "baseline", ask |-> s.ask, probes |-> file.cache.probes,
                             fresh |-> FALSE]
                       ELSE [pc |-> "bind", ask |-> s.ask, identity |-> login, fresh |-> TRUE]
      OBVIOUS
    <3>2. coord' = [coord EXCEPT ![c] = r]
      BY <1>1, <2>2, <3>1 DEF ReadCache
    <3>3. coord'[c] = r /\ (r.pc = "bind" \/ (r.pc = "baseline" /\ r.fresh = FALSE))
      BY <1>3, <3>1, <3>2
    <3>. QED
      BY <3>3 DEF Bindings, Knowing
  <2>3. CASE Bind(c)
    <3>1. PICK r : r = [pc |-> "fetch", ask |-> s.ask, identity |-> s.identity,
                        fresh |-> s.fresh, bound |-> login]
      OBVIOUS
    <3>2. coord' = [coord EXCEPT ![c] = r]
      BY <1>1, <2>3, <3>1 DEF Bind
    <3>3. coord'[c] = r /\ r.pc = "fetch" /\ r.bound = login
      BY <1>3, <3>1, <3>2
    <3>. QED
      BY <1>4, <3>3 DEF Bindings, Knowing
  <2>4. CASE Fetch(c)
    <3>1. PICK r : r = [pc |-> "confirm", ask |-> s.ask, identity |-> s.identity,
                        fresh |-> s.fresh, bound |-> s.bound,
                        answers |-> [p \in Providers |->
                          [said |-> reading[p][login[p].account], by |-> login[p]]]]
      OBVIOUS
    <3>2. coord'[c] = r /\ s.pc = "fetch" /\ login' = login
      BY <1>1, <1>3, <2>4, <3>1 DEF Fetch, outside
    <3>3. /\ r.pc = "confirm" /\ r.bound = s.bound
          /\ \A p \in Providers : r.answers[p].by = login[p]
      BY <3>1
    <3>4. \A p \in Providers : Follows(s.bound[p], login[p]) /\ Follows(login[p], login[p])
      BY <1>2, <1>4, <3>2 DEF Bindings
    <3>. QED
      BY <1>4, <3>2, <3>3, <3>4 DEF Bindings, Knowing
  <2>5. CASE Confirm(c)
    <3>1. PICK r : r = [pc |-> "save", ask |-> s.ask, identity |-> s.identity, fresh |-> TRUE,
                        probes |-> [p \in Providers |-> Probe(p, s.answers[p], s.bound[p])]]
      OBVIOUS
    <3>2. coord'[c] = r /\ s.pc = "confirm"
      BY <1>1, <1>3, <2>5, <3>1 DEF Confirm
    <3>3. r.pc = "save" /\ \A p \in Providers : r.probes[p] = Probe(p, s.answers[p], s.bound[p])
      BY <3>1
    <3>4. ASSUME NEW p \in Providers, DOMAIN r.probes[p].buckets # {}
          PROVE  r.probes[p].by = r.probes[p].bound
      <4>1. PICK probe : probe = r.probes[p]
        OBVIOUS
      <4>2. /\ probe.by = s.answers[p].by /\ probe.bound = s.bound[p]
            /\ s.bound[p] = login[p]
        BY <3>3, <3>4, <4>1, ProbeBound
      <4>3. s.answers[p].by = s.bound[p]
        BY <1>2, <1>4, <3>2, <4>2 DEF Bindings, Follows, Credentials
      <4>. QED
        BY <4>1, <4>2, <4>3
    <3>. QED
      BY <3>2, <3>3, <3>4 DEF Bindings, Knowing
  <2>6. CASE SaveCache(c)
    <3>1. PICK r : r = [pc |-> "baseline", ask |-> s.ask, probes |-> s.probes, fresh |-> TRUE]
      OBVIOUS
    <3>2. coord' = [coord EXCEPT ![c] = r] /\ s.pc = "save"
      BY <1>1, <2>6, <3>1 DEF SaveCache
    <3>3. coord'[c] = r /\ r.pc = "baseline" /\ r.probes = s.probes
      BY <1>3, <3>1, <3>2
    <3>. QED
      BY <1>2, <3>2, <3>3 DEF Bindings, Knowing
  <2>7. CASE ReadBaseline(c)
    <3>1. PICK r : r = [pc |-> IF s.fresh THEN "snapshot" ELSE "deny", ask |-> s.ask,
                        probes |-> s.probes, fresh |-> s.fresh, before |-> file.snapshots]
      OBVIOUS
    <3>2. coord' = [coord EXCEPT ![c] = r] /\ s.pc = "baseline"
      BY <1>1, <2>7, <3>1 DEF ReadBaseline
    <3>3. /\ coord'[c] = r /\ r.pc \in {"snapshot", "deny"}
          /\ r.probes = s.probes /\ r.fresh = s.fresh
      BY <1>3, <3>1, <3>2
    <3>. QED
      BY <1>2, <3>2, <3>3 DEF Bindings, Knowing
  <2>10. CASE Deny(c)
    <3>1. PICK denied : coord' = [coord EXCEPT ![c] =
            [pc |-> "look", ask |-> s.ask, probes |-> s.probes, fresh |-> s.fresh,
             before |-> s.before, denied |-> denied]] /\ s.pc = "deny"
      BY <1>1, <2>10 DEF Deny
    <3>2. PICK r : r = [pc |-> "look", ask |-> s.ask, probes |-> s.probes, fresh |-> s.fresh,
                        before |-> s.before, denied |-> denied]
      OBVIOUS
    <3>3. coord' = [coord EXCEPT ![c] = r]
      BY <3>1, <3>2
    <3>4. coord'[c] = r /\ r.pc = "look" /\ r.probes = s.probes /\ r.fresh = s.fresh
      BY <1>3, <3>2, <3>3
    <3>. QED
      BY <1>2, <3>1, <3>4 DEF Bindings, Knowing
  <2>8. CASE SaveSnapshot(c)
    <3>1. coord'[c] = [s EXCEPT !.pc = "deny"] /\ s.pc = "snapshot"
      BY <1>1, <2>8 DEF SaveSnapshot, Goto, LegacyInv, CoordsOK
    <3>2. DOMAIN s = {"pc", "ask", "probes", "fresh", "before"}
      BY <1>2, <3>1 DEF CommandOK, Shape
    <3>3. PICK r : coord'[c] = r /\ r.pc = "deny" /\ r.probes = s.probes /\ r.fresh = s.fresh
      BY <3>1, <3>2
    <3>. QED
      BY <1>2, <3>1, <3>3 DEF Bindings, Knowing
  <2>9. CASE \/ Look(c) \/ Hold(c) \/ Log(c) \/ Place(c) \/ Book(c) \/ Wave(c) \/ Flush(c)
             \/ AskWorkers(c) \/ AskTasks(c) \/ Survey(c) \/ ReleaseNext(c) \/ Finish(c)
    BY <2>9, OtherSteps DEF Bindings, Knowing
  <2>. QED
    BY <2>1, <2>2, <2>3, <2>4, <2>5, <2>6, <2>7, <2>8, <2>9, <2>10 DEF Command
<1>. QED
  BY <1>5, <1>6

(* A reading is only ever used of the credential that was bound before it.    *)
THEOREM ReadingsBound == Spec => []BindingsOK
<1>1. Init => BindingsOK
  BY DEF Init, BindingsOK, Bindings, Knowing
<1>2. LegacyInv /\ BindingsOK /\ [Next]_vars => BindingsOK'
  BY BindingsKept DEF BindingsOK
<1>. QED
  BY <1>1, <1>2, LegacyInvariant, PTL DEF Spec

----------------------------------------------------------------------------
(* Denials                                                                   *)

(* Steps that write another part of the file, or none.                        *)
LEMMA DenialSteps ==
  ASSUME FileOK, [Next]_vars, file'.denials # file.denials
  PROVE  \/ \E c \in Coords : Deny(c)
         \/ \E p \in Providers : QuotaError(p)
<1>1. ASSUME NEW c \in Coords, Hold(c) \/ Book(c) PROVE FALSE
  <2>1. (\E hold, limit : Reserve(hold, limit)) \/ file' = file
    BY <1>1 DEF Hold, Book
  <2>2. file' # file
    OBVIOUS
  <2>3. PICK holds, serial : file' = [file EXCEPT !.holds = holds, !.serial = serial]
    BY <2>1, <2>2 DEF Reserve
  <2>. QED
    BY <2>3 DEF FileOK
<1>2. ASSUME NEW mine, file' = Released(mine) PROVE FALSE
  <2>1. PICK holds : file' = [file EXCEPT !.holds = holds]
    BY <1>2 DEF Released
  <2>. QED
    BY <2>1 DEF FileOK
<1>3. ASSUME NEW d \in Dispatches, Receipt(d) PROVE FALSE
  <2>1. file' # file
    OBVIOUS
  <2>2. PICK holds, log : file' = [file EXCEPT !.holds = holds, !.serial = @ + 1, !.decisions = log]
    BY <1>3, <2>1 DEF Receipt
  <2>. QED
    BY <2>2 DEF FileOK
<1>4. ASSUME NEW c \in Coords, SaveCache(c) \/ SaveSnapshot(c) PROVE FALSE
  <2>1. \/ \E cache : file' = [file EXCEPT !.cache = cache]
        \/ \E minutes : file' = [file EXCEPT !.snapshots = minutes]
    BY <1>4 DEF SaveCache, SaveSnapshot
  <2>. QED
    BY <2>1 DEF FileOK
<1>5. ASSUME NEW c \in Coords, Log(c) \/ Place(c) \/ Flush(c) PROVE FALSE
  <2>1. file' = file \/ \E log : file' = [file EXCEPT !.decisions = log]
    <3>1. CASE Log(c)
      BY <3>1 DEF Log
    <3>2. CASE Place(c)
      <4>1. PICK task, d : PlaceAs(c, task, d)
        BY <3>2 DEF Place
      <4>2. \/ file' = file
            \/ file' = [file EXCEPT !.decisions =
                          Logged(file.decisions, Made(task, d, NoId), coord[c].ask.hold)]
        BY <4>1 DEF PlaceAs
      <4>. QED
        BY <4>2, Zenon
    <3>3. CASE Flush(c)
      <4>1. \/ file' = file
            \/ file' = [file EXCEPT !.decisions =
                          Logged(file.decisions, Head(coord[c].unlogged), FALSE)]
        BY <3>3 DEF Flush
      <4>. QED
        BY <4>1, Zenon
    <3>. QED
      BY <1>5, <3>1, <3>2, <3>3
  <2>. QED
    BY <2>1 DEF FileOK
<1>6. ASSUME NEW p \in Providers, Clear(p) PROVE FALSE
  BY <1>6 DEF Clear, FileOK
<1>7. ASSUME NEW c \in Coords, Command(c) PROVE Deny(c)
  <2>1. CASE \/ ReadCache(c) \/ Bind(c) \/ Fetch(c) \/ Confirm(c) \/ ReadBaseline(c) \/ Look(c)
             \/ Wave(c) \/ AskWorkers(c) \/ AskTasks(c) \/ Survey(c) \/ Finish(c)
    BY <2>1 DEF ReadCache, Bind, Fetch, Confirm, ReadBaseline, Look, Wave, AskWorkers, AskTasks, Survey,
                Finish
  <2>2. CASE ReleaseNext(c)
    BY <1>2, <2>2 DEF ReleaseNext
  <2>. QED
    BY <1>1, <1>4, <1>5, <1>7, <2>1, <2>2 DEF Command
<1>8. ASSUME Environment PROVE \E p \in Providers : QuotaError(p)
  <2>1. CASE \E p \in Providers, id \in {NoId} \cup {h.id : h \in file.holds} : ReportDone(p, id)
    BY <1>2, <2>1 DEF ReportDone
  <2>2. CASE \/ \E c \in Coords, i \in 1 .. 2, d \in Dispatches, t \in Briefs \cup {"elsewhere"} :
                  Launch(c, i, d, t)
             \/ \E d \in Dispatches : WorkerEnds(d)
             \/ \E b \in Briefs : TaskEnds(b)
             \/ Tick
             \/ \E p \in Providers : \E a \in LoginsOf[p] : Login(p, a)
             \/ \E p \in Providers, a \in Accounts : \E probe \in ProbesOf[p] : Quota(p, a, probe)
             \/ \E p \in Providers, n \in 0 .. 1 : Managed(p, n)
    BY <2>2 DEF Launch, WorkerEnds, TaskEnds, Tick, Login, Quota, Managed
  <2>. QED
    BY <1>3, <1>6, <1>8, <2>1, <2>2 DEF Environment
<1>. QED
  BY <1>7, <1>8 DEF Next, vars

\* A probe that measures what a denial is of, live and below its limit.
Reads(probe, id) ==
  /\ IF id = "account" THEN DOMAIN probe.buckets # {} ELSE id \in DOMAIN probe.buckets
  /\ \A b \in IF id = "account" THEN DOMAIN probe.buckets ELSE {id} :
       /\ probe.buckets[b].source = "live"
       /\ probe.buckets[b].percent \in 0 .. Full - 1

(* What eligibility() writes: a denial that was on record goes only when the  *)
(* same account gave a live and healthy reading.                              *)
LEMMA RecordedKeeps ==
  ASSUME LegacyAssumption, NEW denials, NEW p, NEW probe,
         \E ids \in SUBSET DOMAIN WindowOf : probe.buckets \in [ids -> Buckets],
         NEW d \in denials, d \notin Recorded(denials, p, probe)
  PROVE  \/ \E e \in Recorded(denials, p, probe) : e.scope = d.scope /\ e.id = d.id
         \/ d.scope = Scope(p, probe.account) /\ Reads(probe, d.id)
<1>1. d.scope = Scope(p, probe.account) /\ d.id \in Lifted(probe) \cup Refused(probe)
  BY DEF Recorded
<1>2. CASE d.id \in Refused(probe)
  <2>1. PICK e : e = [scope |-> Scope(p, probe.account), id |-> d.id, resets |-> ResetOf(probe, d.id)]
    OBVIOUS
  <2>2. e \in Recorded(denials, p, probe)
    BY <1>2, <2>1 DEF Recorded
  <2>3. e.scope = d.scope /\ e.id = d.id
    BY <1>1, <2>1
  <2>. QED
    BY <2>2, <2>3
<1>3. CASE d.id \in Lifted(probe)
  <2>1. ASSUME NEW b \in DOMAIN probe.buckets, Healthy(probe.buckets[b])
        PROVE  probe.buckets[b].source = "live" /\ probe.buckets[b].percent \in 0 .. Full - 1
    <3>1. PICK percent \in Nat \cup {Missing} : percent = probe.buckets[b].percent
      BY DEF Buckets
    <3>2. percent # Missing /\ ~(percent >= Full) /\ probe.buckets[b].source = "live"
      BY <2>1, <3>1 DEF Healthy, Denies
    <3>. QED
      BY <3>1, <3>2, PolicyAssumption
  <2>2. "account" \notin DOMAIN probe.buckets
    BY DEF LegacyAssumption
  <2>3. CASE d.id = "account"
    <3>1. DOMAIN probe.buckets # {} /\ \A b \in DOMAIN probe.buckets : Healthy(probe.buckets[b])
      BY <1>3, <2>2, <2>3 DEF Lifted
    <3>. QED
      BY <1>1, <2>1, <2>3, <3>1 DEF Reads
  <2>4. CASE d.id # "account"
    <3>1. d.id \in DOMAIN probe.buckets /\ Healthy(probe.buckets[d.id])
      BY <1>3, <2>4 DEF Lifted
    <3>. QED
      BY <1>1, <2>1, <2>4, <3>1 DEF Reads
  <2>. QED
    BY <2>3, <2>4
<1>. QED
  BY <1>1, <1>2, <1>3

(* A denial goes by a better reading of the same account only, and a provider *)
(* that a command knows to be denied is not its choice.                       *)
THEOREM DenialIsKept == Spec => DenialKept
<1>1. ASSUME LegacyInv, BindingsOK, [Next]_vars, NEW d \in file.denials, d \notin file'.denials
      PROVE  \/ \E e \in file'.denials : e.scope = d.scope /\ e.id = d.id
             \/ \E c \in Coords :
                  /\ coord[c].pc = "deny" /\ coord'[c].pc = "look" /\ coord[c].fresh
                  /\ LET probe == coord[c].probes[d.scope[1]] IN
                     /\ d.scope[2] = probe.account /\ probe.by = probe.bound
                     /\ IF d.id = "account" THEN DOMAIN probe.buckets # {}
                        ELSE d.id \in DOMAIN probe.buckets
                     /\ \A b \in IF d.id = "account" THEN DOMAIN probe.buckets ELSE {d.id} :
                          /\ probe.buckets[b].source = "live"
                          /\ probe.buckets[b].percent \in 0 .. Full - 1
  <2>1. (\E c \in Coords : Deny(c)) \/ (\E p \in Providers : QuotaError(p))
    BY <1>1, DenialSteps DEF LegacyInv
  <2>2. ASSUME NEW c \in Coords, Deny(c)
        PROVE  \/ \E e \in file'.denials : e.scope = d.scope /\ e.id = d.id
               \/ /\ coord[c].pc = "deny" /\ coord'[c].pc = "look" /\ coord[c].fresh
                  /\ LET probe == coord[c].probes[d.scope[1]] IN
                     /\ d.scope[2] = probe.account /\ probe.by = probe.bound
                     /\ IF d.id = "account" THEN DOMAIN probe.buckets # {}
                        ELSE d.id \in DOMAIN probe.buckets
                     /\ \A b \in IF d.id = "account" THEN DOMAIN probe.buckets ELSE {d.id} :
                          /\ probe.buckets[b].source = "live"
                          /\ probe.buckets[b].percent \in 0 .. Full - 1
    <3>1. PICK p \in Providers : p = d.scope[1]
      BY <1>1 DEF LegacyInv, FileOK
    <3>2. PICK probe : probe = coord[c].probes[p]
      OBVIOUS
    <3>3. \E ids \in SUBSET DOMAIN WindowOf : probe.buckets \in [ids -> Buckets]
      BY <1>1, <2>2, <3>2 DEF LegacyInv, CoordsOK, CommandOK, Deny, Knowing, ProbesOK
    <3>4. PICK merged : merged = UNION {{e \in Recorded(file.denials, q, coord[c].probes[q]) :
                                          e.scope[1] = q} : q \in Providers}
      OBVIOUS
    <3>5. /\ file' = [file EXCEPT !.denials = IF coord[c].fresh THEN merged ELSE file.denials]
          /\ coord[c].pc = "deny" /\ coord'[c].pc = "look"
      BY <1>1, <2>2, <3>4 DEF Deny, LegacyInv, CoordsOK
    <3>6. file'.denials = IF coord[c].fresh THEN merged ELSE file.denials
      BY <1>1, <3>5 DEF LegacyInv, FileOK
    <3>7. coord[c].fresh /\ file'.denials = merged
      BY <1>1, <3>6
    <3>8. \A e \in Recorded(file.denials, p, probe) : e.scope[1] = p => e \in file'.denials
      BY <3>2, <3>4, <3>7
    <3>9. d \notin Recorded(file.denials, p, probe)
      BY <1>1, <3>1, <3>8
    <3>10. CASE \E e \in Recorded(file.denials, p, probe) : e.scope = d.scope /\ e.id = d.id
      BY <3>1, <3>8, <3>10
    <3>11. CASE d.scope = Scope(p, probe.account) /\ Reads(probe, d.id)
      <4>1. d.scope[2] = probe.account
        BY <3>11 DEF Scope
      <4>2. DOMAIN probe.buckets # {}
        BY <3>11 DEF Reads
      <4>3. probe.by = probe.bound
        BY <1>1, <3>2, <3>5, <3>7, <4>2 DEF BindingsOK, Bindings, Knowing
      <4>. QED
        BY <3>1, <3>2, <3>5, <3>7, <3>11, <4>1, <4>3 DEF Reads
    <3>12. \/ \E e \in Recorded(file.denials, p, probe) : e.scope = d.scope /\ e.id = d.id
           \/ d.scope = Scope(p, probe.account) /\ Reads(probe, d.id)
      BY <3>3, <3>9, RecordedKeeps, LegacyAssumption, Zenon
    <3>. QED
      BY <3>10, <3>11, <3>12, Zenon
  <2>3. ASSUME NEW p \in Providers, QuotaError(p)
        PROVE  \E e \in file'.denials : e.scope = d.scope /\ e.id = d.id
    <3>1. PICK refused : refused = IF file.cache = None THEN {} ELSE DeniedBuckets(file.cache.probes[p])
      OBVIOUS
    <3>2. PICK before : before = {g \in file.denials : g.scope = Legacy(p)}
      OBVIOUS
    <3>3. PICK known : known = {g \in before : g.id \notin refused} \cup
            {[scope |-> Legacy(p), id |-> b, resets |-> ResetOf(file.cache.probes[p], b)] : b \in refused}
      OBVIOUS
    <3>4. PICK until : file' = [file EXCEPT !.denials = (@ \ before) \cup known,
                                            !.exhausted[p] = until, !.cache = None]
      BY <2>3, <3>1, <3>2, <3>3 DEF QuotaError
    <3>5. file'.denials = (file.denials \ before) \cup known
      BY <1>1, <3>4 DEF LegacyInv, FileOK
    <3>6. d.scope = Legacy(p) /\ d.id \in refused
      BY <1>1, <3>2, <3>3, <3>5
    <3>7. PICK e : e = [scope |-> Legacy(p), id |-> d.id,
                        resets |-> ResetOf(file.cache.probes[p], d.id)]
      OBVIOUS
    <3>8. e \in known /\ e.scope = d.scope /\ e.id = d.id
      BY <3>3, <3>6, <3>7
    <3>. QED
      BY <3>5, <3>8
  <2>. QED
    BY <2>1, <2>2, <2>3
<1>2. ASSUME LegacyInv, [Next]_vars, NEW c \in Coords,
             coord[c].pc = "look", coord'[c].pc \in {"hold", "log"},
             NEW m \in Range(coord'[c].made), m.decision.pick # None,
             NEW d \in coord[c].denied
      PROVE  LET p == m.decision.pick.provider IN
             d.scope \notin {Scope(p, coord[c].probes[p].account), Legacy(p)}
  <2>1. Command(c)
    BY <1>2, OwnSteps
  <2>2. Look(c)
    BY <1>2, <2>1 DEF Command, ReadCache, Deciding, Bind, Fetch, Confirm, SaveCache, ReadBaseline,
                      SaveSnapshot, Deny, Hold, Log, Place, Book, Wave, Flush, AskWorkers,
                      AskTasks, Survey, ReleaseNext, Finish
  <2>3. PICK s : s = coord[c]
    OBVIOUS
  <2>4. /\ CommandOK(s) /\ s.ask \in Asks /\ s.ask.cmd \in {"route", "rerun", "plan"}
    BY <1>2, <2>3 DEF LegacyInv, CoordsOK, CommandOK, Knowing
  <2>5. PICK elig : elig = Elig(c)
    OBVIOUS
  <2>6. EligOK(elig) /\ \A p \in Providers : elig[p].eligible => DeniedOf(c, p) = {}
    BY <1>2, <2>5, EligTyped, LegacyAssumption DEF LegacyInv
  <2>7. coord'[c] = Start(s.ask, elig)
    BY <1>2, <2>2, <2>3, <2>5 DEF Look, LegacyInv, CoordsOK
  <2>8. s.ask.cmd # "plan"
    BY <1>2, <2>7 DEF Start
  <2>9. PICK task : task = Head(s.ask.tasks)
    OBVIOUS
  <2>10. task \in Tasks
    BY <2>4, <2>8, <2>9 DEF Asks
  <2>11. PICK n : n = Made(task, Choose(s.ask, task, elig), NoId)
    OBVIOUS
  <2>12. MadeRight(s.ask, n) /\ (n.decision.pick = None \/ elig[n.decision.pick.provider].eligible)
    BY <2>4, <2>6, <2>10, <2>11, MadeOK
  <2>13. coord'[c].made = <<n>>
    BY <2>7, <2>8, <2>9, <2>11 DEF Start
  <2>14. m = n
    BY <1>2, <2>13 DEF Range
  <2>15. PICK p \in Providers : p = m.decision.pick.provider
    BY <1>2, <2>12, <2>14, PolicyAssumption DEF MadeRight, RightFor
  <2>16. DeniedOf(c, p) = {}
    BY <1>2, <2>6, <2>12, <2>14, <2>15
  <2>. QED
    BY <2>15, <2>16 DEF DeniedOf
<1>3. LegacyInv /\ BindingsOK /\ [Next]_vars =>
        [/\ \A d \in file.denials \ file'.denials :
          \/ \E e \in file'.denials : e.scope = d.scope /\ e.id = d.id
          \/ \E c \in Coords :
               /\ coord[c].pc = "deny" /\ coord'[c].pc = "look" /\ coord[c].fresh
               /\ LET probe == coord[c].probes[d.scope[1]] IN
                  /\ d.scope[2] = probe.account /\ probe.by = probe.bound
                  /\ IF d.id = "account" THEN DOMAIN probe.buckets # {}
                     ELSE d.id \in DOMAIN probe.buckets
                  /\ \A b \in IF d.id = "account" THEN DOMAIN probe.buckets ELSE {d.id} :
                       /\ probe.buckets[b].source = "live"
                       /\ probe.buckets[b].percent \in 0 .. Full - 1
         /\ \A c \in Coords :
              coord[c].pc = "look" /\ coord'[c].pc \in {"hold", "log"} =>
                \A m \in Range(coord'[c].made) :
                  m.decision.pick = None \/
                  LET p == m.decision.pick.provider IN
                  \A d \in coord[c].denied :
                    d.scope \notin {Scope(p, coord[c].probes[p].account), Legacy(p)}]_vars
  BY <1>1, <1>2
<1>. QED
  BY <1>3, LegacyInvariant, ReadingsBound, PTL DEF Spec, DenialKept
=============================================================================
