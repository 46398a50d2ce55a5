---------------------------- MODULE RoutingPolicy ----------------------------
(***************************************************************************)
(* Which model a task goes to (src/rightsize.py headroom, eligibility, pick, *)
(* decide, rerun): from what probes and state say of the providers to the   *)
(* model of the work and of its independent review.  No state of its own;   *)
(* LegacyHolds runs it in coordinators that share state.json.               *)
(*                                                                          *)
(* Abstractions: a candidate is provider and model, without an effort of    *)
(* its own; a judgment says whether its scores reach the thresholds; points *)
(* and percentages are integers, rates are compared by cross-multiplying;   *)
(* every candidate's model has a profile; notes and reasons are left out.   *)
(* Costs, reserves and percentages are counted in half points, so that an   *)
(* off-peak dispatch at half price is an integer too.                       *)
(***************************************************************************)
EXTENDS Integers, Sequences, FiniteSets, SequencesExt, FiniteSetsExt

CONSTANTS
  Providers,
  Bands,         \* config bands: [1..3 -> sequence of candidates]
  ReviewLadder,  \* config review_ladder
  Profiles,      \* model_profiles: [candidates -> Profile]
  TaskProfiles,  \* task_profiles: [tiers -> [requires, floor]]
  Forbidden,     \* model_policy.forbidden
  CostOf,        \* dispatch_cost of a candidate at band 1, in points
  PremiumAt,     \* peak_windows: [candidates -> [times -> pricing window]]
  ReserveOf,     \* reserves
  SlotLimit,     \* max_inflight
  WindowOf,      \* length of a quota window, 0 when unknown
  MinSample,     \* shortest time a burn rate is measured over
  StaleReading,  \* how long a remembered reading stands in for a missing one
  Full           \* 100 per cent

None == [none |-> TRUE]
Missing == -1      \* a percentage or a reset nobody knows
Never == 1000000   \* resets_at of a bucket that never resets
Candidates == DOMAIN Profiles
Tiers == DOMAIN TaskProfiles

\* source: who judged, the service, the heuristic or the caller.
Judgment == [tier : Tiers, large : BOOLEAN, second : BOOLEAN,
             complete : BOOLEAN, destructive : BOOLEAN, source : STRING]
Exception == [model : Forbidden, approved : BOOLEAN]

ASSUME PolicyAssumption ==
  /\ Bands \in [1 .. 3 -> Seq(Candidates)] /\ ReviewLadder \in Seq(Candidates)
  /\ Forbidden \subseteq Candidates
  /\ CostOf \in [Candidates -> Nat]
  /\ {ReserveOf, SlotLimit} \subseteq [Providers -> Nat]
  /\ StaleReading \in Nat /\ Full \in Nat \ {0}
  /\ \A c \in Candidates : c.provider \in Providers
  /\ \A c \in Candidates : Profiles[c].maxBand \in Nat
  /\ None \notin Candidates
  /\ \A t \in Tiers : TaskProfiles[t].floor \in 1 .. 3

----------------------------------------------------------------------------
(* Quota: headroom() of one probe *)

\* A reading the provider declined this minute is remembered, not unknown.
Remembered(bucket, before, now) ==
  IF bucket.percent # Missing \/ bucket.source # "unavailable" THEN bucket
  ELSE IF before # None /\ now - before.at < StaleReading
       THEN [bucket EXCEPT !.percent = before.percent, !.source = "remembered"]
       ELSE [bucket EXCEPT !.source = "expired-reading"]

\* bucket_pace(): on course to run out before the reset, at the average rate.
OverPace(id, percent, resets, now) ==
  LET window == WindowOf[id]
      elapsed == window - (resets - now)
  IN /\ window > 0 /\ resets # Missing /\ 50 * percent >= Full
     /\ 20 * elapsed >= window
     /\ percent * window > Full * elapsed
\* The same at the rate measured since the previous reading.
BurnsOver(id, bucket, before, now) ==
  LET sample == now - before.at
      climb == bucket.percent - before.percent
  IN /\ bucket.percent # Missing /\ bucket.resets # Missing /\ before # None
     /\ WindowOf[id] > 0 /\ 20 * sample >= WindowOf[id] /\ sample >= MinSample /\ climb > 0
     /\ bucket.percent * sample + climb * Max({0, bucket.resets - now}) > Full * sample

\* headroom() of buckets whose missing readings are filled in.
Room(buckets, reserve, before, now) ==
  LET read == {b \in DOMAIN buckets : buckets[b].percent # Missing}
      most == Max({buckets[b].percent : b \in read})
      worst == CHOOSE b \in read : buckets[b].percent = most
      burns == \E b \in DOMAIN buckets : BurnsOver(b, buckets[b], before[b], now)
  IN [usable |-> IF read = {} THEN Missing - Full ELSE Full - most - reserve,
      measured |-> read # {},
      unknown |-> read = {} \/ \E b \in DOMAIN buckets : buckets[b].source = "expired-reading",
      resets |-> IF read = {} \/ buckets[worst].resets = Missing THEN Never
                 ELSE buckets[worst].resets,
      burns |-> read # {} /\ burns,
      overrun |-> /\ read # {}
                  /\ \/ burns
                     \/ \E b \in read : OverPace(b, buckets[b].percent, buckets[b].resets, now)]

Headroom(probe, reserve, before, now) ==
  Room([b \in DOMAIN probe.buckets |-> Remembered(probe.buckets[b], before[b], now)],
       reserve, before, now)

\* denied_buckets(): a refusal is stronger evidence than a missing percentage.
Denies(bucket) == bucket.raw = "denied" \/ bucket.percent >= Full
DeniedBuckets(probe) == {b \in DOMAIN probe.buckets : Denies(probe.buckets[b])}

\* dispatch_cost(), off-peak dispatches at half price.
Window(c, now) == PremiumAt[c][now]
DispatchCost(c, band, now) ==
  CostOf[c] * band * (IF Window(c, now) = "off-peak" THEN 1 ELSE 2)
StandardCost(c, band) == CostOf[c] * band * 2

\* admission_block(): the reserve floor, and the cost of a candidate above it.
BelowReserve(info) == info.measured /\ info.usable <= 0
Unaffordable(info, cost) == info.measured /\ (info.usable <= 0 \/ info.usable < cost)

\* What a probe can say of a provider that keeps it out; an empty answer does
\* not, and leaves it unmeasured.
Blocking == {"error", "no-credential", "ambiguous", "invalid-binding", "account-changed",
             "reauth-required", "denied"}
\* eligibility() of one provider, given the denials known of it, its cooldown
\* and what is in flight there.
Row(p, probe, info, denied, until, load, now) ==
  LET hard == \/ denied # {} \/ DeniedBuckets(probe) # {}
              \/ probe.status \in Blocking
              \/ until > now
  IN [usable |-> info.usable, measured |-> info.measured, unknown |-> info.unknown,
      resets |-> info.resets, burns |-> info.burns, overrun |-> info.overrun,
      free |-> probe.free, unmetered |-> probe.unmetered, buckets |-> probe.buckets,
      reserved |-> load.points, inflight |-> load.slots,
      hard |-> hard \/ (load.slots < SlotLimit[p] /\ BelowReserve(info)),
      eligible |-> ~hard /\ load.slots < SlotLimit[p] /\ ~BelowReserve(info)]
Eligibility(p, probe, before, denied, until, load, now) ==
  Row(p, probe,
      [Headroom(probe, ReserveOf[p], before, now) EXCEPT !.usable = @ - load.points],
      denied, until, load, now)

\* debit(): a batch spends its estimates in this process.
Debit(elig, p, cost, now) ==
  LET info == elig[p]
      spent == info.reserved + cost
      left == [info EXCEPT !.usable = @ - cost, !.reserved = spent, !.inflight = @ + 1]
      paced == \E b \in DOMAIN info.buckets :
                  /\ info.buckets[b].percent # Missing
                  /\ OverPace(b, info.buckets[b].percent + spent, info.buckets[b].resets, now)
  IN [elig EXCEPT ![p] =
        [left EXCEPT
           !.overrun = left.overrun \/ paced,
           !.eligible = left.eligible /\ left.inflight < SlotLimit[p] /\ ~BelowReserve(left)]]
\* start_wave(): slots come back, the quota spent does not.
StartWave(elig) ==
  [p \in DOMAIN elig |->
     [elig[p] EXCEPT !.inflight = 0,
                     !.eligible = ~elig[p].hard /\ ~BelowReserve(elig[p])]]

----------------------------------------------------------------------------
(* Fitness: qualified_candidates() and effort_for() *)

BandFor(judgment) ==
  LET start == IF judgment.tier \in {"design", "diagnosis", "high_stakes"} THEN 3 ELSE 1
  IN IF start < 3 /\ judgment.large THEN start + 1 ELSE start

Required(profile, tier, review) ==
  IF ~review THEN TaskProfiles[tier].requires
  ELSE IF profile.reviewOnly THEN {"review"}
  ELSE TaskProfiles[tier].requires \cup {"review"}
Capable(profile, tier, review, attempt) ==
  IF profile.retry # {} /\ attempt > 0
  THEN Required(profile, tier, review) \subseteq profile.capable \cup profile.retry
  ELSE /\ Required(profile, tier, review) \subseteq profile.capable
       /\ profile.effort \in Range(profile.efforts) \cup {"none"}
Fits(c, judgment, floor, review, attempt) ==
  LET profile == Profiles[c] IN
  /\ profile.maxBand >= floor
  /\ profile.minTaskBand <= TaskProfiles[judgment.tier].floor
  /\ Capable(profile, judgment.tier, review, attempt)
\* The places of a ladder whose candidates are fit for the task.
Qualified(ladder, judgment, floor, review, attempt) ==
  {i \in DOMAIN ladder : Fits(ladder[i], judgment, floor, review, attempt)}

\* A retry, a wide change or an irreversible step: more effort, as far as the
\* model's levels go.
EffortFor(c, judgment, attempt) ==
  LET levels == Profiles[c].efforts
      base == Profiles[c].effort
      bump == attempt + IF judgment.large \/ judgment.destructive THEN 1 ELSE 0
      index == CHOOSE i \in 1 .. Len(levels) : levels[i] = base
  IN IF base \notin Range(levels) THEN "none"
     ELSE levels[Min({index + bump, Len(levels)})]

----------------------------------------------------------------------------
(* pick(): the gates every candidate of every role passes, and the order *)

Unmeasured(info) == (~info.measured \/ info.unknown) /\ ~info.free /\ ~info.unmetered
Admits(c, elig, band, excluded, relax, now) ==
  LET info == elig[c.provider] IN
  /\ c \notin excluded
  /\ info.eligible
  /\ Window(c, now) \notin {"peak", "unknown"}
  /\ ~(Unmeasured(info) /\ band < 3)
  /\ ~(info.overrun /\ band < 3 /\ ~(relax /\ ~info.burns))
  /\ ~Unaffordable(info, DispatchCost(c, band, now))

\* Difficult work follows the ladder; cheap work takes the bucket that resets
\* soonest.
Precedes(ladder, elig, band, i, j) ==
  LET soon(k) == elig[ladder[k].provider].resets IN
  IF band >= 3 THEN i <= j
  ELSE soon(i) < soon(j) \/ (soon(i) = soon(j) /\ i <= j)
Pick(ladder, places, elig, band, excluded, relax, now) ==
  LET open == {i \in places : Admits(ladder[i], elig, band, excluded, relax, now)}
  IN IF open = {} THEN None
     ELSE ladder[CHOOSE i \in open : \A j \in open : Precedes(ladder, elig, band, i, j)]

----------------------------------------------------------------------------
(* decide() *)

Floor(judgment, retryFloor) ==
  Min({3, Max({BandFor(judgment), retryFloor, TaskProfiles[judgment.tier].floor})})

PickAt(b, relax, judgment, elig, floor, excluded, attempt, now) ==
  Pick(Bands[b], Qualified(Bands[b], judgment, floor, FALSE, attempt), elig, b,
       excluded, relax, now)
\* The implementer: the floor's band, the same with forecast pacing relaxed,
\* then the bands above.
Implementer(judgment, elig, floor, fallback, excluded, attempt, now) ==
  LET at(b, relax) == PickAt(b, relax, judgment, elig, floor, excluded, attempt, now)
      relaxed == IF fallback /\ floor < 3 THEN at(floor, TRUE) ELSE None
      higher == {b \in floor + 1 .. 3 : fallback /\ at(b, FALSE) # None}
  IN IF at(floor, FALSE) # None THEN [band |-> floor, pick |-> at(floor, FALSE)]
     ELSE IF relaxed # None THEN [band |-> floor, pick |-> relaxed]
     ELSE IF higher # {} THEN [band |-> Min(higher), pick |-> at(Min(higher), FALSE)]
     ELSE [band |-> floor, pick |-> None]

\* Policy, not capacity, left nobody to choose.
PolicyEmptied(judgment, floor, fallback, barred, attempt) ==
  LET tried == UNION {{Bands[b][i] : i \in Qualified(Bands[b], judgment, floor, FALSE, attempt)} :
                        b \in IF fallback THEN floor .. 3 ELSE {floor}}
  IN tried # {} /\ tried \subseteq barred

ReviewRequired(judgment) == judgment.tier = "high_stakes" \/ judgment.second
Independent(c, author) ==
  /\ c.provider # author.provider
  /\ Profiles[c].family # Profiles[author].family
Reviewer(judgment, elig, floor, author, excluded, attempt, now) ==
  LET ladder == IF floor = 1 THEN ReviewLadder ELSE Bands[floor]
      others == {i \in Qualified(ladder, judgment, floor, TRUE, attempt) :
                   Independent(ladder[i], author)}
  IN Pick(ladder, others, elig, floor, excluded, FALSE, now)

\* The exclusions of the two roles: an exception lifts its model for the work,
\* never for the review of it.
Barred(exception) == Forbidden \ (IF exception = None THEN {} ELSE {exception.model})
\* Mutant: the exception lifts its model for every role.
LiftedForReview(tried, exception) == tried \cup Barred(exception)
ReviewExcluded(tried, exception) == tried \cup Forbidden

\* The decision about a task, given the candidate for the work.
Decision(judgment, elig, fallback, floor, tried, exception, work, now) ==
  LET attempt == Cardinality(tried)
      chosen == work.pick # None
      lifted == exception # None /\ work.pick = exception.model
  IN [pick |-> work.pick, band |-> work.band, floor |-> floor,
      effort |-> IF chosen THEN EffortFor(work.pick, judgment, attempt) ELSE "none",
      review |-> IF chosen /\ ReviewRequired(judgment)
                 THEN Reviewer(judgment, elig, floor, work.pick,
                               ReviewExcluded(tried, exception), attempt, now)
                 ELSE None,
      blocked |-> IF ~judgment.complete THEN "spec"
                  ELSE IF /\ ~chosen
                          /\ PolicyEmptied(judgment, floor, fallback, Barred(exception), attempt)
                       THEN "policy"
                  ELSE IF lifted /\ ~exception.approved THEN "pending" ELSE "none",
      confirm |-> judgment.destructive]
DecideAt(floor, judgment, elig, fallback, tried, exception, now) ==
  Decision(judgment, elig, fallback, floor, tried, exception,
           Implementer(judgment, elig, floor, fallback, tried \cup Barred(exception),
                       Cardinality(tried), now), now)
Decide(judgment, elig, fallback, retryFloor, tried, exception, now) ==
  DecideAt(Floor(judgment, retryFloor), judgment, elig, fallback, tried, exception, now)

\* Mutant: the band of the last attempt is tried again.
SameBand(tried) ==
  Max({0} \cup {b \in 1 .. 3 : Range(Bands[b]) \cap tried # {}})
\* rerun(): one band above where the task was tried, without those models.
RetryFloor(tried) ==
  Max({0} \cup {b + 1 : b \in {n \in 1 .. 3 : Range(Bands[n]) \cap tried # {}}})
=============================================================================
