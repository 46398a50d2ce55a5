---------------------------- MODULE MCLegacyHolds ----------------------------
(* Three providers, seven models, and eight situations: what one coordinator  *)
(* decides under every judgment and reading; two coordinators and the last   *)
(* slot; a launch, its receipts and its settling; denials, logins and quota  *)
(* errors; a batch; migrated holds.                                         *)
EXTENDS LegacyHolds

Model(p, m) == [provider |-> p, model |-> m]
a1 == Model("p1", "a1")
a2 == Model("p1", "a2")
a3 == Model("p1", "a3")
x3 == Model("p1", "x3")
b1 == Model("p2", "b1")
b3 == Model("p2", "b3")
r0 == Model("p3", "r0")
ProviderSet == {"p1", "p2", "p3"}
Ladders == << <<a1, b1>>, <<a2, b1>>, <<x3, a3, b3, r0>> >>
Reviewers == <<x3, r0, a2, b1>>

Profile(family, top, bottom, capable) ==
  [family |-> family, maxBand |-> top, minTaskBand |-> bottom, capable |-> capable,
   retry |-> {}, reviewOnly |-> FALSE, efforts |-> <<"low", "high">>, effort |-> "low"]
ProfileOf ==
  a1 :> Profile("f", 1, 0, {"code"}) @@
  a2 :> Profile("f", 2, 0, {"code", "review"}) @@
  a3 :> [Profile("g", 3, 0, {"code", "review"}) EXCEPT !.retry = {"deep"}] @@
  x3 :> Profile("h", 3, 0, {"code", "deep", "review"}) @@
  b1 :> Profile("g", 2, 0, {"code", "review"}) @@
  b3 :> Profile("g", 3, 2, {"code", "deep", "review"}) @@
  r0 :> [Profile("k", 3, 0, {"review"}) EXCEPT !.reviewOnly = TRUE, !.efforts = <<>>, !.effort = "none"]
TaskProfileOf ==
  "routine" :> [requires |-> {"code"}, floor |-> 1] @@
  "design" :> [requires |-> {"deep"}, floor |-> 3] @@
  "high_stakes" :> [requires |-> {"code", "deep"}, floor |-> 3]
ForbiddenSet == {x3}
Costs == [c \in DOMAIN ProfileOf |-> IF c = r0 THEN 0 ELSE 1]
PremiumWindows ==
  [c \in DOMAIN ProfileOf |-> [t \in 0 .. MaxTime |->
     IF c # b1 THEN "none" ELSE IF t = 0 THEN "off-peak" ELSE "peak"]]
Reserves == "p1" :> 2 @@ "p2" :> 2 @@ "p3" :> 0
Slots == "p1" :> 1 @@ "p2" :> 2 @@ "p3" :> 2
Windows == "wk" :> 20
AccountSet == {Unattributed, "A", "B"}

----------------------------------------------------------------------------
Bucket(percent, resets, source, raw) ==
  [percent |-> percent, resets |-> resets, source |-> source, raw |-> raw]
Answer(status, bucket) ==
  [status |-> status, buckets |-> "wk" :> bucket, free |-> FALSE, unmetered |-> FALSE]
Good == Answer("ok", Bucket(4, 10, "live", "ok"))
Late == Answer("ok", Bucket(4, 12, "live", "ok"))
Ahead == Answer("ok", Bucket(12, 10, "live", "ok"))   \* over pace
Near == Answer("ok", Bucket(16, 2, "live", "ok"))     \* room for one cheap dispatch
Declined == Answer("ok", Bucket(Missing, Missing, "unavailable", "ok"))
Spent == Answer("ok", Bucket(20, 10, "live", "ok"))
Limited == Answer("ok", Bucket(Missing, 1, "live", "denied"))
Without(status) == [status |-> status, buckets |-> <<>>, free |-> FALSE, unmetered |-> FALSE]
Shut == Without("denied")
Empty == Without("empty")
Plan == [Without("ok") EXCEPT !.unmetered = TRUE]
Computed == Answer("ok", Bucket(4, 10, "computed", "ok"))
Free == [Without("ok") EXCEPT !.free = TRUE]

Reading(one, other, two) ==
  "p1" :> [a \in AccountSet |-> IF a = "B" THEN other ELSE one] @@
  "p2" :> [a \in AccountSet |-> two] @@ "p3" :> [a \in AccountSet |-> Free]
Logins == "p1" :> "A" @@ "p2" :> "A" @@ "p3" :> Unattributed
Changes ==
  "p1" :> {Good, Limited, Computed} @@ "p2" :> {} @@ "p3" :> {}

Signing == "p1" :> {"A", "B"} @@ "p2" :> {} @@ "p3" :> {}

Judge(tier, large, second, complete, destructive) ==
  [tier |-> tier, large |-> large, second |-> second, complete |-> complete,
   destructive |-> destructive, source |-> "heuristic"]
Routine == Judge("routine", FALSE, FALSE, TRUE, FALSE)
Judgments ==
  {Judge(t, l, s, TRUE, FALSE) : t \in DOMAIN TaskProfileOf, l, s \in BOOLEAN}
  \cup {Judge("routine", FALSE, FALSE, FALSE, FALSE), Judge("design", FALSE, FALSE, FALSE, TRUE)}
Task(brief, judgment) == [brief |-> brief, judgment |-> judgment]
Ask(cmd, tasks, hold, tried, exception) ==
  [cmd |-> cmd, tasks |-> tasks, fresh |-> FALSE, hold |-> hold, tried |-> tried,
   exception |-> exception]
Nothing == Ask("none", <<>>, FALSE, {}, None)
Settle == [Nothing EXCEPT !.cmd = "settle"]
RouteFor(brief) == Ask("route", <<Task(brief, Routine)>>, TRUE, {}, None)
Batch == Ask("plan", <<Task("t2", Judge("routine", FALSE, TRUE, TRUE, FALSE)),
                       Task("t3", Judge("routine", FALSE, FALSE, FALSE, FALSE)),
                       Task("t4", Routine)>>, TRUE, {}, None)
Wish(approved) == [model |-> x3, approved |-> approved]
Wishes == {None, Wish(TRUE), Wish(FALSE)}
Asked ==
  {Ask("route", <<Task("t1", j)>>, TRUE, {}, e) : j \in Judgments, e \in Wishes}
  \cup {Ask("rerun", <<Task("t1", j)>>, FALSE, tried, e) :
          j \in Judgments, e \in Wishes, tried \in {{a1}, {b1, a2}, {b3}}}

Calm == [launch |-> 0, done |-> 0, error |-> 0, clear |-> 0, tick |-> 0, login |-> 0,
         quota |-> 0, managed |-> 0]
Quiet ==
  [readings |-> {Reading(Good, Good, Good)}, login |-> Logins,
   managed |-> [p \in ProviderSet |-> 0], holds |-> {}, denials |-> {}, snapshots |-> {},
   asks |-> {}, workers |-> [d \in Dispatches |-> None], finished |-> {}, spare |-> Calm]
Two(one, two) == "c1" :> one @@ "c2" :> two

Minute(scope, at, percent) == [scope |-> scope, bucket |-> "wk", at |-> at, percent |-> percent]
Policy ==
  [Quiet EXCEPT
     !.readings = {Reading(one, one, two) : one \in {Good, Ahead, Near, Declined, Spent},
                                            two \in {Good, Late, Declined, Shut, Empty, Plan}},
     !.snapshots = {Minute(<<"p1", "A">>, -2, 2)},
     !.asks = {Two(a, Nothing) : a \in Asked}]
LastSlot ==
  [Quiet EXCEPT
     !.asks = {Two(RouteFor("t1"), RouteFor("t2"))},
     !.spare = [Calm EXCEPT !.managed = 2, !.done = 1, !.tick = 1]]
Batches ==
  [Quiet EXCEPT
     !.asks = {Two(RouteFor("t1"), Batch)},
     !.spare = [Calm EXCEPT !.managed = 1]]
Held(id, brief, expires, migrated) ==
  [id |-> id, provider |-> "p2", points |-> 2, brief |-> brief, worktree |-> brief,
   dispatch |-> NoId, expires |-> expires, migrated |-> migrated, by |-> "plan"]
Settling ==
  [Quiet EXCEPT
     !.readings = {Reading(Spent, Good, Good)},
     !.holds = {Held(1, "t1", 2, FALSE)},
     !.workers = [d \in Dispatches |->
        IF d = 1 THEN [state |-> "running", brief |-> "t1", pick |-> b1, worktree |-> "t1"]
        ELSE None],
     !.asks = {Two(RouteFor("t1"), Settle)},
     !.spare = [Calm EXCEPT !.launch = 1, !.tick = 1]]
Migrated ==
  [Quiet EXCEPT
     !.readings = {Reading(Spent, Good, Good)},
     !.holds = {Held(1, "t2", -1, TRUE), Held(2, "t2", 1, FALSE)},
     !.finished = {"t2"},
     !.asks = {Two(Settle, Settle)},
     !.spare = [Calm EXCEPT !.tick = 1, !.done = 1]]
Denied == {[scope |-> <<"p1", "A">>, id |-> "wk", resets |-> 1]}
LookAt(brief) == [RouteFor(brief) EXCEPT !.hold = FALSE]
Judged(brief) ==
  [LookAt(brief) EXCEPT !.tasks = <<Task(brief, [Routine EXCEPT !.source = "service"])>>]
Denials ==
  [Quiet EXCEPT
     !.readings = {Reading(Declined, Good, Spent)},
     !.denials = Denied,
     !.asks = {Two(LookAt("t1"), LookAt("t2"))},
     !.spare = [Calm EXCEPT !.quota = 1, !.login = 1]]
Switches ==
  [Denials EXCEPT !.asks = {Two(LookAt("t1"), Nothing)},
                  !.spare = [Calm EXCEPT !.quota = 1, !.login = 2]]
Cooldowns ==
  [Quiet EXCEPT
     !.readings = {Reading(one, Good, Spent) : one \in {Good, Limited, Shut}},
     !.asks = {Two(LookAt("t1"), Nothing), Two(LookAt("t1"), LookAt("t1")),
               Two(LookAt("t1"), Judged("t1"))},
     !.spare = [Calm EXCEPT !.error = 1, !.clear = 1, !.tick = 1]]
WorldSet == {Policy, LastSlot, Batches, Settling, Migrated, Denials, Switches,
             Cooldowns}
=============================================================================
