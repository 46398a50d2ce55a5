------------------------------ MODULE MCPilotRun ------------------------------
(* Two tasks in opposite orders; p1 is stopped by its attempts, p2 by points.*)
EXTENDS PilotRun

TaskList == <<"t1", "t2">>
Orders == "t1" :> <<"baseline", "candidate">> @@ "t2" :> <<"candidate", "baseline">>
CaseSet == {[v \in Variants |-> "p1"],
            [v \in Variants |-> IF v = "baseline" THEN None ELSE "p2"]}
Ceilings == "p1" :> [attempts |-> 2, points |-> 5, tokens |-> 2] @@
            "p2" :> [attempts |-> 3, points |-> 1, tokens |-> 1]
Points == "p1" :> 2 @@ "p2" :> 1

\* At most three entries, two when a creation went without an answer.
FewEntries == Len(disk.entries) <= IF lost = {} THEN 3 ELSE 2
===============================================================================
