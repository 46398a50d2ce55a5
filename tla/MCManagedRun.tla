---------------------------- MODULE MCManagedRun ----------------------------
(* Instances of managed runs: one slot, one task.                           *)
EXTENDS ManagedRun

OneIntent == {[task |-> "t1", spec |-> "s1", floor |-> 1]}
OneSlot == [p \in Providers |-> 1]
EventSet == AttemptIds \X Steps
Reports == {ReportFrom(c) : c \in Contexts}
NoLoad == {Unloaded}
============================================================================
