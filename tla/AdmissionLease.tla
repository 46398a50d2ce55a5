--------------------------- MODULE AdmissionLease ---------------------------
(***************************************************************************)
(* What the managed ledger promises to those who dispatch work, without     *)
(* requests, observations, receipts, leases running out or time.            *)
(*                                                                          *)
(* A lease is granted to a task on a pool, or not at all.  It is held until *)
(* the work is known to have stopped.  Work that was delivered closes its   *)
(* task to further leases until a review rejects it.                        *)
(***************************************************************************)
EXTENDS Integers, FiniteSets

CONSTANTS
  Leases,    \* identifiers of leases
  Tasks,     \* what leases are granted for
  Pools,     \* where capacity is counted
  Shares,    \* [Pools -> pools whose leases may run on this one]
  Limit      \* [Pools -> leases that may be held at a time]

VARIABLE leases   \* [granted Leases -> [task, pool, status]]

Held == {h \in DOMAIN leases : leases[h].status = "held"}
Load(pool) == {h \in Held : leases[h].pool \in Shares[pool]}

\* Statuses that keep a task from being leased again.
Closing == {"held", "delivered", "accepted"}

LeaseInit == leases = [h \in {} |-> {}]

\* One new lease, for a task open to it, that no pool is too full for.
Grant(h, task, pool) ==
  /\ h \notin DOMAIN leases
  /\ \A g \in DOMAIN leases :
       leases[g].task = task => leases[g].status \notin Closing
  /\ leases' = [g \in DOMAIN leases \cup {h} |->
                  IF g = h THEN [task |-> task, pool |-> pool, status |-> "held"]
                           ELSE leases[g]]
  /\ \A p \in Pools : pool \in Shares[p] => Cardinality(Load(p)') <= Limit[p]

Move(h, from, to) ==
  /\ h \in DOMAIN leases
  /\ leases[h].status = from
  /\ leases' = [leases EXCEPT ![h].status = to]

\* The work stopped, with or without a result.
Return(h) == \E to \in {"delivered", "void"} : Move(h, "held", to)

\* A result is reviewed.
Decide(h) == \E to \in {"accepted", "void"} : Move(h, "delivered", to)

LeaseNext ==
  \/ \E h \in Leases, task \in Tasks, pool \in Pools : Grant(h, task, pool)
  \/ \E h \in Leases : Return(h) \/ Decide(h)

LeaseSpec == LeaseInit /\ [][LeaseNext]_leases
=============================================================================
