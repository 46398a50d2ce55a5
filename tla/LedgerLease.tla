----------------------------- MODULE LedgerLease -----------------------------
(* The ledger implements the leases of AdmissionLease: a row of its table     *)
(* attempts is a lease on the pool named by provider and quota identity.      *)
EXTENDS ManagedLedger

StatusOf(state) ==
  IF state \in Active THEN "held"
  ELSE IF state = "completed" THEN "delivered"
  ELSE IF state = "accepted" THEN "accepted" ELSE "void"

LeaseOf(row) == [task |-> row.intent.task, pool |-> RefOf(row),
                 status |-> StatusOf(row.state)]

Contract == INSTANCE AdmissionLease WITH
  Leases <- AttemptIds,
  Tasks <- {i.task : i \in Intents},
  Pools <- Refs,
  Shares <- [ref \in Refs |-> {ref, <<ref[1], Unattributed>>}],
  Limit <- [ref \in Refs |-> SlotLimit[ref[1]]],
  leases <- [a \in DOMAIN attempts |-> LeaseOf(attempts[a])]

\* Whatever the callers, the clock and the providers do, the ledger grants,
\* returns and decides leases one at a time and only as AdmissionLease allows:
\* expiry, renewal, receipts and late events never show.
LeaseContract == Contract!LeaseSpec
==============================================================================
