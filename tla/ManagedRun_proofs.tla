-------------------------- MODULE ManagedRun_proofs --------------------------
(***************************************************************************)
(* What holds of every number of executors, attempts and crashes.           *)
(*                                                                          *)
(* One inductive invariant, RunInv: the owner lock is exclusive, and for    *)
(* every attempt and every program point it says how the row in the ledger, *)
(* the native turn and what the owner believes belong together.  It also    *)
(* makes a run a behaviour of the ledger, so that the ledger's theorems     *)
(* apply to it.                                                             *)
(***************************************************************************)
EXTENDS ManagedRun, ManagedLedger_proofs

RunTypes ==
  /\ exec \in [Executors -> {Off} \cup Running]
  /\ \A x \in Executors : exec[x] # Off => On(x) \in DOMAIN attempts
  /\ opened \subseteq DOMAIN attempts
  /\ turn \in [AttemptIds -> TurnStates]
  /\ submits \in [AttemptIds -> Nat]
  /\ interrupted \subseteq AttemptIds
  /\ journal \in [AttemptIds -> TurnOutcomes \cup {"none"}]
  /\ crashes \in Nat

\* Who holds owner.lock of the attempt it works on.
Holding(x) == exec[x] # Off /\ ~At(x, "locking")
OwnerExclusive ==
  \A x, y \in Executors : Holding(x) /\ Holding(y) /\ On(x) = On(y) => x = y

\* The ledger still holds the capacity of a, and somebody claimed it.
Claimed(a) == IsActive(attempts, a) /\ attempts[a].state # "admitted"

\* What a row may claim of the native turn (ToldTrue, for one attempt).
RowTold(a) ==
  LET state == attempts[a].state IN
  /\ state = "launch_failed" => submits[a] = 0
  /\ state = "cancelled" => submits[a] = 0 \/ turn[a] = "cancelled"
  /\ state \in {"completed"} \cup Verdicts => turn[a] = "completed"
  /\ state \in TurnOutcomes \ {"cancelled", "completed"} => turn[a] = state

\* What the row of an attempt remembers of its launch.
RowFacts(a) ==
  /\ ~attempts[a].mismatch
  /\ attempts[a].state \in {"started", "producing"} => attempts[a].receipt # "none"
  /\ attempts[a].prepared \/ attempts[a].receipt # "none"
       => attempts[a].state # "admitted"

AttemptInv(a) ==
  /\ submits[a] \in {0, 1}
  /\ submits[a] = 0 <=> turn[a] = "none"
  /\ submits[a] # 0 => a \in DOMAIN attempts /\ attempts[a].state # "admitted"
  /\ turn[a] = "running" => IsActive(attempts, a)
  /\ journal[a] # "none" => journal[a] = turn[a]
  /\ a \in DOMAIN attempts => RowFacts(a) /\ RowTold(a)

\* Program points before the prompt is sent, and those that act on the end of
\* the turn.
Unsent == {"setup", "prepared", "submitting", "noLaunch", "noLaunchSettle"}
PointInv(x) ==
  /\ exec[x].pc \in Unsent => Claimed(On(x)) /\ submits[On(x)] = 0
  /\ At(x, "noLaunchSettle") => exec[x].kind \in {"cancelled", "launch_failed"}
  /\ exec[x].pc \in {"finish", "recBind", "recSettle"} =>
       exec[x].kind = turn[On(x)] /\ exec[x].kind \in TurnOutcomes
  /\ exec[x].pc \in {"recovering", "reading", "recFail"} => exec[x].kind = "none"
  /\ At(x, "reading") =>
       \/ Claimed(On(x))
       \/ ~RowOn(x).prepared /\ RowOn(x).receipt = "none"
  /\ exec[x].pc \in {"recBind", "recSettle"} => Claimed(On(x))
  /\ At(x, "recBind") => RowOn(x).receipt = "none"
  /\ At(x, "recSettle") => RowOn(x).receipt # "none"

RunInv ==
  /\ TypeOK /\ RunTypes /\ OwnerExclusive
  /\ \A a \in AttemptIds : AttemptInv(a)
  /\ \A x \in Executors : PointInv(x)

-----------------------------------------------------------------------------
(* What the others may do to an attempt.                                      *)

\* Its row: the user cancels or reviews, a sweep finds its lease overdue, a
\* lease is renewed, and its owner claims it, records output or loses track.
RowUndisturbed(a) ==
  /\ a \in DOMAIN attempts'
  /\ attempts'[a].receipt = attempts[a].receipt
  /\ attempts'[a].mismatch = attempts[a].mismatch
  /\ attempts'[a].prepared = attempts[a].prepared
  /\ Claimed(a) => Claimed(a)'
  /\ ~IsActive(attempts, a) =>
       \/ attempts'[a].state = attempts[a].state
       \/ attempts[a].state = "completed" /\ attempts'[a].state \in Verdicts
  /\ attempts[a].state = "admitted" =>
       attempts'[a].state \in {"admitted", "launching", "cancelled", "reconciling"}
  /\ attempts'[a].state \in {"started", "producing"} =>
       attempts[a].state \in {"started", "producing"}

\* Its native turn: it ends, if it was running.
TurnUndisturbed(a) ==
  /\ submits'[a] = submits[a] /\ journal'[a] = journal[a]
  /\ \/ turn'[a] = turn[a]
     \/ turn[a] = "running" /\ turn'[a] \in TurnOutcomes \cup {"killed"}

\* Every attempt that exists, and no new one.
AllUndisturbed ==
  /\ DOMAIN attempts' = DOMAIN attempts
  /\ \A a \in DOMAIN attempts : RowUndisturbed(a)

LEMMA SameUndisturbed ==
  ASSUME TypeOK, attempts' = attempts
  PROVE  AllUndisturbed
BY DEF AllUndisturbed, RowUndisturbed, Claimed, IsActive, TypeOK, Row

LEMMA SweptUndisturbed ==
  ASSUME TypeOK, NEW a \in DOMAIN attempts, a \in DOMAIN attempts',
         attempts'[a] = Swept(attempts)[a]
  PROVE  RowUndisturbed(a)
BY DEF RowUndisturbed, Swept, Overdue, Claimed, IsActive, TypeOK, Row, Active

LEMMA ReviewUndisturbed ==
  ASSUME TypeOK, NEW a, NEW e, NEW verdict \in Verdicts, Review(a, e, verdict)
  PROVE  AllUndisturbed
BY DEF Review, Record, Put, AllUndisturbed, RowUndisturbed, Claimed, IsActive,
       TypeOK, Row, Active, Verdicts

LEMMA RenewUndisturbed ==
  ASSUME TypeOK, NEW a, Renew(a)
  PROVE  AllUndisturbed
BY DEF Renew, Put, AllUndisturbed, RowUndisturbed, Claimed, IsActive, TypeOK,
       Row, Active

\* Events that only move an attempt between active states, or cancel it early.
LEMMA MoveUndisturbed ==
  ASSUME TypeOK, NEW a, NEW e,
         Claim(a, e) \/ Produce(a, e) \/ RequestCancel(a, e) \/ Disconnect(a, e)
  PROVE  AllUndisturbed
<1> USE DEF Record, Put, AllUndisturbed, RowUndisturbed, Claimed, IsActive,
            TypeOK, Row, Active
<1>1. CASE Claim(a, e)
  BY <1>1 DEF Claim
<1>2. CASE Produce(a, e)
  BY <1>2 DEF Produce, ProducibleFrom
<1>3. CASE RequestCancel(a, e)
  BY <1>3 DEF RequestCancel, Cancelling
<1>4. CASE Disconnect(a, e)
  BY <1>4 DEF Disconnect
<1>. QED
  BY <1>1, <1>2, <1>3, <1>4

\* The owner's other events touch no attempt but its own.
LEMMA OthersUndisturbed ==
  ASSUME TypeOK, NEW a, NEW row, a \in DOMAIN attempts, Put(a, row),
         NEW b \in DOMAIN attempts \ {a}
  PROVE  RowUndisturbed(b)
BY DEF Put, RowUndisturbed, Claimed, IsActive, TypeOK, Row

-----------------------------------------------------------------------------
(* Attempts and program points that are left alone keep the invariant.        *)

LEMMA AttemptKept ==
  ASSUME RunInv, NEW a \in AttemptIds, a \in DOMAIN attempts,
         RowUndisturbed(a), TurnUndisturbed(a)
  PROVE  AttemptInv(a)'
<1>0. /\ AttemptInv(a) /\ attempts[a] \in Row
      /\ journal[a] \in TurnOutcomes \cup {"none"}
      /\ turn[a] \in TurnStates
  BY DEF RunInv, RunTypes, TypeOK
<1>1. TurnOutcomes \subseteq Outcomes \ {"launch_failed"}
  BY RunAssumption
<1>2. /\ submits'[a] \in {0, 1}
      /\ submits'[a] = 0 <=> turn'[a] = "none"
      /\ journal'[a] # "none" => journal'[a] = turn'[a]
  BY <1>0, <1>1 DEF AttemptInv, TurnUndisturbed, Outcomes
<1>3. submits'[a] # 0 => attempts'[a].state # "admitted"
  BY <1>0 DEF AttemptInv, TurnUndisturbed, RowUndisturbed, Claimed, IsActive,
              Verdicts, Active
<1>4. turn'[a] = "running" => IsActive(attempts, a)'
  BY <1>0, <1>1, <1>3 DEF AttemptInv, TurnUndisturbed, RowUndisturbed, Claimed,
                          IsActive, Outcomes
<1>5. RowFacts(a)'
  BY <1>0 DEF AttemptInv, RowFacts, RowUndisturbed, Claimed, IsActive, Active,
              Verdicts, Row, Terminal, Outcomes
<1>6. RowTold(a)'
  <2>1. CASE Claimed(a)
    BY <1>1, <2>1 DEF RowUndisturbed, Claimed, IsActive, RowTold, Active,
                      Verdicts, Outcomes
  <2>2. CASE attempts[a].state = "admitted"
    BY <1>0, <1>1, <2>2 DEF RowUndisturbed, TurnUndisturbed, AttemptInv, RowTold,
                            Verdicts, Outcomes
  <2>3. CASE ~IsActive(attempts, a)
    BY <1>0, <1>1, <2>3 DEF RowUndisturbed, TurnUndisturbed, AttemptInv, RowTold,
                            IsActive, Verdicts, Outcomes, Row, Terminal, Active
  <2>. QED
    BY <2>1, <2>2, <2>3 DEF Claimed
<1>. QED
  BY <1>2, <1>3, <1>4, <1>5, <1>6 DEF AttemptInv, RowUndisturbed

LEMMA PointKept ==
  ASSUME RunInv, NEW y \in Executors, exec'[y] = exec[y], Holding(y),
         RowUndisturbed(On(y)), TurnUndisturbed(On(y))
  PROVE  PointInv(y)'
<1>0. PointInv(y)
  BY DEF RunInv
<1>1. TurnOutcomes \subseteq Outcomes \ {"launch_failed"}
  BY RunAssumption
<1>2. On(y)' = On(y)
  BY DEF On
<1>. QED
  BY <1>0, <1>1, <1>2 DEF PointInv, RowUndisturbed, TurnUndisturbed, At, RowOn,
                          Outcomes, Claimed, IsActive

\* Nothing is claimed at the other program points.
LEMMA PointIdle ==
  ASSUME NEW y, exec'[y] = Off \/ exec'[y].pc = "locking"
  PROVE  PointInv(y)'
BY DEF PointInv, Off, At, Unsent

-----------------------------------------------------------------------------
(* An executor moves: it goes on, ends, or takes a free lock.                 *)

Moves(x) ==
  \E e \in {Off} \cup Running :
    /\ exec' = [exec EXCEPT ![x] = e]
    /\ e # Off => /\ e.on \in DOMAIN attempts
                  /\ \/ e.pc = "locking"
                     \/ Holding(x) /\ e.on = On(x)
                     \/ \A y \in Executors : Holding(y) => On(y) # e.on

LEMMA MovesExclusive ==
  ASSUME RunInv, NEW x \in Executors, Moves(x), DOMAIN attempts \subseteq DOMAIN attempts'
  PROVE  /\ exec' \in [Executors -> {Off} \cup Running]
         /\ \A y \in Executors : exec'[y] # Off => On(y)' \in DOMAIN attempts'
         /\ OwnerExclusive'
         /\ \A y \in Executors \ {x} : exec'[y] = exec[y]
<1>1. PICK e \in {Off} \cup Running :
        /\ exec' = [exec EXCEPT ![x] = e]
        /\ e # Off => /\ e.on \in DOMAIN attempts
                      /\ \/ e.pc = "locking"
                         \/ Holding(x) /\ e.on = On(x)
                         \/ \A y \in Executors : Holding(y) => On(y) # e.on
  BY DEF Moves
<1>2. exec \in [Executors -> {Off} \cup Running]
  BY DEF RunInv, RunTypes
<1>3. exec'[x] = e /\ \A y \in Executors \ {x} : exec'[y] = exec[y]
  BY <1>1, <1>2
<1>4. exec' \in [Executors -> {Off} \cup Running]
  BY <1>1, <1>2
<1>5. \A y \in Executors \ {x} : Holding(y)' = Holding(y) /\ On(y)' = On(y)
  BY <1>3 DEF Holding, At, On
<1>6. Holding(x)' => /\ On(x)' = e.on
                     /\ \/ Holding(x) /\ e.on = On(x)
                        \/ \A y \in Executors : Holding(y) => On(y) # e.on
  BY <1>1, <1>3 DEF Holding, At, On
<1>7. OwnerExclusive'
  BY <1>5, <1>6 DEF RunInv, OwnerExclusive
<1>8. \A y \in Executors : exec'[y] # Off => On(y)' \in DOMAIN attempts'
  BY <1>1, <1>3 DEF RunInv, RunTypes, On
<1>. QED
  BY <1>3, <1>4, <1>7, <1>8

\* The variables beside exec and the tables are typed.
RestTyped ==
  /\ opened \subseteq DOMAIN attempts
  /\ turn \in [AttemptIds -> TurnStates]
  /\ submits \in [AttemptIds -> Nat]
  /\ interrupted \subseteq AttemptIds
  /\ journal \in [AttemptIds -> TurnOutcomes \cup {"none"}]
  /\ crashes \in Nat

\* Attempts nobody has been admitted under have no turn.
LEMMA Untouched ==
  ASSUME RunInv, NEW a \in AttemptIds, a \notin DOMAIN attempts
  PROVE  submits[a] = 0 /\ turn[a] = "none" /\ journal[a] = "none"
<1>1. AttemptInv(a) /\ journal[a] \in TurnOutcomes \cup {"none"}
  BY DEF RunInv, RunTypes
<1>2. "none" \notin TurnOutcomes
  BY RunAssumption DEF Outcomes
<1>. QED
  BY <1>1, <1>2 DEF AttemptInv

LEMMA UntouchedKept ==
  ASSUME RunInv, NEW a \in AttemptIds, a \notin DOMAIN attempts, a \notin DOMAIN attempts',
         TurnUndisturbed(a)
  PROVE  AttemptInv(a)'
BY Untouched DEF TurnUndisturbed, AttemptInv

(* A step that disturbs no attempt: only the point its executor reaches       *)
(* remains to be shown.                                                       *)
LEMMA QuietStep ==
  ASSUME RunInv, TypeOK', RestTyped', NEW x \in Executors, Moves(x),
         AllUndisturbed, \A a \in AttemptIds : TurnUndisturbed(a), PointInv(x)'
  PROVE  RunInv'
<1>0. DOMAIN attempts' = DOMAIN attempts /\ DOMAIN attempts \subseteq AttemptIds
  BY DEF AllUndisturbed, RunInv, TypeOK
<1>1. RunTypes' /\ OwnerExclusive'
  BY <1>0, MovesExclusive DEF RunTypes, RestTyped
<1>2. \A a \in AttemptIds : AttemptInv(a)'
  BY <1>0, AttemptKept, UntouchedKept DEF AllUndisturbed
<1>3. ASSUME NEW y \in Executors
      PROVE  PointInv(y)'
  <2>1. CASE y # x /\ Holding(y)
    <3>1. exec'[y] = exec[y] /\ On(y) \in DOMAIN attempts
      BY <1>0, <2>1, MovesExclusive DEF RunInv, RunTypes, Holding
    <3>. QED
      BY <1>0, <2>1, <3>1, PointKept DEF AllUndisturbed
  <2>2. CASE y # x /\ ~Holding(y)
    BY <1>0, <2>2, MovesExclusive, PointIdle DEF Holding, At
  <2>. QED
    BY <2>1, <2>2
<1>. QED
  BY <1>1, <1>2, <1>3 DEF RunInv

(* A step of an owner that changes its own attempt and no other.              *)
LEMMA OwnerStep ==
  ASSUME RunInv, TypeOK', RestTyped', NEW x \in Executors, Moves(x), Holding(x),
         NEW mine, mine = On(x),
         DOMAIN attempts' = DOMAIN attempts,
         \A a \in DOMAIN attempts \ {mine} : RowUndisturbed(a),
         \A a \in AttemptIds \ {mine} : TurnUndisturbed(a),
         AttemptInv(mine)', PointInv(x)'
  PROVE  RunInv'
<1>0. DOMAIN attempts \subseteq AttemptIds
  BY DEF RunInv, TypeOK
<1>1. RunTypes' /\ OwnerExclusive'
  BY MovesExclusive DEF RunTypes, RestTyped
<1>2. \A a \in AttemptIds : AttemptInv(a)'
  BY AttemptKept, UntouchedKept
<1>3. ASSUME NEW y \in Executors
      PROVE  PointInv(y)'
  <2>1. CASE y # x /\ Holding(y)
    <3>1. On(y) # On(x) /\ exec'[y] = exec[y] /\ On(y) \in DOMAIN attempts
      BY <2>1, MovesExclusive DEF RunInv, OwnerExclusive, RunTypes, Holding
    <3>. QED
      BY <1>0, <2>1, <3>1, PointKept
  <2>2. CASE y # x /\ ~Holding(y)
    BY <2>2, MovesExclusive, PointIdle DEF Holding, At
  <2>. QED
    BY <2>1, <2>2
<1>. QED
  BY <1>1, <1>2, <1>3 DEF RunInv

(* A step around the executors that disturbs no attempt.                      *)
LEMMA OutsideStep ==
  ASSUME RunInv, TypeOK', RestTyped', exec' = exec,
         DOMAIN attempts \subseteq DOMAIN attempts',
         \A a \in DOMAIN attempts : RowUndisturbed(a),
         \A a \in AttemptIds : TurnUndisturbed(a),
         \A a \in DOMAIN attempts' \ DOMAIN attempts : AttemptInv(a)'
  PROVE  RunInv'
<1>0. DOMAIN attempts \subseteq AttemptIds
  BY DEF RunInv, TypeOK
<1>1. RunTypes' /\ OwnerExclusive'
  BY DEF RunInv, RunTypes, RestTyped, OwnerExclusive, Holding, At, On
<1>2. \A a \in AttemptIds : AttemptInv(a)'
  BY AttemptKept, UntouchedKept
<1>3. ASSUME NEW y \in Executors
      PROVE  PointInv(y)'
  <2>1. CASE Holding(y)
    <3>1. On(y) \in DOMAIN attempts
      BY <2>1 DEF RunInv, RunTypes, Holding
    <3>. QED
      BY <1>0, <2>1, <3>1, PointKept
  <2>2. CASE ~Holding(y)
    BY <2>2, PointIdle DEF Holding, At
  <2>. QED
    BY <2>1, <2>2
<1>. QED
  BY <1>1, <1>2, <1>3 DEF RunInv

-----------------------------------------------------------------------------
(* Moves of an executor that holds the lock.                                  *)

Places == {"locking", "locked", "claiming", "lost", "close"} \cup Owning \cup Recovering

LEMMA GotoMoves ==
  ASSUME RunInv, NEW x \in Executors, Holding(x), NEW pc \in Places, Goto(x, pc)
  PROVE  /\ Moves(x)
         /\ On(x)' = On(x)
         /\ exec'[x].pc = pc
         /\ exec'[x].kind = exec[x].kind
<1> DEFINE e == [exec[x] EXCEPT !.pc = pc]
<1>1. exec[x] \in Running /\ exec \in [Executors -> {Off} \cup Running]
  BY DEF RunInv, RunTypes, Holding
<1>2. e \in Running /\ e.on = On(x) /\ e.pc = pc /\ e.kind = exec[x].kind
  BY <1>1 DEF Running, Places, On
<1>3. exec' = [exec EXCEPT ![x] = e] /\ exec'[x] = e
  BY <1>1 DEF Goto
<1>4. On(x) \in DOMAIN attempts
  BY DEF RunInv, RunTypes, Holding
<1>. QED
  BY <1>2, <1>3, <1>4 DEF Moves, On

LEMMA LeaveMoves ==
  ASSUME RunInv, NEW x \in Executors, Leave(x)
  PROVE  Moves(x) /\ PointInv(x)'
<1>1. exec'[x] = Off
  BY DEF Leave, RunInv, RunTypes
<1>2. PointInv(x)'
  BY <1>1, PointIdle
<1>. QED
  BY <1>2 DEF Moves, Leave

\* Places at which nothing is claimed of the attempt.
LEMMA PointElsewhere ==
  ASSUME NEW x, exec'[x].pc \notin Unsent \cup Recovering \cup {"finish"}
  PROVE  PointInv(x)'
BY DEF PointInv, At, Unsent, Recovering

LEMMA RestIsTyped ==
  ASSUME RunInv
  PROVE  RestTyped
BY DEF RunInv, RunTypes, RestTyped

(* A step that changes neither the tables nor what the native side did.       *)
LEMMA PureStep ==
  ASSUME RunInv, RestTyped', NEW x \in Executors, Moves(x), PointInv(x)',
         UNCHANGED <<vars, turn, submits, journal>>
  PROVE  RunInv'
<1>1. TypeOK /\ UNCHANGED vars
  BY DEF RunInv
<1>2. TypeOK'
  BY <1>1 DEF TypeOK, vars
<1>3. AllUndisturbed
  BY <1>1, SameUndisturbed DEF vars
<1>4. \A a \in AttemptIds : TurnUndisturbed(a)
  BY DEF TurnUndisturbed
<1>. QED
  BY <1>2, <1>3, <1>4, QuietStep

LEMMA PureGoto ==
  ASSUME RunInv, NEW x \in Executors, Holding(x), NEW pc \in Places, Goto(x, pc),
         UNCHANGED <<vars, opened, native, crashes>>, PointInv(x)'
  PROVE  RunInv'
BY GotoMoves, PureStep, RestIsTyped DEF native, RestTyped, vars

LEMMA PureLeave ==
  ASSUME RunInv, NEW x \in Executors, Leave(x),
         UNCHANGED <<vars, opened, native, crashes>>
  PROVE  RunInv'
BY LeaveMoves, PureStep, RestIsTyped DEF native, RestTyped, vars

-----------------------------------------------------------------------------
(* Steps without a ledger event.                                              *)

LEMMA ExecuteInv ==
  ASSUME RunInv, NEW x \in Executors, NEW a \in AttemptIds, Execute(x, a)
  PROVE  RunInv'
<1> DEFINE e == Fresh(a, "locking")
<1>1. e \in Running /\ e.pc = "locking" /\ e.on = a
  BY DEF Fresh, Running
<1>2. exec' = [exec EXCEPT ![x] = e] /\ a \in DOMAIN attempts
  BY DEF Execute
<1>3. exec'[x] = e
  BY <1>2 DEF RunInv, RunTypes
<1>4. RestTyped'
  BY RestIsTyped DEF Execute, RestTyped, native, vars
<1> HIDE DEF e
<1>5. Moves(x)
  BY <1>1, <1>2 DEF Moves
<1>6. PointInv(x)'
  BY <1>1, <1>3, PointIdle
<1>. QED
  BY <1>4, <1>5, <1>6, PureStep DEF Execute, native

LEMMA ReconcileInv ==
  ASSUME RunInv, NEW x \in Executors, NEW a \in AttemptIds, Reconcile(x, a)
  PROVE  RunInv'
<1> DEFINE e == Fresh(a, "recovering")
<1>1. e \in Running /\ e.pc = "recovering" /\ e.on = a /\ e.kind = "none"
  BY DEF Fresh, Running, Recovering, Owning
<1>2. exec' = [exec EXCEPT ![x] = e] /\ a \in DOMAIN attempts
  BY DEF Reconcile, RunInv, RunTypes
<1>3. exec'[x] = e
  BY <1>2 DEF RunInv, RunTypes
<1>4. \A y \in Executors : Holding(y) => On(y) # a
  BY DEF Reconcile, Holders, Holding
<1> HIDE DEF e
<1>5. Moves(x)
  BY <1>1, <1>2, <1>4 DEF Moves
<1>6. PointInv(x)'
  BY <1>1, <1>3 DEF PointInv, At, Unsent
<1>. QED
  BY <1>5, <1>6, PureStep, RestIsTyped DEF Reconcile, native, RestTyped, vars

LEMMA LockInv ==
  ASSUME RunInv, NEW x \in Executors, Lock(x)
  PROVE  RunInv'
<1>1. CASE Leave(x)
  BY <1>1, PureLeave DEF Lock
<1>2. CASE Holders(On(x)) = {} /\ Goto(x, "locked")
  <2> DEFINE e == [exec[x] EXCEPT !.pc = "locked"]
  <2>1. exec[x] \in Running /\ exec[x] # Off
    BY DEF Lock, At, Off, RunInv, RunTypes
  <2>2. e \in Running /\ e.on = On(x) /\ e.pc = "locked"
    BY <2>1 DEF Running, On
  <2>3. exec' = [exec EXCEPT ![x] = e] /\ exec'[x] = e
    BY <1>2 DEF Goto, RunInv, RunTypes
  <2>4. \A y \in Executors : Holding(y) => On(y) # e.on
    BY <1>2, <2>2 DEF Holders, Holding
  <2>5. On(x) \in DOMAIN attempts
    BY <2>1 DEF RunInv, RunTypes
  <2>6. Moves(x)
    BY <2>2, <2>3, <2>4, <2>5 DEF Moves
  <2>7. PointInv(x)'
    BY <2>2, <2>3, PointElsewhere DEF Unsent, Recovering
  <2>. QED
    BY <2>6, <2>7, PureStep, RestIsTyped DEF Lock, native, RestTyped, vars
<1>. QED
  BY <1>1, <1>2 DEF Lock

\* Steps that only choose where to go on.
LEMMA ChoiceInv ==
  ASSUME RunInv, NEW x \in Executors,
         Recheck(x) \/ Acknowledge(x) \/ Proceed(x) \/ PollNothing(x)
           \/ KeyboardInterrupt(x)
  PROVE  RunInv'
<1>1. Holding(x)
  BY DEF Recheck, Acknowledge, Proceed, PollNothing, KeyboardInterrupt, At,
         Holding, Off, Owning
<1>2. /\ UNCHANGED <<vars, opened, native, crashes>>
      /\ \/ Leave(x)
         \/ \E pc \in {"claiming", "bound", "uncertain", "lost", "polling", "loop"} :
              Goto(x, pc)
  BY DEF Recheck, Acknowledge, Proceed, PollNothing, KeyboardInterrupt
<1>3. ASSUME NEW pc \in {"claiming", "bound", "uncertain", "lost", "polling", "loop"},
             Goto(x, pc)
      PROVE  RunInv'
  <2>1. pc \in Places
    BY DEF Places, Owning
  <2>2. PointInv(x)'
    BY <1>1, <1>3, <2>1, GotoMoves, PointElsewhere DEF Unsent, Recovering
  <2>. QED
    BY <1>1, <1>2, <1>3, <2>1, <2>2, PureGoto
<1>. QED
  BY <1>2, <1>3, PureLeave

\* A second look for a cancellation, nothing having been sent.
LEMMA CheckCancelInv ==
  ASSUME RunInv, NEW x \in Executors, CheckCancel(x)
  PROVE  RunInv'
<1>1. Holding(x) /\ PointInv(x) /\ exec[x].pc = "prepared"
  BY DEF CheckCancel, At, Holding, Off, RunInv
<1>2. PICK pc \in {"noLaunch", "submitting"} : Goto(x, pc)
  BY DEF CheckCancel
<1>3. pc \in Places
  BY DEF Places, Owning
<1>4. /\ Moves(x) /\ On(x)' = On(x) /\ exec'[x].pc = pc
  BY <1>1, <1>2, <1>3, GotoMoves
<1>5. PointInv(x)'
  BY <1>1, <1>4 DEF PointInv, At, Unsent, CheckCancel, native, vars, Claimed, IsActive
<1>. QED
  BY <1>1, <1>2, <1>3, <1>5, PureGoto DEF CheckCancel

LEMMA HolderMoves ==
  ASSUME RunInv, NEW x \in Executors, Holding(x), NEW e \in Running,
         e.on = On(x), exec' = [exec EXCEPT ![x] = e]
  PROVE  Moves(x) /\ exec'[x] = e /\ On(x)' = On(x)
<1>1. On(x) \in DOMAIN attempts /\ exec'[x] = e
  BY DEF RunInv, RunTypes, Holding
<1>. QED
  BY <1>1 DEF Moves, On

\* The state decides which event is to report that nothing was launched.
LEMMA NoLaunchReadInv ==
  ASSUME RunInv, NEW x \in Executors, NoLaunchRead(x)
  PROVE  RunInv'
<1> DEFINE k == IF RowOn(x).state = "cancelling" THEN "cancelled" ELSE "launch_failed"
           e == [exec[x] EXCEPT !.pc = "noLaunchSettle", !.kind = k]
<1>1. Holding(x) /\ PointInv(x) /\ exec[x].pc = "noLaunch"
  BY DEF NoLaunchRead, At, Holding, Off, RunInv
<1>2. exec[x] \in Running
  BY <1>1 DEF RunInv, RunTypes, Holding
<1>3. e \in Running /\ e.pc = "noLaunchSettle" /\ e.kind = k /\ e.on = On(x)
  BY <1>2 DEF Running, Owning, Outcomes, On
<1>4. exec' = [exec EXCEPT ![x] = e]
  BY <1>2 DEF NoLaunchRead, RunInv, RunTypes
<1> HIDE DEF e
<1>5. Moves(x) /\ exec'[x] = e /\ On(x)' = On(x)
  BY <1>1, <1>3, <1>4, HolderMoves
<1>6. PointInv(x)'
  BY <1>1, <1>3, <1>5
  DEF PointInv, At, Unsent, NoLaunchRead, native, vars, Claimed, IsActive
<1>. QED
  BY <1>5, <1>6, PureStep, RestIsTyped DEF NoLaunchRead, native, RestTyped, vars

LEMMA LookInv ==
  ASSUME RunInv, NEW x \in Executors, Look(x)
  PROVE  RunInv'
<1> DEFINE e == [exec[x] EXCEPT !.pc = "deciding",
                   !.cancelSeen = RowOn(x).state = "cancelling",
                   !.outputSeen = RowOn(x).output]
<1>1. Holding(x)
  BY DEF Look, At, Holding, Off
<1>2. exec[x] \in Running /\ RowOn(x).output \in BOOLEAN
  BY <1>1 DEF RunInv, RunTypes, Holding, RowOn, TypeOK, Row
<1>3. e \in Running /\ e.pc = "deciding" /\ e.on = On(x)
  BY <1>2 DEF Running, Owning, On
<1>4. exec' = [exec EXCEPT ![x] = e]
  BY <1>2 DEF Look, RunInv, RunTypes
<1> HIDE DEF e
<1>5. Moves(x) /\ exec'[x] = e
  BY <1>1, <1>3, <1>4, HolderMoves
<1>6. PointInv(x)'
  BY <1>3, <1>5, PointElsewhere DEF Unsent, Recovering
<1>. QED
  BY <1>5, <1>6, PureStep, RestIsTyped DEF Look, native, RestTyped, vars

LEMMA InterruptInv ==
  ASSUME RunInv, NEW x \in Executors, Interrupt(x)
  PROVE  RunInv'
<1>1. Holding(x) /\ On(x) \in AttemptIds
  BY DEF Interrupt, At, Holding, Off, RunInv, RunTypes, TypeOK
<1>2. PICK pc \in {"polling", "lost"} : Goto(x, pc)
  BY DEF Interrupt
<1>3. pc \in Places
  BY DEF Places, Owning
<1>4. Moves(x) /\ PointInv(x)'
  BY <1>1, <1>2, <1>3, GotoMoves, PointElsewhere DEF Unsent, Recovering
<1>5. RestTyped'
  BY <1>1, RestIsTyped DEF Interrupt, RestTyped, vars
<1>. QED
  BY <1>4, <1>5, PureStep DEF Interrupt

LEMMA DeadlineInv ==
  ASSUME RunInv, NEW x \in Executors, Deadline(x)
  PROVE  RunInv'
<1> DEFINE e == [exec[x] EXCEPT !.due = TRUE]
<1>1. Holding(x) /\ exec[x].pc \in {"loop", "deciding", "interrupting", "polling"}
  BY DEF Deadline, At, Holding
<1>2. exec[x] \in Running
  BY <1>1 DEF RunInv, RunTypes, Holding
<1>3. e \in Running /\ e.pc = exec[x].pc /\ e.on = On(x)
  BY <1>2 DEF Running, On
<1>4. exec' = [exec EXCEPT ![x] = e]
  BY <1>2 DEF Deadline, RunInv, RunTypes
<1> HIDE DEF e
<1>5. Moves(x) /\ exec'[x] = e
  BY <1>1, <1>3, <1>4, HolderMoves
<1>6. PointInv(x)'
  BY <1>1, <1>3, <1>5, PointElsewhere DEF Unsent, Recovering
<1>. QED
  BY <1>5, <1>6, PureStep, RestIsTyped DEF Deadline, native, RestTyped, vars

LEMMA CrashInv ==
  ASSUME RunInv, NEW x \in Executors, Crash(x)
  PROVE  RunInv'
BY LeaveMoves, PureStep, RestIsTyped DEF Crash, native, RestTyped, vars

\* The end of the owner ends the turn it left running.
LEMMA CloseInv ==
  ASSUME RunInv, NEW x \in Executors, Close(x)
  PROVE  RunInv'
<1>1. Moves(x) /\ PointInv(x)'
  BY LeaveMoves DEF Close
<1>2. AllUndisturbed /\ TypeOK'
  BY SameUndisturbed DEF Close, vars, RunInv, TypeOK
<1>3. turn \in [AttemptIds -> TurnStates]
  BY DEF RunInv, RunTypes
<1>4. \A a \in AttemptIds : TurnUndisturbed(a)
  BY <1>3 DEF Close, TurnUndisturbed
<1>5. RestTyped'
  BY <1>3, RestIsTyped DEF Close, RestTyped, vars, TurnStates
<1>. QED
  BY <1>1, <1>2, <1>4, <1>5, QuietStep

\* Reconciliation of an attempt that is not active does nothing.
LEMMA RecoverInv ==
  ASSUME RunInv, NEW x \in Executors, Recover(x)
  PROVE  RunInv'
<1>1. CASE Leave(x)
  BY <1>1, PureLeave DEF Recover
<1>2. CASE Reconcilable(RowOn(x)) /\ Goto(x, "reading")
  <2>1. Holding(x) /\ PointInv(x) /\ exec[x].pc = "recovering"
    BY DEF Recover, At, Holding, Off, RunInv
  <2>2. "reading" \in Places
    BY DEF Places, Recovering
  <2>3. On(x)' = On(x) /\ exec'[x].pc = "reading" /\ exec'[x].kind = "none"
    BY <1>2, <2>1, <2>2, GotoMoves DEF PointInv
  <2>4. IsActive(attempts, On(x))
    BY <1>2 DEF Reconcilable, IsActive, RowOn
  <2>5. AttemptInv(On(x)) /\ On(x) \in DOMAIN attempts /\ RowOn(x) \in Row
    BY <2>1 DEF RunInv, RunTypes, Holding, TypeOK, RowOn
  <2>6. RowFacts(On(x))
    BY <2>5 DEF AttemptInv
  <2>7. Claimed(On(x)) \/ (~RowOn(x).prepared /\ RowOn(x).receipt = "none")
    BY <2>4, <2>6 DEF RowFacts, Claimed, RowOn
  <2>8. PointInv(x)'
    BY <2>3, <2>7 DEF PointInv, At, Unsent, Recover, vars, Claimed, IsActive, RowOn
  <2>. QED
    BY <1>2, <2>1, <2>2, <2>8, PureGoto DEF Recover
<1>. QED
  BY <1>1, <1>2 DEF Recover

\* What the history shows is how the turn ended.
LEMMA EvidenceIsTrue ==
  ASSUME RunInv, NEW a \in DOMAIN attempts, NEW k \in Evidence(a)
  PROVE  k = turn[a] /\ k \in TurnOutcomes
<1>1. AttemptInv(a) /\ "none" \notin TurnOutcomes
  BY RunAssumption DEF RunInv, TypeOK, Outcomes
<1>. QED
  BY <1>1 DEF Evidence, AttemptInv

LEMMA ReadEvidenceInv ==
  ASSUME RunInv, NEW x \in Executors, ReadEvidence(x)
  PROVE  RunInv'
<1>1. Holding(x) /\ PointInv(x) /\ exec[x].pc = "reading" /\ exec[x] \in Running
  BY DEF ReadEvidence, At, Holding, Off, RunInv, RunTypes
<1>2. CASE Goto(x, "recFail")
  <2>1. "recFail" \in Places
    BY DEF Places, Recovering
  <2>2. On(x)' = On(x) /\ exec'[x].pc = "recFail" /\ exec'[x].kind = "none"
    BY <1>1, <1>2, <2>1, GotoMoves DEF PointInv
  <2>3. PointInv(x)'
    BY <2>2 DEF PointInv, At, Unsent
  <2>. QED
    BY <1>1, <1>2, <2>1, <2>3, PureGoto DEF ReadEvidence
<1>3. ASSUME NEW k \in Evidence(On(x)), NEW pc,
             pc = IF RowOn(x).receipt = "none" THEN "recBind" ELSE "recSettle",
             exec' = [exec EXCEPT ![x].kind = k, ![x].pc = pc]
      PROVE  RunInv'
  <2> DEFINE e == [exec[x] EXCEPT !.kind = k, !.pc = pc]
  <2>1. On(x) \in DOMAIN attempts
    BY <1>1 DEF RunInv, RunTypes, Holding
  <2>2. k = turn[On(x)] /\ k \in TurnOutcomes /\ k \in Outcomes
    BY <2>1, EvidenceIsTrue, RunAssumption
  <2>3. Claimed(On(x))
    BY <1>1 DEF PointInv, At, Evidence, RowOn
  <2>4. e \in Running /\ e.pc = pc /\ e.kind = k /\ e.on = On(x)
    BY <1>1, <1>3, <2>2 DEF Running, Recovering, On
  <2>5. exec' = [exec EXCEPT ![x] = e]
    BY <1>1, <1>3 DEF RunInv, RunTypes
  <2> HIDE DEF e
  <2>6. Moves(x) /\ exec'[x] = e /\ On(x)' = On(x)
    BY <1>1, <2>4, <2>5, HolderMoves
  <2>7. UNCHANGED <<vars, opened, native, crashes>>
    BY DEF ReadEvidence
  <2>8. PointInv(x)'
    BY <1>3, <2>2, <2>3, <2>4, <2>6, <2>7
    DEF PointInv, At, Unsent, native, vars, Claimed, IsActive, RowOn
  <2>. QED
    BY <2>6, <2>7, <2>8, PureStep, RestIsTyped DEF native, RestTyped, vars
<1>. QED
  BY <1>2, <1>3 DEF ReadEvidence

-----------------------------------------------------------------------------
(* Steps with a ledger event that disturbs nobody.                            *)

LEMMA EventOfRun ==
  ASSUME TypeOK, NEW a, NEW s \in StepNames, Event(a, <<a, s>>)
  PROVE  SomeEvent /\ TypeOK' /\ a \in DOMAIN attempts
<1>1. a \in AttemptIds /\ a \in DOMAIN attempts
  BY DEF Event, Prepare, Measure, Claim, Start, Produce, RequestCancel,
         Disconnect, Settle, Review, Record, TypeOK
<1>2. <<a, s>> \in EventIds
  BY <1>1, RunAssumption
<1>. QED
  BY <1>1, <1>2, EventTyped DEF SomeEvent

QuietEvent(a, e) == Claim(a, e) \/ Produce(a, e) \/ RequestCancel(a, e) \/ Disconnect(a, e)

LEMMA QuietEventInv ==
  ASSUME RunInv, NEW x \in Executors, NEW a, NEW s \in StepNames,
         QuietEvent(a, <<a, s>>), Moves(x), PointInv(x)',
         UNCHANGED <<opened, native, crashes>>
  PROVE  RunInv'
<1>1. Event(a, <<a, s>>) /\ TypeOK
  BY DEF QuietEvent, Event, RunInv
<1>2. TypeOK' /\ AllUndisturbed
  BY <1>1, EventOfRun, MoveUndisturbed DEF QuietEvent
<1>3. \A b \in AttemptIds : TurnUndisturbed(b)
  BY DEF TurnUndisturbed, native
<1>4. RestTyped'
  BY <1>2, RestIsTyped DEF RestTyped, AllUndisturbed, native
<1>. QED
  BY <1>2, <1>3, <1>4, QuietStep

LEMMA ClaimRunInv ==
  ASSUME RunInv, NEW x \in Executors, ClaimRun(x)
  PROVE  RunInv'
<1>1. CASE Leave(x) /\ UNCHANGED vars
  BY <1>1, PureLeave DEF ClaimRun
<1>2. CASE Claim(On(x), Id(x, "claim")) /\ Goto(x, "setup")
  <2>1. Holding(x)
    BY DEF ClaimRun, At, Holding, Off
  <2>2. "setup" \in Places /\ "claim" \in StepNames
    BY DEF Places, Owning, StepNames
  <2>3. Moves(x) /\ On(x)' = On(x) /\ exec'[x].pc = "setup"
    BY <1>2, <2>1, <2>2, GotoMoves
  <2>4. On(x) \in DOMAIN attempts /\ AttemptInv(On(x))
    BY <2>1 DEF RunInv, RunTypes, Holding, TypeOK
  <2>5. submits'[On(x)] = 0
    BY <1>2, <2>4 DEF Claim, AttemptInv, ClaimRun, native
  <2>6. attempts'[On(x)].state = "launching"
    BY <1>2, <2>4 DEF Claim, Put, RunInv, TypeOK, Row
  <2>7. PointInv(x)'
    BY <2>3, <2>5, <2>6 DEF PointInv, At, Unsent, Claimed, IsActive, Active
  <2>8. QuietEvent(On(x), <<On(x), "claim">>)
    BY <1>2 DEF QuietEvent, Id
  <2>. QED
    BY <2>2, <2>3, <2>7, <2>8, QuietEventInv DEF ClaimRun
<1>. QED
  BY <1>1, <1>2 DEF ClaimRun

\* The events of an owner that lost track, of whatever ended.
LEMMA DisconnectInv ==
  ASSUME RunInv, NEW x \in Executors, Uncertain(x) \/ Lost(x)
  PROVE  RunInv'
<1>1. Holding(x) /\ Goto(x, "close") /\ UNCHANGED <<opened, native, crashes>>
  BY DEF Uncertain, Lost, At, Holding, Off
<1>2. "close" \in Places /\ "unknown" \in StepNames /\ "disconnected" \in StepNames
  BY DEF Places, StepNames
<1>3. Moves(x) /\ PointInv(x)'
  BY <1>1, <1>2, GotoMoves, PointElsewhere DEF Unsent, Recovering
<1>4. QuietEvent(On(x), <<On(x), "unknown">>) \/ QuietEvent(On(x), <<On(x), "disconnected">>)
  BY DEF Uncertain, Lost, QuietEvent, Id
<1>. QED
  BY <1>1, <1>2, <1>3, <1>4, QuietEventInv

LEMMA RequestStopInv ==
  ASSUME RunInv, NEW x \in Executors, RequestStop(x)
  PROVE  RunInv'
<1> DEFINE e == [exec[x] EXCEPT !.pc = "interrupting", !.cancelling = TRUE, !.due = FALSE]
<1>1. Holding(x)
  BY DEF RequestStop, At, Holding, Off
<1>2. exec[x] \in Running
  BY <1>1 DEF RunInv, RunTypes, Holding
<1>3. e \in Running /\ e.pc = "interrupting" /\ e.on = On(x)
  BY <1>2 DEF Running, Owning, On
<1>4. exec' = [exec EXCEPT ![x] = e]
  BY <1>2 DEF RequestStop, RunInv, RunTypes
<1> HIDE DEF e
<1>5. Moves(x) /\ exec'[x] = e
  BY <1>1, <1>3, <1>4, HolderMoves
<1>6. PointInv(x)'
  BY <1>3, <1>5, PointElsewhere DEF Unsent, Recovering
<1>7. CASE UNCHANGED vars
  BY <1>5, <1>6, <1>7, PureStep, RestIsTyped DEF RequestStop, native, RestTyped, vars
<1>8. CASE RequestCancel(On(x), Id(x, "cancel-request"))
  <2>1. QuietEvent(On(x), <<On(x), "cancel-request">>) /\ "cancel-request" \in StepNames
    BY <1>8 DEF QuietEvent, Id, StepNames
  <2>. QED
    BY <1>5, <1>6, <2>1, QuietEventInv DEF RequestStop
<1>. QED
  BY <1>7, <1>8 DEF RequestStop

LEMMA PollOutputInv ==
  ASSUME RunInv, NEW x \in Executors, PollOutput(x)
  PROVE  RunInv'
<1>1. Holding(x) /\ UNCHANGED <<opened, native, crashes>>
  BY DEF PollOutput, At, Holding, Off
<1>2. PICK pc \in {"loop", "close"} : Goto(x, pc)
  BY DEF PollOutput
<1>3. pc \in Places
  BY DEF Places, Owning
<1>4. Moves(x) /\ PointInv(x)'
  BY <1>1, <1>2, <1>3, GotoMoves, PointElsewhere DEF Unsent, Recovering
<1>5. CASE UNCHANGED vars
  BY <1>1, <1>2, <1>3, <1>4, <1>5, PureGoto
<1>6. CASE Produce(On(x), Id(x, "output"))
  <2>1. QuietEvent(On(x), <<On(x), "output">>) /\ "output" \in StepNames
    BY <1>6 DEF QuietEvent, Id, StepNames
  <2>. QED
    BY <1>1, <1>4, <2>1, QuietEventInv
<1>. QED
  BY <1>5, <1>6 DEF PollOutput

LEMMA RecoverFailedInv ==
  ASSUME RunInv, NEW x \in Executors, RecoverFailed(x)
  PROVE  RunInv'
<1>1. Leave(x) /\ UNCHANGED <<opened, native, crashes>>
  BY DEF RecoverFailed
<1>2. CASE UNCHANGED vars
  BY <1>1, <1>2, PureLeave
<1>3. CASE Disconnect(On(x), Id(x, "unresolved-recovery"))
  <2>1. /\ QuietEvent(On(x), <<On(x), "unresolved-recovery">>)
        /\ "unresolved-recovery" \in StepNames
    BY <1>3 DEF QuietEvent, Id, StepNames
  <2>. QED
    BY <1>1, <2>1, LeaveMoves, QuietEventInv
<1>. QED
  BY <1>2, <1>3 DEF RecoverFailed

\* The two events of users.
LEMMA UserInv ==
  ASSUME RunInv, NEW a \in AttemptIds,
         UserCancel(a) \/ \E verdict \in Verdicts : UserReview(a, verdict)
  PROVE  RunInv'
<1>1. "cancel-request" \in StepNames /\ "review" \in StepNames
  BY DEF StepNames
<1>2. Outside /\ TypeOK
  BY DEF UserCancel, UserReview, RunInv
<1>3. TypeOK' /\ AllUndisturbed
  <2>1. CASE UserCancel(a)
    <3>1. Event(a, <<a, "cancel-request">>)
      BY <2>1 DEF UserCancel, Event
    <3>. QED
      BY <1>1, <1>2, <2>1, <3>1, EventOfRun, MoveUndisturbed DEF UserCancel
  <2>2. ASSUME NEW verdict \in Verdicts, UserReview(a, verdict)
        PROVE  TypeOK' /\ AllUndisturbed
    <3>1. Event(a, <<a, "review">>)
      BY <2>2 DEF UserReview, Event
    <3>. QED
      BY <1>1, <1>2, <2>2, <3>1, EventOfRun, ReviewUndisturbed DEF UserReview
  <2>. QED
    BY <2>1, <2>2
<1>4. \A b \in AttemptIds : TurnUndisturbed(b)
  BY <1>2 DEF TurnUndisturbed, Outside, native
<1>5. RestTyped'
  BY <1>2, <1>3, RestIsTyped DEF RestTyped, AllUndisturbed, Outside, native
<1>. QED
  BY <1>2, <1>3, <1>4, <1>5, OutsideStep DEF AllUndisturbed, Outside

-----------------------------------------------------------------------------
(* Steps of an owner that change the attempt it owns.                         *)

LEMMA HolderFacts ==
  ASSUME RunInv, NEW x \in Executors, Holding(x)
  PROVE  /\ On(x) \in DOMAIN attempts /\ On(x) \in AttemptIds
         /\ attempts[On(x)] \in Row
         /\ AttemptInv(On(x)) /\ PointInv(x) /\ exec[x] \in Running
BY DEF RunInv, RunTypes, Holding, TypeOK

LEMMA OwnerEvent ==
  ASSUME RunInv, NEW x \in Executors, Moves(x), Holding(x),
         NEW mine, mine = On(x), NEW s \in StepNames, Event(mine, <<mine, s>>),
         NEW row, Put(mine, row), UNCHANGED <<opened, native, crashes>>,
         AttemptInv(mine)', PointInv(x)'
  PROVE  RunInv'
<1>1. TypeOK /\ mine \in DOMAIN attempts
  BY HolderFacts DEF RunInv
<1>2. TypeOK'
  BY <1>1, EventOfRun
<1>3. DOMAIN attempts' = DOMAIN attempts
  BY <1>1 DEF Put
<1>4. \A a \in DOMAIN attempts \ {mine} : RowUndisturbed(a)
  BY <1>1, OthersUndisturbed
<1>5. \A a \in AttemptIds \ {mine} : TurnUndisturbed(a)
  BY DEF TurnUndisturbed, native
<1>6. RestTyped'
  BY <1>3, RestIsTyped DEF RestTyped, native
<1>. QED
  BY <1>2, <1>3, <1>4, <1>5, <1>6, OwnerStep

\* The row an owner stores fits the turn it knows of.
LEMMA MineKept ==
  ASSUME RunInv, NEW mine \in DOMAIN attempts, NEW row, Put(mine, row),
         UNCHANGED native, row.state # "admitted",
         turn[mine] = "running" => row.state \in Active,
         RowFacts(mine)', RowTold(mine)'
  PROVE  AttemptInv(mine)'
<1>1. mine \in AttemptIds /\ AttemptInv(mine) /\ attempts' = [attempts EXCEPT ![mine] = row]
  BY DEF RunInv, TypeOK, Put
<1>2. attempts'[mine] = row /\ DOMAIN attempts' = DOMAIN attempts
  BY <1>1
<1>. QED
  BY <1>1, <1>2 DEF AttemptInv, native, IsActive

LEMMA SetupInv ==
  ASSUME RunInv, NEW x \in Executors, Setup(x)
  PROVE  RunInv'
<1>1. Holding(x) /\ exec[x].pc = "setup"
  BY DEF Setup, At, Holding, Off
<1>0. PICK mine \in DOMAIN attempts : mine = On(x)
  BY <1>1, HolderFacts
<1>2. /\ attempts[mine] \in Row /\ AttemptInv(mine)
      /\ Claimed(mine) /\ submits[mine] = 0
  BY <1>0, <1>1, HolderFacts DEF PointInv, Unsent
<1>3. {"prepared", "noLaunch"} \subseteq Places /\ "prepared" \in StepNames
  BY DEF Places, Owning, StepNames
<1>4. UNCHANGED <<opened, native, crashes>>
  BY DEF Setup
<1>5. CASE Goto(x, "noLaunch") /\ UNCHANGED vars
  <2>1. On(x)' = On(x) /\ exec'[x].pc = "noLaunch"
    BY <1>1, <1>3, <1>5, GotoMoves
  <2>2. PointInv(x)'
    BY <1>0, <1>2, <1>4, <1>5, <2>1 DEF PointInv, At, Unsent, native, vars, Claimed, IsActive
  <2>. QED
    BY <1>1, <1>3, <1>4, <1>5, <2>2, PureGoto
<1>6. CASE Prepare(mine, <<mine, "prepared">>) /\ Goto(x, "prepared")
  <2>1. Moves(x) /\ On(x)' = mine /\ exec'[x].pc = "prepared"
    BY <1>0, <1>1, <1>3, <1>6, GotoMoves
  <2>2. PICK row : Put(mine, row) /\ row = [attempts[mine] EXCEPT !.prepared = TRUE]
    BY <1>6 DEF Prepare
  <2>3. /\ row.state = "launching" /\ row.mismatch = attempts[mine].mismatch
        /\ row.receipt = attempts[mine].receipt
    BY <1>2, <1>6, <2>2 DEF Row, Prepare, PreparableFrom
  <2>4. attempts'[mine] = row
    BY <1>2, <2>2 DEF Put
  <2>5. RowFacts(mine)
    BY <1>2 DEF AttemptInv
  <2>6. RowFacts(mine)' /\ RowTold(mine)'
    BY <2>3, <2>4, <2>5, RunAssumption DEF RowFacts, RowTold, Verdicts, Outcomes
  <2>7. AttemptInv(mine)'
    BY <1>4, <2>2, <2>3, <2>6, MineKept DEF Active
  <2>8. PointInv(x)'
    BY <1>2, <1>4, <2>1, <2>3, <2>4 DEF PointInv, At, Unsent, native, Claimed, IsActive, Active
  <2>9. Event(mine, <<mine, "prepared">>)
    BY <1>6 DEF Event
  <2>. QED
    BY <1>0, <1>1, <1>3, <1>4, <2>1, <2>2, <2>7, <2>8, <2>9, OwnerEvent
<1>. QED
  BY <1>0, <1>5, <1>6 DEF Setup, Id

\* The one step that submits: of an attempt that has none so far.
LEMMA SubmitInv ==
  ASSUME RunInv, NEW x \in Executors, Submit(x)
  PROVE  RunInv'
<1>1. Holding(x) /\ exec[x].pc = "submitting"
  BY DEF Submit, At, Holding, Off
<1>2. PICK mine \in DOMAIN attempts : mine = On(x)
  BY <1>1, HolderFacts
<1>3. /\ mine \in AttemptIds /\ AttemptInv(mine)
      /\ Claimed(mine) /\ submits[mine] = 0
  BY <1>1, <1>2, HolderFacts DEF PointInv, Unsent
<1>4. {"acking", "uncertain"} \subseteq Places
  BY DEF Places, Owning
<1>5. UNCHANGED <<vars, opened, interrupted, journal, crashes>>
  BY DEF Submit
<1>6. CASE Goto(x, "uncertain") /\ UNCHANGED <<turn, submits>>
  <2>1. PointInv(x)'
    BY <1>1, <1>4, <1>6, GotoMoves, PointElsewhere DEF Unsent, Recovering
  <2>. QED
    BY <1>1, <1>4, <1>5, <1>6, <2>1, PureGoto DEF native
<1>7. CASE /\ turn' = [turn EXCEPT ![mine] = "running"]
           /\ submits' = [submits EXCEPT ![mine] = @ + 1]
           /\ Goto(x, "acking")
  <2>1. Moves(x) /\ PointInv(x)'
    BY <1>1, <1>4, <1>7, GotoMoves, PointElsewhere DEF Unsent, Recovering
  <2>2. TypeOK' /\ attempts' = attempts
    BY <1>5 DEF RunInv, TypeOK, vars
  <2>3. turn \in [AttemptIds -> TurnStates] /\ submits \in [AttemptIds -> Nat]
    BY DEF RunInv, RunTypes
  <2>4. turn'[mine] = "running" /\ submits'[mine] = 1
    BY <1>3, <1>7, <2>3
  <2>5. journal'[mine] = "none"
    <3>1. journal[mine] \in TurnOutcomes \cup {"none"} /\ "none" \notin TurnOutcomes
      BY <1>3, RunAssumption DEF RunInv, RunTypes, Outcomes
    <3>. QED
      BY <1>3, <1>5, <3>1 DEF AttemptInv
  <2>6. RowFacts(mine)'
    BY <1>2, <1>3, <2>2 DEF AttemptInv, RowFacts
  <2>7. RowTold(mine)'
    BY <1>3, <2>2, RunAssumption
    DEF RowTold, Claimed, IsActive, Active, Verdicts, Outcomes
  <2>8. AttemptInv(mine)'
    BY <1>2, <1>3, <2>2, <2>4, <2>5, <2>6, <2>7 DEF AttemptInv, Claimed, IsActive
  <2>9. \A a \in DOMAIN attempts \ {mine} : RowUndisturbed(a)
    BY <2>2, SameUndisturbed DEF AllUndisturbed, RunInv
  <2>10. \A a \in AttemptIds \ {mine} : TurnUndisturbed(a)
    BY <1>5, <1>7, <2>3 DEF TurnUndisturbed
  <2>11. RestTyped'
    <3>1. /\ turn' \in [AttemptIds -> TurnStates]
          /\ submits' \in [AttemptIds -> Nat]
      BY <1>3, <1>7, <2>3 DEF TurnStates
    <3>. QED
      BY <1>5, <2>2, <3>1, RestIsTyped DEF RestTyped
  <2>. QED
    BY <1>1, <1>2, <2>1, <2>2, <2>8, <2>9, <2>10, <2>11, OwnerStep
<1>. QED
  BY <1>2, <1>6, <1>7 DEF Submit

\* The event that reports that nothing was launched is never refused, or a
\* cancellation or a sweep came first.
LEMMA NoLaunchSettleInv ==
  ASSUME RunInv, NEW x \in Executors, NoLaunchSettle(x)
  PROVE  RunInv'
<1>1. Holding(x) /\ exec[x].pc = "noLaunchSettle"
  BY DEF NoLaunchSettle, At, Holding, Off
<1>2. PICK mine \in DOMAIN attempts : mine = On(x)
  BY <1>1, HolderFacts
<1>3. /\ attempts[mine] \in Row /\ AttemptInv(mine) /\ submits[mine] = 0
      /\ exec[x].kind \in {"cancelled", "launch_failed"}
  BY <1>1, <1>2, HolderFacts DEF PointInv, Unsent, At
<1>4. "close" \in Places /\ "no-launch" \in StepNames
  BY DEF Places, StepNames
<1>5. Goto(x, "close") /\ UNCHANGED <<opened, native, crashes>>
  BY DEF NoLaunchSettle
<1>6. Moves(x) /\ PointInv(x)'
  BY <1>1, <1>4, <1>5, GotoMoves, PointElsewhere DEF Unsent, Recovering
<1>7. CASE UNCHANGED vars
  BY <1>1, <1>4, <1>5, <1>6, <1>7, PureGoto
<1>8. ASSUME NEW k \in {"cancelled", "launch_failed"},
             Settle(mine, <<mine, "no-launch">>, k)
      PROVE  RunInv'
  <2>1. PICK row : Put(mine, row) /\ row = [attempts[mine] EXCEPT !.state = k, !.settled = now]
    BY <1>8 DEF Settle
  <2>2. /\ row.state = k /\ row.mismatch = attempts[mine].mismatch
        /\ row.receipt = attempts[mine].receipt
    BY <1>3, <2>1 DEF Row
  <2>3. attempts'[mine] = row
    BY <2>1 DEF Put
  <2>4. RowFacts(mine)
    BY <1>3 DEF AttemptInv
  <2>5. RowFacts(mine)'
    BY <1>8, <2>2, <2>3, <2>4 DEF RowFacts
  <2>6. submits'[mine] = 0 /\ turn[mine] # "running"
    BY <1>3, <1>5 DEF AttemptInv, native
  <2>7. RowTold(mine)'
    BY <1>8, <2>2, <2>3, <2>6, RunAssumption DEF RowTold, Verdicts, Outcomes
  <2>8. AttemptInv(mine)'
    BY <1>5, <1>8, <2>1, <2>2, <2>5, <2>6, <2>7, MineKept
  <2>9. Event(mine, <<mine, "no-launch">>)
    BY <1>8 DEF Event, Outcomes
  <2>. QED
    BY <1>1, <1>2, <1>4, <1>5, <1>6, <2>1, <2>8, <2>9, OwnerEvent
<1>. QED
  BY <1>2, <1>3, <1>7, <1>8 DEF NoLaunchSettle, Id

\* An exact receipt binds the attempt, whatever was asked meanwhile.
LEMMA BoundByReceipt ==
  ASSUME RunInv, NEW mine \in DOMAIN attempts, NEW e, Start(mine, e, TRUE),
         UNCHANGED native
  PROVE  /\ AttemptInv(mine)' /\ Claimed(mine)'
         /\ attempts'[mine].receipt # "none"
         /\ \E row : Put(mine, row)
<1>1. attempts[mine] \in Row /\ AttemptInv(mine)
  BY DEF RunInv, TypeOK
<1>2. PICK row : Put(mine, row) /\ row = Started(attempts[mine], TRUE)
  BY DEF Start
<1>3. /\ row.state \in {"started", "cancelling"} /\ row.receipt = "exact"
      /\ row.mismatch = attempts[mine].mismatch
  BY <1>1, <1>2 DEF Row, Started, StartedState
<1>4. attempts'[mine] = row
  BY <1>2 DEF Put
<1>5. RowFacts(mine)
  BY <1>1 DEF AttemptInv
<1>6. RowFacts(mine)' /\ RowTold(mine)'
  BY <1>3, <1>4, <1>5, RunAssumption DEF RowFacts, RowTold, Verdicts, Outcomes
<1>. QED
  BY <1>2, <1>3, <1>4, <1>6, MineKept DEF Active, Claimed, IsActive

LEMMA BindInv ==
  ASSUME RunInv, NEW x \in Executors, Bind(x)
  PROVE  RunInv'
<1>1. Holding(x) /\ UNCHANGED <<opened, native, crashes>>
  BY DEF Bind, At, Holding, Off
<1>2. PICK mine \in DOMAIN attempts : mine = On(x)
  BY <1>1, HolderFacts
<1>3. {"loop", "uncertain"} \subseteq Places /\ "receipt" \in StepNames
  BY DEF Places, Owning, StepNames
<1>4. CASE Goto(x, "uncertain") /\ UNCHANGED vars
  <2>1. PointInv(x)'
    BY <1>1, <1>3, <1>4, GotoMoves, PointElsewhere DEF Unsent, Recovering
  <2>. QED
    BY <1>1, <1>3, <1>4, <2>1, PureGoto
<1>5. CASE Start(mine, <<mine, "receipt">>, TRUE) /\ Goto(x, "loop")
  <2>1. Moves(x) /\ PointInv(x)'
    BY <1>1, <1>3, <1>5, GotoMoves, PointElsewhere DEF Unsent, Recovering
  <2>2. AttemptInv(mine)'
    BY <1>1, <1>5, BoundByReceipt
  <2>3. PICK row : Put(mine, row)
    BY <1>1, <1>5, BoundByReceipt
  <2>4. Event(mine, <<mine, "receipt">>)
    BY <1>5 DEF Event
  <2>. QED
    BY <1>1, <1>2, <1>3, <2>1, <2>2, <2>3, <2>4, OwnerEvent
<1>. QED
  BY <1>2, <1>4, <1>5 DEF Bind, Id

\* The journal is written before the ledger hears, and only of an ended turn.
LEMMA PollEndInv ==
  ASSUME RunInv, NEW x \in Executors, PollEnd(x)
  PROVE  RunInv'
<1>1. Holding(x) /\ exec[x] \in Running
  BY HolderFacts DEF PollEnd, At, Holding, Off
<1>2. PICK mine \in DOMAIN attempts : mine = On(x)
  BY <1>1, HolderFacts
<1>3. mine \in AttemptIds /\ AttemptInv(mine)
  BY <1>1, <1>2, HolderFacts
<1>4. turn[mine] \in TurnOutcomes /\ turn[mine] \in Outcomes
  BY <1>2, RunAssumption DEF PollEnd
<1>5. PICK e : e = [exec[x] EXCEPT !.pc = "finish", !.kind = turn[mine]]
  OBVIOUS
<1>6. e \in Running /\ e.pc = "finish" /\ e.kind = turn[mine] /\ e.on = mine
  BY <1>1, <1>2, <1>4, <1>5 DEF Running, Owning, On
<1>7. exec' = [exec EXCEPT ![x] = e]
  BY <1>1, <1>2, <1>5 DEF PollEnd, RunInv, RunTypes
<1>8. Moves(x) /\ exec'[x] = e /\ On(x)' = mine
  BY <1>1, <1>2, <1>6, <1>7, HolderMoves
<1>9. UNCHANGED <<vars, opened, turn, submits, interrupted, crashes>>
  BY DEF PollEnd
<1>10. PointInv(x)'
  BY <1>4, <1>6, <1>8, <1>9 DEF PointInv, At, Unsent
<1>11. TypeOK' /\ attempts' = attempts
  BY <1>9 DEF RunInv, TypeOK, vars
<1>12. journal \in [AttemptIds -> TurnOutcomes \cup {"none"}]
  BY DEF RunInv, RunTypes
<1>13. journal' = journal \/ journal' = [journal EXCEPT ![mine] = turn[mine]]
  BY <1>2 DEF PollEnd
<1>14. RestTyped'
  <2>1. journal' \in [AttemptIds -> TurnOutcomes \cup {"none"}]
    BY <1>4, <1>12, <1>13
  <2>. QED
    BY <1>9, <1>11, <2>1, RestIsTyped DEF RestTyped
<1>15. journal'[mine] \in {journal[mine], turn[mine]}
  BY <1>3, <1>12, <1>13
<1>16. RowFacts(mine)' /\ RowTold(mine)'
  BY <1>2, <1>3, <1>9, <1>11 DEF AttemptInv, RowFacts, RowTold
<1>17. AttemptInv(mine)'
  BY <1>2, <1>3, <1>9, <1>11, <1>15, <1>16 DEF AttemptInv, IsActive
<1>18. \A a \in DOMAIN attempts \ {mine} : RowUndisturbed(a)
  BY <1>11, SameUndisturbed DEF AllUndisturbed, RunInv
<1>19. \A a \in AttemptIds \ {mine} : TurnUndisturbed(a)
  BY <1>9, <1>12, <1>13 DEF TurnUndisturbed
<1>. QED
  BY <1>1, <1>2, <1>8, <1>10, <1>11, <1>14, <1>17, <1>18, <1>19, OwnerStep

\* The ledger is told how the turn ended.
LEMMA ToldByOutcome ==
  ASSUME RunInv, NEW mine \in DOMAIN attempts, NEW e, NEW k \in TurnOutcomes,
         k = turn[mine], Settle(mine, e, k), UNCHANGED native
  PROVE  AttemptInv(mine)' /\ \E row : Put(mine, row)
<1>1. attempts[mine] \in Row /\ AttemptInv(mine)
  BY DEF RunInv, TypeOK
<1>2. k \in Outcomes \ {"launch_failed"} /\ turn'[mine] = k
  BY RunAssumption DEF native
<1>3. PICK row : Put(mine, row) /\ row = [attempts[mine] EXCEPT !.state = k, !.settled = now]
  BY DEF Settle
<1>4. /\ row.state = k /\ row.mismatch = attempts[mine].mismatch
      /\ row.receipt = attempts[mine].receipt
  BY <1>1, <1>3 DEF Row
<1>5. attempts'[mine] = row
  BY <1>3 DEF Put
<1>6. RowFacts(mine)
  BY <1>1 DEF AttemptInv
<1>7. RowFacts(mine)' /\ RowTold(mine)'
  BY <1>2, <1>4, <1>5, <1>6 DEF RowFacts, RowTold, Verdicts, Outcomes
<1>8. row.state # "admitted" /\ turn[mine] # "running"
  BY <1>2, <1>4 DEF Outcomes
<1>. QED
  BY <1>3, <1>7, <1>8, MineKept

LEMMA FinishInv ==
  ASSUME RunInv, NEW x \in Executors, Finish(x)
  PROVE  RunInv'
<1>1. Holding(x) /\ Goto(x, "close") /\ UNCHANGED <<opened, native, crashes>>
  BY DEF Finish, At, Holding, Off
<1>2. PICK mine \in DOMAIN attempts : mine = On(x)
  BY <1>1, HolderFacts
<1>3. PICK k \in TurnOutcomes : k = exec[x].kind /\ k = turn[mine]
  BY <1>1, <1>2, HolderFacts DEF PointInv, Finish, At
<1>4. "close" \in Places /\ "outcome" \in StepNames
  BY DEF Places, StepNames
<1>5. Moves(x) /\ PointInv(x)'
  BY <1>1, <1>4, GotoMoves, PointElsewhere DEF Unsent, Recovering
<1>6. Settle(mine, <<mine, "outcome">>, k)
  BY <1>2, <1>3 DEF Finish, Id
<1>7. AttemptInv(mine)' /\ \E row : Put(mine, row)
  BY <1>1, <1>3, <1>6, ToldByOutcome
<1>8. Event(mine, <<mine, "outcome">>)
  BY <1>6, RunAssumption DEF Event
<1>. QED
  BY <1>1, <1>2, <1>4, <1>5, <1>7, <1>8, OwnerEvent

\* The ledger refuses neither event of a reconciliation that read how the turn
\* ended: without a receipt the attempt can still be bound, with one it can be
\* settled.
LEMMA RecoveryNotRefused ==
  ASSUME RunInv, NEW x \in Executors
  PROVE  /\ At(x, "recBind") => RowOn(x).state \in StartableFrom
         /\ At(x, "recSettle") => Confirmable(RowOn(x), exec[x].kind)
<1>1. CASE exec[x].pc \in {"recBind", "recSettle"}
  <2>1. Holding(x)
    BY <1>1 DEF Holding, At, Off
  <2>2. PointInv(x) /\ AttemptInv(On(x)) /\ On(x) \in DOMAIN attempts
    BY <2>1, HolderFacts
  <2>3. RowFacts(On(x)) /\ Claimed(On(x))
    BY <1>1, <2>2 DEF AttemptInv, PointInv
  <2>4. exec[x].kind # "launch_failed"
    BY <1>1, <2>2, RunAssumption DEF PointInv
  <2>. QED
    BY <2>2, <2>3, <2>4 DEF PointInv, RowFacts, Claimed, IsActive, Active, At,
                            RowOn, StartableFrom, Confirmable
<1>. QED
  BY <1>1 DEF At

LEMMA RecoverReceiptInv ==
  ASSUME RunInv, NEW x \in Executors, RecoverReceipt(x)
  PROVE  RunInv'
<1>1. Holding(x) /\ exec[x].pc = "recBind" /\ UNCHANGED <<opened, native, crashes>>
  BY DEF RecoverReceipt, At, Holding, Off
<1>2. PICK mine \in DOMAIN attempts : mine = On(x)
  BY <1>1, HolderFacts
<1>3. exec[x].kind = turn[mine] /\ exec[x].kind \in TurnOutcomes
  BY <1>1, <1>2, HolderFacts DEF PointInv
<1>4. "recSettle" \in Places /\ "recovered-receipt" \in StepNames
  BY DEF Places, Recovering, StepNames
<1>5. Start(mine, <<mine, "recovered-receipt">>, TRUE) /\ Goto(x, "recSettle")
  BY <1>2, RecoveryNotRefused DEF RecoverReceipt, Id
<1>6. /\ AttemptInv(mine)' /\ Claimed(mine)' /\ attempts'[mine].receipt # "none"
      /\ \E row : Put(mine, row)
  BY <1>1, <1>5, BoundByReceipt
<1>7. /\ Moves(x) /\ On(x)' = mine
      /\ exec'[x].pc = "recSettle" /\ exec'[x].kind = exec[x].kind
  BY <1>1, <1>2, <1>4, <1>5, GotoMoves
<1>8. PointInv(x)'
  BY <1>1, <1>3, <1>6, <1>7 DEF PointInv, At, Unsent, RowOn, native
<1>9. Event(mine, <<mine, "recovered-receipt">>)
  BY <1>5 DEF Event
<1>. QED
  BY <1>1, <1>2, <1>4, <1>6, <1>7, <1>8, <1>9, OwnerEvent

LEMMA RecoverOutcomeInv ==
  ASSUME RunInv, NEW x \in Executors, RecoverOutcome(x)
  PROVE  RunInv'
<1>1. Holding(x) /\ exec[x].pc = "recSettle" /\ UNCHANGED <<opened, native, crashes>>
  BY DEF RecoverOutcome, At, Holding, Off
<1>2. PICK mine \in DOMAIN attempts : mine = On(x)
  BY <1>1, HolderFacts
<1>3. PICK k \in TurnOutcomes : k = exec[x].kind /\ k = turn[mine]
  BY <1>1, <1>2, HolderFacts DEF PointInv
<1>4. Settle(mine, <<mine, "recovered-outcome">>, k) /\ Leave(x)
  BY <1>2, <1>3, RecoveryNotRefused DEF RecoverOutcome, Id
<1>5. AttemptInv(mine)' /\ \E row : Put(mine, row)
  BY <1>1, <1>3, <1>4, ToldByOutcome
<1>6. Event(mine, <<mine, "recovered-outcome">>) /\ "recovered-outcome" \in StepNames
  BY <1>4, RunAssumption DEF Event, StepNames
<1>. QED
  BY <1>1, <1>2, <1>4, <1>5, <1>6, LeaveMoves, OwnerEvent

-----------------------------------------------------------------------------
(* Steps around the executors.                                                *)

LEMMA AdmitRunIsAdmission ==
  ASSUME TypeOK, NEW a \in AttemptIds, NEW i \in Intents, NEW p \in Providers,
         NEW cost \in Costs, AdmitRun(a, i, p, cost)
  PROVE  \E r \in RequestKeys, j \in Intents, q \in Providers, o \in Observations,
            at \in 0 .. now, load \in Loads, c \in Costs :
           Admit(r, j, q, o, at, load, c)
<1>1. binding[p] \in Contexts /\ now \in 0 .. now
  BY DEF TypeOK
<1>2. /\ ReportFrom(binding[p]) \in Observations /\ Unloaded \in Loads
      /\ a \in RequestKeys
  BY <1>1, RunAssumption
<1>3. Admit(a, i, p, ReportFrom(binding[p]), now, Unloaded, cost)
  BY DEF AdmitRun, Admit
<1>. QED
  BY <1>1, <1>2, <1>3

LEMMA AdmitRunInv ==
  ASSUME RunInv, NEW a \in AttemptIds, NEW i \in Intents, NEW p \in Providers,
         NEW cost \in Costs, AdmitRun(a, i, p, cost)
  PROVE  RunInv'
<1>1. TypeOK /\ TypeOK'
  BY AdmitRunIsAdmission, NextTypeOK DEF RunInv, Next
<1>2. PICK row, swept :
        /\ row = NewRow(a, i, p, ReportFrom(binding[p]), cost)
        /\ swept = Swept(attempts)
        /\ a \notin DOMAIN attempts
        /\ attempts' = [b \in DOMAIN attempts \cup {a} |->
                          IF b = a THEN row ELSE swept[b]]
  BY DEF AdmitRun, AdmitNew
<1>3. UNCHANGED <<exec, opened, native, crashes>>
  BY DEF AdmitRun, Outside
<1>4. ASSUME NEW b \in DOMAIN attempts
      PROVE  RowUndisturbed(b)
  BY <1>1, <1>2, SweptUndisturbed
<1>5. AttemptInv(a)'
  <2>1. submits'[a] = 0 /\ turn'[a] = "none" /\ journal'[a] = "none"
    BY <1>2, <1>3, Untouched DEF native
  <2>2. /\ attempts'[a].state = "admitted" /\ attempts'[a].receipt = "none"
        /\ attempts'[a].prepared = FALSE /\ attempts'[a].mismatch = FALSE
    BY <1>2 DEF NewRow
  <2>3. RowFacts(a)' /\ RowTold(a)'
    BY <2>2, RunAssumption DEF RowFacts, RowTold, Verdicts, Outcomes
  <2>. QED
    BY <2>1, <2>3 DEF AttemptInv
<1>6. RestTyped'
  BY <1>2, <1>3, RestIsTyped DEF RestTyped, native
<1>7. \A b \in AttemptIds : TurnUndisturbed(b)
  BY <1>3 DEF TurnUndisturbed, native
<1>. QED
  BY <1>1, <1>2, <1>3, <1>4, <1>5, <1>6, <1>7, OutsideStep

\* Leases, the clock and other coordinators.
LEMMA LeasesInv ==
  ASSUME RunInv,
         \/ \E x \in Executors : KeepLease(x)
         \/ (ReconcileExpired \/ Tick) /\ Outside
         \/ UNCHANGED runVars
  PROVE  RunInv'
<1>1. TypeOK /\ UNCHANGED <<exec, opened, native, crashes>>
  BY DEF RunInv, KeepLease, Outside, runVars
<1>2. /\ [Next]_vars /\ DOMAIN attempts' = DOMAIN attempts
      /\ \A a \in DOMAIN attempts : RowUndisturbed(a)
  <2>1. ASSUME NEW x \in Executors, KeepLease(x)
        PROVE  /\ [Next]_vars /\ DOMAIN attempts' = DOMAIN attempts
               /\ \A a \in DOMAIN attempts : RowUndisturbed(a)
    <3>1. Renew(On(x)) /\ Holding(x)
      BY <2>1 DEF KeepLease, Holding, At, Off
    <3>2. On(x) \in AttemptIds
      BY <3>1, HolderFacts
    <3>. QED
      BY <1>1, <3>1, <3>2, RenewUndisturbed DEF Next, AllUndisturbed
  <2>2. CASE ReconcileExpired
    BY <1>1, <2>2, SweptTyped, SweptUndisturbed DEF ReconcileExpired, Next
  <2>3. CASE Tick
    BY <1>1, <2>3, SameUndisturbed DEF Tick, Next, AllUndisturbed
  <2>4. CASE UNCHANGED runVars
    BY <1>1, <2>4, SameUndisturbed DEF runVars, vars, AllUndisturbed
  <2>. QED
    BY <2>1, <2>2, <2>3, <2>4
<1>3. TypeOK'
  BY <1>1, <1>2, NextTypeOK
<1>4. \A b \in AttemptIds : TurnUndisturbed(b)
  BY <1>1 DEF TurnUndisturbed, native
<1>5. RestTyped'
  BY <1>1, <1>2, RestIsTyped DEF RestTyped, native
<1>. QED
  BY <1>1, <1>2, <1>3, <1>4, <1>5, OutsideStep

LEMMA TurnEndInv ==
  ASSUME RunInv, NEW a \in AttemptIds, NEW outcome \in TurnOutcomes \cup {"killed"},
         TurnEnd(a, outcome)
  PROVE  RunInv'
<1>1. UNCHANGED <<vars, exec, opened, submits, interrupted, journal, crashes>>
  BY DEF TurnEnd
<1>2. turn[a] = "running" /\ turn' = [turn EXCEPT ![a] = outcome]
  BY DEF TurnEnd
<1>3. TypeOK' /\ attempts' = attempts /\ TypeOK
  BY <1>1 DEF RunInv, TypeOK, vars
<1>4. turn \in [AttemptIds -> TurnStates]
  BY DEF RunInv, RunTypes
<1>5. \A b \in AttemptIds : TurnUndisturbed(b)
  BY <1>1, <1>2, <1>4 DEF TurnUndisturbed
<1>6. RestTyped'
  <2>1. turn' \in [AttemptIds -> TurnStates]
    BY <1>2, <1>4 DEF TurnStates
  <2>. QED
    BY <1>1, <1>3, <2>1, RestIsTyped DEF RestTyped
<1>. QED
  BY <1>1, <1>3, <1>5, <1>6, SameUndisturbed, OutsideStep DEF AllUndisturbed

-----------------------------------------------------------------------------
(* RunInv is inductive.                                                       *)

LEMMA RunInitInv == RunInit => RunInv
<1> SUFFICES ASSUME RunInit PROVE RunInv
  OBVIOUS
<1>1. TypeOK
  BY DEF RunInit, Init, TypeOK
<1>2. \A x \in Executors : exec[x] = Off
  BY DEF RunInit
<1>3. DOMAIN attempts = {}
  BY DEF RunInit, Init
<1>4. RunTypes
  BY <1>2 DEF RunInit, RunTypes, TurnStates
<1>5. OwnerExclusive
  BY <1>2 DEF OwnerExclusive, Holding
<1>6. \A a \in AttemptIds : AttemptInv(a)
  BY <1>3 DEF RunInit, AttemptInv
<1>7. \A x \in Executors : PointInv(x)
  BY <1>2 DEF PointInv, Off, At, Unsent
<1>. QED
  BY <1>1, <1>4, <1>5, <1>6, <1>7 DEF RunInv

LEMMA RunStepInv ==
  ASSUME RunInv, NEW x \in Executors, RunStep(x)
  PROVE  RunInv'
BY LockInv, ChoiceInv, ClaimRunInv, SetupInv, CheckCancelInv, SubmitInv,
   NoLaunchReadInv, NoLaunchSettleInv, DisconnectInv, BindInv, LookInv,
   RequestStopInv, InterruptInv, PollOutputInv, PollEndInv, FinishInv, CloseInv,
   RecoverInv, ReadEvidenceInv, RecoverReceiptInv, RecoverOutcomeInv,
   RecoverFailedInv
DEF RunStep

LEMMA RunNextInv ==
  ASSUME RunInv, [RunNext]_runVars
  PROVE  RunInv'
<1>1. CASE \E x \in Executors, a \in AttemptIds : Execute(x, a) \/ Reconcile(x, a)
  BY <1>1, ExecuteInv, ReconcileInv
<1>2. CASE \E x \in Executors : RunStep(x)
  BY <1>2, RunStepInv
<1>3. CASE \E x \in Executors : Deadline(x) \/ KeyboardInterrupt(x) \/ Crash(x)
  BY <1>3, DeadlineInv, ChoiceInv, CrashInv
<1>4. CASE \E a \in AttemptIds, outcome \in TurnOutcomes \cup {"killed"} :
             TurnEnd(a, outcome)
  BY <1>4, TurnEndInv
<1>5. CASE \E a \in AttemptIds, i \in Intents, p \in Providers, cost \in Costs :
             AdmitRun(a, i, p, cost)
  BY <1>5, AdmitRunInv
<1>6. CASE \E a \in AttemptIds : \/ UserCancel(a)
                                 \/ \E verdict \in Verdicts : UserReview(a, verdict)
  BY <1>6, UserInv
<1>7. CASE \/ \E x \in Executors : KeepLease(x)
           \/ (ReconcileExpired \/ Tick) /\ Outside
           \/ UNCHANGED runVars
  BY <1>7, LeasesInv
<1>. QED
  BY <1>1, <1>2, <1>3, <1>4, <1>5, <1>6, <1>7 DEF RunNext

(* At every step of every run, with any number of executors and crashes.      *)
THEOREM RunInvariant == RunSpec => []RunInv
BY RunInitInv, RunNextInv, PTL DEF RunSpec

(* The owner lock of an attempt is held by one executor at a time.            *)
THEOREM RunOwnerExclusive == RunSpec => []OwnerExclusive
<1>1. RunInv => OwnerExclusive
  BY DEF RunInv
<1>. QED
  BY <1>1, RunInvariant, PTL

(* Capacity is held for as long as the native turn runs.                      *)
THEOREM RunHeldWhileRunning == RunSpec => []HeldWhileRunning
<1>1. RunInv => HeldWhileRunning
  BY DEF RunInv, AttemptInv, HeldWhileRunning
<1>. QED
  BY <1>1, RunInvariant, PTL

(* The prompt of an attempt is submitted at most once.                        *)
THEOREM RunSubmittedOnce == RunSpec => []SubmittedOnce
<1>1. RunInv => SubmittedOnce
  BY DEF RunInv, AttemptInv, SubmittedOnce
<1>. QED
  BY <1>1, RunInvariant, PTL

(* The ledger says of a finished attempt what its native turn did.            *)
THEOREM RunToldTrue == RunSpec => []ToldTrue
<1>1. RunInv => ToldTrue
  BY DEF RunInv, TypeOK, AttemptInv, RowTold, ToldTrue
<1>. QED
  BY <1>1, RunInvariant, PTL

(* A reconciliation that read how the turn ended settles the attempt.         *)
THEOREM RunRecoverySettles == RunSpec => []RecoverySettles
<1>1. RunInv => RecoverySettles
  BY DEF RunInv, PointInv, At, RecoverySettles
<1>. QED
  BY <1>1, RunInvariant, PTL

-----------------------------------------------------------------------------
(* A run is a behaviour of the ledger.                                        *)

LEMMA EventSteps ==
  ASSUME TypeOK, NEW a, NEW s \in StepNames, Event(a, <<a, s>>)
  PROVE  Next
BY EventOfRun DEF SomeEvent, Next

\* The steps of executors write to the ledger by its own operations.
LEMMA RunStepIsLedgerStep ==
  ASSUME RunInv, NEW x \in Executors, RunStep(x)
  PROVE  [Next]_vars
<1>1. TypeOK
  BY DEF RunInv
<1>2. {"claim", "prepared", "no-launch", "unknown", "receipt", "cancel-request",
       "output", "outcome", "disconnected", "recovered-receipt",
       "recovered-outcome", "unresolved-recovery"} \subseteq StepNames
  BY DEF StepNames
<1>3. \/ UNCHANGED vars
      \/ \E s \in StepNames : Event(On(x), <<On(x), s>>)
  <2>1. CASE \/ Lock(x) \/ Recheck(x) \/ CheckCancel(x) \/ Submit(x)
             \/ Acknowledge(x) \/ NoLaunchRead(x) \/ Look(x) \/ Interrupt(x)
             \/ Proceed(x) \/ PollNothing(x) \/ PollEnd(x) \/ Close(x)
             \/ Recover(x) \/ ReadEvidence(x)
    BY <2>1 DEF Lock, Recheck, CheckCancel, Submit, Acknowledge, NoLaunchRead,
                Look, Interrupt, Proceed, PollNothing, PollEnd, Close, Recover,
                ReadEvidence
  <2>2. CASE ClaimRun(x) \/ Setup(x) \/ Uncertain(x) \/ Lost(x)
    BY <1>2, <2>2 DEF ClaimRun, Setup, Uncertain, Lost, Event, Id
  <2>3. CASE Bind(x) \/ RecoverReceipt(x)
    BY <1>2, <2>3 DEF Bind, RecoverReceipt, Event, Id
  <2>4. CASE RequestStop(x) \/ PollOutput(x) \/ RecoverFailed(x)
    BY <1>2, <2>4 DEF RequestStop, PollOutput, RecoverFailed, Event, Id
  <2>5. CASE NoLaunchSettle(x) \/ Finish(x) \/ RecoverOutcome(x)
    <3>1. Holding(x) /\ PointInv(x)
      BY <2>5, HolderFacts DEF NoLaunchSettle, Finish, RecoverOutcome, Holding, At, Off
    <3>2. exec[x].kind \in Outcomes
      BY <2>5, <3>1, RunAssumption
      DEF PointInv, NoLaunchSettle, Finish, RecoverOutcome, At, Outcomes
    <3>. QED
      BY <1>2, <2>5, <3>2 DEF NoLaunchSettle, Finish, RecoverOutcome, Event, Id
  <2>. QED
    BY <2>1, <2>2, <2>3, <2>4, <2>5 DEF RunStep
<1>. QED
  BY <1>1, <1>3, EventSteps

LEMMA RunIsLedgerStep ==
  ASSUME RunInv, [RunNext]_runVars
  PROVE  [Next]_vars
<1>1. TypeOK
  BY DEF RunInv
<1>2. CASE \E x \in Executors, a \in AttemptIds : Execute(x, a) \/ Reconcile(x, a)
  BY <1>2 DEF Execute, Reconcile
<1>3. CASE \E x \in Executors : RunStep(x)
  BY <1>3, RunStepIsLedgerStep
<1>4. CASE \E x \in Executors : Deadline(x) \/ KeyboardInterrupt(x) \/ Crash(x)
  BY <1>4 DEF Deadline, KeyboardInterrupt, Crash
<1>5. ASSUME NEW x \in Executors, KeepLease(x)
      PROVE  [Next]_vars
  <2>1. Renew(On(x)) /\ Holding(x)
    BY <1>5 DEF KeepLease, Holding, At, Off
  <2>. QED
    BY <2>1, HolderFacts DEF Next
<1>6. CASE \E a \in AttemptIds, outcome \in TurnOutcomes \cup {"killed"} :
             TurnEnd(a, outcome)
  BY <1>6 DEF TurnEnd
<1>7. CASE \E a \in AttemptIds, i \in Intents, p \in Providers, cost \in Costs :
             AdmitRun(a, i, p, cost)
  BY <1>1, <1>7, AdmitRunIsAdmission DEF Next
<1>8. CASE \E a \in AttemptIds : \/ UserCancel(a)
                                 \/ \E verdict \in Verdicts : UserReview(a, verdict)
  BY <1>1, <1>8, EventSteps DEF UserCancel, UserReview, Event, StepNames
<1>9. CASE ReconcileExpired \/ Tick \/ UNCHANGED runVars
  BY <1>9 DEF Next, runVars
<1>. QED
  BY <1>2, <1>3, <1>4, <1>5, <1>6, <1>7, <1>8, <1>9 DEF RunNext

(* Whatever executors, users, crashes and the native side do, the ledger they *)
(* leave behind is one that its own operations produce.                       *)
THEOREM RunImplementsLedger == RunSpec => Spec
<1>1. RunInit => Init
  BY DEF RunInit
<1>. QED
  BY <1>1, RunInvariant, RunIsLedgerStep, PTL DEF RunSpec, Spec

(* So the executors of an account never exceed its slots, ...                 *)
THEOREM RunSlotBound == RunSpec => []SlotBound
BY RunImplementsLedger, LedgerSlotBound, PTL

(* ... a task is never worked on twice at a time, ...                         *)
THEOREM RunTaskExclusive == RunSpec => []TaskExclusive
BY RunImplementsLedger, LedgerTaskExclusive, PTL

(* ... and whatever crashes, capacity is given back exactly once.             *)
THEOREM RunReleasedOnce == RunSpec => ReleasedOnce
BY RunImplementsLedger, LedgerReleasedOnce

(* Holds of attempts that run are leases, granted, returned and decided one   *)
(* at a time, although several processes write them.                          *)
THEOREM RunKeepsContract == RunSpec => LeaseContract
BY RunImplementsLedger, LedgerImplementsLease
=============================================================================
