----------------------------- MODULE ManagedRun -----------------------------
(***************************************************************************)
(* Running an admitted attempt (src/native_runs.py, managed_router.py       *)
(* launch_once, native_codex.py run, the launch and reconcile functions of  *)
(* the three adapters).  An executor is one CLI process: it executes an     *)
(* attempt or reconciles one.  Each step of it is one ledger transaction,   *)
(* one native request or one read that a later step acts on, so that user   *)
(* commands, sweeps of other coordinators, crashes and the native process   *)
(* interleave between them.                                                 *)
(*                                                                          *)
(* Abstractions: receipts of the adapters are exact (they verify the native *)
(* selection before they submit); usage metrics are left out; an event id   *)
(* is the launch key with the name of the step.                             *)
(***************************************************************************)
EXTENDS ManagedLedger

CONSTANTS
  Executors,     \* CLI processes
  TurnOutcomes,  \* how a native turn can end, a subset of Outcomes
  Steps,         \* names of the ledger events of a run
  MaxCrashes     \* executor crashes, bounded

\* What the probe of an admission reports and what else weighs on the account:
\* a usable reading, and no load from outside the ledger.
ReportFrom(context) ==
  [context |-> context, quota |-> Unattributed, status |-> "ok",
   buckets |-> [b \in BucketIds |->
                 [percent |-> 0, source |-> "live", raw |-> "ok"]]]
Unloaded == [points |-> 0, slots |-> 0, blocked |-> FALSE]
StepNames == {"claim", "prepared", "no-launch", "unknown", "receipt",
              "cancel-request", "output", "outcome", "disconnected",
              "recovered-receipt", "recovered-outcome", "unresolved-recovery",
              "review"}

\* The ledger is given the identifiers and the reports of a run.
ASSUME RunAssumption ==
  /\ Providers \subseteq {"codex", "claude", "opencode"}
  /\ TurnOutcomes \subseteq Outcomes \ {"launch_failed"}
  /\ StepNames \subseteq Steps /\ EventIds = AttemptIds \X Steps
  /\ AttemptIds \subseteq RequestKeys
  /\ {ReportFrom(c) : c \in Contexts} \subseteq Observations
  /\ Unloaded \in Loads
  /\ MaxCrashes \in Nat

VARIABLES
  exec,         \* [Executors -> Off or the state of a run, see Running]
  opened,       \* attempts that have an execution directory
  turn,         \* [AttemptIds -> TurnStates]: the native turn (external)
  submits,      \* [AttemptIds -> how often the prompt was submitted]
  interrupted,  \* attempts whose turn was sent an interruption
  journal,      \* [AttemptIds -> outcome in native-outcome.json or "none"]
  crashes       \* executor crashes so far

native == <<turn, submits, interrupted, journal>>
runVars == <<vars, exec, opened, native, crashes>>

TurnStates == {"none", "running", "killed"} \cup TurnOutcomes
\* Program points of run(); from all of them a KeyboardInterrupt is handled.
Owning == {"setup", "prepared", "submitting", "acking", "bound", "uncertain",
           "noLaunch", "noLaunchSettle", "loop", "deciding", "interrupting",
           "polling", "finish"}
Recovering == {"recovering", "reading", "recBind", "recSettle", "recFail"}
Running == [pc : {"locking", "locked", "claiming", "lost", "close"}
                   \cup Owning \cup Recovering,
            on : AttemptIds, cancelSeen : BOOLEAN, outputSeen : BOOLEAN,
            cancelling : BOOLEAN, due : BOOLEAN,
            kind : Outcomes \cup {"none"}]
Off == [pc |-> "idle"]
Fresh(a, pc) == [pc |-> pc, on |-> a, cancelSeen |-> FALSE,
                 outputSeen |-> FALSE, cancelling |-> FALSE, due |-> FALSE,
                 kind |-> "none"]

RunInit ==
  /\ Init
  /\ exec = [x \in Executors |-> Off]
  /\ opened = {}
  /\ turn = [a \in AttemptIds |-> "none"]
  /\ submits = [a \in AttemptIds |-> 0]
  /\ interrupted = {}
  /\ journal = [a \in AttemptIds |-> "none"]
  /\ crashes = 0

At(x, pc) == exec[x].pc = pc
On(x) == exec[x].on
RowOn(x) == attempts[On(x)]
Id(x, step) == <<On(x), step>>
Goto(x, pc) == exec' = [exec EXCEPT ![x].pc = pc]
Leave(x) == exec' = [exec EXCEPT ![x] = Off]
\* Holders of owner.lock: released when the process ends, however it ends.
Holders(a) == {x \in Executors : /\ exec[x] # Off /\ ~At(x, "locking")
                                 /\ On(x) = a}

----------------------------------------------------------------------------
(* execute(): the lock, the second look and the claim *)

Execute(x, a) ==
  /\ exec[x] = Off
  /\ a \in DOMAIN attempts /\ attempts[a].state = "admitted"
  /\ exec' = [exec EXCEPT ![x] = Fresh(a, "locking")]
  /\ opened' = opened \cup {a}
  /\ UNCHANGED <<vars, native, crashes>>

Lock(x) ==
  /\ At(x, "locking")
  /\ IF Holders(On(x)) = {} THEN Goto(x, "locked") ELSE Leave(x)
  /\ UNCHANGED <<vars, opened, native, crashes>>

\* The second look under the lock; preparing the worktree can fail.
Recheck(x) ==
  /\ At(x, "locked")
  /\ \/ RowOn(x).state = "admitted" /\ Goto(x, "claiming")
     \/ Leave(x)
  /\ UNCHANGED <<vars, opened, native, crashes>>

\* launch_once(): the claim, or nothing when the ledger refuses it.
ClaimRun(x) ==
  /\ At(x, "claiming")
  /\ \/ Claim(On(x), Id(x, "claim")) /\ Goto(x, "setup")
     \/ /\ RowOn(x).state # "admitted" \/ RowOn(x).expires <= now
        /\ Leave(x) /\ UNCHANGED vars
  /\ UNCHANGED <<opened, native, crashes>>

----------------------------------------------------------------------------
(* The adapter's launch() and what launch_once() makes of its result *)

\* Setup verifies account, quota and selection and records the session; any
\* failure of it, a refused "prepared" included, proves that nothing ran.
Setup(x) ==
  /\ At(x, "setup")
  /\ \/ Prepare(On(x), Id(x, "prepared")) /\ Goto(x, "prepared")
     \/ Goto(x, "noLaunch") /\ UNCHANGED vars
  /\ UNCHANGED <<opened, native, crashes>>

\* Claude and OpenCode look for a cancellation once more; Codex does not.
CheckCancel(x) ==
  /\ At(x, "prepared")
  /\ IF RowOn(x).provider # "codex" /\ RowOn(x).state = "cancelling"
     THEN Goto(x, "noLaunch") ELSE Goto(x, "submitting")
  /\ UNCHANGED <<vars, opened, native, crashes>>

\* The prompt is sent, and arrives or not.
Submit(x) ==
  /\ At(x, "submitting")
  /\ \/ /\ turn' = [turn EXCEPT ![On(x)] = "running"]
        /\ submits' = [submits EXCEPT ![On(x)] = @ + 1]
        /\ Goto(x, "acking")
     \/ Goto(x, "uncertain") /\ UNCHANGED <<turn, submits>>
  /\ UNCHANGED <<vars, opened, interrupted, journal, crashes>>

Acknowledge(x) ==
  /\ At(x, "acking")
  /\ Goto(x, "bound") \/ Goto(x, "uncertain")
  /\ UNCHANGED <<vars, opened, native, crashes>>

\* except NoLaunch: the state decides the kind of the event that follows.
NoLaunchRead(x) ==
  /\ At(x, "noLaunch")
  /\ exec' = [exec EXCEPT ![x].pc = "noLaunchSettle",
                ![x].kind = IF RowOn(x).state = "cancelling"
                            THEN "cancelled" ELSE "launch_failed"]
  /\ UNCHANGED <<vars, opened, native, crashes>>
\* A refused event is an uncaught LedgerError.
NoLaunchSettle(x) ==
  /\ At(x, "noLaunchSettle")
  /\ \/ Settle(On(x), Id(x, "no-launch"), exec[x].kind)
     \/ ~Confirmable(RowOn(x), exec[x].kind) /\ UNCHANGED vars
  /\ Goto(x, "close")
  /\ UNCHANGED <<opened, native, crashes>>

\* Mutant: an unanswered submission is tried again.
UncertainRetried(x) ==
  /\ At(x, "uncertain")
  /\ Goto(x, "submitting")
  /\ UNCHANGED <<vars, opened, native, crashes>>
\* Mutant: no answer taken for proof that nothing ran.
UncertainIsFailure(x) ==
  /\ At(x, "uncertain")
  /\ Goto(x, "noLaunch")
  /\ UNCHANGED <<vars, opened, native, crashes>>
\* except Exception: the result is unknown and the hold stays.
Uncertain(x) ==
  /\ At(x, "uncertain")
  /\ Disconnect(On(x), Id(x, "unknown"))
  /\ Goto(x, "close")
  /\ UNCHANGED <<opened, native, crashes>>

\* The receipt is recorded, or refused as malformed.
Bind(x) ==
  /\ At(x, "bound")
  /\ \/ Start(On(x), Id(x, "receipt"), TRUE) /\ Goto(x, "loop")
     \/ Goto(x, "uncertain") /\ UNCHANGED vars
  /\ UNCHANGED <<opened, native, crashes>>

----------------------------------------------------------------------------
(* run(): the loop of the owner *)

Look(x) ==
  /\ At(x, "loop")
  /\ exec' = [exec EXCEPT ![x].pc = "deciding",
                ![x].cancelSeen = RowOn(x).state = "cancelling",
                ![x].outputSeen = RowOn(x).output]
  /\ UNCHANGED <<vars, opened, native, crashes>>

StopWanted(x) == (exec[x].cancelSeen \/ exec[x].due) /\ ~exec[x].cancelling

RequestStop(x) ==
  /\ At(x, "deciding") /\ StopWanted(x)
  /\ \/ RequestCancel(On(x), Id(x, "cancel-request"))
     \/ Id(x, "cancel-request") \in events /\ UNCHANGED vars
  /\ exec' = [exec EXCEPT ![x].pc = "interrupting", ![x].cancelling = TRUE,
                          ![x].due = FALSE]
  /\ UNCHANGED <<opened, native, crashes>>

\* adapter.cancel(); its answer is no proof that the turn ended.
Interrupt(x) ==
  /\ At(x, "interrupting")
  /\ \/ interrupted' = interrupted \cup {On(x)} /\ Goto(x, "polling")
     \/ Goto(x, "lost") /\ UNCHANGED interrupted
  /\ UNCHANGED <<vars, opened, turn, submits, journal, crashes>>

\* Mutant: nobody watches the deadline of an interruption.
ProceedPatiently(x) ==
  /\ At(x, "deciding") /\ ~StopWanted(x)
  /\ Goto(x, "polling")
  /\ UNCHANGED <<vars, opened, native, crashes>>
Proceed(x) ==
  /\ At(x, "deciding") /\ ~StopWanted(x)
  /\ IF exec[x].cancelling /\ exec[x].due
     THEN Goto(x, "lost") ELSE Goto(x, "polling")
  /\ UNCHANGED <<vars, opened, native, crashes>>

KeepLease(x) ==
  /\ At(x, "polling")
  /\ Renew(On(x))
  /\ UNCHANGED <<exec, opened, native, crashes>>

\* adapter.poll(): nothing, a lost or malformed stream, ...
PollNothing(x) ==
  /\ At(x, "polling")
  /\ Goto(x, "loop") \/ Goto(x, "lost")
  /\ UNCHANGED <<vars, opened, native, crashes>>

\* ... output, of which the first is recorded (a refused event is an uncaught
\* LedgerError) ...
PollOutput(x) ==
  /\ At(x, "polling") /\ turn[On(x)] # "none"
  /\ \/ /\ exec[x].cancelling \/ exec[x].outputSeen
        /\ Goto(x, "loop") /\ UNCHANGED vars
     \/ /\ ~exec[x].cancelling /\ ~exec[x].outputSeen
        /\ \/ Produce(On(x), Id(x, "output")) /\ Goto(x, "loop")
           \/ /\ RowOn(x).state \notin ProducibleFrom
              /\ Goto(x, "close") /\ UNCHANGED vars
  /\ UNCHANGED <<opened, native, crashes>>

\* ... or the end of the turn.  Claude journals it before the ledger hears.
PollEnd(x) ==
  /\ At(x, "polling") /\ turn[On(x)] \in TurnOutcomes
  /\ exec' = [exec EXCEPT ![x].pc = "finish", ![x].kind = turn[On(x)]]
  /\ journal' = IF RowOn(x).provider = "claude"
                THEN [journal EXCEPT ![On(x)] = turn[On(x)]] ELSE journal
  /\ UNCHANGED <<vars, opened, turn, submits, interrupted, crashes>>

Finish(x) ==
  /\ At(x, "finish")
  /\ Settle(On(x), Id(x, "outcome"), exec[x].kind)
  /\ Goto(x, "close")
  /\ UNCHANGED <<opened, native, crashes>>

\* except (ProtocolError, OSError, KeyboardInterrupt).
Lost(x) ==
  /\ At(x, "lost")
  /\ Disconnect(On(x), Id(x, "disconnected"))
  /\ Goto(x, "close")
  /\ UNCHANGED <<opened, native, crashes>>

\* finally: adapter.close() ends the native process.
Close(x) ==
  /\ At(x, "close")
  /\ turn' = IF turn[On(x)] = "running"
             THEN [turn EXCEPT ![On(x)] = "killed"] ELSE turn
  /\ Leave(x)
  /\ UNCHANGED <<vars, opened, submits, interrupted, journal, crashes>>

\* The deadline of the run or of its interruption passes.
Deadline(x) ==
  /\ exec[x] # Off /\ exec[x].pc \in {"loop", "deciding", "interrupting", "polling"}
  /\ ~exec[x].due
  /\ exec' = [exec EXCEPT ![x].due = TRUE]
  /\ UNCHANGED <<vars, opened, native, crashes>>

KeyboardInterrupt(x) ==
  /\ exec[x].pc \in Owning
  /\ Goto(x, "lost")
  /\ UNCHANGED <<vars, opened, native, crashes>>

----------------------------------------------------------------------------
(* reconcile(): under the same lock, from durable native evidence only *)

Reconcile(x, a) ==
  /\ exec[x] = Off
  /\ a \in opened /\ Holders(a) = {}
  /\ exec' = [exec EXCEPT ![x] = Fresh(a, "recovering")]
  /\ UNCHANGED <<vars, opened, native, crashes>>

\* Codex leaves attempts that were never claimed or have no session alone;
\* Claude and OpenCode take every active one.
Reconcilable(row) ==
  IF row.provider = "codex"
  THEN row.state \in Active \ {"admitted"} /\ (row.prepared \/ row.receipt # "none")
  ELSE row.state \in Active

Recover(x) ==
  /\ At(x, "recovering")
  /\ IF Reconcilable(RowOn(x)) THEN Goto(x, "reading") ELSE Leave(x)
  /\ UNCHANGED <<vars, opened, native, crashes>>

\* What the native history or Claude's journal shows, if it can be read.
Evidence(a) ==
  {k \in TurnOutcomes :
     /\ attempts[a].prepared \/ attempts[a].receipt # "none"
     /\ k = IF attempts[a].provider = "claude" THEN journal[a] ELSE turn[a]}

ReadEvidence(x) ==
  /\ At(x, "reading")
  /\ \/ \E k \in Evidence(On(x)) :
          exec' = [exec EXCEPT ![x].kind = k,
                     ![x].pc = IF RowOn(x).receipt = "none"
                               THEN "recBind" ELSE "recSettle"]
     \/ Goto(x, "recFail")
  /\ UNCHANGED <<vars, opened, native, crashes>>

\* A refused event is caught and reported as unresolved.
RecoverReceipt(x) ==
  /\ At(x, "recBind")
  /\ \/ /\ Start(On(x), Id(x, "recovered-receipt"), TRUE)
        /\ Goto(x, "recSettle")
     \/ /\ RowOn(x).state \notin StartableFrom
        /\ Goto(x, "recFail") /\ UNCHANGED vars
  /\ UNCHANGED <<opened, native, crashes>>

RecoverOutcome(x) ==
  /\ At(x, "recSettle")
  /\ \/ /\ Settle(On(x), Id(x, "recovered-outcome"), exec[x].kind)
        /\ Leave(x)
     \/ /\ ~Confirmable(RowOn(x), exec[x].kind)
        /\ Goto(x, "recFail") /\ UNCHANGED vars
  /\ UNCHANGED <<opened, native, crashes>>

RecoverFailed(x) ==
  /\ At(x, "recFail")
  /\ \/ /\ RowOn(x).state # "reconciling"
        /\ Disconnect(On(x), Id(x, "unresolved-recovery"))
     \/ /\ \/ RowOn(x).state = "reconciling"
           \/ Id(x, "unresolved-recovery") \in events
           \/ ~IsActive(attempts, On(x))
        /\ UNCHANGED vars
  /\ Leave(x)
  /\ UNCHANGED <<opened, native, crashes>>

----------------------------------------------------------------------------
(* Everything around the executors *)

Crash(x) ==
  /\ exec[x] # Off /\ crashes < MaxCrashes
  /\ crashes' = crashes + 1
  /\ Leave(x)
  /\ UNCHANGED <<vars, opened, native>>

\* The native turn ends; a turn whose owner is gone may also just die.
TurnEnd(a, outcome) ==
  /\ turn[a] = "running"
  /\ outcome = "cancelled" => a \in interrupted
  /\ outcome = "killed" => Holders(a) = {}
  /\ turn' = [turn EXCEPT ![a] = outcome]
  /\ UNCHANGED <<vars, exec, opened, submits, interrupted, journal, crashes>>

Outside == UNCHANGED <<exec, opened, native, crashes>>

AdmitRun(a, i, p, cost) ==
  /\ AdmitNew(a, a, i, p, ReportFrom(binding[p]), now, Unloaded, cost)
  /\ Outside
UserCancel(a) == RequestCancel(a, <<a, "cancel-request">>) /\ Outside
UserReview(a, verdict) == Review(a, <<a, "review">>, verdict) /\ Outside

RunStep(x) ==
  \/ Lock(x) \/ Recheck(x) \/ ClaimRun(x)
  \/ Setup(x) \/ CheckCancel(x) \/ Submit(x) \/ Acknowledge(x)
  \/ NoLaunchRead(x) \/ NoLaunchSettle(x) \/ Uncertain(x) \/ Bind(x)
  \/ Look(x) \/ RequestStop(x) \/ Interrupt(x) \/ Proceed(x)
  \/ PollNothing(x) \/ PollOutput(x) \/ PollEnd(x)
  \/ Finish(x) \/ Lost(x) \/ Close(x)
  \/ Recover(x) \/ ReadEvidence(x) \/ RecoverReceipt(x)
  \/ RecoverOutcome(x) \/ RecoverFailed(x)

RunNext ==
  \/ \E x \in Executors, a \in AttemptIds : Execute(x, a) \/ Reconcile(x, a)
  \/ \E x \in Executors : RunStep(x)
  \/ \E x \in Executors : KeepLease(x) \/ Deadline(x) \/ KeyboardInterrupt(x)
                            \/ Crash(x)
  \/ \E a \in AttemptIds, outcome \in TurnOutcomes \cup {"killed"} :
       TurnEnd(a, outcome)
  \/ \E a \in AttemptIds, i \in Intents, p \in Providers, cost \in Costs :
       AdmitRun(a, i, p, cost)
  \/ \E a \in AttemptIds : UserCancel(a)
  \/ \E a \in AttemptIds, verdict \in Verdicts : UserReview(a, verdict)
  \/ ReconcileExpired /\ Outside   \* some other coordinator's admit()
  \/ Tick /\ Outside

RunSpec == RunInit /\ [][RunNext]_runVars

\* An executor that is not killed goes on, and its deadlines pass.
FairRunSpec ==
  /\ RunSpec
  /\ \A x \in Executors : WF_runVars(RunStep(x)) /\ WF_runVars(Deadline(x))

----------------------------------------------------------------------------
(* Properties *)

\* Capacity is held for as long as the native turn runs, through crashes of
\* the owner, cancellations, lost streams and leases that run out.
HeldWhileRunning ==
  \A a \in AttemptIds : turn[a] = "running" => IsActive(attempts, a)

\* The prompt of an attempt is submitted at most once, however many executors
\* try, crash or reconcile: an unanswered submission is never repeated.
SubmittedOnce == \A a \in AttemptIds : submits[a] <= 1

\* What the ledger says of a finished attempt is what the native turn did:
\* above all, launch_failed and an early cancelled mean nothing was submitted.
ToldTrue ==
  \A a \in DOMAIN attempts :
    LET state == attempts[a].state IN
    /\ state = "launch_failed" => submits[a] = 0
    /\ state = "cancelled" => submits[a] = 0 \/ turn[a] = "cancelled"
    /\ state \in {"completed"} \cup Verdicts => turn[a] = "completed"
    /\ state \in TurnOutcomes \ {"cancelled", "completed"} => turn[a] = state

\* A reconciliation that found how the turn ended also settles the attempt:
\* none of its events is refused, whatever the user or a sweep did meanwhile.
RecoverySettles ==
  \A x \in Executors : At(x, "recFail") => exec[x].kind = "none"

\* Every executor ends, by itself or by its deadlines, even when the native
\* side stays silent for ever.
RunsEnd == \A x \in Executors : exec[x] # Off ~> exec[x] = Off

\* docs/NATIVE-ADAPTERS.md: "A deadline or separate cancel request sends
\* native interruption".  An owner that ends a running turn whose
\* cancellation the ledger accepted has asked the native side to stop, or has
\* reported that it lost track of it.
CancelReachesNative ==
  \A x \in Executors :
    At(x, "close") /\ turn[On(x)] = "running" /\ RowOn(x).state = "cancelling"
      => \/ On(x) \in interrupted
         \/ {Id(x, "disconnected"), Id(x, "unknown")} \cap events # {}

\* docs/MANAGED.md: "Positive proof no launch happened: launch_failed,
\* releasing the hold once".
NoLaunchReleases ==
  \A x \in Executors :
    At(x, "close") /\ exec[x].kind \in {"launch_failed", "cancelled"}
      /\ submits[On(x)] = 0 /\ Id(x, "disconnected") \notin events
      => ~IsActive(attempts, On(x))

============================================================================
