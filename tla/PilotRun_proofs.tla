---------------------------- MODULE PilotRun_proofs ----------------------------
(***************************************************************************)
(* What holds of a paired pilot with any tasks, ceilings and snapshots, and *)
(* any number of crashes: every attempt is launched once, the two arms are  *)
(* compared on equal terms, and what is launched stays within the ceilings. *)
(*                                                                          *)
(* The inductive invariant says of run.json, on disk and in the copy of the *)
(* running step, that a single entry is open and which one (Journal), how   *)
(* it agrees with the ledger (Told) and with what was launched (Marked);    *)
(* what the ledger and the acceptance records may hold; and what the step   *)
(* has established by the time it gets to each point (StepInv).             *)
(* A second one, CeilingsInv, is about the bookings, on top of the first.   *)
(***************************************************************************)
EXTENDS PilotRun, FiniteFacts, FiniteSetTheorems, SequenceTheorems, WellFoundedInduction, TLAPS

\* What an entry of run.json, a snapshot and an acceptance record look like.
Phases == {"planned", "admitting", "admitted", "dispatching", "done"}
Reviewed == {"accepted", "rejected"}
EntryType ==
  [task : Range(Tasks), variant : Variants, number : {1, 2}, phase : Phases,
   provider : Providers \cup {None}, points : Nat, booked : BOOLEAN, noLaunch : BOOLEAN,
   case : Cases \cup {NoCase}, metrics : Int,
   outcome : {None, "refused", "unresolved"} \cup Reviewed \cup Ends]
Halts == {None, "budget", "cleanup", "safety", "tokens", "usage"}
SnapshotType == [key : Range(Tasks) \X {1, 2}, case : Cases]
StateType ==
  [entries : Seq(EntryType), snapshots : Seq(SnapshotType), halt : Halts]
Records == {NoReview, Record("rejected", FALSE, "not-created"),
            Record("preparing", FALSE, "pending"), Record("running", FALSE, "pending"),
            Record("preparing", FALSE, "removed"), Record("running", FALSE, "removed"),
            Record("error", FALSE, "removed"), Record("checked", FALSE, "removed"),
            Record("checked", TRUE, "removed"), Record("unresolved", FALSE, "unresolved")}
Preparing == Record("preparing", FALSE, "pending")
Running == Record("running", FALSE, "pending")
\* How a review can end whose container may yet be created.
Unheard == {"preparing", "error", "unresolved"}
AttemptType == [state : {None, "admitted", "running", "cancelling"} \cup Ends \cup Reviewed,
                metrics : Int, evidence : Records]

\* run.json by itself: one entry per key, ...
Open(e) == e.phase # "done"
OneEntry(s) ==
  \A i, j \in 1 .. Len(s.entries) : KeyOf(s.entries[i]) = KeyOf(s.entries[j]) => i = j
\* ... the open one is the one a resumed step goes on with, ...
OpenIsNext(s) ==
  \A i \in 1 .. Len(s.entries) : Open(s.entries[i]) =>
    /\ s.entries[i].outcome \in {None, "unresolved"}
    /\ DueSet(s.entries) # {} /\ KeyOf(s.entries[i]) = NextKey(s.entries)
\* ... decisions rest on the snapshot of their task and number, ...
CasesKept(s) ==
  /\ \A i, j \in 1 .. Len(s.snapshots) : s.snapshots[i].key = s.snapshots[j].key => i = j
  /\ \A i \in 1 .. Len(s.entries) : s.entries[i].case # NoCase =>
       \E j \in 1 .. Len(s.snapshots) : /\ s.snapshots[j].key = CaseKey(s.entries[i])
                                        /\ s.snapshots[j].case = s.entries[i].case
\* ... and a retry follows a rejection.
RetriesEarned(s) ==
  \A i \in 1 .. Len(s.entries) : s.entries[i].number = 2 =>
    \E j \in 1 .. Len(s.entries) :
      /\ KeyOf(s.entries[j]) = <<s.entries[i].task, s.entries[i].variant, 1>>
      /\ s.entries[j].outcome = "rejected"
Journal(s) ==
  s \in StateType /\ OneEntry(s) /\ OpenIsNext(s) /\ CasesKept(s) /\ RetriesEarned(s)

\* run.json against the ledger and the launches.
Told(s, attempts) ==
  \A i \in 1 .. Len(s.entries) : s.entries[i].outcome \in Reviewed =>
    attempts[KeyOf(s.entries[i])].state = s.entries[i].outcome
Marked(s, count) ==
  \A k \in Keys : count[k] > 0 =>
    \E i \in 1 .. Len(s.entries) : /\ KeyOf(s.entries[i]) = k
                                   /\ s.entries[i].phase \in {"dispatching", "done"}

JournalsInv ==
  /\ Journal(disk) /\ Told(disk, ledger) /\ Marked(disk, launches)
  /\ Journal(mem) /\ Told(mem, ledger) /\ Marked(mem, launches)

\* The ledger, the acceptance records and the containers.
AttemptsInv ==
  /\ ledger \in [Keys -> AttemptType]
  /\ launches \in [Keys -> 0 .. 1]
  /\ \A k \in Keys : (launches[k] = 0) = (ledger[k].state \in {None, "admitted"})
Decided(attempt, record) ==
  /\ attempt.evidence = record /\ CleanedUp(record)
  /\ (attempt.state = "accepted") = Accepts(record)
ReviewsInv ==
  /\ reviews \in [Keys -> Records]
  /\ containers \subseteq Keys /\ lost \subseteq Keys
  /\ \A k \in containers \ lost : reviews[k].cleanup \in {"pending", "unresolved"}
  /\ \A k \in lost : reviews[k].status \in Unheard
  /\ \A k \in Keys : ledger[k].state \in Reviewed =>
       Decided(ledger[k], reviews[k])

\* The entry a step goes on with.
CurrentOf(s) == CHOOSE i \in DOMAIN s.entries : s.entries[i].phase # "done"
EntryOf(s) == s.entries[CurrentOf(s)]
Going(s) == \E i \in 1 .. Len(s.entries) : Open(s.entries[i])

\* Where the step is, and what it has found or done already.
Reviewing == {"review", "create", "candidate", "error", "reviewed"}
Dispatched == {"launch", "running", "dispatching", "finish"} \cup Reviewing
StepInv ==
  /\ pc \in {"idle", "snapshot", "planned", "admitting", "saveAdmitted", "admitted"} \cup Dispatched
  /\ pc # "saveAdmitted" => mem = disk
  /\ pc # "idle" => Going(mem)
  /\ pc \in {"planned", "admitting", "admitted"} => E.phase = pc
  /\ pc = "planned" => Taken(E)
  /\ pc = "saveAdmitted" => E.phase = "admitted"
  /\ pc \in Dispatched => E.phase = "dispatching"
  /\ pc = "launch" => launches[Key] = 0
  /\ pc \in Reviewing => ledger[Key].state = "completed"
  /\ pc \in {"create", "error"} => reviews[Key] = Preparing
  /\ pc = "create" => Key \notin lost
  /\ pc = "candidate" => reviews[Key] = Running
  /\ pc = "finish" => ledger[Key].state \in Reviewed \cup (Ends \ {"completed"})

\* The inductive invariant.
PilotInv ==
  JournalsInv /\ AttemptsInv /\ ReviewsInv /\ StepInv

-----------------------------------------------------------------------------
(* run.json.                                                                  *)

LEMMA MinOfNaturals ==
  ASSUME NEW S \in SUBSET Nat, S # {}
  PROVE  Min(S) \in S
BY LeastNatural DEF Min

(* The keys of the manifest are request keys.                                 *)
LEMMA AtTyped ==
  ASSUME NEW n \in Positions
  PROVE  At(n) \in Keys
<1>0. Tasks \in Seq(Range(Tasks))
  BY PilotAssumption
<1>1. Len(Tasks) \in Nat /\ n \in 1 .. Len(Tasks) * 4
  BY <1>0 DEF Positions
<1>2. ((n - 1) \div 4) + 1 \in 1 .. Len(Tasks)
  BY <1>1
<1>3. PICK t \in Range(Tasks) : t = Tasks[((n - 1) \div 4) + 1]
  BY <1>2, PilotAssumption DEF Range
<1>4. ((n - 1) % 2) + 1 \in 1 .. 2
  BY <1>1
<1>5. Order[t][((n - 1) % 2) + 1] \in Variants
  BY <1>3, <1>4, PilotAssumption
<1>6. At(n) = <<t, Order[t][((n - 1) % 2) + 1], IF (n - 1) % 4 < 2 THEN 1 ELSE 2>>
  BY <1>3 DEF At
<1>. QED
  BY <1>5, <1>6 DEF Keys

LEMMA NextTyped ==
  ASSUME NEW u, DueSet(u) # {}
  PROVE  /\ NextKey(u) \in Keys
         /\ NextKey(u)[3] = 1 \/ Rejected(u, NextKey(u))
         /\ \A i \in Found(u, NextKey(u)) : u[i].phase # "done"
<1>1. DueSet(u) \subseteq Positions /\ Positions \subseteq Nat
  BY DEF DueSet, Positions
<1>2. Min(DueSet(u)) \in DueSet(u)
  BY <1>1, MinOfNaturals
<1>3. PICK n \in DueSet(u) : n = Min(DueSet(u))
  BY <1>2
<1>4. NextKey(u) = At(n) /\ Due(u, n) /\ n \in Positions
  BY <1>1, <1>3 DEF NextKey, DueSet
<1>5. NextKey(u) \in Keys
  BY <1>4, AtTyped
<1>. QED
  BY <1>4, <1>5 DEF Due

(* What is due depends on which keys are done and which were rejected.        *)
IsDone(u, k) == \E i \in DOMAIN u : KeyOf(u[i]) = k /\ u[i].phase = "done"
LEMMA DueSame ==
  ASSUME NEW u, NEW v,
         \A k : IsDone(u, k) <=> IsDone(v, k), \A k : Rejected(u, k) <=> Rejected(v, k)
  PROVE  DueSet(u) = DueSet(v) /\ NextKey(u) = NextKey(v)
<1>1. \A n : Due(u, n) <=> Due(v, n)
  BY DEF Due, IsDone, Found
<1>2. DueSet(u) = DueSet(v)
  BY <1>1 DEF DueSet
<1>. QED
  BY <1>2 DEF NextKey

LEMMA EntryTyped ==
  ASSUME NEW s \in StateType, NEW i \in 1 .. Len(s.entries)
  PROVE  /\ s.entries \in Seq(EntryType) /\ Len(s.entries) \in Nat
         /\ DOMAIN s.entries = 1 .. Len(s.entries)
         /\ s.entries[i] \in EntryType /\ KeyOf(s.entries[i]) \in Keys
         /\ CaseKey(s.entries[i]) \in Range(Tasks) \X {1, 2}
<1>1. s.entries \in Seq(EntryType)
  BY DEF StateType
<1>2. s.entries[i] \in EntryType
  BY <1>1
<1>3. \A e \in EntryType : KeyOf(e) \in Keys /\ CaseKey(e) \in Range(Tasks) \X {1, 2}
  BY DEF EntryType, KeyOf, CaseKey, Keys
<1>. QED
  BY <1>1, <1>2, <1>3

(* A single entry is open.                                                    *)
LEMMA OpenIsCurrent ==
  ASSUME NEW s, Journal(s), NEW i \in 1 .. Len(s.entries), Open(s.entries[i])
  PROVE  /\ CurrentOf(s) = i /\ EntryOf(s) = s.entries[i]
         /\ \A j \in 1 .. Len(s.entries) : Open(s.entries[j]) => j = i
<1>1. \A j \in 1 .. Len(s.entries) : Open(s.entries[j]) => j = i
  BY DEF Journal, OneEntry, OpenIsNext
<1>2. DOMAIN s.entries = 1 .. Len(s.entries)
  BY EntryTyped DEF Journal
<1>3. CurrentOf(s) = i
  BY <1>1, <1>2 DEF CurrentOf, Open
<1>. QED
  BY <1>1, <1>3 DEF EntryOf

LEMMA GoingFacts ==
  ASSUME NEW s, Journal(s), Going(s)
  PROVE  /\ CurrentOf(s) \in 1 .. Len(s.entries) /\ EntryOf(s) = s.entries[CurrentOf(s)]
         /\ Open(EntryOf(s)) /\ EntryOf(s) \in EntryType /\ KeyOf(EntryOf(s)) \in Keys
         /\ \A j \in 1 .. Len(s.entries) : Open(s.entries[j]) => j = CurrentOf(s)
         /\ s.entries \in Seq(EntryType) /\ s \in StateType
<1>1. PICK i \in 1 .. Len(s.entries) : Open(s.entries[i])
  BY DEF Going
<1>2. /\ CurrentOf(s) = i /\ EntryOf(s) = s.entries[i]
      /\ \A j \in 1 .. Len(s.entries) : Open(s.entries[j]) => j = i
  BY <1>1, OpenIsCurrent
<1>3. s \in StateType
  BY DEF Journal
<1>. QED
  BY <1>1, <1>2, <1>3, EntryTyped

(* A state with the same entries and snapshots, whatever its halt.            *)
LEMMA HaltKept ==
  ASSUME NEW s, NEW l, NEW n, NEW t \in StateType, Journal(s), Told(s, l), Marked(s, n),
         t.entries = s.entries, t.snapshots = s.snapshots
  PROVE  /\ Journal(t) /\ Told(t, l) /\ Marked(t, n)
         /\ CurrentOf(t) = CurrentOf(s) /\ EntryOf(t) = EntryOf(s) /\ Going(t) = Going(s)
<1>1. Journal(t)
  <2>1. OneEntry(t) /\ OpenIsNext(t)
    BY DEF Journal, OneEntry, OpenIsNext
  <2>2. CasesKept(t)
    BY DEF Journal, CasesKept
  <2>3. RetriesEarned(t)
    BY DEF Journal, RetriesEarned
  <2>. QED
    BY <2>1, <2>2, <2>3 DEF Journal
<1>2. Told(t, l) /\ Marked(t, n)
  BY DEF Told, Marked
<1>3. CurrentOf(t) = CurrentOf(s)
  BY DEF CurrentOf
<1>. QED
  BY <1>1, <1>2, <1>3 DEF EntryOf, Going

\* A step may write r for the open entry of s.
Replaces(s, r) ==
  /\ r \in EntryType
  /\ KeyOf(r) = KeyOf(EntryOf(s)) /\ CaseKey(r) = CaseKey(EntryOf(s))
  /\ Open(r) => r.outcome \in {None, "unresolved"}
  /\ r.case # NoCase =>
       \E j \in 1 .. Len(s.snapshots) : /\ s.snapshots[j].key = CaseKey(r)
                                        /\ s.snapshots[j].case = r.case
\* t is s with r for its open entry.
Replaced(s, r, t) ==
  /\ t \in StateType /\ t.snapshots = s.snapshots
  /\ t.entries = [s.entries EXCEPT ![CurrentOf(s)] = r]

LEMMA ReplacedFacts ==
  ASSUME NEW s, Journal(s), Going(s), NEW r, NEW t, Replaces(s, r), Replaced(s, r, t)
  PROVE  /\ Len(t.entries) = Len(s.entries) /\ CurrentOf(s) \in 1 .. Len(s.entries)
         /\ t.entries[CurrentOf(s)] = r
         /\ \A j \in 1 .. Len(s.entries) : j # CurrentOf(s) => t.entries[j] = s.entries[j]
         /\ \A j \in 1 .. Len(s.entries) : KeyOf(t.entries[j]) = KeyOf(s.entries[j])
         /\ \A j \in 1 .. Len(s.entries) : j # CurrentOf(s) => s.entries[j].phase = "done"
<1>1. PICK c : c = CurrentOf(s)
  OBVIOUS
<1>2. /\ c \in 1 .. Len(s.entries) /\ EntryOf(s) = s.entries[c]
      /\ \A j \in 1 .. Len(s.entries) : Open(s.entries[j]) => j = c
      /\ s.entries \in Seq(EntryType)
  BY <1>1, GoingFacts
<1>3. t.entries = [s.entries EXCEPT ![c] = r] /\ r \in EntryType
  BY <1>1 DEF Replaced, Replaces
<1>4. /\ Len(t.entries) = Len(s.entries) /\ t.entries[c] = r
      /\ \A j \in 1 .. Len(s.entries) : j # c => t.entries[j] = s.entries[j]
  BY <1>2, <1>3
<1>5. \A j \in 1 .. Len(s.entries) : j # c => s.entries[j].phase = "done"
  BY <1>2 DEF Open
<1>6. KeyOf(r) = KeyOf(s.entries[c])
  BY <1>2 DEF Replaces
<1>. QED
  BY <1>1, <1>2, <1>4, <1>5, <1>6

(* While the open entry stays open nothing else becomes due, and a retry      *)
(* keeps the rejection it followed.                                           *)
LEMMA ReplacedKept ==
  ASSUME NEW s, Journal(s), Going(s), NEW r, NEW t, Replaces(s, r), Replaced(s, r, t)
  PROVE  /\ Journal(t)
         /\ Open(r) => Going(t) /\ EntryOf(t) = r
<1>1. PICK c : c = CurrentOf(s)
  OBVIOUS
<1>2. /\ Len(t.entries) = Len(s.entries) /\ c \in 1 .. Len(s.entries) /\ t.entries[c] = r
      /\ \A j \in 1 .. Len(s.entries) : j # c => t.entries[j] = s.entries[j]
      /\ \A j \in 1 .. Len(s.entries) : KeyOf(t.entries[j]) = KeyOf(s.entries[j])
      /\ \A j \in 1 .. Len(s.entries) : j # c => s.entries[j].phase = "done"
  BY <1>1, ReplacedFacts
<1>3. /\ DOMAIN s.entries = 1 .. Len(s.entries) /\ DOMAIN t.entries = 1 .. Len(s.entries)
      /\ s \in StateType /\ t \in StateType /\ t.snapshots = s.snapshots
      /\ \A j \in 1 .. Len(s.entries) : s.entries[j] \in EntryType
  BY <1>2, EntryTyped DEF Replaced, Journal
<1>4. OneEntry(t)
  BY <1>2 DEF OneEntry, Journal
<1>5. /\ Open(s.entries[c]) /\ s.entries[c].outcome \in {None, "unresolved"}
      /\ EntryOf(s) = s.entries[c] /\ s.entries[c].phase # "done"
      /\ DueSet(s.entries) # {} /\ KeyOf(s.entries[c]) = NextKey(s.entries)
  <2>1. Open(s.entries[c]) /\ EntryOf(s) = s.entries[c]
    BY <1>1, GoingFacts
  <2>. QED
    BY <1>2, <2>1 DEF Journal, OpenIsNext, Open
<1>6. \A j \in 1 .. Len(s.entries) :
        s.entries[j].outcome = "rejected" => j # c /\ t.entries[j] = s.entries[j]
  BY <1>2, <1>5 DEF None
<1>7. ASSUME Open(r) PROVE OpenIsNext(t)
  <2>1. r.outcome # "rejected" /\ r.phase # "done"
    BY <1>7 DEF Replaces, Open, None
  <2>2. \A k : IsDone(s.entries, k) <=> IsDone(t.entries, k)
    BY <1>2, <1>3, <1>5, <2>1 DEF IsDone
  <2>3. \A k : Rejected(s.entries, k) <=> Rejected(t.entries, k)
    BY <1>2, <1>3, <1>6, <2>1 DEF Rejected, Found
  <2>4. DueSet(t.entries) = DueSet(s.entries) /\ NextKey(t.entries) = NextKey(s.entries)
    BY <2>2, <2>3, DueSame
  <2>5. r.outcome \in {None, "unresolved"}
    BY <1>7 DEF Replaces
  <2>6. ASSUME NEW i \in 1 .. Len(t.entries), Open(t.entries[i])
        PROVE  /\ t.entries[i].outcome \in {None, "unresolved"}
               /\ DueSet(t.entries) # {} /\ KeyOf(t.entries[i]) = NextKey(t.entries)
    <3>1. i = c
      BY <1>2, <2>6 DEF Open
    <3>. QED
      BY <1>2, <1>5, <2>4, <2>5, <3>1
  <2>. QED
    BY <2>6 DEF OpenIsNext
<1>8. ASSUME ~Open(r) PROVE OpenIsNext(t)
  <2>1. \A i \in 1 .. Len(t.entries) : ~Open(t.entries[i])
    BY <1>2, <1>8 DEF Open
  <2>. QED
    BY <2>1 DEF OpenIsNext
<1>9. CasesKept(t)
  <2>1. CasesKept(s)
    BY DEF Journal
  <2>2. ASSUME NEW i \in 1 .. Len(t.entries), t.entries[i].case # NoCase
        PROVE  \E j \in 1 .. Len(t.snapshots) :
                 /\ t.snapshots[j].key = CaseKey(t.entries[i])
                 /\ t.snapshots[j].case = t.entries[i].case
    <3>1. CASE i = c
      BY <1>2, <1>3, <2>2, <3>1 DEF Replaces
    <3>2. CASE i # c
      BY <1>2, <1>3, <2>1, <2>2, <3>2 DEF CasesKept
    <3>. QED
      BY <3>1, <3>2
  <2>3. \A i, j \in 1 .. Len(t.snapshots) : t.snapshots[i].key = t.snapshots[j].key => i = j
    BY <1>3, <2>1 DEF CasesKept
  <2>. QED
    BY <2>2, <2>3 DEF CasesKept
<1>10. RetriesEarned(t)
  <2>1. RetriesEarned(s)
    BY DEF Journal
  <2>2. \A a, b \in EntryType : KeyOf(a) = KeyOf(b) =>
          a.number = b.number /\ a.task = b.task /\ a.variant = b.variant
    BY DEF KeyOf
  <2>3. \A i \in 1 .. Len(t.entries) : t.entries[i] \in EntryType
    BY <1>3, EntryTyped
  <2>4. ASSUME NEW i \in 1 .. Len(t.entries), t.entries[i].number = 2
        PROVE  \E j \in 1 .. Len(t.entries) :
                 /\ KeyOf(t.entries[j]) = <<t.entries[i].task, t.entries[i].variant, 1>>
                 /\ t.entries[j].outcome = "rejected"
    <3>1. /\ s.entries[i].number = 2 /\ s.entries[i].task = t.entries[i].task
          /\ s.entries[i].variant = t.entries[i].variant
      BY <1>2, <1>3, <2>2, <2>3, <2>4
    <3>2. PICK j \in 1 .. Len(s.entries) :
            /\ KeyOf(s.entries[j]) = <<s.entries[i].task, s.entries[i].variant, 1>>
            /\ s.entries[j].outcome = "rejected"
      BY <1>2, <2>1, <3>1 DEF RetriesEarned
    <3>3. t.entries[j] = s.entries[j]
      BY <1>6, <3>2
    <3>. QED
      BY <1>2, <3>1, <3>2, <3>3
  <2>. QED
    BY <2>4 DEF RetriesEarned
<1>11. OpenIsNext(t)
  BY <1>7, <1>8
<1>12. Journal(t)
  BY <1>3, <1>4, <1>9, <1>10, <1>11 DEF Journal
<1>13. ASSUME Open(r) PROVE Going(t) /\ EntryOf(t) = r
  <2>1. c \in 1 .. Len(t.entries) /\ Open(t.entries[c])
    BY <1>2, <1>13
  <2>2. EntryOf(t) = t.entries[c]
    BY <1>12, <2>1, OpenIsCurrent
  <2>. QED
    BY <1>2, <2>1, <2>2 DEF Going
<1>. QED
  BY <1>12, <1>13

LEMMA ReplacedAgrees ==
  ASSUME NEW s, Journal(s), Going(s), NEW r, NEW t, Replaces(s, r), Replaced(s, r, t),
         NEW l, NEW n, Told(s, l), Marked(s, n),
         r.outcome \in Reviewed => l[KeyOf(r)].state = r.outcome,
         EntryOf(s).phase = "dispatching" => r.phase \in {"dispatching", "done"}
  PROVE  Told(t, l) /\ Marked(t, n)
<1>1. PICK c : c = CurrentOf(s)
  OBVIOUS
<1>2. /\ Len(t.entries) = Len(s.entries) /\ c \in 1 .. Len(s.entries) /\ t.entries[c] = r
      /\ \A j \in 1 .. Len(s.entries) : j # c => t.entries[j] = s.entries[j]
      /\ \A j \in 1 .. Len(s.entries) : KeyOf(t.entries[j]) = KeyOf(s.entries[j])
  BY <1>1, ReplacedFacts
<1>3. EntryOf(s) = s.entries[c] /\ s.entries[c].phase # "done"
  BY <1>1, GoingFacts DEF Open
<1>4. Told(t, l)
  BY <1>2 DEF Told
<1>5. ASSUME NEW k \in Keys, n[k] > 0
      PROVE  \E i \in 1 .. Len(t.entries) : /\ KeyOf(t.entries[i]) = k
                                            /\ t.entries[i].phase \in {"dispatching", "done"}
  <2>1. PICK i \in 1 .. Len(s.entries) : /\ KeyOf(s.entries[i]) = k
                                         /\ s.entries[i].phase \in {"dispatching", "done"}
    BY <1>5 DEF Marked
  <2>2. t.entries[i].phase \in {"dispatching", "done"}
    BY <1>2, <1>3, <2>1
  <2>. QED
    BY <1>2, <2>1, <2>2
<1>. QED
  BY <1>4, <1>5 DEF Marked

(* Begin: the entry that is due next is appended when it is not there yet,    *)
(* and then it is the only open one.                                          *)
LEMMA AppendKept ==
  ASSUME NEW s, Journal(s), DueSet(s.entries) # {}, NEW k, k = NextKey(s.entries),
         Found(s.entries, k) = {}, NEW t \in StateType, t.snapshots = s.snapshots,
         t.entries = Append(s.entries, Entry(k[1], k[2], k[3]))
  PROVE  /\ Journal(t) /\ Going(t)
         /\ \A l : Told(s, l) => Told(t, l)
         /\ \A n : Marked(s, n) => Marked(t, n)
<1>1. /\ k \in Keys /\ (k[3] = 1 \/ Rejected(s.entries, k))
  BY NextTyped
<1>2. PICK e : e = Entry(k[1], k[2], k[3])
  OBVIOUS
<1>3. /\ KeyOf(e) = k /\ e.case = NoCase /\ Open(e) /\ e.outcome = None /\ e.phase # "done"
      /\ e.task = k[1] /\ e.variant = k[2] /\ e.number = k[3]
  BY <1>1, <1>2 DEF Entry, KeyOf, Open, Keys
<1>4. s \in StateType /\ s.entries \in Seq(EntryType) /\ Len(s.entries) \in Nat
      /\ DOMAIN s.entries = 1 .. Len(s.entries)
  BY DEF Journal, StateType
<1>5. PICK c \in Nat : c = Len(s.entries) + 1
  BY <1>4
<1>6. /\ Len(t.entries) = c /\ t.entries[c] = e /\ c \in 1 .. Len(t.entries)
      /\ \A i \in 1 .. Len(s.entries) : t.entries[i] = s.entries[i] /\ i \in 1 .. Len(t.entries)
      /\ \A i \in 1 .. Len(t.entries) : i = c \/ i \in 1 .. Len(s.entries)
      /\ DOMAIN t.entries = 1 .. Len(t.entries)
  BY <1>2, <1>4, <1>5
<1>7. \A i \in 1 .. Len(s.entries) : KeyOf(s.entries[i]) # k
  BY <1>4 DEF Found
<1>8. \A i \in 1 .. Len(s.entries) : ~Open(s.entries[i])
  BY <1>7 DEF Journal, OpenIsNext
<1>9. OneEntry(t)
  <2>1. OneEntry(s)
    BY DEF Journal
  <2>2. ASSUME NEW i \in 1 .. Len(t.entries), NEW j \in 1 .. Len(t.entries),
               KeyOf(t.entries[i]) = KeyOf(t.entries[j])
        PROVE  i = j
    <3>1. CASE i = c
      BY <1>3, <1>6, <1>7, <2>2, <3>1
    <3>2. CASE j = c
      BY <1>3, <1>6, <1>7, <2>2, <3>2
    <3>3. CASE i # c /\ j # c
      BY <1>6, <2>1, <2>2, <3>3 DEF OneEntry
    <3>. QED
      BY <3>1, <3>2, <3>3
  <2>. QED
    BY <2>2 DEF OneEntry
<1>10. OpenIsNext(t)
  <2>1. \A q : IsDone(s.entries, q) <=> IsDone(t.entries, q)
    BY <1>3, <1>4, <1>6 DEF IsDone
  <2>2. \A q : Rejected(s.entries, q) <=> Rejected(t.entries, q)
    BY <1>3, <1>4, <1>6 DEF Rejected, Found, None
  <2>3. DueSet(t.entries) = DueSet(s.entries) /\ NextKey(t.entries) = k
    BY <2>1, <2>2, DueSame
  <2>4. \A i \in 1 .. Len(t.entries) : Open(t.entries[i]) => t.entries[i] = e
    BY <1>6, <1>8
  <2>. QED
    BY <1>3, <2>3, <2>4 DEF OpenIsNext
<1>11. CasesKept(t)
  BY <1>3, <1>6 DEF CasesKept, Journal
<1>12. RetriesEarned(t)
  <2>1. RetriesEarned(s)
    BY DEF Journal
  <2>2. ASSUME NEW i \in 1 .. Len(t.entries), t.entries[i].number = 2
        PROVE  \E j \in 1 .. Len(t.entries) :
                 /\ KeyOf(t.entries[j]) = <<t.entries[i].task, t.entries[i].variant, 1>>
                 /\ t.entries[j].outcome = "rejected"
    <3>1. CASE i = c
      <4>1. Rejected(s.entries, k)
        BY <1>1, <1>3, <1>6, <2>2, <3>1
      <4>2. PICK j \in 1 .. Len(s.entries) : /\ KeyOf(s.entries[j]) = <<k[1], k[2], 1>>
                                             /\ s.entries[j].outcome = "rejected"
        BY <1>4, <4>1 DEF Rejected, Found
      <4>. QED
        BY <1>3, <1>6, <3>1, <4>2
    <3>2. CASE i # c
      <4>1. PICK j \in 1 .. Len(s.entries) :
              /\ KeyOf(s.entries[j]) = <<s.entries[i].task, s.entries[i].variant, 1>>
              /\ s.entries[j].outcome = "rejected"
        BY <1>6, <2>1, <2>2, <3>2 DEF RetriesEarned
      <4>. QED
        BY <1>6, <3>2, <4>1
    <3>. QED
      BY <3>1, <3>2
  <2>. QED
    BY <2>2 DEF RetriesEarned
<1>13. Journal(t) /\ Going(t)
  BY <1>3, <1>6, <1>9, <1>10, <1>11, <1>12 DEF Journal, Going
<1>14. ASSUME NEW l, Told(s, l) PROVE Told(t, l)
  BY <1>3, <1>6, <1>14 DEF Told, Reviewed, None
<1>15. ASSUME NEW n, Marked(s, n) PROVE Marked(t, n)
  <2>1. ASSUME NEW q \in Keys, n[q] > 0
        PROVE  \E i \in 1 .. Len(t.entries) : /\ KeyOf(t.entries[i]) = q
                                              /\ t.entries[i].phase \in {"dispatching", "done"}
    <3>1. PICK i \in 1 .. Len(s.entries) : /\ KeyOf(s.entries[i]) = q
                                           /\ s.entries[i].phase \in {"dispatching", "done"}
      BY <1>15, <2>1 DEF Marked
    <3>. QED
      BY <1>6, <3>1
  <2>. QED
    BY <2>1 DEF Marked
<1>. QED
  BY <1>13, <1>14, <1>15

(* Snapshot: an observation is added for a task and number that had none.     *)
LEMMA SnapshotKept ==
  ASSUME NEW s, Journal(s), NEW e \in EntryType, NEW c \in Cases, NEW t \in StateType,
         \A i \in 1 .. Len(s.snapshots) : s.snapshots[i].key # CaseKey(e),
         t.entries = s.entries,
         t.snapshots = Append(s.snapshots, [key |-> CaseKey(e), case |-> c])
  PROVE  /\ Journal(t) /\ Going(t) = Going(s) /\ EntryOf(t) = EntryOf(s)
         /\ \A l : Told(s, l) => Told(t, l)
         /\ \A n : Marked(s, n) => Marked(t, n)
<1>1. s.snapshots \in Seq(SnapshotType) /\ Len(s.snapshots) \in Nat
  BY DEF Journal, StateType
<1>2. PICK d : d = [key |-> CaseKey(e), case |-> c]
  OBVIOUS
<1>3. PICK m \in Nat : m = Len(s.snapshots) + 1
  BY <1>1
<1>4. /\ Len(t.snapshots) = m /\ t.snapshots[m] = d /\ d.key = CaseKey(e)
      /\ \A i \in 1 .. Len(s.snapshots) :
           t.snapshots[i] = s.snapshots[i] /\ i \in 1 .. Len(t.snapshots)
      /\ \A i \in 1 .. Len(t.snapshots) : i = m \/ i \in 1 .. Len(s.snapshots)
  BY <1>1, <1>2, <1>3
<1>5. CasesKept(s)
  BY DEF Journal
<1>6. ASSUME NEW i \in 1 .. Len(t.snapshots), NEW j \in 1 .. Len(t.snapshots),
             t.snapshots[i].key = t.snapshots[j].key
      PROVE  i = j
  <2>1. CASE i = m
    BY <1>4, <1>6, <2>1
  <2>2. CASE j = m
    BY <1>4, <1>6, <2>2
  <2>3. CASE i # m /\ j # m
    BY <1>4, <1>5, <1>6, <2>3 DEF CasesKept
  <2>. QED
    BY <2>1, <2>2, <2>3
<1>7. ASSUME NEW i \in 1 .. Len(s.entries), s.entries[i].case # NoCase
      PROVE  \E j \in 1 .. Len(t.snapshots) :
               /\ t.snapshots[j].key = CaseKey(s.entries[i])
               /\ t.snapshots[j].case = s.entries[i].case
  <2>1. PICK j \in 1 .. Len(s.snapshots) : /\ s.snapshots[j].key = CaseKey(s.entries[i])
                                           /\ s.snapshots[j].case = s.entries[i].case
    BY <1>5, <1>7 DEF CasesKept
  <2>. QED
    BY <1>4, <2>1
<1>8. CasesKept(t)
  BY <1>6, <1>7 DEF CasesKept
<1>9. Journal(t)
  BY <1>8 DEF Journal, OneEntry, OpenIsNext, RetriesEarned
<1>10. CurrentOf(t) = CurrentOf(s)
  BY DEF CurrentOf
<1>. QED
  BY <1>9, <1>10 DEF Going, EntryOf, Told, Marked

-----------------------------------------------------------------------------
(* Steps.                                                                     *)

\* The entry of the running step, by the copy it works on.
LEMMA EntryNow ==
  /\ Current = CurrentOf(mem) /\ E = EntryOf(mem) /\ Key = KeyOf(EntryOf(mem))
  /\ E' = EntryOf(mem') /\ Key' = KeyOf(EntryOf(mem'))
BY DEF Current, E, Key, CurrentOf, EntryOf

(* What a step writes into the open entry.                                    *)
LEMMA ChangeFacts ==
  ASSUME Journal(mem), Going(mem), NEW r, Replaces(mem, r)
  PROVE  /\ Replaced(mem, r, Change(r))
         /\ \A reason \in Halts : Replaced(mem, r, Halted(Change(r), reason))
<1>1. PICK c : c = CurrentOf(mem)
  OBVIOUS
<1>2. /\ mem \in StateType /\ c \in 1 .. Len(mem.entries) /\ r \in EntryType
      /\ mem.entries \in Seq(EntryType)
  BY <1>1, GoingFacts DEF Replaces
<1>3. Change(r) = [mem EXCEPT !.entries = [mem.entries EXCEPT ![c] = r]]
  BY <1>1, <1>2, EntryNow DEF Change, StateType
<1>4. [mem.entries EXCEPT ![c] = r] \in Seq(EntryType)
  BY <1>2
<1>5. PICK u \in Seq(EntryType) : u = [mem.entries EXCEPT ![c] = r]
  BY <1>4
<1>6. Change(r) = [mem EXCEPT !.entries = u]
  BY <1>3, <1>5
<1>7. Change(r) \in StateType /\ Change(r).entries = u /\ Change(r).snapshots = mem.snapshots
  BY <1>2, <1>6 DEF StateType
<1>8. ASSUME NEW reason \in Halts
      PROVE  /\ Halted(Change(r), reason) \in StateType
             /\ Halted(Change(r), reason).entries = u
             /\ Halted(Change(r), reason).snapshots = mem.snapshots
  BY <1>7 DEF Halted, StateType
<1>. QED
  BY <1>1, <1>5, <1>7, <1>8 DEF Replaced

(* A saved change of the open entry, the ledger left alone.                   *)
LEMMA SaveKept ==
  ASSUME JournalsInv, Going(mem), NEW r, NEW t, Replaces(mem, r), Replaced(mem, r, t), Save(t),
         r.outcome \in Reviewed => ledger[KeyOf(r)].state = r.outcome,
         EntryOf(mem).phase = "dispatching" => r.phase \in {"dispatching", "done"},
         ledger' = ledger, launches' = launches
  PROVE  /\ JournalsInv' /\ mem' = disk'
         /\ Open(r) => Going(mem') /\ E' = r /\ Key' = Key
<1>1. Journal(t) /\ (Open(r) => Going(t) /\ EntryOf(t) = r)
  BY ReplacedKept DEF JournalsInv
<1>2. Told(t, ledger) /\ Marked(t, launches)
  BY ReplacedAgrees DEF JournalsInv
<1>3. mem' = t /\ disk' = t
  BY DEF Save
<1>4. JournalsInv'
  BY <1>1, <1>2, <1>3 DEF JournalsInv
<1>5. KeyOf(r) = Key
  BY EntryNow DEF Replaces
<1>. QED
  BY <1>1, <1>3, <1>4, <1>5, EntryNow

\* One attempt moves on.
Moves(k) ==
  /\ k \in Keys /\ ledger' \in [Keys -> AttemptType]
  /\ \A q \in Keys : q # k => ledger'[q] = ledger[q]
  /\ ledger[k].state \notin Reviewed
  /\ ledger'[k].state \in Reviewed => Decided(ledger'[k], reviews[k])
(* What was decided stays, so whatever run.json says of it stays true.        *)
LEMMA MovesKept ==
  ASSUME AttemptsInv, ReviewsInv, NEW k, Moves(k), UNCHANGED acceptance
  PROVE  ReviewsInv' /\ \A s : Journal(s) /\ Told(s, ledger) => Told(s, ledger')
<1>1. ReviewsInv'
  BY DEF ReviewsInv, Moves, acceptance
<1>2. ASSUME NEW s, Journal(s), Told(s, ledger) PROVE Told(s, ledger')
  <2>1. \A i \in 1 .. Len(s.entries) : KeyOf(s.entries[i]) \in Keys
    BY <1>2, EntryTyped DEF Journal
  <2>. QED
    BY <1>2, <2>1 DEF Told, Moves
<1>. QED
  BY <1>1, <1>2

(* An attempt that was launched moves on, nothing else happens.               *)
LEMMA MovesOn ==
  ASSUME JournalsInv, AttemptsInv, ReviewsInv, NEW k, Moves(k), UNCHANGED acceptance,
         ledger[k].state \notin {None, "admitted"}, ledger'[k].state \notin {None, "admitted"},
         launches' = launches, disk' = disk, mem' = mem
  PROVE  JournalsInv' /\ AttemptsInv' /\ ReviewsInv'
<1>1. ReviewsInv' /\ \A s : Journal(s) /\ Told(s, ledger) => Told(s, ledger')
  BY MovesKept
<1>2. JournalsInv'
  BY <1>1 DEF JournalsInv
<1>3. AttemptsInv'
  BY DEF AttemptsInv, Moves
<1>. QED
  BY <1>1, <1>2, <1>3

(* The open entry is not decided, and what it has come to shows in the ledger.*)
LEMMA GoingKey ==
  ASSUME PilotInv, pc # "idle"
  PROVE  /\ Journal(mem) /\ Going(mem) /\ Key \in Keys /\ E \in EntryType /\ Open(E)
         /\ E = EntryOf(mem) /\ Key = KeyOf(E) /\ E.outcome \in {None, "unresolved"}
         /\ E.phase \in {"planned", "admitting", "admitted"} => launches[Key] = 0
<1>1. Journal(mem) /\ Going(mem) /\ Marked(mem, launches)
  BY DEF PilotInv, StepInv, JournalsInv
<1>2. /\ Key \in Keys /\ E \in EntryType /\ Open(E) /\ E = EntryOf(mem) /\ Key = KeyOf(E)
      /\ CurrentOf(mem) \in 1 .. Len(mem.entries) /\ E = mem.entries[CurrentOf(mem)]
  BY <1>1, GoingFacts, EntryNow
<1>3. E.outcome \in {None, "unresolved"}
  BY <1>1, <1>2 DEF Journal, OpenIsNext
<1>4. ASSUME launches[Key] > 0
      PROVE  E.phase \in {"dispatching", "done"}
  <2>1. PICK i \in 1 .. Len(mem.entries) : /\ KeyOf(mem.entries[i]) = Key
                                           /\ mem.entries[i].phase \in {"dispatching", "done"}
    BY <1>1, <1>2, <1>4 DEF Marked
  <2>2. i = CurrentOf(mem)
    BY <1>1, <1>2, <2>1 DEF Journal, OneEntry
  <2>. QED
    BY <1>2, <2>1, <2>2
<1>5. launches[Key] \in 0 .. 1
  BY <1>2 DEF PilotInv, AttemptsInv
<1>6. E.phase \in {"planned", "admitting", "admitted"} => launches[Key] = 0
  BY <1>4, <1>5
<1>. QED
  BY <1>1, <1>2, <1>3, <1>6

(* The case of the open entry is in the snapshots.                            *)
LEMMA CaseInSnapshots ==
  ASSUME Journal(mem), Going(mem), E = EntryOf(mem)
  PROVE  E.case # NoCase =>
           \E j \in 1 .. Len(mem.snapshots) : /\ mem.snapshots[j].key = CaseKey(E)
                                              /\ mem.snapshots[j].case = E.case
<1>1. PICK c \in 1 .. Len(mem.entries) : E = mem.entries[c]
  BY GoingFacts
<1>2. CasesKept(mem)
  BY DEF Journal
<1>. QED
  BY <1>1, <1>2 DEF CasesKept

(* The ledger and the acceptance records left alone.                          *)
LEMMA NativeSame ==
  ASSUME AttemptsInv, ReviewsInv, UNCHANGED <<native, acceptance>>
  PROVE  AttemptsInv' /\ ReviewsInv' /\ ledger' = ledger /\ launches' = launches
         /\ reviews' = reviews /\ containers' = containers /\ lost' = lost
<1>1. /\ ledger' = ledger /\ launches' = launches /\ reviews' = reviews
      /\ containers' = containers /\ lost' = lost
  BY DEF native, acceptance
<1>2. AttemptsInv'
  BY <1>1 DEF AttemptsInv
<1>3. ReviewsInv'
  BY <1>1 DEF ReviewsInv
<1>. QED
  BY <1>1, <1>2, <1>3

LEMMA BeginStep ==
  ASSUME PilotInv, Begin
  PROVE  PilotInv'
<1>1. /\ JournalsInv /\ AttemptsInv /\ ReviewsInv /\ Journal(disk)
  BY DEF PilotInv, JournalsInv
<1>2. AttemptsInv' /\ ReviewsInv' /\ ledger' = ledger /\ launches' = launches
  BY <1>1, NativeSame DEF Begin, Stay
<1>3. PICK k : k = NextKey(disk.entries)
  OBVIOUS
<1>4. DueSet(disk.entries) # {} /\ pc' = "snapshot"
  BY DEF Begin
<1>5. k \in Keys /\ \A i \in Found(disk.entries, k) : disk.entries[i].phase # "done"
  BY <1>3, <1>4, NextTyped
<1>6. disk \in StateType /\ DOMAIN disk.entries = 1 .. Len(disk.entries)
  BY <1>1 DEF Journal, StateType
<1>7. CASE Found(disk.entries, k) # {}
  <2>1. mem' = disk /\ disk' = disk
    BY <1>3, <1>7 DEF Begin
  <2>2. PICK i \in 1 .. Len(disk.entries) : disk.entries[i].phase # "done"
    BY <1>5, <1>6, <1>7 DEF Found
  <2>3. Going(mem')
    BY <2>1, <2>2 DEF Going, Open
  <2>4. JournalsInv'
    BY <1>1, <1>2, <2>1 DEF JournalsInv
  <2>5. StepInv'
    BY <1>4, <2>1, <2>3 DEF StepInv, Dispatched, Reviewing
  <2>. QED
    BY <1>2, <2>4, <2>5 DEF PilotInv
<1>8. CASE Found(disk.entries, k) = {}
  <2>1. PICK e : e = Entry(k[1], k[2], k[3])
    OBVIOUS
  <2>2. e \in EntryType
    BY <1>5, <2>1 DEF Entry, EntryType, Keys, Phases, Unknown
  <2>3. Append(disk.entries, e) \in Seq(EntryType)
    BY <1>6, <2>2 DEF StateType
  <2>4. PICK t : t = [disk EXCEPT !.entries = Append(disk.entries, e)]
    OBVIOUS
  <2>5. /\ t \in StateType /\ t.snapshots = disk.snapshots
        /\ t.entries = Append(disk.entries, e)
    BY <1>6, <2>3, <2>4 DEF StateType
  <2>6. mem' = t /\ disk' = t
    BY <1>3, <1>8, <2>1, <2>4 DEF Begin, Save
  <2>7. /\ Journal(t) /\ Going(t) /\ (\A l : Told(disk, l) => Told(t, l))
        /\ (\A n : Marked(disk, n) => Marked(t, n))
    BY <1>1, <1>3, <1>4, <1>8, <2>1, <2>5, AppendKept
  <2>8. JournalsInv'
    BY <1>1, <1>2, <2>6, <2>7 DEF JournalsInv
  <2>9. StepInv'
    BY <1>4, <2>6, <2>7 DEF StepInv, Dispatched, Reviewing
  <2>. QED
    BY <1>2, <2>8, <2>9 DEF PilotInv
<1>. QED
  BY <1>7, <1>8

LEMMA SnapshotStep ==
  ASSUME PilotInv, Snapshot
  PROVE  PilotInv'
<1>1. /\ JournalsInv /\ AttemptsInv /\ ReviewsInv /\ Journal(mem) /\ pc = "snapshot"
      /\ mem = disk
  BY DEF PilotInv, JournalsInv, StepInv, Snapshot
<1>2. AttemptsInv' /\ ReviewsInv' /\ ledger' = ledger /\ launches' = launches
  BY <1>1, NativeSame DEF Snapshot, Stay
<1>3. Going(mem) /\ E \in EntryType /\ Open(E) /\ E = EntryOf(mem)
  BY <1>1, GoingKey
<1>4. pc' = E.phase /\ E.phase \in {"planned", "admitting", "admitted", "dispatching"}
  BY <1>3 DEF Snapshot, EntryType, Phases, Open
<1>5. ASSUME mem' = disk', JournalsInv', Going(mem'), E' = E, Taken(E)'
      PROVE  PilotInv'
  <2>1. StepInv'
    BY <1>4, <1>5 DEF StepInv, Dispatched, Reviewing
  <2>. QED
    BY <1>2, <1>5, <2>1 DEF PilotInv
<1>6. CASE Taken(E)
  <2>1. mem' = mem /\ disk' = disk
    BY <1>6 DEF Snapshot
  <2>2. E' = E
    BY <2>1, EntryNow
  <2>3. Taken(E)'
    BY <1>6, <2>1, <2>2 DEF Taken
  <2>4. JournalsInv'
    BY <1>1, <1>2, <2>1 DEF JournalsInv
  <2>. QED
    BY <1>1, <1>3, <1>5, <2>1, <2>2, <2>3, <2>4
<1>7. CASE ~Taken(E)
  <2>1. PICK c \in Cases :
          Save([mem EXCEPT !.snapshots = Append(@, [key |-> CaseKey(E), case |-> c])])
    BY <1>7 DEF Snapshot
  <2>2. mem \in StateType /\ mem.snapshots \in Seq(SnapshotType)
    BY <1>1 DEF Journal, StateType
  <2>3. PICK d : d = [key |-> CaseKey(E), case |-> c]
    OBVIOUS
  <2>4. CaseKey(E) \in Range(Tasks) \X {1, 2}
    BY <1>3 DEF CaseKey, EntryType
  <2>5. d \in SnapshotType
    BY <2>3, <2>4 DEF SnapshotType
  <2>6. PICK u \in Seq(SnapshotType) : u = Append(mem.snapshots, d)
    <3>1. Append(mem.snapshots, d) \in Seq(SnapshotType)
      BY <2>2, <2>5
    <3>. QED
      BY <3>1
  <2>7. PICK t : t = [mem EXCEPT !.snapshots = u]
    OBVIOUS
  <2>8. t \in StateType /\ t.entries = mem.entries /\ t.snapshots = u
    BY <2>2, <2>7 DEF StateType
  <2>9. mem' = t /\ disk' = t
    BY <2>1, <2>2, <2>3, <2>6, <2>7 DEF Save, StateType
  <2>10. \A i \in 1 .. Len(mem.snapshots) : mem.snapshots[i].key # CaseKey(E)
    BY <1>7, <2>2 DEF Taken
  <2>11. /\ Journal(t) /\ Going(t) = Going(mem) /\ EntryOf(t) = EntryOf(mem)
         /\ (\A l : Told(mem, l) => Told(t, l)) /\ (\A n : Marked(mem, n) => Marked(t, n))
    BY <1>1, <1>3, <2>3, <2>6, <2>8, <2>10, SnapshotKept
  <2>12. JournalsInv'
    BY <1>1, <1>2, <2>9, <2>11 DEF JournalsInv
  <2>13. E' = E /\ Going(mem') /\ mem' = disk'
    BY <1>3, <2>9, <2>11, EntryNow
  <2>14. Taken(E)'
    <3>1. /\ Len(u) \in Nat /\ Len(u) = Len(mem.snapshots) + 1 /\ u[Len(u)] = d
          /\ DOMAIN u = 1 .. Len(u) /\ Len(u) \in 1 .. Len(u)
      BY <2>2, <2>5, <2>6
    <3>2. u[Len(u)].key = CaseKey(E)
      BY <2>3, <3>1
    <3>3. mem'.snapshots = u
      BY <2>8, <2>9
    <3>4. CaseKey(E') \in {mem'.snapshots[i].key : i \in DOMAIN mem'.snapshots}
      BY <2>13, <3>1, <3>2, <3>3
    <3>. QED
      BY <3>4 DEF Taken
  <2>. QED
    BY <1>5, <2>12, <2>13, <2>14
<1>. QED
  BY <1>6, <1>7

(* A step that ends with its entry saved, and leaves ledger and reviews alone.*)
LEMMA SavedIdle ==
  ASSUME PilotInv, pc # "idle", UNCHANGED <<native, acceptance>>, pc' = "idle",
         NEW r, NEW t, Replaces(mem, r), Replaced(mem, r, t), Save(t),
         r.outcome \in Reviewed => ledger[Key].state = r.outcome,
         E.phase = "dispatching" => r.phase \in {"dispatching", "done"}
  PROVE  PilotInv'
<1>1. JournalsInv /\ AttemptsInv /\ ReviewsInv /\ Going(mem) /\ E = EntryOf(mem) /\ Key = KeyOf(E)
  BY GoingKey DEF PilotInv
<1>2. AttemptsInv' /\ ReviewsInv' /\ ledger' = ledger /\ launches' = launches
  BY <1>1, NativeSame
<1>3. KeyOf(r) = Key
  BY <1>1 DEF Replaces
<1>4. JournalsInv' /\ mem' = disk'
  BY <1>1, <1>2, <1>3, SaveKept
<1>5. StepInv'
  BY <1>4 DEF StepInv, Dispatched, Reviewing
<1>. QED
  BY <1>2, <1>4, <1>5 DEF PilotInv

LEMMA CaseFacts ==
  ASSUME Journal(mem), E \in EntryType, Taken(E)
  PROVE  /\ CaseOf(E) \in Cases
         /\ \E j \in 1 .. Len(mem.snapshots) : /\ mem.snapshots[j].key = CaseKey(E)
                                               /\ mem.snapshots[j].case = CaseOf(E)
<1>1. mem.snapshots \in Seq(SnapshotType) /\ DOMAIN mem.snapshots = 1 .. Len(mem.snapshots)
  BY DEF Journal, StateType
<1>2. \E i \in DOMAIN mem.snapshots : mem.snapshots[i].key = CaseKey(E)
  BY DEF Taken
<1>3. PICK j : j = CHOOSE i \in DOMAIN mem.snapshots : mem.snapshots[i].key = CaseKey(E)
  OBVIOUS
<1>4. j \in DOMAIN mem.snapshots /\ mem.snapshots[j].key = CaseKey(E)
  BY <1>2, <1>3
<1>5. CaseOf(E) = mem.snapshots[j].case
  BY <1>3 DEF CaseOf
<1>6. mem.snapshots[j] \in SnapshotType
  BY <1>1, <1>4
<1>7. CaseOf(E) \in Cases
  BY <1>5, <1>6 DEF SnapshotType
<1>. QED
  BY <1>1, <1>4, <1>5, <1>7

LEMMA PlanStep ==
  ASSUME PilotInv, Plan
  PROVE  PilotInv'
<1>1. /\ JournalsInv /\ AttemptsInv /\ ReviewsInv /\ Journal(mem) /\ pc = "planned"
      /\ E.phase = "planned" /\ Taken(E)
  BY DEF PilotInv, JournalsInv, StepInv, Plan
<1>2. /\ Going(mem) /\ E \in EntryType /\ Open(E) /\ E = EntryOf(mem)
      /\ E.outcome \in {None, "unresolved"} /\ Key = KeyOf(E)
  BY <1>1, GoingKey
<1>3. PICK c \in Cases : c = CaseOf(E)
  BY <1>1, <1>2, CaseFacts
<1>4. \E j \in 1 .. Len(mem.snapshots) : /\ mem.snapshots[j].key = CaseKey(E)
                                         /\ mem.snapshots[j].case = c
  BY <1>1, <1>2, <1>3, CaseFacts
<1>5. c[E.variant] \in Providers \cup {None}
  BY <1>2, PilotAssumption DEF EntryType
<1>6. PICK p \in Providers \cup {None} : p = c[E.variant]
  BY <1>5
<1>7. UNCHANGED <<native, acceptance>> /\ ledger' = ledger /\ launches' = launches
  BY DEF Plan, Stay, native
<1>8. PICK known : known = [E EXCEPT !.case = c]
  OBVIOUS
<1>9. /\ known \in EntryType /\ KeyOf(known) = KeyOf(E) /\ CaseKey(known) = CaseKey(E)
      /\ known.case = c /\ known.outcome = E.outcome /\ known.phase = "planned"
  BY <1>1, <1>2, <1>8 DEF EntryType, KeyOf, CaseKey
<1>10. PICK chosen : chosen = [known EXCEPT !.provider = p, !.points = PointsOf[p]]
  OBVIOUS
<1>11. ASSUME p # None
       PROVE  /\ chosen \in EntryType /\ KeyOf(chosen) = KeyOf(E)
              /\ CaseKey(chosen) = CaseKey(E)
              /\ chosen.case = c /\ chosen.outcome = E.outcome /\ chosen.phase = "planned"
  <2>1. PointsOf[p] \in Nat
    BY <1>11, PilotAssumption
  <2>. QED
    BY <1>9, <1>10, <2>1 DEF EntryType, KeyOf, CaseKey
<1>12. CASE /\ p = None /\ Save(Change([known EXCEPT !.phase = "done", !.outcome = "refused"]))
            /\ pc' = "idle"
  <2>1. PICK r : r = [known EXCEPT !.phase = "done", !.outcome = "refused"]
    OBVIOUS
  <2>2. /\ r \in EntryType /\ KeyOf(r) = KeyOf(E) /\ CaseKey(r) = CaseKey(E) /\ r.case = c
        /\ r.phase = "done" /\ r.outcome = "refused"
    BY <1>9, <2>1 DEF EntryType, KeyOf, CaseKey, Phases
  <2>3. Replaces(mem, r)
    BY <1>2, <1>4, <2>2 DEF Replaces, Open
  <2>4. Replaced(mem, r, Change(r)) /\ Save(Change(r)) /\ pc' = "idle"
    BY <1>1, <1>2, <1>12, <2>1, <2>3, ChangeFacts
  <2>5. r.outcome \notin Reviewed
    BY <2>2 DEF Reviewed
  <2>6. pc # "idle" /\ E.phase # "dispatching"
    BY <1>1
  <2>7. PICK t : t = Change(r)
    OBVIOUS
  <2>8. Replaced(mem, r, t) /\ Save(t)
    BY <2>4, <2>7
  <2>. QED
    BY <1>7, <2>3, <2>4, <2>5, <2>6, <2>8, SavedIdle
<1>13. CASE p # None /\ Save(Halted(Change(chosen), "budget")) /\ pc' = "idle"
  <2>1. Replaces(mem, chosen)
    BY <1>2, <1>4, <1>11, <1>13 DEF Replaces, Open
  <2>2. chosen.outcome \notin Reviewed
    BY <1>2, <1>11, <1>13 DEF Reviewed, None
  <2>3. Replaced(mem, chosen, Halted(Change(chosen), "budget"))
    <3>1. "budget" \in Halts
      BY DEF Halts
    <3>. QED
      BY <1>1, <1>2, <2>1, <3>1, ChangeFacts
  <2>. QED
    BY <1>1, <1>7, <1>13, <2>1, <2>2, <2>3, SavedIdle
<1>14. CASE /\ p # None /\ pc' = "admitting"
            /\ Save(Change([chosen EXCEPT !.phase = "admitting", !.booked = TRUE]))
  <2>1. PICK r : r = [chosen EXCEPT !.phase = "admitting", !.booked = TRUE]
    OBVIOUS
  <2>2. /\ r \in EntryType /\ KeyOf(r) = KeyOf(E) /\ CaseKey(r) = CaseKey(E) /\ r.case = c
        /\ r.phase = "admitting" /\ r.outcome = E.outcome
    BY <1>11, <1>14, <2>1 DEF EntryType, KeyOf, CaseKey, Phases
  <2>3. Replaces(mem, r) /\ Open(r)
    BY <1>2, <1>4, <2>2 DEF Replaces, Open
  <2>4. r.outcome \notin Reviewed
    BY <1>2, <2>2 DEF Reviewed, None
  <2>5. Replaced(mem, r, Change(r))
    BY <1>1, <1>2, <2>3, ChangeFacts
  <2>6. Save(Change(r))
    BY <1>14, <2>1
  <2>7. EntryOf(mem).phase # "dispatching"
    BY <1>1, <1>2
  <2>8. JournalsInv' /\ mem' = disk' /\ Going(mem') /\ E' = r
    BY <1>1, <1>2, <1>7, <2>3, <2>4, <2>5, <2>6, <2>7, SaveKept
  <2>9. AttemptsInv' /\ ReviewsInv'
    BY <1>1, <1>7, NativeSame
  <2>10. StepInv'
    BY <1>14, <2>2, <2>8 DEF StepInv, Dispatched, Reviewing
  <2>. QED
    BY <2>8, <2>9, <2>10 DEF PilotInv
<1>. QED
  BY <1>3, <1>6, <1>8, <1>10, <1>12, <1>13, <1>14 DEF Plan

LEMMA AdmitStep ==
  ASSUME PilotInv, Admit
  PROVE  PilotInv'
<1>1. /\ JournalsInv /\ AttemptsInv /\ ReviewsInv /\ Journal(mem) /\ pc = "admitting"
      /\ E.phase = "admitting"
  BY DEF PilotInv, JournalsInv, StepInv, Admit
<1>2. /\ Going(mem) /\ E \in EntryType /\ Open(E) /\ E = EntryOf(mem) /\ Key \in Keys
      /\ E.outcome \in {None, "unresolved"} /\ Key = KeyOf(E) /\ launches[Key] = 0
  BY <1>1, GoingKey
<1>3. launches' = launches /\ UNCHANGED acceptance
  BY DEF Admit
<1>4. E.case # NoCase =>
        \E j \in 1 .. Len(mem.snapshots) : /\ mem.snapshots[j].key = CaseKey(E)
                                           /\ mem.snapshots[j].case = E.case
  BY <1>1, <1>2, CaseInSnapshots
<1>5. CASE /\ ledger' = ledger /\ pc' = "idle"
           /\ Save(Change([E EXCEPT !.phase = "done", !.outcome = "refused", !.noLaunch = TRUE]))
  <2>1. PICK r : r = [E EXCEPT !.phase = "done", !.outcome = "refused", !.noLaunch = TRUE]
    OBVIOUS
  <2>2. /\ r \in EntryType /\ KeyOf(r) = KeyOf(E) /\ CaseKey(r) = CaseKey(E)
        /\ r.case = E.case /\ r.phase = "done" /\ r.outcome = "refused"
    BY <1>2, <2>1 DEF EntryType, KeyOf, CaseKey, Phases
  <2>3. Replaces(mem, r)
    BY <1>2, <1>4, <2>2 DEF Replaces, Open
  <2>4. PICK t : t = Change(r)
    OBVIOUS
  <2>5. Replaced(mem, r, t) /\ Save(t)
    BY <1>1, <1>2, <1>5, <2>1, <2>3, <2>4, ChangeFacts
  <2>6. r.outcome \notin Reviewed /\ UNCHANGED <<native, acceptance>>
    BY <1>3, <1>5, <2>2 DEF Reviewed, native
  <2>. QED
    BY <1>1, <1>5, <2>3, <2>5, <2>6, SavedIdle
<1>6. CASE /\ ledger' = IF ledger[Key] # NoAttempt THEN ledger
                        ELSE [ledger EXCEPT ![Key].state = "admitted"]
           /\ mem' = Change([E EXCEPT !.phase = "admitted"])
           /\ pc' = "saveAdmitted" /\ UNCHANGED disk
  <2>1. PICK r : r = [E EXCEPT !.phase = "admitted"]
    OBVIOUS
  <2>2. /\ r \in EntryType /\ KeyOf(r) = KeyOf(E) /\ CaseKey(r) = CaseKey(E)
        /\ r.phase = "admitted" /\ r.outcome = E.outcome /\ r.case = E.case
    BY <1>2, <2>1 DEF EntryType, KeyOf, CaseKey, Phases
  <2>3. Replaces(mem, r) /\ Open(r)
    BY <1>2, <1>4, <2>2 DEF Replaces, Open
  <2>4. PICK t : t = Change(r)
    OBVIOUS
  <2>5. Replaced(mem, r, t) /\ mem' = t
    BY <1>1, <1>2, <1>6, <2>1, <2>3, <2>4, ChangeFacts
  <2>6. Journal(t) /\ Going(t) /\ EntryOf(t) = r
    BY <1>1, <1>2, <2>3, <2>5, ReplacedKept
  <2>7. ledger \in [Keys -> AttemptType] /\ ledger[Key].state \in {None, "admitted"}
    BY <1>1, <1>2 DEF AttemptsInv
  <2>8. /\ ledger' \in [Keys -> AttemptType] /\ ledger'[Key].state \in {None, "admitted"}
        /\ \A q \in Keys : q # Key => ledger'[q] = ledger[q]
    <3>1. CASE ledger[Key] # NoAttempt
      BY <1>6, <2>7, <3>1
    <3>2. CASE ledger[Key] = NoAttempt
      <4>1. PICK v : v = [ledger[Key] EXCEPT !.state = "admitted"]
        OBVIOUS
      <4>2. ledger[Key] \in AttemptType
        BY <1>2, <2>7
      <4>3. v \in AttemptType /\ v.state = "admitted"
        BY <4>1, <4>2 DEF AttemptType
      <4>4. ledger' = [ledger EXCEPT ![Key] = v]
        BY <1>6, <3>2, <4>1
      <4>. QED
        BY <1>2, <2>7, <4>3, <4>4
    <3>. QED
      BY <3>1, <3>2
  <2>9. Moves(Key)
    BY <1>2, <2>7, <2>8 DEF Moves, Reviewed, None
  <2>10. ReviewsInv' /\ \A s : Journal(s) /\ Told(s, ledger) => Told(s, ledger')
    BY <1>1, <1>3, <2>9, MovesKept
  <2>11. AttemptsInv'
    BY <1>1, <1>2, <1>3, <2>8 DEF AttemptsInv
  <2>12. Told(mem, ledger') /\ Marked(mem, launches) /\ Journal(disk) /\ Told(disk, ledger')
         /\ Marked(disk, launches)
    BY <1>1, <2>10 DEF JournalsInv
  <2>13. r.outcome \notin Reviewed /\ EntryOf(mem).phase # "dispatching"
    BY <1>1, <1>2, <2>2 DEF Reviewed, None
  <2>14. Told(t, ledger') /\ Marked(t, launches)
    BY <1>1, <1>2, <2>3, <2>5, <2>12, <2>13, ReplacedAgrees
  <2>15. JournalsInv'
    BY <1>3, <1>6, <2>5, <2>6, <2>12, <2>14 DEF JournalsInv
  <2>16. E' = r /\ Going(mem')
    BY <2>5, <2>6, EntryNow
  <2>17. StepInv'
    BY <1>6, <2>2, <2>16 DEF StepInv, Dispatched, Reviewing
  <2>. QED
    BY <2>10, <2>11, <2>15, <2>17 DEF PilotInv
<1>. QED
  BY <1>5, <1>6 DEF Admit

LEMMA SaveAdmittedStep ==
  ASSUME PilotInv, SaveAdmitted
  PROVE  PilotInv'
<1>1. /\ JournalsInv /\ AttemptsInv /\ ReviewsInv /\ pc = "saveAdmitted"
      /\ E.phase = "admitted" /\ Going(mem) /\ pc' = "admitted" /\ disk' = mem /\ mem' = mem
  BY DEF PilotInv, StepInv, SaveAdmitted
<1>2. AttemptsInv' /\ ReviewsInv' /\ ledger' = ledger /\ launches' = launches
  BY <1>1, NativeSame DEF SaveAdmitted, Stay
<1>3. JournalsInv'
  BY <1>1, <1>2 DEF JournalsInv
<1>4. E' = E
  BY <1>1, EntryNow
<1>5. StepInv'
  BY <1>1, <1>4 DEF StepInv, Dispatched, Reviewing
<1>. QED
  BY <1>2, <1>3, <1>5 DEF PilotInv

LEMMA DispatchStep ==
  ASSUME PilotInv, Dispatch
  PROVE  PilotInv'
<1>1. /\ JournalsInv /\ AttemptsInv /\ ReviewsInv /\ Journal(mem) /\ pc = "admitted"
      /\ E.phase = "admitted"
  BY DEF PilotInv, JournalsInv, StepInv, Dispatch
<1>2. /\ Going(mem) /\ E \in EntryType /\ Open(E) /\ E = EntryOf(mem) /\ Key \in Keys
      /\ E.outcome \in {None, "unresolved"} /\ Key = KeyOf(E) /\ launches[Key] = 0
  BY <1>1, GoingKey
<1>3. AttemptsInv' /\ ReviewsInv' /\ ledger' = ledger /\ launches' = launches
  BY <1>1, NativeSame DEF Dispatch, Stay
<1>4. E.case # NoCase =>
        \E j \in 1 .. Len(mem.snapshots) : /\ mem.snapshots[j].key = CaseKey(E)
                                           /\ mem.snapshots[j].case = E.case
  BY <1>1, <1>2, CaseInSnapshots
<1>5. PICK r : r = [E EXCEPT !.phase = "dispatching"]
  OBVIOUS
<1>6. /\ r \in EntryType /\ KeyOf(r) = KeyOf(E) /\ CaseKey(r) = CaseKey(E)
      /\ r.phase = "dispatching" /\ r.outcome = E.outcome /\ r.case = E.case
  BY <1>2, <1>5 DEF EntryType, KeyOf, CaseKey, Phases
<1>7. Replaces(mem, r) /\ Open(r)
  BY <1>2, <1>4, <1>6 DEF Replaces, Open
<1>8. PICK t : t = Change(r)
  OBVIOUS
<1>9. Replaced(mem, r, t) /\ Save(t) /\ pc' = "launch"
  BY <1>1, <1>2, <1>5, <1>7, <1>8, ChangeFacts DEF Dispatch
<1>10. r.outcome \notin Reviewed /\ r.phase \in {"dispatching", "done"}
  BY <1>2, <1>6 DEF Reviewed, None
<1>11. JournalsInv' /\ mem' = disk' /\ Going(mem') /\ E' = r /\ Key' = Key
  BY <1>1, <1>2, <1>3, <1>7, <1>9, <1>10, SaveKept
<1>12. StepInv'
  BY <1>2, <1>3, <1>6, <1>9, <1>11 DEF StepInv, Dispatched, Reviewing
<1>. QED
  BY <1>3, <1>11, <1>12 DEF PilotInv

LEMMA AttemptFacts ==
  ASSUME NEW v \in AttemptType, NEW w \in Int, NEW x \in {"running", "cancelling"} \cup Ends
  PROVE  /\ [v EXCEPT !.state = x, !.metrics = w] \in AttemptType
         /\ [v EXCEPT !.state = x, !.metrics = w].state = x
BY DEF AttemptType

LEMMA LaunchStep ==
  ASSUME PilotInv, Launch
  PROVE  PilotInv'
<1>1. /\ JournalsInv /\ AttemptsInv /\ ReviewsInv /\ pc = "launch" /\ mem = disk
      /\ E.phase = "dispatching" /\ launches[Key] = 0 /\ Going(mem)
  BY DEF PilotInv, StepInv, Launch, Dispatched
<1>2. Key \in Keys /\ Journal(mem) /\ E = EntryOf(mem) /\ Key = KeyOf(E)
  BY <1>1, GoingKey
<1>3. /\ disk' = disk /\ mem' = mem /\ pc' = "running" /\ UNCHANGED acceptance
      /\ launches' = [launches EXCEPT ![Key] = launches[Key] + 1]
      /\ ledger' = [ledger EXCEPT ![Key].state = "running", ![Key].metrics = 0]
  BY DEF Launch
<1>4. /\ ledger \in [Keys -> AttemptType] /\ launches \in [Keys -> 0 .. 1]
      /\ ledger[Key].state \in {None, "admitted"} /\ ledger[Key] \in AttemptType
  BY <1>1, <1>2 DEF AttemptsInv
<1>5. PICK v : v = [ledger[Key] EXCEPT !.state = "running", !.metrics = 0]
  OBVIOUS
<1>6. v \in AttemptType /\ v.state = "running"
  <2>1. 0 \in Int /\ "running" \in {"running", "cancelling"} \cup Ends
    OBVIOUS
  <2>. QED
    BY <1>4, <1>5, <2>1, AttemptFacts
<1>7. ledger' = [ledger EXCEPT ![Key] = v]
  BY <1>2, <1>3, <1>4, <1>5
<1>8. /\ ledger' \in [Keys -> AttemptType] /\ ledger'[Key].state = "running"
      /\ \A q \in Keys : q # Key => ledger'[q] = ledger[q]
  BY <1>2, <1>4, <1>6, <1>7
<1>9. /\ launches' \in [Keys -> 0 .. 1] /\ launches'[Key] = 1
      /\ \A q \in Keys : q # Key => launches'[q] = launches[q]
  BY <1>1, <1>2, <1>3, <1>4
<1>10. Moves(Key)
  BY <1>2, <1>4, <1>8 DEF Moves, Reviewed, None
<1>11. ReviewsInv' /\ \A s : Journal(s) /\ Told(s, ledger) => Told(s, ledger')
  BY <1>1, <1>3, <1>10, MovesKept
<1>12. AttemptsInv'
  BY <1>1, <1>2, <1>8, <1>9 DEF AttemptsInv, None
<1>13. Marked(mem, launches')
  <2>1. PICK c \in 1 .. Len(mem.entries) : c = CurrentOf(mem) /\ E = mem.entries[c]
    BY <1>1, <1>2, GoingFacts
  <2>2. Marked(mem, launches)
    BY <1>1 DEF JournalsInv
  <2>. QED
    BY <1>1, <1>2, <1>9, <2>1, <2>2 DEF Marked
<1>14. JournalsInv'
  BY <1>1, <1>3, <1>11, <1>13 DEF JournalsInv
<1>15. E' = E
  BY <1>3, EntryNow
<1>16. StepInv'
  BY <1>1, <1>3, <1>15 DEF StepInv, Dispatched, Reviewing
<1>. QED
  BY <1>11, <1>12, <1>14, <1>16 DEF PilotInv

(* What the native run does to its attempt, wherever the step is.             *)
LEMMA RunMoves ==
  ASSUME PilotInv, NEW k \in Keys, ledger[k].state \in {"running", "cancelling"},
         NEW v \in AttemptType, ledger' = [ledger EXCEPT ![k] = v],
         v.state \in {"running", "cancelling"} \cup Ends,
         UNCHANGED <<disk, mem, pc, launches, acceptance>>
  PROVE  PilotInv'
<1>1. /\ JournalsInv /\ AttemptsInv /\ ReviewsInv /\ StepInv
      /\ disk' = disk /\ mem' = mem /\ pc' = pc /\ launches' = launches
      /\ reviews' = reviews /\ UNCHANGED acceptance
  BY DEF PilotInv, acceptance
<1>2. /\ ledger' \in [Keys -> AttemptType] /\ ledger'[k] = v
      /\ \A q \in Keys : q # k => ledger'[q] = ledger[q]
  BY <1>1 DEF AttemptsInv
<1>3. Moves(k) /\ v.state \notin {None, "admitted"} /\ ledger[k].state \notin {None, "admitted"}
  BY <1>2 DEF Moves, Reviewed, Ends, None
<1>4. JournalsInv' /\ AttemptsInv' /\ ReviewsInv'
  BY <1>1, <1>2, <1>3, MovesOn
<1>5. E' = E /\ Key' = Key /\ Taken(E)' = Taken(E)
  <2>1. E' = E
    BY <1>1, EntryNow
  <2>. QED
    BY <1>1, <2>1 DEF Key, Taken
<1>6. ASSUME pc \in Reviewing \cup {"finish"} PROVE ledger'[Key] = ledger[Key]
  <2>1. pc # "idle"
    BY <1>6 DEF Reviewing
  <2>2. Key \in Keys
    BY <2>1, GoingKey
  <2>3. ledger[Key].state \in {"completed"} \cup Reviewed \cup Ends
    BY <1>1, <1>6 DEF StepInv, Ends
  <2>. QED
    BY <1>2, <2>2, <2>3 DEF Reviewed, Ends
<1>7. StepInv'
  <2>1. /\ pc' \in {"idle", "snapshot", "planned", "admitting", "saveAdmitted", "admitted"}
                    \cup Dispatched
        /\ pc' # "saveAdmitted" => mem' = disk'
        /\ pc' # "idle" => Going(mem')
        /\ pc' \in {"planned", "admitting", "admitted"} => E'.phase = pc'
        /\ pc' = "planned" => Taken(E)'
        /\ pc' = "saveAdmitted" => E'.phase = "admitted"
        /\ pc' \in Dispatched => E'.phase = "dispatching"
    BY <1>1, <1>5 DEF StepInv
  <2>2. /\ pc' = "launch" => launches'[Key'] = 0
        /\ pc' \in {"create", "error"} => reviews'[Key'] = Preparing
        /\ pc' = "create" => Key' \notin lost'
        /\ pc' = "candidate" => reviews'[Key'] = Running
    BY <1>1, <1>5 DEF StepInv, acceptance
  <2>3. /\ pc' \in Reviewing => ledger'[Key'].state = "completed"
        /\ pc' = "finish" => ledger'[Key'].state \in Reviewed \cup (Ends \ {"completed"})
    BY <1>1, <1>5, <1>6 DEF StepInv
  <2>. QED
    BY <2>1, <2>2, <2>3 DEF StepInv, Preparing, Running
<1>. QED
  BY <1>4, <1>7 DEF PilotInv

LEMMA StateFacts ==
  ASSUME NEW v \in AttemptType, NEW x \in {"running", "cancelling"} \cup Ends
  PROVE  LET u == [v EXCEPT !.state = x] IN u \in AttemptType /\ u.state = x
BY DEF AttemptType
LEMMA MetricsFacts ==
  ASSUME NEW v \in AttemptType, NEW w \in Int
  PROVE  LET u == [v EXCEPT !.metrics = w] IN u \in AttemptType /\ u.state = v.state
BY DEF AttemptType

LEMMA UsageStopStep ==
  ASSUME PilotInv, UsageStop
  PROVE  PilotInv'
<1>1. pc = "running" /\ ledger[Key].state = "running"
      /\ ledger' = [ledger EXCEPT ![Key].state = "cancelling"]
      /\ UNCHANGED <<disk, mem, pc, launches, acceptance>>
  BY DEF UsageStop
<1>2. Key \in Keys
  BY <1>1, GoingKey
<1>3. ledger[Key] \in AttemptType /\ "cancelling" \in {"running", "cancelling"} \cup Ends
  BY <1>2 DEF PilotInv, AttemptsInv
<1>4. PICK v : v = [ledger[Key] EXCEPT !.state = "cancelling"]
  OBVIOUS
<1>5. v \in AttemptType /\ v.state = "cancelling"
  BY <1>3, <1>4, StateFacts
<1>6. ledger' = [ledger EXCEPT ![Key] = v]
  BY <1>1, <1>4
<1>7. ledger[Key].state \in {"running", "cancelling"} /\ v.state \in {"running", "cancelling"} \cup Ends
  BY <1>1, <1>5
<1>. QED
  BY <1>1, <1>2, <1>5, <1>6, <1>7, RunMoves

LEMMA UsesStep ==
  ASSUME PilotInv, NEW k \in Keys, Uses(k)
  PROVE  PilotInv'
<1>1. ledger[k].state \in {"running", "cancelling"}
      /\ ledger' = [ledger EXCEPT ![k].metrics = ledger[k].metrics + 1]
      /\ UNCHANGED <<disk, mem, pc, launches, acceptance>>
  BY DEF Uses
<1>2. ledger[k] \in AttemptType
  BY DEF PilotInv, AttemptsInv
<1>3. ledger[k].metrics + 1 \in Int
  BY <1>2 DEF AttemptType
<1>4. PICK v : v = [ledger[k] EXCEPT !.metrics = ledger[k].metrics + 1]
  OBVIOUS
<1>5. v \in AttemptType /\ v.state = ledger[k].state
  BY <1>2, <1>3, <1>4, MetricsFacts
<1>6. ledger' = [ledger EXCEPT ![k] = v]
  BY <1>1, <1>4
<1>7. v.state \in {"running", "cancelling"} \cup Ends
  BY <1>1, <1>5
<1>. QED
  BY <1>1, <1>5, <1>6, <1>7, RunMoves

LEMMA SettlesStep ==
  ASSUME PilotInv, NEW k \in Keys, Settles(k)
  PROVE  PilotInv'
<1>1. ledger[k].state \in {"running", "cancelling"}
      /\ UNCHANGED <<disk, mem, pc, launches, acceptance>>
  BY DEF Settles
<1>2. PICK x \in Ends, w \in {ledger[k].metrics, Unknown} :
        ledger' = [ledger EXCEPT ![k].state = x, ![k].metrics = w]
  BY DEF Settles
<1>3. ledger[k] \in AttemptType /\ ledger \in [Keys -> AttemptType]
  BY DEF PilotInv, AttemptsInv
<1>4. w \in Int /\ x \in {"running", "cancelling"} \cup Ends
  BY <1>3 DEF AttemptType, Unknown
<1>5. PICK v : v = [ledger[k] EXCEPT !.state = x, !.metrics = w]
  OBVIOUS
<1>6. v \in AttemptType /\ v.state = x
  <2>1. PICK a \in AttemptType : a = ledger[k]
    BY <1>3
  <2>2. PICK y \in {"running", "cancelling"} \cup Ends, z \in Int : y = x /\ z = w
    BY <1>4
  <2>3. v = [a EXCEPT !.state = y, !.metrics = z]
    BY <1>5, <2>1, <2>2
  <2>4. v \in AttemptType /\ v.state = y
    BY <2>3 DEF AttemptType
  <2>. QED
    BY <2>2, <2>4
<1>7. ledger' = [ledger EXCEPT ![k] = v]
  BY <1>2, <1>3, <1>5
<1>8. v.state \in {"running", "cancelling"} \cup Ends
  BY <1>4, <1>6
<1>. QED
  BY <1>1, <1>6, <1>7, <1>8, RunMoves

(* A step that only moves on.                                                 *)
LEMMA PcMoves ==
  ASSUME PilotInv, UNCHANGED <<disk, mem, native, acceptance>>,
         pc \in Dispatched, pc' \in Dispatched \ {"launch", "create", "candidate", "error"},
         pc' \in Reviewing => ledger[Key].state = "completed",
         pc' = "finish" => ledger[Key].state \in Reviewed \cup (Ends \ {"completed"})
  PROVE  PilotInv'
<1>1. /\ JournalsInv /\ AttemptsInv /\ ReviewsInv /\ mem = disk /\ E.phase = "dispatching"
      /\ Going(mem) /\ disk' = disk /\ mem' = mem
  BY DEF PilotInv, StepInv, Dispatched, Reviewing
<1>2. AttemptsInv' /\ ReviewsInv' /\ ledger' = ledger /\ launches' = launches
  BY <1>1, NativeSame
<1>3. JournalsInv'
  BY <1>1, <1>2 DEF JournalsInv
<1>4. E' = E /\ Key' = Key
  <2>1. E' = E
    BY <1>1, EntryNow
  <2>. QED
    BY <2>1 DEF Key
<1>7. /\ pc' \in Reviewing => ledger'[Key'].state = "completed"
      /\ pc' = "finish" => ledger'[Key'].state \in Reviewed \cup (Ends \ {"completed"})
      /\ pc' \in Dispatched /\ Going(mem') /\ mem' = disk' /\ E'.phase = "dispatching"
  BY <1>1, <1>2, <1>4
<1>5. /\ pc' # "saveAdmitted" /\ pc' # "planned" /\ pc' # "launch" /\ pc' # "create"
      /\ pc' \notin {"candidate", "error"} /\ pc' \notin {"planned", "admitting", "admitted"}
  BY DEF Dispatched, Reviewing
<1>6. StepInv'
  BY <1>5, <1>7 DEF StepInv
<1>. QED
  BY <1>2, <1>3, <1>6 DEF PilotInv

LEMMA ReturnedStep ==
  ASSUME PilotInv, Returned
  PROVE  PilotInv'
<1>1. /\ UNCHANGED <<disk, mem, native, acceptance>> /\ pc = "running" /\ pc' = "dispatching"
      /\ pc \in Dispatched /\ pc' \in Dispatched \ {"launch", "create", "candidate", "error"}
      /\ pc' \notin Reviewing
  BY DEF Returned, Stay, Dispatched, Reviewing
<1>. QED
  BY <1>1, PcMoves

LEMMA OutcomeStep ==
  ASSUME PilotInv, Outcome
  PROVE  PilotInv'
<1>1. /\ JournalsInv /\ AttemptsInv /\ ReviewsInv /\ Journal(mem) /\ pc = "dispatching"
      /\ E.phase = "dispatching" /\ UNCHANGED <<native, acceptance>>
  BY DEF PilotInv, JournalsInv, StepInv, Outcome, Dispatched, Stay
<1>2. /\ Going(mem) /\ E \in EntryType /\ Open(E) /\ E = EntryOf(mem) /\ Key \in Keys
      /\ Key = KeyOf(E)
  BY <1>1, GoingKey
<1>3. CASE Save(Change([E EXCEPT !.outcome = "unresolved"])) /\ pc' = "idle"
  <2>1. PICK r : r = [E EXCEPT !.outcome = "unresolved"]
    OBVIOUS
  <2>2. /\ r \in EntryType /\ KeyOf(r) = KeyOf(E) /\ CaseKey(r) = CaseKey(E)
        /\ r.phase = "dispatching" /\ r.outcome = "unresolved" /\ r.case = E.case
    BY <1>1, <1>2, <2>1 DEF EntryType, KeyOf, CaseKey
  <2>3. E.case # NoCase =>
          \E j \in 1 .. Len(mem.snapshots) : /\ mem.snapshots[j].key = CaseKey(E)
                                             /\ mem.snapshots[j].case = E.case
    BY <1>1, <1>2, CaseInSnapshots
  <2>4. Replaces(mem, r)
    BY <1>2, <2>2, <2>3 DEF Replaces
  <2>5. PICK t : t = Change(r)
    OBVIOUS
  <2>6. Replaced(mem, r, t) /\ Save(t)
    BY <1>1, <1>2, <1>3, <2>1, <2>4, <2>5, ChangeFacts
  <2>7. r.outcome \notin Reviewed /\ r.phase \in {"dispatching", "done"}
    BY <2>2 DEF Reviewed
  <2>. QED
    BY <1>1, <1>3, <2>4, <2>6, <2>7, SavedIdle
<1>4. CASE ledger[Key].state = "completed" /\ pc' = "review" /\ UNCHANGED <<disk, mem>>
  <2>1. /\ pc \in Dispatched /\ pc' \in Dispatched \ {"launch", "create", "candidate", "error"}
        /\ pc' # "finish"
    BY <1>1, <1>4 DEF Dispatched, Reviewing
  <2>. QED
    BY <1>1, <1>4, <2>1, PcMoves
<1>5. CASE /\ ledger[Key].state \in {"accepted", "rejected"} \cup (Ends \ {"completed"})
           /\ pc' = "finish" /\ UNCHANGED <<disk, mem>>
  <2>1. /\ pc \in Dispatched /\ pc' \in Dispatched \ {"launch", "create", "candidate", "error"}
        /\ pc' \notin Reviewing
    BY <1>1, <1>5 DEF Dispatched, Reviewing
  <2>. QED
    BY <1>1, <1>5, <2>1, PcMoves DEF Reviewed
<1>. QED
  BY <1>3, <1>4, <1>5 DEF Outcome

-----------------------------------------------------------------------------
(* Reviews.                                                                   *)

LEMMA RecordFacts ==
  /\ {NoReview, Record("rejected", FALSE, "not-created"), Preparing, Running,
      Record("preparing", FALSE, "removed"), Record("running", FALSE, "removed"),
      Record("error", FALSE, "removed"), Record("checked", FALSE, "removed"),
      Record("checked", TRUE, "removed"), Record("unresolved", FALSE, "unresolved")}
       \subseteq Records
  /\ NoReview.cleanup = None /\ NoReview.status = None
  /\ \A s, a, c : Record(s, a, c).cleanup = c /\ Record(s, a, c).status = s
BY DEF Records, NoReview, Record, Preparing, Running

\* A record is written for the attempt under review.
Recorded(k, record) ==
  /\ k \in Keys /\ record \in Records /\ reviews' = [reviews EXCEPT ![k] = record]
  /\ containers' \subseteq containers \cup {k}
  /\ lost' \subseteq lost \cup {k} /\ lost \subseteq lost' \cup {k}
  /\ k \in containers' \ lost' => record.cleanup \in {"pending", "unresolved"}
  /\ k \in lost' => record.status \in Unheard
  /\ ledger[k].state = "completed"
LEMMA RecordedKept ==
  ASSUME ReviewsInv, NEW k, NEW record, Recorded(k, record), ledger' = ledger
  PROVE  ReviewsInv' /\ reviews'[k] = record
<1>1. /\ reviews' \in [Keys -> Records] /\ reviews'[k] = record /\ k \in Keys
      /\ \A q \in Keys : q # k => reviews'[q] = reviews[q]
  BY DEF ReviewsInv, Recorded
<1>2. containers' \subseteq Keys /\ lost' \subseteq Keys
  BY DEF ReviewsInv, Recorded
<1>3. /\ \A q \in containers' \ lost' : reviews'[q].cleanup \in {"pending", "unresolved"}
      /\ \A q \in lost' : reviews'[q].status \in Unheard
  BY <1>1, <1>2 DEF ReviewsInv, Recorded
<1>4. \A q \in Keys : ledger'[q].state \in Reviewed => Decided(ledger'[q], reviews'[q])
  BY <1>1 DEF ReviewsInv, Recorded, Reviewed
<1>. QED
  BY <1>1, <1>2, <1>3, <1>4 DEF ReviewsInv

(* A step of the review: nothing but the records and containers changes.      *)
LEMMA ReviewMoves ==
  ASSUME PilotInv, UNCHANGED <<disk, mem, native>>, pc \in Reviewing, pc' \in Reviewing,
         ReviewsInv',
         pc' \in {"create", "error"} => reviews'[Key] = Preparing,
         pc' = "create" => Key \notin lost',
         pc' = "candidate" => reviews'[Key] = Running
  PROVE  PilotInv'
<1>1. /\ JournalsInv /\ AttemptsInv /\ mem = disk /\ E.phase = "dispatching"
      /\ Going(mem) /\ disk' = disk /\ mem' = mem /\ ledger[Key].state = "completed"
      /\ ledger' = ledger /\ launches' = launches
  BY DEF PilotInv, StepInv, Dispatched, Reviewing, native
<1>2. JournalsInv' /\ AttemptsInv'
  BY <1>1 DEF JournalsInv, AttemptsInv
<1>3. E' = E /\ Key' = Key
  <2>1. E' = E
    BY <1>1, EntryNow
  <2>. QED
    BY <2>1 DEF Key
<1>4. /\ pc' \notin {"saveAdmitted", "planned", "launch", "admitting", "admitted", "finish"}
      /\ pc' \in Dispatched
  BY DEF Dispatched, Reviewing
<1>5. /\ Going(mem') /\ mem' = disk' /\ E'.phase = "dispatching"
      /\ ledger'[Key'].state = "completed"
  BY <1>1, <1>3
<1>6. StepInv'
  BY <1>3, <1>4, <1>5 DEF StepInv
<1>. QED
  BY <1>2, <1>6 DEF PilotInv

LEMMA ReviewStep ==
  ASSUME PilotInv, Review
  PROVE  PilotInv'
<1>1. /\ ReviewsInv /\ pc = "review" /\ ledger[Key].state = "completed" /\ ledger' = ledger
      /\ UNCHANGED <<disk, mem, native>> /\ containers' = containers /\ lost' = lost
      /\ pc \in Reviewing
  BY DEF PilotInv, StepInv, Review, Reviewing, native
<1>2. Key \in Keys
  BY <1>1, GoingKey
<1>3. CASE pc' = "reviewed" /\ UNCHANGED reviews
  <2>1. ReviewsInv'
    BY <1>1, <1>3 DEF ReviewsInv
  <2>2. pc' \in Reviewing /\ pc' # "create" /\ pc' \notin {"candidate", "error"}
    BY <1>3 DEF Reviewing
  <2>. QED
    BY <1>1, <2>1, <2>2, ReviewMoves
<1>4. ASSUME reviews[Key] = NoReview, NEW record \in Records, Write(record)
      PROVE  ReviewsInv' /\ reviews'[Key] = record /\ Key \notin lost'
  <2>1. Key \notin lost /\ Key \notin containers
    BY <1>1, <1>4, RecordFacts DEF ReviewsInv, Unheard, None
  <2>2. Recorded(Key, record)
    BY <1>1, <1>2, <1>4, <2>1 DEF Recorded, Write
  <2>. QED
    BY <1>1, <2>1, <2>2, RecordedKept
<1>5. CASE /\ reviews[Key] = NoReview /\ pc' = "reviewed"
           /\ Write(Record("rejected", FALSE, "not-created"))
  <2>1. ReviewsInv'
    BY <1>4, <1>5, RecordFacts
  <2>2. pc' \in Reviewing /\ pc' # "create" /\ pc' \notin {"candidate", "error"}
    BY <1>5 DEF Reviewing
  <2>. QED
    BY <1>1, <2>1, <2>2, ReviewMoves
<1>6. CASE /\ reviews[Key] = NoReview /\ pc' = "create"
           /\ Write(Record("preparing", FALSE, "pending"))
  <2>1. ReviewsInv' /\ reviews'[Key] = Preparing /\ Key \notin lost'
    BY <1>4, <1>6, RecordFacts DEF Preparing
  <2>2. pc' \in Reviewing /\ pc' \notin {"candidate", "error"}
    BY <1>6 DEF Reviewing
  <2>. QED
    BY <1>1, <2>1, <2>2, ReviewMoves
<1>. QED
  BY <1>3, <1>5, <1>6 DEF Review

LEMMA RunningFacts ==
  ASSUME NEW b
  PROVE  [Record("preparing", b, "pending") EXCEPT !.status = "running"]
           = Record("running", b, "pending")
BY DEF Record

LEMMA CreateStep ==
  ASSUME PilotInv, Create
  PROVE  PilotInv'
<1>1. /\ ReviewsInv /\ pc = "create" /\ ledger[Key].state = "completed" /\ ledger' = ledger
      /\ UNCHANGED <<disk, mem, native>> /\ pc \in Reviewing
      /\ reviews[Key] = Record("preparing", FALSE, "pending") /\ Key \notin lost
  BY DEF PilotInv, StepInv, Create, Reviewing, native, Preparing
<1>2. Key \in Keys /\ reviews \in [Keys -> Records]
  BY <1>1, GoingKey DEF ReviewsInv
<1>3. CASE /\ containers' = containers \cup {Key} /\ pc' = "candidate"
           /\ Write([reviews[Key] EXCEPT !.status = "running"]) /\ UNCHANGED lost
  <2>1. [reviews[Key] EXCEPT !.status = "running"] = Record("running", FALSE, "pending")
    <3>1. [Record("preparing", FALSE, "pending") EXCEPT !.status = "running"]
            = Record("running", FALSE, "pending")
      BY RunningFacts
    <3>2. reviews[Key] = Record("preparing", FALSE, "pending")
      BY <1>1
    <3>3. [reviews[Key] EXCEPT !.status = "running"]
            = [Record("preparing", FALSE, "pending") EXCEPT !.status = "running"]
      BY <3>2, Zenon
    <3>. QED
      BY <3>1, <3>3, Zenon
  <2>2. /\ Record("running", FALSE, "pending") \in Records
        /\ Record("running", FALSE, "pending").cleanup = "pending"
    BY RecordFacts DEF Running
  <2>3. Recorded(Key, Record("running", FALSE, "pending"))
    BY <1>1, <1>2, <1>3, <2>1, <2>2 DEF Recorded, Write
  <2>4. ReviewsInv' /\ reviews'[Key] = Running
    BY <1>1, <2>2, <2>3, RecordedKept DEF Running
  <2>5. pc' \in Reviewing /\ pc' \notin {"create", "error"}
    BY <1>3 DEF Reviewing
  <2>. QED
    BY <1>1, <2>4, <2>5, ReviewMoves
<1>4. CASE /\ \/ containers' \in {containers, containers \cup {Key}} /\ UNCHANGED lost
              \/ lost' = lost \cup {Key} /\ UNCHANGED containers
           /\ pc' = "error" /\ UNCHANGED reviews
  <2>1. reviews[Key].cleanup = "pending" /\ reviews[Key].status \in Unheard
    <3>1. /\ Record("preparing", FALSE, "pending").cleanup = "pending"
          /\ Record("preparing", FALSE, "pending").status = "preparing"
      BY DEF Record
    <3>. QED
      BY <1>1, <3>1 DEF Unheard
  <2>2. ReviewsInv'
    BY <1>1, <1>2, <1>4, <2>1 DEF ReviewsInv
  <2>3. pc' \in Reviewing /\ pc' \notin {"create", "candidate"} /\ reviews'[Key] = Preparing
    BY <1>1, <1>4 DEF Reviewing, Preparing
  <2>. QED
    BY <1>1, <2>2, <2>3, ReviewMoves
<1>. QED
  BY <1>3, <1>4 DEF Create

(* The container goes, or the record says that it could not be removed.       *)
LEMMA RemovedKept ==
  ASSUME PilotInv, pc \in {"candidate", "error"}, ledger' = ledger,
         NEW records, records \subseteq Records, Removed(records),
         pc = "error" => \A record \in records : record.status \in Unheard
  PROVE  ReviewsInv'
<1>1. /\ ReviewsInv /\ ledger[Key].state = "completed" /\ Key \in Keys
      /\ pc = "candidate" => reviews[Key] = Record("running", FALSE, "pending")
  BY GoingKey DEF PilotInv, StepInv, Reviewing, Running
<1>2. pc = "candidate" => Key \notin lost
  <2>1. Record("running", FALSE, "pending").status \notin Unheard
    BY DEF Record, Unheard
  <2>. QED
    BY <1>1, <2>1 DEF ReviewsInv
<1>3. /\ containers' \subseteq containers
      /\ lost' \subseteq lost /\ lost \subseteq lost' \cup {Key}
  BY DEF Removed, Removes
<1>4. CASE Key \notin containers' /\ \E record \in records : Write(record)
  <2>1. PICK record \in records : Write(record)
    BY <1>4
  <2>2. Key \in lost' => record.status \in Unheard
    BY <1>2, <1>3, <2>1
  <2>3. Recorded(Key, record)
    BY <1>1, <1>3, <1>4, <2>1, <2>2 DEF Recorded, Write
  <2>. QED
    BY <1>1, <2>3, RecordedKept
<1>5. CASE Write(Record("unresolved", FALSE, "unresolved"))
  <2>1. PICK record \in Records : record = Record("unresolved", FALSE, "unresolved")
    BY RecordFacts
  <2>2. record.cleanup = "unresolved" /\ record.status \in Unheard
    BY <2>1 DEF Record, Unheard
  <2>3. Recorded(Key, record)
    BY <1>1, <1>3, <1>5, <2>1, <2>2 DEF Recorded, Write
  <2>. QED
    BY <1>1, <2>3, RecordedKept
<1>. QED
  BY <1>4, <1>5 DEF Removed

LEMMA CleanUpStep ==
  ASSUME PilotInv, CleanUp
  PROVE  PilotInv'
<1>1. /\ pc \in {"candidate", "error"} /\ ledger' = ledger /\ UNCHANGED <<disk, mem, native>>
      /\ pc \in Reviewing /\ pc' = "reviewed" /\ Removed(Verdicts)
  BY DEF CleanUp, Reviewing, native
<1>2. Verdicts \subseteq Records
  BY RecordFacts DEF Verdicts
<1>3. pc = "error" => \A record \in Verdicts : record.status \in Unheard
  BY DEF Verdicts, Record, Unheard
<1>4. ReviewsInv'
  BY <1>1, <1>2, <1>3, RemovedKept
<1>5. pc' \in Reviewing /\ pc' \notin {"create", "candidate", "error"}
  BY <1>1 DEF Reviewing
<1>. QED
  BY <1>1, <1>4, <1>5, ReviewMoves

(* An exception ends the step; its record is a rejection or unresolved.       *)
LEMMA RemovedFacts ==
  ASSUME NEW s, NEW b
  PROVE  [Record(s, b, "pending") EXCEPT !.cleanup = "removed"] = Record(s, b, "removed")
BY DEF Record
LEMMA UncaughtStep ==
  ASSUME PilotInv, Uncaught
  PROVE  PilotInv'
<1>1. /\ JournalsInv /\ AttemptsInv /\ pc \in {"candidate", "error"}
      /\ disk' = disk /\ mem' = disk /\ pc' = "idle" /\ ledger' = ledger /\ launches' = launches
  BY DEF PilotInv, Uncaught, native
<1>2. PICK r : r = reviews[Key]
  OBVIOUS
<1>3. \/ pc = "candidate" /\ r = Record("running", FALSE, "pending")
      \/ pc = "error" /\ r = Record("preparing", FALSE, "pending")
  BY <1>1, <1>2 DEF PilotInv, StepInv, Preparing, Running
<1>4. PICK record : record = [r EXCEPT !.cleanup = "removed"]
  OBVIOUS
<1>5. \/ pc = "candidate" /\ record = Record("running", FALSE, "removed")
      \/ pc = "error" /\ record = Record("preparing", FALSE, "removed")
  <2>1. CASE pc = "candidate" /\ r = Record("running", FALSE, "pending")
    BY <1>4, <2>1, RemovedFacts, Zenon
  <2>2. CASE pc = "error" /\ r = Record("preparing", FALSE, "pending")
    BY <1>4, <2>2, RemovedFacts, Zenon
  <2>. QED
    BY <1>3, <2>1, <2>2
<1>6. record \in Records /\ (pc = "error" => record.status \in Unheard)
  <2>1. record \in Records
    BY <1>5, RecordFacts
  <2>2. pc = "error" => record.status \in Unheard
    BY <1>5 DEF Record, Unheard
  <2>. QED
    BY <2>1, <2>2
<1>7. Removed({record})
  BY <1>2, <1>4 DEF Uncaught
<1>8. ReviewsInv'
  BY <1>1, <1>6, <1>7, RemovedKept
<1>9. JournalsInv' /\ AttemptsInv' /\ StepInv'
  BY <1>1 DEF JournalsInv, AttemptsInv, StepInv, Dispatched, Reviewing
<1>. QED
  BY <1>8, <1>9 DEF PilotInv

(* A creation carried out late shows in no record.                            *)
LEMMA LateCreateStep ==
  ASSUME PilotInv, NEW k \in Keys, LateCreate(k)
  PROVE  PilotInv'
<1>1. /\ disk' = disk /\ mem' = mem /\ pc' = pc /\ ledger' = ledger /\ launches' = launches
      /\ reviews' = reviews /\ lost' = lost /\ k \in lost /\ containers' = containers \cup {k}
  BY DEF LateCreate, native
<1>2. E' = E /\ Key' = Key /\ Taken(E)' = Taken(E)
  <2>1. E' = E
    BY <1>1, EntryNow
  <2>. QED
    BY <1>1, <2>1 DEF Key, Taken
<1>3. JournalsInv' /\ AttemptsInv'
  BY <1>1 DEF PilotInv, JournalsInv, AttemptsInv
<1>4. ReviewsInv'
  BY <1>1 DEF PilotInv, ReviewsInv
<1>5. StepInv'
  BY <1>1, <1>2 DEF PilotInv, StepInv, Preparing, Running
<1>. QED
  BY <1>3, <1>4, <1>5 DEF PilotInv

(* The review reaches the ledger: from here on the attempt is decided.        *)
LEMMA RecordReviewStep ==
  ASSUME PilotInv, RecordReview
  PROVE  PilotInv'
<1>1. /\ JournalsInv /\ AttemptsInv /\ ReviewsInv /\ Journal(mem) /\ pc = "reviewed"
      /\ E.phase = "dispatching" /\ ledger[Key].state = "completed" /\ mem = disk
      /\ launches' = launches /\ UNCHANGED acceptance /\ Told(mem, ledger) /\ Marked(mem, launches)
      /\ reviews' = reviews /\ containers' = containers /\ lost' = lost
  BY DEF PilotInv, JournalsInv, StepInv, RecordReview, Dispatched, Reviewing, acceptance
<1>2. Going(mem) /\ Key \in Keys /\ E = EntryOf(mem)
  BY <1>1, GoingKey
<1>3. CASE Save(Halted(mem, "cleanup")) /\ pc' = "idle" /\ UNCHANGED ledger
  <2>1. PICK t : t = Halted(mem, "cleanup")
    OBVIOUS
  <2>2. t \in StateType /\ t.entries = mem.entries /\ t.snapshots = mem.snapshots
    BY <1>1, <2>1 DEF Halted, StateType, Halts, Journal
  <2>3. Journal(t) /\ Told(t, ledger) /\ Marked(t, launches)
    BY <1>1, <2>2, HaltKept
  <2>4. disk' = t /\ mem' = t /\ ledger' = ledger
    BY <1>3, <2>1 DEF Save
  <2>5. JournalsInv'
    BY <1>1, <2>3, <2>4 DEF JournalsInv
  <2>6. AttemptsInv' /\ ReviewsInv'
    BY <1>1, <2>4 DEF AttemptsInv, ReviewsInv
  <2>7. StepInv'
    BY <1>3, <2>4 DEF StepInv, Dispatched, Reviewing
  <2>. QED
    BY <2>5, <2>6, <2>7 DEF PilotInv
<1>4. CASE /\ CleanedUp(reviews[Key])
           /\ ledger' = [ledger EXCEPT ![Key].evidence = reviews[Key],
                ![Key].state = IF Accepts(reviews[Key]) THEN "accepted" ELSE "rejected"]
           /\ pc' = "finish" /\ UNCHANGED <<disk, mem>>
  <2>1. PICK y : y = IF Accepts(reviews[Key]) THEN "accepted" ELSE "rejected"
    OBVIOUS
  <2>2. y \in Reviewed /\ ((y = "accepted") = Accepts(reviews[Key]))
    BY <2>1 DEF Reviewed, Accepts
  <2>3. PICK x \in Records : x = reviews[Key]
    BY <1>1, <1>2 DEF ReviewsInv
  <2>4. PICK a \in AttemptType : a = ledger[Key]
    BY <1>1, <1>2 DEF AttemptsInv
  <2>5. PICK v : v = [a EXCEPT !.evidence = x, !.state = y]
    OBVIOUS
  <2>6. v \in AttemptType /\ v.state = y /\ v.evidence = x
    <3>1. PICK z \in Reviewed : z = y
      BY <2>2
    <3>2. v = [a EXCEPT !.evidence = x, !.state = z]
      BY <2>5, <3>1
    <3>3. v \in AttemptType /\ v.state = z /\ v.evidence = x
      BY <3>2 DEF AttemptType
    <3>. QED
      BY <3>1, <3>3
  <2>7. ledger' = [ledger EXCEPT ![Key] = v]
    <3>1. ledger \in [Keys -> AttemptType]
      BY <1>1 DEF AttemptsInv
    <3>. QED
      BY <1>2, <1>4, <2>1, <2>3, <2>4, <2>5, <3>1
  <2>8. /\ ledger' \in [Keys -> AttemptType] /\ ledger'[Key] = v
        /\ \A q \in Keys : q # Key => ledger'[q] = ledger[q]
    BY <1>1, <1>2, <2>6, <2>7 DEF AttemptsInv
  <2>9. Decided(v, reviews[Key])
    BY <1>4, <2>2, <2>3, <2>6 DEF Decided
  <2>10. Moves(Key)
    BY <1>1, <1>2, <2>8, <2>9 DEF Moves, Reviewed
  <2>11. ledger[Key].state \notin {None, "admitted"} /\ ledger'[Key].state \notin {None, "admitted"}
    BY <1>1, <2>2, <2>6, <2>8 DEF Reviewed, None
  <2>12. JournalsInv' /\ AttemptsInv' /\ ReviewsInv'
    BY <1>1, <1>4, <2>10, <2>11, MovesOn
  <2>13. E' = E /\ Key' = Key
    <3>1. E' = E
      BY <1>4, EntryNow
    <3>. QED
      BY <3>1 DEF Key
  <2>14. /\ pc' = "finish" /\ mem' = disk' /\ Going(mem') /\ E'.phase = "dispatching"
         /\ ledger'[Key'].state \in Reviewed
    BY <1>1, <1>2, <1>4, <2>2, <2>6, <2>8, <2>13
  <2>15. StepInv'
    BY <2>14 DEF StepInv, Dispatched, Reviewing
  <2>. QED
    BY <2>12, <2>15 DEF PilotInv
<1>. QED
  BY <1>3, <1>4 DEF RecordReview

(* The entry is done with what the ledger says of its attempt.                *)
LEMMA FinishStep ==
  ASSUME PilotInv, Finish
  PROVE  PilotInv'
<1>1. /\ JournalsInv /\ AttemptsInv /\ Journal(mem) /\ pc = "finish" /\ pc' = "idle"
      /\ ledger[Key].state \in Reviewed \cup (Ends \ {"completed"})
      /\ UNCHANGED <<native, acceptance>>
  BY DEF PilotInv, JournalsInv, StepInv, Finish, Stay
<1>2. /\ Going(mem) /\ E \in EntryType /\ Open(E) /\ E = EntryOf(mem) /\ Key \in Keys
      /\ Key = KeyOf(E)
  BY <1>1, GoingKey
<1>3. PICK x \in Reviewed \cup Ends, w \in Int, b \in BOOLEAN :
        x = ledger[Key].state /\ w = ledger[Key].metrics
        /\ b = (ledger[Key].state = "launch_failed")
  BY <1>1, <1>2 DEF AttemptsInv, AttemptType
<1>4. PICK r : r = [E EXCEPT !.phase = "done", !.outcome = x, !.metrics = w, !.noLaunch = b]
  OBVIOUS
<1>5. /\ r \in EntryType /\ KeyOf(r) = KeyOf(E) /\ CaseKey(r) = CaseKey(E)
      /\ r.phase = "done" /\ r.outcome = x /\ r.case = E.case
  <2>1. PICK e \in EntryType : e = E
    BY <1>2
  <2>2. r = [e EXCEPT !.phase = "done", !.outcome = x, !.metrics = w, !.noLaunch = b]
    BY <1>4, <2>1
  <2>3. r \in EntryType /\ r.phase = "done" /\ r.outcome = x
    BY <2>2 DEF EntryType, Phases
  <2>4. r.task = e.task /\ r.variant = e.variant /\ r.number = e.number /\ r.case = e.case
    BY <2>2 DEF EntryType
  <2>. QED
    BY <2>1, <2>3, <2>4 DEF KeyOf, CaseKey
<1>6. E.case # NoCase =>
        \E j \in 1 .. Len(mem.snapshots) : /\ mem.snapshots[j].key = CaseKey(E)
                                           /\ mem.snapshots[j].case = E.case
  BY <1>1, <1>2, CaseInSnapshots
<1>7. Replaces(mem, r)
  BY <1>2, <1>5, <1>6 DEF Replaces, Open
<1>8. \/ Save(Change(r))
      \/ \E reason \in {"safety", "tokens", "usage"} : Save(Halted(Change(r), reason))
  BY <1>3, <1>4, Zenon DEF Finish
<1>9. PICK t : Save(t) /\ Replaced(mem, r, t)
  <2>1. {"safety", "tokens", "usage"} \subseteq Halts
    BY DEF Halts
  <2>. QED
    BY <1>1, <1>2, <1>7, <1>8, <2>1, ChangeFacts
<1>10. /\ r.outcome \in Reviewed => ledger[Key].state = r.outcome
       /\ E.phase = "dispatching" => r.phase \in {"dispatching", "done"}
  BY <1>3, <1>5
<1>. QED
  BY <1>1, <1>7, <1>9, <1>10, SavedIdle

(* A crash loses the copy; its container may be gone already.                 *)
LEMMA CrashStep ==
  ASSUME PilotInv, Crash
  PROVE  PilotInv'
<1>1. /\ JournalsInv /\ AttemptsInv /\ ReviewsInv
      /\ disk' = disk /\ mem' = disk /\ pc' = "idle" /\ ledger' = ledger
      /\ launches' = launches /\ reviews' = reviews
  BY DEF PilotInv, Crash, native
<1>2. JournalsInv'
  BY <1>1 DEF JournalsInv
<1>3. AttemptsInv' /\ ReviewsInv'
  <2>1. containers' \subseteq containers /\ lost' \subseteq lost
    BY DEF Crash, Removes
  <2>2. containers' \ lost' \subseteq containers \ lost
    BY DEF Crash, Removes
  <2>. QED
    BY <1>1, <2>1, <2>2 DEF AttemptsInv, ReviewsInv
<1>4. StepInv'
  BY <1>1 DEF StepInv, Dispatched, Reviewing
<1>. QED
  BY <1>2, <1>3, <1>4 DEF PilotInv

LEMMA UnchangedStep ==
  ASSUME PilotInv, UNCHANGED vars
  PROVE  PilotInv'
<1>1. /\ disk' = disk /\ mem' = mem /\ pc' = pc /\ ledger' = ledger
      /\ launches' = launches /\ reviews' = reviews /\ containers' = containers /\ lost' = lost
  BY DEF vars, native, acceptance
<1>2. E' = E /\ Key' = Key /\ Taken(E)' = Taken(E)
  <2>1. E' = E
    BY <1>1, EntryNow
  <2>. QED
    BY <1>1, <2>1 DEF Key, Taken
<1>3. JournalsInv' /\ AttemptsInv' /\ ReviewsInv'
  BY <1>1 DEF PilotInv, JournalsInv, AttemptsInv, ReviewsInv
<1>4. StepInv'
  BY <1>1, <1>2 DEF PilotInv, StepInv, Preparing, Running
<1>. QED
  BY <1>3, <1>4 DEF PilotInv

LEMMA InitInv ==
  ASSUME Init
  PROVE  PilotInv
<1>1. PICK s : s = disk
  OBVIOUS
<1>2. s.entries = <<>> /\ s.snapshots = <<>> /\ s.halt = None /\ disk = s /\ mem = s
      /\ s = [entries |-> <<>>, snapshots |-> <<>>, halt |-> None]
  BY <1>1 DEF Init
<1>3. s \in StateType
  <2>1. <<>> \in Seq(EntryType) /\ <<>> \in Seq(SnapshotType) /\ None \in Halts
    BY DEF Halts
  <2>. QED
    BY <1>2, <2>1 DEF StateType
<1>4. Journal(s)
  BY <1>2, <1>3 DEF Journal, OneEntry, OpenIsNext, CasesKept, RetriesEarned
<1>5. /\ ledger = [k \in Keys |-> NoAttempt] /\ launches = [k \in Keys |-> 0] /\ pc = "idle"
      /\ reviews = [k \in Keys |-> NoReview] /\ containers = {} /\ lost = {}
  BY DEF Init
<1>6. NoAttempt \in AttemptType /\ NoAttempt.state = None /\ NoReview \in Records
  BY RecordFacts DEF NoAttempt, AttemptType, Unknown, None
<1>7. JournalsInv
  BY <1>2, <1>4, <1>5 DEF JournalsInv, Told, Marked
<1>8. AttemptsInv
  BY <1>5, <1>6 DEF AttemptsInv
<1>9. ReviewsInv
  BY <1>5, <1>6 DEF ReviewsInv, Reviewed, None
<1>10. StepInv
  BY <1>2, <1>5 DEF StepInv, Dispatched, Reviewing
<1>. QED
  BY <1>7, <1>8, <1>9, <1>10 DEF PilotInv

\* The invariant holds at every step of the pilot, whatever is killed and
\* resumed (step and the functions it calls).
THEOREM PilotInvariant == Spec => []PilotInv
<1>1. Init => PilotInv
  BY InitInv
<1>2. PilotInv /\ [Next]_vars => PilotInv'
  <2>. SUFFICES ASSUME PilotInv, [Next]_vars PROVE PilotInv'
    OBVIOUS
  <2>1. CASE Begin \/ Snapshot \/ Plan \/ Admit \/ SaveAdmitted \/ Dispatch \/ Launch
    BY <2>1, BeginStep, SnapshotStep, PlanStep, AdmitStep, SaveAdmittedStep, DispatchStep,
       LaunchStep
  <2>2. CASE UsageStop \/ Returned \/ Outcome \/ Review \/ Create \/ CleanUp
    BY <2>2, UsageStopStep, ReturnedStep, OutcomeStep, ReviewStep, CreateStep, CleanUpStep
  <2>3. CASE RecordReview \/ Finish \/ Crash \/ Uncaught
    BY <2>3, RecordReviewStep, FinishStep, CrashStep, UncaughtStep
  <2>4. CASE \E k \in Keys : Uses(k) \/ Settles(k) \/ LateCreate(k)
    BY <2>4, UsesStep, SettlesStep, LateCreateStep
  <2>5. CASE UNCHANGED vars
    BY <2>5, UnchangedStep
  <2>. QED
    BY <2>1, <2>2, <2>3, <2>4, <2>5 DEF Next
<1>. QED
  BY <1>1, <1>2, PTL DEF Spec

-----------------------------------------------------------------------------
(* What the invariant is for.                                                 *)

LEMMA AcceptsFacts ==
  ASSUME NEW r \in Records
  PROVE  Accepts(r) <=> r = Record("checked", TRUE, "removed")
<1>1. ~Accepts(NoReview) /\ \A s, c : ~Accepts(Record(s, FALSE, c))
  BY DEF NoReview, Record, Accepts
<1>2. Accepts(Record("checked", TRUE, "removed"))
  BY DEF Record, Accepts
<1>. QED
  BY <1>1, <1>2 DEF Records

\* A native attempt is launched at most once, whatever is killed and resumed,
\* and never before run.json says so and the ledger has admitted it (step).
THEOREM LaunchedOnceHolds == Spec => []LaunchedOnce
<1>1. PilotInv => LaunchedOnce
  <2>. SUFFICES ASSUME PilotInv, NEW k \in Keys, launches[k] > 0
                PROVE  /\ launches[k] = 1
                       /\ ledger[k].state # None
                       /\ \E i \in Found(disk.entries, k) :
                            disk.entries[i].phase \in {"dispatching", "done"}
    BY DEF LaunchedOnce
  <2>1. launches[k] = 1 /\ ledger[k].state # None
    BY DEF PilotInv, AttemptsInv
  <2>2. PICK i \in 1 .. Len(disk.entries) :
          KeyOf(disk.entries[i]) = k /\ disk.entries[i].phase \in {"dispatching", "done"}
    BY DEF PilotInv, JournalsInv, Marked
  <2>3. DOMAIN disk.entries = 1 .. Len(disk.entries)
    BY <2>2, EntryTyped DEF PilotInv, JournalsInv, Journal
  <2>. QED
    BY <2>1, <2>2, <2>3 DEF Found
<1>. QED
  BY <1>1, PilotInvariant, PTL

\* What is compared is comparable: both arms decide on one observation, an
\* accepted entry rests on a check of its own in a container that is gone, a
\* retry follows a reviewed rejection, and run.json never says other than the
\* ledger (snapshots, check, record_review).
THEOREM FairComparisonHolds == Spec => []FairComparison
<1>1. PilotInv => FairComparison
  <2>. SUFFICES ASSUME PilotInv PROVE FairComparison
    OBVIOUS
  <2>1. Journal(disk) /\ Told(disk, ledger) /\ ReviewsInv
    BY DEF PilotInv, JournalsInv
  <2>2. DOMAIN disk.entries = 1 .. Len(disk.entries) /\ disk \in StateType
    BY <2>1 DEF Journal, StateType
  <2>3. ASSUME NEW i \in DOMAIN disk.entries, NEW j \in DOMAIN disk.entries,
               CaseKey(disk.entries[i]) = CaseKey(disk.entries[j]),
               disk.entries[i].case # NoCase, disk.entries[j].case # NoCase
        PROVE  disk.entries[i].case = disk.entries[j].case
    <3>1. CasesKept(disk)
      BY <2>1 DEF Journal
    <3>2. PICK a \in 1 .. Len(disk.snapshots) :
            /\ disk.snapshots[a].key = CaseKey(disk.entries[i])
            /\ disk.snapshots[a].case = disk.entries[i].case
      BY <2>2, <2>3, <3>1 DEF CasesKept
    <3>3. PICK b \in 1 .. Len(disk.snapshots) :
            /\ disk.snapshots[b].key = CaseKey(disk.entries[j])
            /\ disk.snapshots[b].case = disk.entries[j].case
      BY <2>2, <2>3, <3>1 DEF CasesKept
    <3>4. a = b
      BY <2>3, <3>1, <3>2, <3>3 DEF CasesKept
    <3>. QED
      BY <3>2, <3>3, <3>4
  <2>4. ASSUME NEW i \in DOMAIN disk.entries, NEW k, k = KeyOf(disk.entries[i]),
               disk.entries[i].outcome \in {"accepted", "rejected"}
        PROVE  /\ ledger[k].state = disk.entries[i].outcome /\ ledger[k].evidence = reviews[k]
               /\ (disk.entries[i].outcome = "accepted")
                    = (reviews[k] = Record("checked", TRUE, "removed"))
               /\ CleanedUp(reviews[k])
               /\ k \in containers => disk.entries[i].outcome = "rejected" /\ k \in lost
    <3>1. k \in Keys
      BY <2>2, <2>4, EntryTyped
    <3>2. ledger[k].state = disk.entries[i].outcome
      BY <2>1, <2>2, <2>4 DEF Told, Reviewed
    <3>3. Decided(ledger[k], reviews[k]) /\ reviews[k] \in Records
      BY <2>1, <2>4, <3>1, <3>2 DEF ReviewsInv, Reviewed
    <3>4. k \in containers => disk.entries[i].outcome = "rejected" /\ k \in lost
      <4>1. k \in containers => k \in lost
        BY <2>1, <3>3 DEF ReviewsInv, Decided, CleanedUp
      <4>2. k \in lost => ~Accepts(reviews[k])
        BY <2>1 DEF ReviewsInv, Unheard, Accepts
      <4>. QED
        BY <2>4, <3>2, <3>3, <4>1, <4>2 DEF Decided
    <3>5. (disk.entries[i].outcome = "accepted")
            <=> reviews[k] = Record("checked", TRUE, "removed")
      BY <3>2, <3>3, AcceptsFacts DEF Decided, Accepts
    <3>. QED
      BY <3>2, <3>3, <3>4, <3>5 DEF Decided
  <2>5. ASSUME NEW i \in DOMAIN disk.entries, disk.entries[i].number = 2
        PROVE  \E j \in Found(disk.entries,
                              <<disk.entries[i].task, disk.entries[i].variant, 1>>) :
                 disk.entries[j].outcome = "rejected"
    BY <2>1, <2>2, <2>5 DEF Journal, RetriesEarned, Found
  <2>. QED
    BY <2>3, <2>4, <2>5 DEF FairComparison
<1>. QED
  BY <1>1, PilotInvariant, PTL

-----------------------------------------------------------------------------
(* The ceilings.                                                              *)

\* run.json by itself, as far as the ceilings go: entries are opened in order
\* and booked with the marker of their admission.
RowsInv(s) ==
  \A i \in 1 .. Len(s.entries) :
    /\ Open(s.entries[i]) => i = Len(s.entries)
    /\ s.entries[i].phase = "planned" => ~s.entries[i].booked
    /\ s.entries[i].phase \in {"admitting", "admitted", "dispatching"} => s.entries[i].booked
    /\ s.entries[i].metrics >= Unknown

\* What was booked is within its limits, and at every booking the usage of the
\* ones before it was resolved and below the threshold.
Before(rows, j) == {i \in rows : i < j}
WithinLimits(u, p, rows) ==
  /\ p \in DOMAIN Limits
  /\ Cardinality(rows) <= Limits[p].attempts
  /\ PointsIn(u, rows) <= Limits[p].points
  /\ \A j \in rows : /\ \A i \in Before(rows, j) : ~Unresolved(u[i])
                     /\ Spent(u, Before(rows, j)) < Limits[p].tokens
BudgetsKept(s, budgets) ==
  \A p \in Providers, v \in budgets :
    Booked(s.entries, p, v) # {} => WithinLimits(s.entries, p, Booked(s.entries, p, v))

\* What was launched was booked, and its usage is told as the ledger has it.
Final == Reviewed \cup (Ends \ {"completed"})
SettledAs(e, attempt) ==
  /\ attempt.state \in Final
  /\ e.metrics = attempt.metrics
  /\ e.noLaunch <=> attempt.state = "launch_failed"
UsageTold(s, attempts, count) ==
  \A i \in 1 .. Len(s.entries) : count[KeyOf(s.entries[i])] > 0 =>
    /\ s.entries[i].booked
    /\ s.entries[i].phase = "done" => SettledAs(s.entries[i], attempts[KeyOf(s.entries[i])])

Ceiling(s, budgets, attempts, count) ==
  RowsInv(s) /\ BudgetsKept(s, budgets) /\ UsageTold(s, attempts, count)
MetricsInv ==
  \A k \in Keys :
    /\ ledger[k].metrics >= Unknown
    /\ ledger[k].state \in {"running", "cancelling"} => ledger[k].metrics >= 0
    /\ ledger[k].state = "launch_failed" => ledger[k].metrics <= 0
CeilingsInv ==
  /\ scope \in Scopes /\ MetricsInv
  /\ Ceiling(disk, Budgets, ledger, launches)
  /\ Ceiling(mem, Budgets, ledger, launches)

(* The sums of a run.json.                                                    *)
LEMMA WeightsTyped ==
  ASSUME NEW u \in Seq(EntryType)
  PROVE  /\ IsFiniteSet(DOMAIN u) /\ DOMAIN u = 1 .. Len(u) /\ Len(u) \in Nat
         /\ [i \in DOMAIN u |-> Counted(u[i])] \in [DOMAIN u -> Int]
         /\ [i \in DOMAIN u |-> u[i].points] \in [DOMAIN u -> Int]
<1>1. DOMAIN u = 1 .. Len(u) /\ Len(u) \in Nat /\ \A i \in DOMAIN u : u[i] \in EntryType
  OBVIOUS
<1>2. IsFiniteSet(1 .. Len(u))
  BY <1>1, FS_Interval
<1>3. \A e \in EntryType : Counted(e) \in Int /\ e.points \in Int
  BY DEF EntryType, Counted
<1>. QED
  BY <1>1, <1>2, <1>3

LEMMA SumsSame ==
  ASSUME NEW u \in Seq(EntryType), NEW w \in Seq(EntryType),
         NEW rows \in SUBSET (DOMAIN u \cap DOMAIN w)
  PROVE  /\ (\A i \in rows : w[i].points = u[i].points) => PointsIn(w, rows) = PointsIn(u, rows)
         /\ (\A i \in rows : w[i] = u[i]) => Spent(w, rows) = Spent(u, rows)
<1>1. ASSUME \A i \in rows : w[i].points = u[i].points
      PROVE  PointsIn(w, rows) = PointsIn(u, rows)
  <2>1. PICK f \in [DOMAIN u -> Int] : f = [i \in DOMAIN u |-> u[i].points]
    BY WeightsTyped
  <2>2. PICK g \in [DOMAIN w -> Int] : g = [i \in DOMAIN w |-> w[i].points]
    BY WeightsTyped
  <2>3. \A i \in rows : g[i] = f[i]
    BY <1>1, <2>1, <2>2
  <2>4. PICK C, D : C = DOMAIN u /\ D = DOMAIN w
    OBVIOUS
  <2>5. f \in [C -> Int] /\ g \in [D -> Int] /\ rows \in SUBSET (D \cap C)
    BY <2>1, <2>2, <2>4
  <2>6. SumFunctionOnSet(g, rows) = SumFunctionOnSet(f, rows)
    <3>1. IsFiniteSet(C) /\ IsFiniteSet(D)
      BY <2>4, WeightsTyped
    <3>2. \A x \in rows : g[x] = f[x]
      BY <2>3
    <3>. HIDE <2>1, <2>2, <2>3, <2>4
    <3>. QED
      BY <2>5, <3>1, <3>2, SumSame
  <2>. QED
    BY <2>1, <2>2, <2>6 DEF PointsIn
<1>2. ASSUME \A i \in rows : w[i] = u[i]
      PROVE  Spent(w, rows) = Spent(u, rows)
  <2>1. PICK f \in [DOMAIN u -> Int] : f = [i \in DOMAIN u |-> Counted(u[i])]
    BY WeightsTyped
  <2>2. PICK g \in [DOMAIN w -> Int] : g = [i \in DOMAIN w |-> Counted(w[i])]
    BY WeightsTyped
  <2>3. \A i \in rows : g[i] = f[i]
    BY <1>2, <2>1, <2>2
  <2>4. PICK C, D : C = DOMAIN u /\ D = DOMAIN w
    OBVIOUS
  <2>5. f \in [C -> Int] /\ g \in [D -> Int] /\ rows \in SUBSET (D \cap C)
    BY <2>1, <2>2, <2>4
  <2>6. SumFunctionOnSet(g, rows) = SumFunctionOnSet(f, rows)
    <3>1. IsFiniteSet(C) /\ IsFiniteSet(D)
      BY <2>4, WeightsTyped
    <3>2. \A x \in rows : g[x] = f[x]
      BY <2>3
    <3>. HIDE <2>1, <2>2, <2>3, <2>4
    <3>. QED
      BY <2>5, <3>1, <3>2, SumSame
  <2>. QED
    BY <2>1, <2>2, <2>6 DEF Spent
<1>. QED
  BY <1>1, <1>2

(* The limits look at the points of all rows, and at all of the earlier ones. *)
LEMMA WithinKept ==
  ASSUME NEW u \in Seq(EntryType), NEW w \in Seq(EntryType),
         NEW rows \in SUBSET (DOMAIN u \cap DOMAIN w), NEW p, WithinLimits(u, p, rows),
         \A i \in rows : w[i].points = u[i].points,
         \A i, j \in rows : i < j => w[i] = u[i]
  PROVE  WithinLimits(w, p, rows)
<1>1. PointsIn(w, rows) = PointsIn(u, rows)
  BY SumsSame
<1>2. ASSUME NEW j \in rows
      PROVE  /\ \A i \in Before(rows, j) : ~Unresolved(w[i])
             /\ Spent(w, Before(rows, j)) < Limits[p].tokens
  <2>1. PICK b \in SUBSET rows : b = Before(rows, j)
    BY DEF Before
  <2>2. \A i \in b : w[i] = u[i]
    BY <2>1 DEF Before
  <2>3. Spent(w, b) = Spent(u, b)
    <3>1. b \in SUBSET (DOMAIN u \cap DOMAIN w)
      OBVIOUS
    <3>. QED
      BY <2>2, <3>1, SumsSame
  <2>. QED
    BY <2>1, <2>2, <2>3 DEF WithinLimits
<1>. QED
  BY <1>1, <1>2 DEF WithinLimits

(* The same bookings, with nothing changed before the last of them.           *)
LEMMA BudgetsSame ==
  ASSUME NEW s \in StateType, NEW t \in StateType, NEW budgets, BudgetsKept(s, budgets),
         \A p, v : Booked(t.entries, p, v) = Booked(s.entries, p, v),
         NEW m \in Int, \A i \in DOMAIN s.entries : i <= m,
         DOMAIN s.entries \subseteq DOMAIN t.entries,
         \A i \in DOMAIN s.entries : i < m => t.entries[i] = s.entries[i],
         \A i \in DOMAIN s.entries : s.entries[i].booked => t.entries[i].points = s.entries[i].points
  PROVE  BudgetsKept(t, budgets)
<1>1. s.entries \in Seq(EntryType) /\ t.entries \in Seq(EntryType)
  BY DEF StateType
<1>2. ASSUME NEW p \in Providers, NEW v \in budgets, Booked(t.entries, p, v) # {}
      PROVE  WithinLimits(t.entries, p, Booked(t.entries, p, v))
  <2>1. PICK rows : rows = Booked(s.entries, p, v)
    OBVIOUS
  <2>2. rows \subseteq DOMAIN s.entries /\ \A i \in rows : s.entries[i].booked
    BY <2>1 DEF Booked, InBudget
  <2>3. rows \in SUBSET (DOMAIN s.entries \cap DOMAIN t.entries)
    BY <2>2
  <2>4. \A i \in rows : t.entries[i].points = s.entries[i].points
    BY <2>2
  <2>5. \A i, j \in rows : i < j => t.entries[i] = s.entries[i]
    <3>1. \A i \in DOMAIN s.entries : i \in Int
      BY <1>1
    <3>2. ASSUME NEW i \in rows, NEW j \in rows, i < j PROVE t.entries[i] = s.entries[i]
      <4>1. i \in Int /\ j \in Int /\ i <= m /\ j <= m
        BY <2>2, <3>1
      <4>2. CASE i = m
        BY <3>2, <4>1, <4>2
      <4>3. CASE i # m
        BY <2>2, <3>2, <4>1, <4>3
      <4>. QED
        BY <4>2, <4>3
    <3>. QED
      BY <3>2
  <2>6. WithinLimits(s.entries, p, rows)
    BY <1>2, <2>1 DEF BudgetsKept
  <2>7. WithinLimits(t.entries, p, rows)
    BY <1>1, <2>3, <2>4, <2>5, <2>6, WithinKept
  <2>. QED
    BY <2>1, <2>7
<1>. QED
  BY <1>2 DEF BudgetsKept

LEMMA CeilingSame ==
  ASSUME NEW s, NEW t, t.entries = s.entries, NEW b, NEW l, NEW n, Ceiling(s, b, l, n)
  PROVE  Ceiling(t, b, l, n)
BY DEF Ceiling, RowsInv, BudgetsKept, UsageTold

\* What a step leaves of a booking when it writes r for the open entry of s.
SameBooking(s, r) ==
  /\ r.booked <=> EntryOf(s).booked
  /\ r.booked => r.provider = EntryOf(s).provider /\ r.points = EntryOf(s).points
\* What RowsInv and UsageTold ask of the entry it writes.
Accounted(r, l, n) ==
  /\ r.phase = "planned" => ~r.booked
  /\ r.phase \in {"admitting", "admitted", "dispatching"} => r.booked
  /\ r.metrics >= Unknown
  /\ n[KeyOf(r)] > 0 => r.booked /\ (r.phase = "done" => SettledAs(r, l[KeyOf(r)]))

LEMMA ReplacedRows ==
  ASSUME NEW s, Journal(s), Going(s), NEW r, NEW t, Replaces(s, r), Replaced(s, r, t),
         NEW l, NEW n, RowsInv(s), UsageTold(s, l, n), Accounted(r, l, n)
  PROVE  /\ RowsInv(t) /\ UsageTold(t, l, n)
         /\ CurrentOf(s) = Len(s.entries) /\ DOMAIN t.entries = DOMAIN s.entries
<1>1. PICK c : c = CurrentOf(s)
  OBVIOUS
<1>2. /\ Len(t.entries) = Len(s.entries) /\ c \in 1 .. Len(s.entries) /\ t.entries[c] = r
      /\ \A j \in 1 .. Len(s.entries) : j # c => t.entries[j] = s.entries[j]
  BY <1>1, ReplacedFacts
<1>3. c = Len(s.entries)
  <2>1. Open(s.entries[c])
    BY <1>1, GoingFacts
  <2>. QED
    BY <1>2, <2>1 DEF RowsInv
<1>4. ASSUME NEW i \in 1 .. Len(t.entries)
      PROVE  /\ Open(t.entries[i]) => i = Len(t.entries)
             /\ t.entries[i].phase = "planned" => ~t.entries[i].booked
             /\ t.entries[i].phase \in {"admitting", "admitted", "dispatching"} => t.entries[i].booked
             /\ t.entries[i].metrics >= Unknown
             /\ n[KeyOf(t.entries[i])] > 0 =>
                  /\ t.entries[i].booked
                  /\ t.entries[i].phase = "done" =>
                       SettledAs(t.entries[i], l[KeyOf(t.entries[i])])
  <2>1. CASE i = c
    BY <1>2, <1>3, <2>1 DEF Accounted
  <2>2. CASE i # c
    <3>1. t.entries[i] = s.entries[i] /\ i \in 1 .. Len(s.entries)
      BY <1>2, <2>2
    <3>2. /\ Open(s.entries[i]) => i = Len(s.entries)
          /\ s.entries[i].phase = "planned" => ~s.entries[i].booked
          /\ s.entries[i].phase \in {"admitting", "admitted", "dispatching"} => s.entries[i].booked
          /\ s.entries[i].metrics >= Unknown
      BY <3>1 DEF RowsInv
    <3>3. n[KeyOf(s.entries[i])] > 0 =>
            /\ s.entries[i].booked
            /\ s.entries[i].phase = "done" => SettledAs(s.entries[i], l[KeyOf(s.entries[i])])
      BY <3>1 DEF UsageTold
    <3>. QED
      BY <1>2, <3>1, <3>2, <3>3
  <2>. QED
    BY <2>1, <2>2
<1>5. DOMAIN t.entries = DOMAIN s.entries
  BY DEF Replaced
<1>6. RowsInv(t)
  BY <1>4 DEF RowsInv
<1>7. UsageTold(t, l, n)
  BY <1>4 DEF UsageTold
<1>. QED
  BY <1>1, <1>3, <1>5, <1>6, <1>7

(* A step that books nothing.                                                 *)
LEMMA ReplacedCeiling ==
  ASSUME NEW s, Journal(s), Going(s), NEW r, NEW t, Replaces(s, r), Replaced(s, r, t),
         NEW b, NEW l, NEW n, Ceiling(s, b, l, n), SameBooking(s, r), Accounted(r, l, n)
  PROVE  Ceiling(t, b, l, n)
<1>1. PICK c : c = CurrentOf(s)
  OBVIOUS
<1>2. /\ Len(t.entries) = Len(s.entries) /\ c \in 1 .. Len(s.entries) /\ t.entries[c] = r
      /\ \A j \in 1 .. Len(s.entries) : j # c => t.entries[j] = s.entries[j]
  BY <1>1, ReplacedFacts
<1>3. RowsInv(t) /\ UsageTold(t, l, n) /\ c = Len(s.entries) /\ DOMAIN t.entries = DOMAIN s.entries
  BY <1>1, ReplacedRows DEF Ceiling
<1>4. /\ EntryOf(s) = s.entries[c] /\ s \in StateType /\ t \in StateType
      /\ DOMAIN s.entries = 1 .. Len(s.entries) /\ Len(s.entries) \in Int
      /\ s.entries[c] \in EntryType /\ r \in EntryType /\ KeyOf(r) = KeyOf(s.entries[c])
  BY <1>1, <1>2, GoingFacts, EntryTyped DEF Replaces, Replaced
<1>5. r.variant = s.entries[c].variant
  BY <1>4 DEF KeyOf
<1>6. ASSUME NEW p, NEW v, NEW i \in DOMAIN s.entries
      PROVE  InBudget(t.entries[i], p, v) <=> InBudget(s.entries[i], p, v)
  <2>1. CASE i = c
    BY <1>2, <1>4, <1>5, <2>1 DEF InBudget, SameBooking
  <2>2. CASE i # c
    BY <1>2, <1>4, <2>2
  <2>. QED
    BY <2>1, <2>2
<1>7. \A p, v : Booked(t.entries, p, v) = Booked(s.entries, p, v)
  BY <1>3, <1>6 DEF Booked
<1>8. \A i \in DOMAIN s.entries : i <= c /\ (i < c => t.entries[i] = s.entries[i])
  BY <1>2, <1>3, <1>4
<1>9. \A i \in DOMAIN s.entries : s.entries[i].booked => t.entries[i].points = s.entries[i].points
  BY <1>2, <1>4 DEF SameBooking
<1>10. BudgetsKept(s, b) /\ c \in Int
  BY <1>2 DEF Ceiling
<1>11. BudgetsKept(t, b)
  BY <1>3, <1>4, <1>7, <1>8, <1>9, <1>10, BudgetsSame
<1>. QED
  BY <1>3, <1>11 DEF Ceiling

(* Begin: the new entry is not booked.                                        *)
LEMMA AppendedCeiling ==
  ASSUME NEW s, Journal(s), NEW t \in StateType, NEW e \in EntryType,
         t.entries = Append(s.entries, e), \A i \in 1 .. Len(s.entries) : ~Open(s.entries[i]),
         e.phase = "planned", ~e.booked, e.metrics >= Unknown,
         NEW b, NEW l, NEW n, Ceiling(s, b, l, n), ~(n[KeyOf(e)] > 0)
  PROVE  Ceiling(t, b, l, n)
<1>1. s \in StateType /\ s.entries \in Seq(EntryType) /\ Len(s.entries) \in Nat
      /\ DOMAIN s.entries = 1 .. Len(s.entries)
  BY DEF Journal, StateType
<1>2. PICK c \in Nat : c = Len(s.entries) + 1
  BY <1>1
<1>3. /\ Len(t.entries) = c /\ t.entries[c] = e
      /\ \A i \in 1 .. Len(s.entries) : t.entries[i] = s.entries[i] /\ i < c
      /\ \A i \in 1 .. Len(t.entries) : i = c \/ i \in 1 .. Len(s.entries)
      /\ DOMAIN t.entries = 1 .. Len(t.entries) /\ DOMAIN s.entries \subseteq DOMAIN t.entries
  BY <1>1, <1>2
<1>4. RowsInv(t)
  <2>1. ASSUME NEW i \in 1 .. Len(t.entries)
        PROVE  /\ Open(t.entries[i]) => i = Len(t.entries)
               /\ t.entries[i].phase = "planned" => ~t.entries[i].booked
               /\ t.entries[i].phase \in {"admitting", "admitted", "dispatching"} =>
                    t.entries[i].booked
               /\ t.entries[i].metrics >= Unknown
    <3>1. CASE i = c
      BY <1>3, <3>1
    <3>2. CASE i # c
      BY <1>3, <3>2 DEF Ceiling, RowsInv
    <3>. QED
      BY <3>1, <3>2
  <2>. QED
    BY <2>1 DEF RowsInv
<1>5. UsageTold(t, l, n)
  BY <1>3 DEF Ceiling, UsageTold
<1>6. \A p, v : Booked(t.entries, p, v) = Booked(s.entries, p, v)
  <2>1. ASSUME NEW p, NEW v, NEW i
        PROVE  i \in Booked(t.entries, p, v) <=> i \in Booked(s.entries, p, v)
    <3>1. i \in DOMAIN t.entries /\ InBudget(t.entries[i], p, v) => i \in DOMAIN s.entries
      BY <1>1, <1>3 DEF InBudget
    <3>2. i \in DOMAIN s.entries => t.entries[i] = s.entries[i] /\ i \in DOMAIN t.entries
      BY <1>1, <1>3
    <3>. QED
      BY <3>1, <3>2 DEF Booked
  <2>2. ASSUME NEW p, NEW v PROVE Booked(t.entries, p, v) = Booked(s.entries, p, v)
    <3>1. PICK x, y : x = Booked(t.entries, p, v) /\ y = Booked(s.entries, p, v)
      OBVIOUS
    <3>2. \A i : i \in x <=> i \in y
      BY <2>1, <3>1
    <3>3. x = y
      BY <3>2
    <3>. QED
      BY <3>1, <3>3
  <2>. QED
    BY <2>2
<1>7. /\ c \in Int /\ \A i \in DOMAIN s.entries : i <= c /\ t.entries[i] = s.entries[i]
  BY <1>1, <1>3
<1>8. BudgetsKept(s, b)
  BY DEF Ceiling
<1>9. BudgetsKept(t, b)
  BY <1>1, <1>3, <1>6, <1>7, <1>8, BudgetsSame
<1>. QED
  BY <1>4, <1>5, <1>9 DEF Ceiling

(* Plan: a budget that does not refuse has room for one more.                 *)
LEMMA RoomForOne ==
  ASSUME NEW u \in Seq(EntryType), NEW w \in Seq(EntryType), DOMAIN w = DOMAIN u,
         NEW c \in DOMAIN u, \A i \in DOMAIN u : i # c => w[i] = u[i] /\ i < c,
         NEW p \in Providers, NEW v, ~Refuses(u, p, w[c].points, v),
         ~u[c].booked, Booked(u, p, v) # {} => WithinLimits(u, p, Booked(u, p, v))
  PROVE  WithinLimits(w, p, Booked(u, p, v) \cup {c})
<1>1. PICK rows : rows = Booked(u, p, v)
  OBVIOUS
<1>2. rows \subseteq DOMAIN u /\ c \notin rows
  BY <1>1 DEF Booked, InBudget
<1>3. /\ p \in DOMAIN Limits
      /\ \A i \in rows : ~Unresolved(u[i])
      /\ ~(Cardinality(rows) >= Limits[p].attempts)
      /\ ~(PointsIn(u, rows) + w[c].points > Limits[p].points)
      /\ ~(Spent(u, rows) >= Limits[p].tokens)
  BY <1>1 DEF Refuses
<1>4. Limits[p].attempts \in Int /\ Limits[p].points \in Int /\ Limits[p].tokens \in Int
  BY <1>3, PilotAssumption
<1>5. DOMAIN u = 1 .. Len(u) /\ IsFiniteSet(DOMAIN u) /\ Len(u) \in Nat
  BY WeightsTyped
<1>6. Cardinality(rows \cup {c}) <= Limits[p].attempts
  <2>1. IsFiniteSet(rows)
    BY <1>2, <1>5, FS_Subset
  <2>2. Cardinality(rows \cup {c}) = Cardinality(rows) + 1 /\ Cardinality(rows) \in Nat
    BY <1>2, <2>1, FS_AddElement, FS_CardinalityType
  <2>. QED
    BY <1>3, <1>4, <2>2
<1>7. PointsIn(w, rows \cup {c}) <= Limits[p].points
  <2>1. PICK D : D = DOMAIN w
    OBVIOUS
  <2>2. PICK f \in [D -> Int] : f = [i \in D |-> w[i].points]
    BY <2>1, WeightsTyped
  <2>3. IsFiniteSet(D) /\ rows \cup {c} \in SUBSET D /\ rows \in SUBSET D
    BY <1>2, <2>1, WeightsTyped
  <2>4. SumFunctionOnSet(f, rows) \in Int
    BY <2>3, SumFacts
  <2>5. SumFunctionOnSet(f, rows \cup {c})
          = f[c] + SumFunctionOnSet(f, (rows \cup {c}) \ {c})
    BY <2>3, SumFacts
  <2>6. (rows \cup {c}) \ {c} = rows
    BY <1>2
  <2>7. /\ PointsIn(w, rows \cup {c}) = SumFunctionOnSet(f, rows \cup {c})
        /\ PointsIn(w, rows) = SumFunctionOnSet(f, rows) /\ f[c] = w[c].points /\ f[c] \in Int
    BY <2>1, <2>2 DEF PointsIn
  <2>8. PointsIn(w, rows) = PointsIn(u, rows)
    <3>1. rows \in SUBSET (DOMAIN u \cap DOMAIN w) /\ \A i \in rows : w[i].points = u[i].points
      BY <1>2
    <3>. QED
      BY <3>1, SumsSame
  <2>9. PICK sum \in Int, new \in Int, limit \in Int :
          sum = SumFunctionOnSet(f, rows) /\ new = f[c] /\ limit = Limits[p].points
    BY <1>4, <2>4, <2>7
  <2>10. ~(sum + new > limit) /\ PointsIn(w, rows \cup {c}) = new + sum
    BY <1>3, <2>5, <2>6, <2>7, <2>8, <2>9
  <2>. QED
    BY <2>9, <2>10
<1>8. Spent(u, rows) \in Int
  <2>1. PICK D : D = DOMAIN u
    OBVIOUS
  <2>2. PICK f \in [D -> Int] : f = [i \in D |-> Counted(u[i])]
    BY <2>1, WeightsTyped
  <2>3. IsFiniteSet(D) /\ rows \in SUBSET D
    BY <1>2, <2>1, WeightsTyped
  <2>4. SumFunctionOnSet(f, rows) \in Int
    BY <2>3, SumFacts
  <2>. QED
    BY <2>1, <2>2, <2>4 DEF Spent
<1>9. ASSUME NEW j \in rows \cup {c}
      PROVE  /\ Before(rows \cup {c}, j) \subseteq rows
             /\ j = c => Before(rows \cup {c}, j) = rows
             /\ j # c => j \in rows /\ Before(rows \cup {c}, j) = Before(rows, j)
  <2>1. \A i \in rows : i < c /\ i \in Int
    BY <1>2, <1>5
  <2>2. c \in Int
    BY <1>5
  <2>. QED
    BY <2>1, <2>2 DEF Before
<1>10. ASSUME NEW j \in rows \cup {c}
       PROVE  /\ \A i \in Before(rows \cup {c}, j) : ~Unresolved(w[i])
              /\ Spent(w, Before(rows \cup {c}, j)) < Limits[p].tokens
  <2>1. PICK b \in SUBSET rows : b = Before(rows \cup {c}, j)
    BY <1>9
  <2>2. \A i \in b : w[i] = u[i]
    BY <1>2
  <2>3. b \in SUBSET (DOMAIN u \cap DOMAIN w)
    BY <1>2
  <2>4. Spent(w, b) = Spent(u, b)
    BY <2>2, <2>3, SumsSame
  <2>5. \A i \in b : ~Unresolved(w[i])
    BY <1>3, <2>2
  <2>6. Spent(u, b) < Limits[p].tokens
    <3>1. CASE j = c
      <4>1. b = rows
        BY <1>9, <2>1, <3>1
      <4>2. PICK sum \in Int, limit \in Int : sum = Spent(u, rows) /\ limit = Limits[p].tokens
        BY <1>4, <1>8
      <4>3. ~(sum >= limit)
        BY <1>3, <4>2
      <4>4. sum < limit
        BY <4>2, <4>3
      <4>. QED
        BY <4>1, <4>2, <4>4
    <3>2. CASE j # c
      <4>1. j \in rows /\ b = Before(rows, j) /\ WithinLimits(u, p, rows)
        BY <1>1, <1>9, <2>1, <3>2
      <4>. QED
        BY <4>1 DEF WithinLimits
    <3>. QED
      BY <3>1, <3>2
  <2>. QED
    BY <2>1, <2>4, <2>5, <2>6
<1>11. WithinLimits(w, p, rows \cup {c})
  BY <1>3, <1>6, <1>7, <1>10 DEF WithinLimits
<1>. QED
  BY <1>1, <1>11

LEMMA BookedCeiling ==
  ASSUME NEW s, Journal(s), Going(s), NEW r, NEW t, Replaces(s, r), Replaced(s, r, t),
         NEW l, NEW n, Ceiling(s, Budgets, l, n), Accounted(r, l, n),
         ~EntryOf(s).booked, r.booked, r.provider \in Providers,
         ~Refuses(s.entries, r.provider, r.points, Within(EntryOf(s)))
  PROVE  Ceiling(t, Budgets, l, n)
<1>1. PICK c : c = CurrentOf(s)
  OBVIOUS
<1>2. /\ Len(t.entries) = Len(s.entries) /\ c \in 1 .. Len(s.entries) /\ t.entries[c] = r
      /\ \A j \in 1 .. Len(s.entries) : j # c => t.entries[j] = s.entries[j]
  BY <1>1, ReplacedFacts
<1>3. RowsInv(t) /\ UsageTold(t, l, n) /\ c = Len(s.entries) /\ DOMAIN t.entries = DOMAIN s.entries
  BY <1>1, ReplacedRows DEF Ceiling
<1>4. /\ EntryOf(s) = s.entries[c] /\ s \in StateType /\ t \in StateType
      /\ DOMAIN s.entries = 1 .. Len(s.entries) /\ Len(s.entries) \in Int
      /\ s.entries[c] \in EntryType /\ r \in EntryType /\ KeyOf(r) = KeyOf(s.entries[c])
  BY <1>1, <1>2, GoingFacts, EntryTyped DEF Replaces, Replaced
<1>5. r.variant = s.entries[c].variant /\ r.variant \in Variants
  BY <1>4 DEF KeyOf, EntryType
<1>6. PICK u \in Seq(EntryType), w \in Seq(EntryType) : u = s.entries /\ w = t.entries
  BY <1>4 DEF StateType
<1>7. /\ DOMAIN w = DOMAIN u /\ c \in DOMAIN u /\ ~u[c].booked /\ w[c] = r
      /\ \A i \in DOMAIN u : i # c => w[i] = u[i] /\ i < c
  BY <1>2, <1>3, <1>4, <1>6
<1>8. ASSUME NEW v \in Budgets
      PROVE  v \in {None, r.variant} <=> v = Within(EntryOf(s))
  <2>1. CASE scope = "per-arm"
    <3>1. v \in Variants /\ Within(EntryOf(s)) = r.variant
      BY <1>4, <1>5, <2>1 DEF Budgets, Within
    <3>. QED
      BY <3>1 DEF Variants, None
  <2>2. CASE scope # "per-arm"
    <3>1. v = None /\ Within(EntryOf(s)) = None
      BY <2>2 DEF Budgets, Within
    <3>. QED
      BY <3>1
  <2>. QED
    BY <2>1, <2>2
<1>9. ASSUME NEW p \in Providers, NEW v \in Budgets
      PROVE  IF p = r.provider /\ v = Within(EntryOf(s))
               THEN Booked(w, p, v) = Booked(u, p, v) \cup {c}
               ELSE Booked(w, p, v) = Booked(u, p, v)
  <2>1. InBudget(w[c], p, v) <=> p = r.provider /\ v = Within(EntryOf(s))
    BY <1>7, <1>8 DEF InBudget
  <2>2. ~InBudget(u[c], p, v) /\ \A i \in DOMAIN u : i # c => InBudget(w[i], p, v) = InBudget(u[i], p, v)
    BY <1>7 DEF InBudget
  <2>3. PICK x, y : x = Booked(w, p, v) /\ y = Booked(u, p, v)
    OBVIOUS
  <2>4. \A i : i \in x <=> i \in y \/ (i = c /\ InBudget(w[c], p, v))
    BY <1>7, <2>2, <2>3 DEF Booked
  <2>5. CASE p = r.provider /\ v = Within(EntryOf(s))
    <3>1. x = y \cup {c}
      BY <2>1, <2>4, <2>5
    <3>. QED
      BY <2>3, <2>5, <3>1
  <2>6. CASE ~(p = r.provider /\ v = Within(EntryOf(s)))
    <3>1. x = y
      BY <2>1, <2>4, <2>6
    <3>. QED
      BY <2>3, <2>6, <3>1
  <2>. QED
    BY <2>5, <2>6
<1>10. ASSUME NEW p \in Providers, NEW v \in Budgets
       PROVE  Booked(u, p, v) # {} => WithinLimits(u, p, Booked(u, p, v))
  BY <1>6 DEF Ceiling, BudgetsKept
<1>11. ASSUME NEW p \in Providers, NEW v \in Budgets, Booked(w, p, v) # {}
       PROVE  WithinLimits(w, p, Booked(w, p, v))
  <2>1. CASE p = r.provider /\ v = Within(EntryOf(s))
    <3>1. ~Refuses(u, p, w[c].points, v)
      BY <1>6, <1>7, <2>1
    <3>2. WithinLimits(w, p, Booked(u, p, v) \cup {c})
      BY <1>7, <1>10, <3>1, RoomForOne
    <3>. QED
      BY <1>9, <2>1, <3>2
  <2>2. CASE ~(p = r.provider /\ v = Within(EntryOf(s)))
    <3>1. Booked(w, p, v) = Booked(u, p, v)
      BY <1>9, <2>2
    <3>2. PICK rows : rows = Booked(u, p, v)
      OBVIOUS
    <3>3. rows \in SUBSET (DOMAIN u \cap DOMAIN w) /\ \A i \in rows : u[i].booked
      BY <1>7, <3>2 DEF Booked, InBudget
    <3>4. \A i \in rows : w[i] = u[i]
      BY <1>7, <3>3
    <3>5. WithinLimits(u, p, rows)
      BY <1>10, <1>11, <3>1, <3>2
    <3>6. WithinLimits(w, p, rows)
      BY <3>3, <3>4, <3>5, WithinKept
    <3>. QED
      BY <3>1, <3>2, <3>6
  <2>. QED
    BY <2>1, <2>2
<1>12. BudgetsKept(t, Budgets)
  BY <1>6, <1>11 DEF BudgetsKept
<1>. QED
  BY <1>3, <1>12 DEF Ceiling

(* What the ledger says of a settled attempt stays.                           *)
LEMMA AttemptMoves ==
  ASSUME NEW s, Journal(s), NEW b, NEW k \in Keys, Ceiling(s, b, ledger, launches),
         \A q \in Keys : q # k => ledger'[q] = ledger[q],
         launches' = launches, ledger[k].state \notin Final \/ ~(launches[k] > 0)
  PROVE  Ceiling(s, b, ledger', launches')
<1>1. \A i \in 1 .. Len(s.entries) : KeyOf(s.entries[i]) \in Keys
  BY EntryTyped DEF Journal
<1>2. UsageTold(s, ledger', launches')
  BY <1>1 DEF Ceiling, UsageTold, SettledAs
<1>. QED
  BY <1>2 DEF Ceiling

LEMMA EntryAccounted ==
  ASSUME PilotInv, CeilingsInv, pc # "idle"
  PROVE  /\ Accounted(E, ledger, launches) /\ E.phase # "done"
         /\ Ceiling(mem, Budgets, ledger, launches)
<1>1. Journal(mem) /\ Going(mem) /\ E = EntryOf(mem) /\ Open(E)
  BY GoingKey
<1>2. PICK c \in 1 .. Len(mem.entries) : E = mem.entries[c]
  BY <1>1, GoingFacts
<1>3. Ceiling(mem, Budgets, ledger, launches) /\ E.phase # "done"
  BY <1>1 DEF CeilingsInv, Open
<1>. QED
  BY <1>2, <1>3 DEF Ceiling, RowsInv, UsageTold, Accounted

(* A saved change of the open entry that books nothing.                       *)
LEMMA SavedCeiling ==
  ASSUME PilotInv, CeilingsInv, pc # "idle", NEW r, NEW t, Replaces(mem, r), Replaced(mem, r, t),
         Save(t), SameBooking(mem, r), Accounted(r, ledger, launches), UNCHANGED <<scope, native>>
  PROVE  CeilingsInv'
<1>1. Journal(mem) /\ Going(mem)
  BY GoingKey
<1>2. Ceiling(t, Budgets, ledger, launches)
  BY <1>1, ReplacedCeiling DEF CeilingsInv
<1>3. /\ mem' = t /\ disk' = t /\ scope' = scope /\ ledger' = ledger /\ launches' = launches
      /\ Budgets' = Budgets
  BY DEF Save, native, Budgets
<1>4. MetricsInv' /\ scope' \in Scopes
  BY <1>3 DEF CeilingsInv, MetricsInv
<1>. QED
  BY <1>2, <1>3, <1>4 DEF CeilingsInv

(* The entries of run.json are kept, or the copy is replaced by what is saved.*)
LEMMA EntriesCeiling ==
  ASSUME CeilingsInv, UNCHANGED <<scope, native>>,
         disk'.entries = disk.entries \/ disk'.entries = mem.entries,
         mem'.entries = disk.entries \/ mem'.entries = mem.entries
  PROVE  CeilingsInv'
<1>1. scope' = scope /\ ledger' = ledger /\ launches' = launches /\ Budgets' = Budgets
  BY DEF native, Budgets
<1>2. Ceiling(disk', Budgets, ledger, launches) /\ Ceiling(mem', Budgets, ledger, launches)
  BY CeilingSame DEF CeilingsInv
<1>3. MetricsInv' /\ scope' \in Scopes
  BY <1>1 DEF CeilingsInv, MetricsInv
<1>. QED
  BY <1>1, <1>2, <1>3 DEF CeilingsInv

LEMMA BeginCeiling ==
  ASSUME PilotInv, CeilingsInv, Begin
  PROVE  CeilingsInv'
<1>1. Journal(disk) /\ Marked(disk, launches) /\ UNCHANGED <<scope, native>>
      /\ DueSet(disk.entries) # {}
  BY DEF PilotInv, JournalsInv, Begin, Stay
<1>2. PICK k : k = NextKey(disk.entries)
  OBVIOUS
<1>3. k \in Keys
  BY <1>1, <1>2, NextTyped
<1>4. disk \in StateType /\ DOMAIN disk.entries = 1 .. Len(disk.entries)
  BY <1>1 DEF Journal, StateType
<1>5. CASE Found(disk.entries, k) # {}
  <2>1. mem' = disk /\ disk' = disk
    BY <1>2, <1>5 DEF Begin
  <2>. QED
    BY <1>1, <2>1, EntriesCeiling
<1>6. CASE Found(disk.entries, k) = {}
  <2>1. PICK e : e = Entry(k[1], k[2], k[3])
    OBVIOUS
  <2>2. /\ e \in EntryType /\ KeyOf(e) = k /\ e.phase = "planned" /\ ~e.booked
        /\ e.metrics >= Unknown
    BY <1>3, <2>1 DEF Entry, EntryType, Keys, KeyOf, Phases, Unknown
  <2>3. Append(disk.entries, e) \in Seq(EntryType)
    BY <1>4, <2>2 DEF StateType
  <2>4. PICK t : t = [disk EXCEPT !.entries = Append(disk.entries, e)]
    OBVIOUS
  <2>5. t \in StateType /\ t.entries = Append(disk.entries, e)
    BY <1>4, <2>3, <2>4 DEF StateType
  <2>6. mem' = t /\ disk' = t
    BY <1>2, <1>6, <2>1, <2>4 DEF Begin, Save
  <2>7. \A i \in 1 .. Len(disk.entries) : KeyOf(disk.entries[i]) # k
    BY <1>4, <1>6 DEF Found
  <2>8. \A i \in 1 .. Len(disk.entries) : ~Open(disk.entries[i])
    BY <1>1, <1>2, <2>7 DEF Journal, OpenIsNext
  <2>9. ~(launches[k] > 0)
    BY <1>1, <1>3, <2>7 DEF Marked
  <2>10. Ceiling(t, Budgets, ledger, launches)
    BY <1>1, <2>2, <2>5, <2>8, <2>9, AppendedCeiling DEF CeilingsInv
  <2>11. scope' = scope /\ ledger' = ledger /\ launches' = launches /\ Budgets' = Budgets
    BY <1>1 DEF native, Budgets
  <2>12. MetricsInv' /\ scope' \in Scopes
    BY <2>11 DEF CeilingsInv, MetricsInv
  <2>. QED
    BY <2>6, <2>10, <2>11, <2>12 DEF CeilingsInv
<1>. QED
  BY <1>5, <1>6

LEMMA PlanCeiling ==
  ASSUME PilotInv, CeilingsInv, Plan
  PROVE  CeilingsInv'
<1>1. Journal(mem) /\ pc = "planned" /\ E.phase = "planned" /\ Taken(E)
      /\ UNCHANGED <<scope, native>>
  BY DEF PilotInv, JournalsInv, StepInv, Plan, Stay
<1>2. /\ Going(mem) /\ E \in EntryType /\ E = EntryOf(mem) /\ Key = KeyOf(E)
      /\ E.outcome \in {None, "unresolved"} /\ launches[Key] = 0
  BY <1>1, GoingKey
<1>3. ~E.booked /\ E.metrics >= Unknown
  BY <1>1, EntryAccounted DEF Accounted
<1>4. PICK c \in Cases : c = CaseOf(E)
  BY <1>1, <1>2, CaseFacts
<1>5. \E j \in 1 .. Len(mem.snapshots) : /\ mem.snapshots[j].key = CaseKey(E)
                                         /\ mem.snapshots[j].case = c
  BY <1>1, <1>2, <1>4, CaseFacts
<1>6. c[E.variant] \in Providers \cup {None}
  BY <1>2, PilotAssumption DEF EntryType
<1>7. PICK p \in Providers \cup {None} : p = c[E.variant]
  BY <1>6
<1>8. PICK known : known = [E EXCEPT !.case = c]
  OBVIOUS
<1>9. /\ known \in EntryType /\ KeyOf(known) = KeyOf(E) /\ CaseKey(known) = CaseKey(E)
      /\ known.case = c /\ known.outcome = E.outcome /\ known.phase = "planned"
      /\ ~known.booked /\ known.metrics = E.metrics
  BY <1>1, <1>2, <1>3, <1>8 DEF EntryType, KeyOf, CaseKey
<1>10. PICK chosen : chosen = [known EXCEPT !.provider = p, !.points = PointsOf[p]]
  OBVIOUS
<1>11. ASSUME p # None
       PROVE  /\ chosen \in EntryType /\ KeyOf(chosen) = KeyOf(E)
              /\ CaseKey(chosen) = CaseKey(E)
              /\ chosen.case = c /\ chosen.outcome = E.outcome /\ chosen.phase = "planned"
              /\ ~chosen.booked /\ chosen.metrics = E.metrics
              /\ chosen.provider = p /\ chosen.points = PointsOf[p] /\ p \in Providers
  <2>1. PointsOf[p] \in Nat
    BY <1>11, PilotAssumption
  <2>. QED
    BY <1>9, <1>10, <1>11, <2>1 DEF EntryType, KeyOf, CaseKey
<1>12. CASE p = None /\ Save(Change([known EXCEPT !.phase = "done", !.outcome = "refused"]))
  <2>1. PICK r : r = [known EXCEPT !.phase = "done", !.outcome = "refused"]
    OBVIOUS
  <2>2. /\ r \in EntryType /\ KeyOf(r) = KeyOf(E) /\ CaseKey(r) = CaseKey(E) /\ r.case = c
        /\ r.phase = "done" /\ r.outcome = "refused" /\ ~r.booked /\ r.metrics >= Unknown
    BY <1>3, <1>9, <2>1 DEF EntryType, KeyOf, CaseKey, Phases
  <2>3. Replaces(mem, r)
    BY <1>2, <1>5, <2>2 DEF Replaces, Open
  <2>4. PICK t : t = Change(r)
    OBVIOUS
  <2>5. Replaced(mem, r, t) /\ Save(t)
    BY <1>1, <1>2, <1>12, <2>1, <2>3, <2>4, ChangeFacts
  <2>6. SameBooking(mem, r)
    BY <1>2, <1>3, <2>2 DEF SameBooking
  <2>7. Accounted(r, ledger, launches)
    BY <1>2, <2>2 DEF Accounted
  <2>. QED
    BY <1>1, <2>3, <2>5, <2>6, <2>7, SavedCeiling
<1>13. CASE p # None /\ Save(Halted(Change(chosen), "budget"))
  <2>1. Replaces(mem, chosen)
    BY <1>2, <1>5, <1>11, <1>13 DEF Replaces, Open
  <2>2. PICK t : t = Halted(Change(chosen), "budget")
    OBVIOUS
  <2>3. Replaced(mem, chosen, t) /\ Save(t)
    <3>1. "budget" \in Halts
      BY DEF Halts
    <3>. QED
      BY <1>1, <1>2, <1>13, <2>1, <2>2, <3>1, ChangeFacts
  <2>4. SameBooking(mem, chosen)
    BY <1>2, <1>3, <1>11, <1>13 DEF SameBooking
  <2>5. Accounted(chosen, ledger, launches)
    BY <1>2, <1>3, <1>11, <1>13 DEF Accounted
  <2>. QED
    BY <1>1, <2>1, <2>3, <2>4, <2>5, SavedCeiling
<1>14. CASE /\ p # None /\ ~Refuses(mem.entries, p, chosen.points, Within(E))
            /\ Save(Change([chosen EXCEPT !.phase = "admitting", !.booked = TRUE]))
  <2>1. PICK r : r = [chosen EXCEPT !.phase = "admitting", !.booked = TRUE]
    OBVIOUS
  <2>2. /\ r \in EntryType /\ KeyOf(r) = KeyOf(E) /\ CaseKey(r) = CaseKey(E) /\ r.case = c
        /\ r.phase = "admitting" /\ r.outcome = E.outcome /\ r.booked /\ r.metrics >= Unknown
        /\ r.provider = p /\ r.points = chosen.points
    BY <1>3, <1>11, <1>14, <2>1 DEF EntryType, KeyOf, CaseKey, Phases
  <2>3. Replaces(mem, r)
    BY <1>2, <1>5, <2>2 DEF Replaces, Open
  <2>4. PICK t : t = Change(r)
    OBVIOUS
  <2>5. Replaced(mem, r, t) /\ Save(t)
    BY <1>1, <1>2, <1>14, <2>1, <2>3, <2>4, ChangeFacts
  <2>6. Accounted(r, ledger, launches)
    BY <1>2, <2>2 DEF Accounted
  <2>7. ~Refuses(mem.entries, r.provider, r.points, Within(EntryOf(mem))) /\ r.provider \in Providers
    BY <1>2, <1>11, <1>14, <2>2
  <2>8. ~EntryOf(mem).booked /\ r.booked /\ Ceiling(mem, Budgets, ledger, launches)
    BY <1>2, <1>3, <2>2 DEF CeilingsInv
  <2>9. Ceiling(t, Budgets, ledger, launches)
    BY <1>1, <1>2, <2>3, <2>5, <2>6, <2>7, <2>8, BookedCeiling
  <2>10. /\ mem' = t /\ disk' = t /\ scope' = scope /\ ledger' = ledger /\ launches' = launches
         /\ Budgets' = Budgets
    BY <1>1, <2>5 DEF Save, native, Budgets
  <2>11. MetricsInv' /\ scope' \in Scopes
    BY <2>10 DEF CeilingsInv, MetricsInv
  <2>. QED
    BY <2>9, <2>10, <2>11 DEF CeilingsInv
<1>. QED
  BY <1>4, <1>7, <1>8, <1>10, <1>12, <1>13, <1>14 DEF Plan

(* One attempt moves on: what it used stays in range, and what is settled was *)
(* told already.                                                              *)
Used(attempt) ==
  /\ attempt.metrics >= Unknown
  /\ attempt.state \in {"running", "cancelling"} => attempt.metrics >= 0
  /\ attempt.state = "launch_failed" => attempt.metrics <= 0
LEMMA MovedCeiling ==
  ASSUME PilotInv, CeilingsInv, NEW k \in Keys, \A q \in Keys : q # k => ledger'[q] = ledger[q],
         launches' = launches, scope' = scope, Used(ledger'[k]),
         ledger[k].state \notin Final \/ ~(launches[k] > 0)
  PROVE  /\ MetricsInv' /\ scope' \in Scopes /\ Budgets' = Budgets
         /\ Ceiling(disk, Budgets, ledger', launches')
         /\ Ceiling(mem, Budgets, ledger', launches')
         /\ mem' = mem /\ disk' = disk => CeilingsInv'
<1>1. MetricsInv'
  BY DEF CeilingsInv, MetricsInv, Used
<1>2. scope' \in Scopes /\ Budgets' = Budgets
  BY DEF CeilingsInv, Budgets
<1>3. Journal(mem) /\ Journal(disk)
  BY DEF PilotInv, JournalsInv
<1>4. /\ Ceiling(disk, Budgets, ledger', launches')
      /\ Ceiling(mem, Budgets, ledger', launches')
  BY <1>3, AttemptMoves DEF CeilingsInv
<1>. QED
  BY <1>1, <1>2, <1>4 DEF CeilingsInv

LEMMA AdmitCeiling ==
  ASSUME PilotInv, CeilingsInv, Admit
  PROVE  CeilingsInv'
<1>1. Journal(mem) /\ pc = "admitting" /\ E.phase = "admitting" /\ scope' = scope
      /\ launches' = launches
  BY DEF PilotInv, JournalsInv, StepInv, Admit
<1>2. /\ Going(mem) /\ E \in EntryType /\ Open(E) /\ E = EntryOf(mem) /\ Key \in Keys
      /\ E.outcome \in {None, "unresolved"} /\ Key = KeyOf(E) /\ launches[Key] = 0
  BY <1>1, GoingKey
<1>3. E.booked /\ E.metrics >= Unknown
  BY <1>1, EntryAccounted DEF Accounted
<1>4. E.case # NoCase =>
        \E j \in 1 .. Len(mem.snapshots) : /\ mem.snapshots[j].key = CaseKey(E)
                                           /\ mem.snapshots[j].case = E.case
  BY <1>1, <1>2, CaseInSnapshots
<1>5. CASE /\ ledger' = ledger
           /\ Save(Change([E EXCEPT !.phase = "done", !.outcome = "refused", !.noLaunch = TRUE]))
  <2>1. PICK r : r = [E EXCEPT !.phase = "done", !.outcome = "refused", !.noLaunch = TRUE]
    OBVIOUS
  <2>2. /\ r \in EntryType /\ KeyOf(r) = KeyOf(E) /\ CaseKey(r) = CaseKey(E)
        /\ r.case = E.case /\ r.phase = "done" /\ r.outcome = "refused"
        /\ r.booked = E.booked /\ r.provider = E.provider /\ r.points = E.points
        /\ r.metrics = E.metrics
    BY <1>2, <2>1 DEF EntryType, KeyOf, CaseKey, Phases
  <2>3. Replaces(mem, r)
    BY <1>2, <1>4, <2>2 DEF Replaces, Open
  <2>4. PICK t : t = Change(r)
    OBVIOUS
  <2>5. Replaced(mem, r, t) /\ Save(t)
    BY <1>1, <1>2, <1>5, <2>1, <2>3, <2>4, ChangeFacts
  <2>6. SameBooking(mem, r)
    BY <1>2, <2>2 DEF SameBooking
  <2>7. Accounted(r, ledger, launches)
    BY <1>2, <1>3, <2>2 DEF Accounted
  <2>8. UNCHANGED <<scope, native>>
    BY <1>1, <1>5 DEF native
  <2>. QED
    BY <1>1, <2>3, <2>5, <2>6, <2>7, <2>8, SavedCeiling
<1>6. CASE /\ ledger' = IF ledger[Key] # NoAttempt THEN ledger
                        ELSE [ledger EXCEPT ![Key].state = "admitted"]
           /\ mem' = Change([E EXCEPT !.phase = "admitted"]) /\ UNCHANGED disk
  <2>1. PICK r : r = [E EXCEPT !.phase = "admitted"]
    OBVIOUS
  <2>2. /\ r \in EntryType /\ KeyOf(r) = KeyOf(E) /\ CaseKey(r) = CaseKey(E)
        /\ r.phase = "admitted" /\ r.outcome = E.outcome /\ r.case = E.case
        /\ r.booked = E.booked /\ r.provider = E.provider /\ r.points = E.points
        /\ r.metrics = E.metrics
    BY <1>2, <2>1 DEF EntryType, KeyOf, CaseKey, Phases
  <2>3. Replaces(mem, r)
    BY <1>2, <1>4, <2>2 DEF Replaces, Open
  <2>4. PICK t : t = Change(r)
    OBVIOUS
  <2>5. Replaced(mem, r, t) /\ mem' = t /\ disk' = disk
    BY <1>1, <1>2, <1>6, <2>1, <2>3, <2>4, ChangeFacts
  <2>6. ledger \in [Keys -> AttemptType] /\ ledger[Key] \in AttemptType
        /\ ledger[Key].metrics >= Unknown
        /\ ledger[Key].state \in {None, "admitted"}
    BY <1>2 DEF PilotInv, AttemptsInv, CeilingsInv, MetricsInv
  <2>7. Used(ledger'[Key]) /\ \A q \in Keys : q # Key => ledger'[q] = ledger[q]
    <3>1. CASE ledger[Key] # NoAttempt
      BY <1>2, <1>6, <2>6, <3>1 DEF Used, None
    <3>2. CASE ledger[Key] = NoAttempt
      <4>1. PICK v : v = [ledger[Key] EXCEPT !.state = "admitted"]
        OBVIOUS
      <4>2. v.state = "admitted" /\ v.metrics = ledger[Key].metrics
        BY <2>6, <4>1 DEF AttemptType
      <4>3. ledger' = [ledger EXCEPT ![Key] = v]
        BY <1>6, <3>2, <4>1
      <4>. QED
        BY <1>2, <2>6, <4>2, <4>3 DEF Used
    <3>. QED
      BY <3>1, <3>2
  <2>8. /\ MetricsInv' /\ scope' \in Scopes /\ Budgets' = Budgets
        /\ Ceiling(disk, Budgets, ledger', launches')
        /\ Ceiling(mem, Budgets, ledger', launches')
    BY <1>1, <1>2, <2>7, MovedCeiling
  <2>9. SameBooking(mem, r)
    BY <1>2, <2>2 DEF SameBooking
  <2>10. Accounted(r, ledger', launches')
    BY <1>1, <1>2, <1>3, <2>2 DEF Accounted
  <2>11. Ceiling(t, Budgets, ledger', launches')
    BY <1>1, <1>2, <2>3, <2>5, <2>8, <2>9, <2>10, ReplacedCeiling
  <2>. QED
    BY <2>5, <2>8, <2>11 DEF CeilingsInv
<1>. QED
  BY <1>5, <1>6 DEF Admit

LEMMA DispatchCeiling ==
  ASSUME PilotInv, CeilingsInv, Dispatch
  PROVE  CeilingsInv'
<1>1. Journal(mem) /\ pc = "admitted" /\ E.phase = "admitted" /\ UNCHANGED <<scope, native>>
  BY DEF PilotInv, JournalsInv, StepInv, Dispatch, Stay
<1>2. /\ Going(mem) /\ E \in EntryType /\ E = EntryOf(mem)
      /\ E.outcome \in {None, "unresolved"} /\ Key = KeyOf(E) /\ launches[Key] = 0
  BY <1>1, GoingKey
<1>3. E.booked /\ E.metrics >= Unknown
  BY <1>1, EntryAccounted DEF Accounted
<1>4. E.case # NoCase =>
        \E j \in 1 .. Len(mem.snapshots) : /\ mem.snapshots[j].key = CaseKey(E)
                                           /\ mem.snapshots[j].case = E.case
  BY <1>1, <1>2, CaseInSnapshots
<1>5. PICK r : r = [E EXCEPT !.phase = "dispatching"]
  OBVIOUS
<1>6. /\ r \in EntryType /\ KeyOf(r) = KeyOf(E) /\ CaseKey(r) = CaseKey(E)
      /\ r.phase = "dispatching" /\ r.outcome = E.outcome /\ r.case = E.case
      /\ r.booked = E.booked /\ r.provider = E.provider /\ r.points = E.points
      /\ r.metrics = E.metrics
  BY <1>2, <1>5 DEF EntryType, KeyOf, CaseKey, Phases
<1>7. Replaces(mem, r)
  BY <1>2, <1>4, <1>6 DEF Replaces
<1>8. PICK t : t = Change(r)
  OBVIOUS
<1>9. Replaced(mem, r, t) /\ Save(t)
  BY <1>1, <1>2, <1>5, <1>7, <1>8, ChangeFacts DEF Dispatch
<1>10. SameBooking(mem, r)
  BY <1>2, <1>6 DEF SameBooking
<1>11. Accounted(r, ledger, launches)
  BY <1>2, <1>3, <1>6 DEF Accounted
<1>. QED
  BY <1>1, <1>7, <1>9, <1>10, <1>11, SavedCeiling

(* Launch: the entry that is launched is open, and booked.                    *)
LEMMA LaunchCeiling ==
  ASSUME PilotInv, CeilingsInv, Launch
  PROVE  CeilingsInv'
<1>1. /\ Journal(mem) /\ mem = disk /\ E.phase = "dispatching" /\ launches[Key] = 0
      /\ Going(mem) /\ disk' = disk /\ mem' = mem /\ scope' = scope /\ pc # "idle"
      /\ launches' = [launches EXCEPT ![Key] = launches[Key] + 1]
      /\ ledger' = [ledger EXCEPT ![Key].state = "running", ![Key].metrics = 0]
  BY DEF PilotInv, StepInv, Launch, Dispatched, JournalsInv
<1>2. Key \in Keys /\ E = EntryOf(mem) /\ Key = KeyOf(E)
  BY <1>1, GoingKey
<1>3. E.booked
  BY <1>1, EntryAccounted DEF Accounted
<1>4. /\ ledger \in [Keys -> AttemptType] /\ launches \in [Keys -> 0 .. 1]
      /\ ledger[Key] \in AttemptType
  BY <1>2 DEF PilotInv, AttemptsInv
<1>5. PICK v : v = [ledger[Key] EXCEPT !.state = "running", !.metrics = 0]
  OBVIOUS
<1>6. v.state = "running" /\ v.metrics = 0
  BY <1>4, <1>5 DEF AttemptType
<1>7. ledger' = [ledger EXCEPT ![Key] = v]
  BY <1>1, <1>2, <1>4, <1>5
<1>8. /\ ledger'[Key] = v
      /\ \A q \in Keys : q # Key => ledger'[q] = ledger[q] /\ launches'[q] = launches[q]
  BY <1>1, <1>2, <1>4, <1>7
<1>9. MetricsInv'
  BY <1>6, <1>8 DEF CeilingsInv, MetricsInv, Unknown
<1>10. Budgets' = Budgets /\ scope' \in Scopes
  BY <1>1 DEF CeilingsInv, Budgets
<1>11. UsageTold(mem, ledger', launches')
  <2>1. PICK c \in 1 .. Len(mem.entries) : c = CurrentOf(mem) /\ E = mem.entries[c]
    BY <1>1, <1>2, GoingFacts
  <2>2. ASSUME NEW i \in 1 .. Len(mem.entries), launches'[KeyOf(mem.entries[i])] > 0
        PROVE  /\ mem.entries[i].booked
               /\ mem.entries[i].phase = "done" =>
                    SettledAs(mem.entries[i], ledger'[KeyOf(mem.entries[i])])
    <3>1. CASE i = c
      BY <1>1, <1>3, <2>1, <3>1
    <3>2. CASE i # c
      <4>1. KeyOf(mem.entries[i]) \in Keys /\ KeyOf(mem.entries[i]) # Key
        BY <1>1, <1>2, <2>1, <3>2, EntryTyped DEF Journal, OneEntry
      <4>2. UsageTold(mem, ledger, launches)
        BY DEF CeilingsInv, Ceiling
      <4>. QED
        BY <1>8, <2>2, <4>1, <4>2 DEF UsageTold
    <3>. QED
      BY <3>1, <3>2
  <2>. QED
    BY <2>2 DEF UsageTold
<1>12. Ceiling(mem, Budgets, ledger', launches')
  BY <1>11 DEF CeilingsInv, Ceiling
<1>. QED
  BY <1>1, <1>9, <1>10, <1>12 DEF CeilingsInv

LEMMA UsageStopCeiling ==
  ASSUME PilotInv, CeilingsInv, UsageStop
  PROVE  CeilingsInv'
<1>1. /\ pc = "running" /\ ledger[Key].state = "running"
      /\ ledger' = [ledger EXCEPT ![Key].state = "cancelling"]
      /\ mem' = mem /\ disk' = disk /\ scope' = scope /\ launches' = launches
  BY DEF UsageStop
<1>2. Key \in Keys /\ ledger \in [Keys -> AttemptType]
  BY <1>1, GoingKey DEF PilotInv, AttemptsInv
<1>3. PICK a \in AttemptType : a = ledger[Key]
  BY <1>2
<1>4. PICK v : v = [a EXCEPT !.state = "cancelling"]
  OBVIOUS
<1>5. v.state = "cancelling" /\ v.metrics = a.metrics
  BY <1>4 DEF AttemptType
<1>6. ledger' = [ledger EXCEPT ![Key] = v]
  BY <1>1, <1>3, <1>4
<1>7. ledger'[Key] = v /\ \A q \in Keys : q # Key => ledger'[q] = ledger[q]
  BY <1>2, <1>6
<1>8. PICK w \in Int : w = a.metrics /\ w >= 0
  BY <1>1, <1>2, <1>3 DEF CeilingsInv, MetricsInv, AttemptType
<1>9. Used(ledger'[Key])
  <2>1. v.metrics >= Unknown /\ v.metrics >= 0
    BY <1>5, <1>8 DEF Unknown
  <2>. QED
    BY <1>5, <1>7, <2>1 DEF Used
<1>10. ledger[Key].state \notin Final
  BY <1>1 DEF Final, Reviewed, Ends
<1>. QED
  BY <1>1, <1>2, <1>7, <1>9, <1>10, MovedCeiling

LEMMA UsesCeiling ==
  ASSUME PilotInv, CeilingsInv, NEW k \in Keys, Uses(k)
  PROVE  CeilingsInv'
<1>1. /\ ledger[k].state \in {"running", "cancelling"}
      /\ ledger' = [ledger EXCEPT ![k].metrics = @ + 1]
      /\ mem' = mem /\ disk' = disk /\ scope' = scope /\ launches' = launches
  BY DEF Uses
<1>2. ledger \in [Keys -> AttemptType]
  BY DEF PilotInv, AttemptsInv
<1>3. PICK a \in AttemptType : a = ledger[k]
  BY <1>2
<1>4. PICK v : v = [a EXCEPT !.metrics = a.metrics + 1]
  OBVIOUS
<1>5. v.state = a.state /\ v.metrics = a.metrics + 1
  BY <1>4 DEF AttemptType
<1>6. ledger' = [ledger EXCEPT ![k] = v]
  BY <1>1, <1>3, <1>4
<1>7. ledger'[k] = v /\ \A q \in Keys : q # k => ledger'[q] = ledger[q]
  BY <1>2, <1>6
<1>8. PICK w \in Int : w = a.metrics /\ w >= 0
  BY <1>1, <1>2, <1>3 DEF CeilingsInv, MetricsInv, AttemptType
<1>9. Used(ledger'[k])
  <2>1. v.metrics >= 0
    BY <1>5, <1>8
  <2>2. v.state # "launch_failed"
    BY <1>1, <1>3, <1>5
  <2>. QED
    BY <1>7, <1>8, <2>1, <2>2, <1>5 DEF Used, Unknown
<1>10. ledger[k].state \notin Final
  BY <1>1 DEF Final, Reviewed, Ends
<1>. QED
  BY <1>1, <1>2, <1>7, <1>9, <1>10, MovedCeiling

LEMMA SettlesCeiling ==
  ASSUME PilotInv, CeilingsInv, NEW k \in Keys, Settles(k)
  PROVE  CeilingsInv'
<1>1. /\ ledger[k].state \in {"running", "cancelling"}
      /\ mem' = mem /\ disk' = disk /\ scope' = scope /\ launches' = launches
  BY DEF Settles
<1>2. ledger \in [Keys -> AttemptType]
  BY DEF PilotInv, AttemptsInv
<1>3. PICK a \in AttemptType : a = ledger[k]
  BY <1>2
<1>4. PICK w \in Int : w = a.metrics /\ w >= 0
  BY <1>1, <1>2, <1>3 DEF CeilingsInv, MetricsInv, AttemptType
<1>5. PICK x \in Ends, m \in {w, Unknown} :
        /\ x = "launch_failed" => w = 0
        /\ ledger' = [ledger EXCEPT ![k].state = x, ![k].metrics = m]
  BY <1>3, <1>4 DEF Settles
<1>6. PICK v : v = [a EXCEPT !.state = x, !.metrics = m]
  OBVIOUS
<1>7. v.state = x /\ v.metrics = m
  BY <1>6 DEF AttemptType
<1>8. ledger' = [ledger EXCEPT ![k] = v]
  BY <1>2, <1>3, <1>5, <1>6
<1>9. ledger'[k] = v /\ \A q \in Keys : q # k => ledger'[q] = ledger[q]
  BY <1>2, <1>8
<1>10. Used(ledger'[k])
  <2>1. m >= Unknown /\ (x = "launch_failed" => m <= 0)
    BY <1>4, <1>5 DEF Unknown
  <2>2. v.state \notin {"running", "cancelling"}
    BY <1>7 DEF Ends
  <2>. QED
    BY <1>7, <1>9, <2>1, <2>2 DEF Used
<1>11. ledger[k].state \notin Final
  BY <1>1 DEF Final, Reviewed, Ends
<1>. QED
  BY <1>1, <1>9, <1>10, <1>11, MovedCeiling

LEMMA OutcomeCeiling ==
  ASSUME PilotInv, CeilingsInv, Outcome
  PROVE  CeilingsInv'
<1>1. Journal(mem) /\ pc = "dispatching" /\ E.phase = "dispatching" /\ UNCHANGED <<scope, native>>
  BY DEF PilotInv, JournalsInv, StepInv, Outcome, Stay, Dispatched
<1>2. /\ Going(mem) /\ E \in EntryType /\ E = EntryOf(mem) /\ Key = KeyOf(E)
  BY <1>1, GoingKey
<1>3. E.case # NoCase =>
        \E j \in 1 .. Len(mem.snapshots) : /\ mem.snapshots[j].key = CaseKey(E)
                                           /\ mem.snapshots[j].case = E.case
  BY <1>1, <1>2, CaseInSnapshots
<1>4. CASE mem' = mem /\ disk' = disk
  BY <1>1, <1>4, EntriesCeiling
<1>5. CASE Save(Change([E EXCEPT !.outcome = "unresolved"]))
  <2>1. PICK r : r = [E EXCEPT !.outcome = "unresolved"]
    OBVIOUS
  <2>2. /\ r \in EntryType /\ KeyOf(r) = KeyOf(E) /\ CaseKey(r) = CaseKey(E)
        /\ r.phase = "dispatching" /\ r.outcome = "unresolved" /\ r.case = E.case
        /\ r.booked = E.booked /\ r.provider = E.provider /\ r.points = E.points
        /\ r.metrics = E.metrics
    BY <1>1, <1>2, <2>1 DEF EntryType, KeyOf, CaseKey
  <2>3. Replaces(mem, r)
    BY <1>2, <1>3, <2>2 DEF Replaces
  <2>4. PICK t : t = Change(r)
    OBVIOUS
  <2>5. Replaced(mem, r, t) /\ Save(t)
    BY <1>1, <1>2, <1>5, <2>1, <2>3, <2>4, ChangeFacts
  <2>6. SameBooking(mem, r)
    BY <1>2, <2>2 DEF SameBooking
  <2>7. Accounted(r, ledger, launches)
    <3>1. Accounted(E, ledger, launches)
      BY <1>1, EntryAccounted
    <3>. QED
      BY <1>1, <1>2, <2>2, <3>1 DEF Accounted
  <2>. QED
    BY <1>1, <2>3, <2>5, <2>6, <2>7, SavedCeiling
<1>. QED
  BY <1>4, <1>5 DEF Outcome

LEMMA RecordReviewCeiling ==
  ASSUME PilotInv, CeilingsInv, RecordReview
  PROVE  CeilingsInv'
<1>1. /\ Journal(mem) /\ pc = "reviewed" /\ ledger[Key].state = "completed"
      /\ launches' = launches /\ scope' = scope
  BY DEF PilotInv, JournalsInv, StepInv, RecordReview, Reviewing
<1>2. Key \in Keys /\ ledger \in [Keys -> AttemptType] /\ mem \in StateType
  BY <1>1, GoingKey DEF PilotInv, AttemptsInv, Journal
<1>3. CASE Save(Halted(mem, "cleanup")) /\ UNCHANGED ledger
  <2>1. mem'.entries = mem.entries /\ disk'.entries = mem.entries
    BY <1>2, <1>3 DEF Save, Halted, StateType
  <2>2. UNCHANGED <<scope, native>>
    BY <1>1, <1>3 DEF native
  <2>. QED
    BY <2>1, <2>2, EntriesCeiling
<1>4. CASE /\ ledger' = [ledger EXCEPT ![Key].evidence = reviews[Key],
                ![Key].state = IF Accepts(reviews[Key]) THEN "accepted" ELSE "rejected"]
           /\ UNCHANGED <<disk, mem>>
  <2>1. PICK x, y : /\ x = reviews[Key]
                    /\ y = IF Accepts(reviews[Key]) THEN "accepted" ELSE "rejected"
    OBVIOUS
  <2>2. PICK a \in AttemptType : a = ledger[Key]
    BY <1>2
  <2>3. PICK v : v = [a EXCEPT !.evidence = x, !.state = y]
    OBVIOUS
  <2>4. v.state = y /\ v.metrics = a.metrics
    BY <2>3 DEF AttemptType
  <2>5. ledger' = [ledger EXCEPT ![Key] = v]
    BY <1>2, <1>4, <2>1, <2>2, <2>3
  <2>6. ledger'[Key] = v /\ \A q \in Keys : q # Key => ledger'[q] = ledger[q]
    BY <1>2, <2>5
  <2>7. y \in {"accepted", "rejected"} /\ a.metrics >= Unknown
    BY <1>2, <2>1, <2>2 DEF CeilingsInv, MetricsInv
  <2>8. Used(ledger'[Key])
    BY <2>4, <2>6, <2>7 DEF Used
  <2>9. ledger[Key].state \notin Final /\ mem' = mem /\ disk' = disk
    BY <1>1, <1>4 DEF Final, Reviewed, Ends
  <2>. QED
    BY <1>1, <1>2, <2>6, <2>8, <2>9, MovedCeiling
<1>. QED
  BY <1>3, <1>4 DEF RecordReview

(* Finish: the usage of the entry is what the ledger says.                    *)
LEMMA FinishCeiling ==
  ASSUME PilotInv, CeilingsInv, Finish
  PROVE  CeilingsInv'
<1>1. /\ Journal(mem) /\ pc = "finish" /\ ledger[Key].state \in Final
      /\ UNCHANGED <<scope, native>>
  BY DEF PilotInv, JournalsInv, StepInv, Finish, Stay, Final
<1>2. /\ Going(mem) /\ E \in EntryType /\ E = EntryOf(mem) /\ Key \in Keys /\ Key = KeyOf(E)
  BY <1>1, GoingKey
<1>3. PICK x \in Reviewed \cup Ends, w \in Int, b \in BOOLEAN :
        x = ledger[Key].state /\ w = ledger[Key].metrics
        /\ b = (ledger[Key].state = "launch_failed")
  <2>1. PICK a \in AttemptType : a = ledger[Key]
    BY <1>2 DEF PilotInv, AttemptsInv
  <2>2. a.metrics \in Int /\ a.state \in Reviewed \cup Ends
    BY <1>1, <2>1 DEF AttemptType, Final
  <2>. QED
    BY <2>1, <2>2
<1>4. PICK r : r = [E EXCEPT !.phase = "done", !.outcome = x, !.metrics = w, !.noLaunch = b]
  OBVIOUS
<1>5. /\ r \in EntryType /\ KeyOf(r) = KeyOf(E) /\ CaseKey(r) = CaseKey(E)
      /\ r.phase = "done" /\ r.outcome = x /\ r.case = E.case /\ r.metrics = w /\ r.noLaunch = b
      /\ r.booked = E.booked /\ r.provider = E.provider /\ r.points = E.points
  <2>1. PICK e \in EntryType : e = E
    BY <1>2
  <2>2. r = [e EXCEPT !.phase = "done", !.outcome = x, !.metrics = w, !.noLaunch = b]
    BY <1>4, <2>1
  <2>3. r \in EntryType /\ r.phase = "done" /\ r.outcome = x /\ r.metrics = w /\ r.noLaunch = b
    BY <2>2 DEF EntryType, Phases
  <2>4. /\ r.task = e.task /\ r.variant = e.variant /\ r.number = e.number /\ r.case = e.case
        /\ r.booked = e.booked /\ r.provider = e.provider /\ r.points = e.points
    BY <2>2 DEF EntryType
  <2>. QED
    BY <2>1, <2>3, <2>4 DEF KeyOf, CaseKey
<1>6. E.case # NoCase =>
        \E j \in 1 .. Len(mem.snapshots) : /\ mem.snapshots[j].key = CaseKey(E)
                                           /\ mem.snapshots[j].case = E.case
  BY <1>1, <1>2, CaseInSnapshots
<1>7. Replaces(mem, r)
  BY <1>2, <1>5, <1>6 DEF Replaces, Open
<1>8. \/ Save(Change(r))
      \/ \E reason \in {"safety", "tokens", "usage"} : Save(Halted(Change(r), reason))
  BY <1>3, <1>4, Zenon DEF Finish
<1>9. PICK t : Save(t) /\ Replaced(mem, r, t)
  <2>1. {"safety", "tokens", "usage"} \subseteq Halts
    BY DEF Halts
  <2>. QED
    BY <1>1, <1>2, <1>7, <1>8, <2>1, ChangeFacts
<1>10. SameBooking(mem, r)
  BY <1>2, <1>5 DEF SameBooking
<1>11. Accounted(r, ledger, launches)
  <2>1. Accounted(E, ledger, launches)
    BY <1>1, EntryAccounted
  <2>2. w >= Unknown
    BY <1>2, <1>3 DEF CeilingsInv, MetricsInv
  <2>3. SettledAs(r, ledger[Key])
    BY <1>1, <1>3, <1>5 DEF SettledAs
  <2>. QED
    BY <1>2, <1>5, <2>1, <2>2, <2>3 DEF Accounted
<1>. QED
  BY <1>1, <1>7, <1>9, <1>10, <1>11, SavedCeiling

(* Every other step leaves the entries and the ledger alone, or goes back to  *)
(* what is saved, or saves it.                                                *)
LEMMA OtherCeiling ==
  ASSUME PilotInv, CeilingsInv,
         \/ Snapshot \/ SaveAdmitted \/ Returned \/ Review \/ Create \/ CleanUp \/ Crash
         \/ Uncaught \/ (\E k \in Keys : LateCreate(k)) \/ UNCHANGED vars
  PROVE  CeilingsInv'
<1>1. CASE Snapshot
  <2>1. mem \in StateType /\ (mem = disk) /\ UNCHANGED <<scope, native>>
    BY <1>1 DEF PilotInv, JournalsInv, Journal, StepInv, Snapshot, Stay
  <2>2. mem'.entries = mem.entries /\ disk'.entries = mem.entries
    <3>1. CASE mem' = mem /\ disk' = disk
      BY <2>1, <3>1
    <3>2. CASE \E case \in Cases :
                 Save([mem EXCEPT !.snapshots = Append(@, [key |-> CaseKey(E), case |-> case])])
      BY <2>1, <3>2 DEF Save, StateType
    <3>. QED
      BY <1>1, <3>1, <3>2 DEF Snapshot
  <2>. QED
    BY <2>1, <2>2, EntriesCeiling
<1>2. CASE SaveAdmitted
  <2>1. disk' = mem /\ mem' = mem /\ UNCHANGED <<scope, native>>
    BY <1>2 DEF SaveAdmitted, Stay
  <2>. QED
    BY <2>1, EntriesCeiling
<1>3. CASE \/ Returned \/ Review \/ Create \/ CleanUp \/ (\E k \in Keys : LateCreate(k))
           \/ UNCHANGED vars
  <2>1. disk' = disk /\ mem' = mem /\ UNCHANGED <<scope, native>>
    BY <1>3 DEF Returned, Stay, Review, Create, CleanUp, LateCreate, vars
  <2>. QED
    BY <2>1, EntriesCeiling
<1>4. CASE Crash \/ Uncaught
  <2>1. disk' = disk /\ mem' = disk /\ UNCHANGED <<scope, native>>
    BY <1>4 DEF Crash, Uncaught
  <2>. QED
    BY <2>1, EntriesCeiling
<1>. QED
  BY <1>1, <1>2, <1>3, <1>4

LEMMA InitCeiling ==
  ASSUME Init
  PROVE  CeilingsInv
<1>1. disk.entries = <<>> /\ mem.entries = <<>> /\ scope \in Scopes
  BY DEF Init
<1>2. MetricsInv
  BY DEF Init, MetricsInv, NoAttempt, Unknown, None
<1>3. ASSUME NEW s, s.entries = <<>> PROVE Ceiling(s, Budgets, ledger, launches)
  <2>1. \A p, v : Booked(s.entries, p, v) = {}
    BY <1>3 DEF Booked
  <2>. QED
    BY <1>3, <2>1 DEF Ceiling, RowsInv, BudgetsKept, UsageTold
<1>. QED
  BY <1>1, <1>2, <1>3 DEF CeilingsInv

\* What is booked stays within the declared ceilings, and every booking is made
\* when the usage of the ones before it in its budget is resolved and below the
\* threshold (budget, budget_reason and step).
THEOREM CeilingsInvariant == Spec => []CeilingsInv
<1>1. Init => CeilingsInv
  BY InitCeiling
<1>2. PilotInv /\ CeilingsInv /\ [Next]_vars => CeilingsInv'
  <2>. SUFFICES ASSUME PilotInv, CeilingsInv, [Next]_vars PROVE CeilingsInv'
    OBVIOUS
  <2>1. CASE Begin \/ Plan \/ Admit \/ Dispatch \/ Launch \/ UsageStop
    BY <2>1, BeginCeiling, PlanCeiling, AdmitCeiling, DispatchCeiling, LaunchCeiling,
       UsageStopCeiling
  <2>2. CASE Outcome \/ RecordReview \/ Finish
    BY <2>2, OutcomeCeiling, RecordReviewCeiling, FinishCeiling
  <2>3. CASE \E k \in Keys : Uses(k) \/ Settles(k)
    BY <2>3, UsesCeiling, SettlesCeiling
  <2>4. CASE \/ Snapshot \/ SaveAdmitted \/ Returned \/ Review \/ Create \/ CleanUp \/ Crash
             \/ Uncaught \/ (\E k \in Keys : LateCreate(k)) \/ UNCHANGED vars
    BY <2>4, OtherCeiling
  <2>. QED
    BY <2>1, <2>2, <2>3, <2>4 DEF Next
<1>. QED
  BY <1>1, <1>2, PilotInvariant, PTL DEF Spec

LEMMA GreatestNatural ==
  ASSUME NEW n \in Nat, NEW S \in SUBSET (1 .. n), S # {}
  PROVE  Max(S) \in S /\ \A i \in S : i <= Max(S)
<1>1. PICK T \in SUBSET Nat : T = {n - i : i \in S}
  <2>1. \A i \in S : n - i \in Nat
    OBVIOUS
  <2>2. {n - i : i \in S} \in SUBSET Nat
    BY <2>1
  <2>. QED
    BY <2>2
<1>2. PICK m \in T : \A k \in T : ~(<<k, m>> \in OpToRel(<, Nat))
  <2>1. T # {}
    BY <1>1
  <2>. QED
    BY <2>1, NatLessThanWellFounded, WFMin
<1>3. \A k \in T : ~(k < m)
  BY <1>2 DEF OpToRel
<1>4. PICK j \in S : m = n - j
  BY <1>1
<1>5. ASSUME NEW i \in S PROVE j >= i
  <2>1. ~(n - i < n - j)
    BY <1>1, <1>3, <1>4
  <2>. QED
    BY <2>1
<1>6. \E x \in S : \A y \in S : x >= y
  BY <1>5
<1>7. Max(S) \in S /\ \A y \in S : Max(S) >= y
  BY <1>6 DEF Max
<1>8. PICK x \in S : x = Max(S)
  BY <1>7
<1>. QED
  BY <1>7, <1>8

LEMMA MaxZero ==
  ASSUME NEW x \in Int
  PROVE  Max({0, x}) = IF x > 0 THEN x ELSE 0
<1>1. \E y \in {0, x} : \A z \in {0, x} : y >= z
  OBVIOUS
<1>2. PICK y : y = Max({0, x})
  OBVIOUS
<1>3. y \in {0, x} /\ \A z \in {0, x} : y >= z
  BY <1>1, <1>2 DEF Max
<1>. QED
  BY <1>2, <1>3

\* What was really launched stays within the declared ceilings of each budget,
\* and nothing is launched in a budget while earlier usage is unresolved or has
\* reached the threshold, whatever is killed between the booking, the admission
\* and the launch (budget, budget_reason and step).
THEOREM CeilingsHeld == Spec => []CeilingsHold
<1>1. PilotInv /\ CeilingsInv => CeilingsHold
  <2>. SUFFICES ASSUME PilotInv, CeilingsInv, NEW p \in Providers, NEW v \in Budgets,
                       NEW rows, rows = LaunchedIn(p, v), rows # {},
                       NEW earlier, earlier = rows \ {Max(rows)}
                PROVE  /\ p \in DOMAIN Limits
                       /\ Cardinality(rows) <= Limits[p].attempts
                       /\ PointsIn(disk.entries, rows) <= Limits[p].points
                       /\ \A i \in earlier :
                            /\ ledger[KeyOf(disk.entries[i])].state \notin Active
                            /\ \/ ledger[KeyOf(disk.entries[i])].metrics # Unknown
                               \/ ledger[KeyOf(disk.entries[i])].state = "launch_failed"
                       /\ SumFunctionOnSet(
                            [i \in earlier |-> Max({0, ledger[KeyOf(disk.entries[i])].metrics})],
                            earlier) < Limits[p].tokens
    BY DEF CeilingsHold
  <2>1. /\ disk \in StateType /\ RowsInv(disk) /\ BudgetsKept(disk, Budgets)
        /\ UsageTold(disk, ledger, launches)
    BY DEF PilotInv, JournalsInv, Journal, CeilingsInv, Ceiling
  <2>2. PICK u \in Seq(EntryType) : u = disk.entries
    BY <2>1 DEF StateType
  <2>3. PICK D : D = DOMAIN u /\ D = 1 .. Len(u) /\ IsFiniteSet(D) /\ Len(u) \in Nat
    BY WeightsTyped
  <2>4. PICK booked : booked = Booked(u, p, v)
    OBVIOUS
  <2>5. booked \in SUBSET D /\ rows \in SUBSET booked /\ booked # {}
    <3>1. \A i \in rows : i \in D /\ launches[KeyOf(u[i])] > 0
      BY <2>2, <2>3 DEF LaunchedIn
    <3>2. \A i \in rows : u[i].booked
      BY <2>1, <2>2, <2>3, <3>1 DEF UsageTold
    <3>3. rows \subseteq booked
      BY <2>2, <2>4, <3>2 DEF LaunchedIn, Booked, InBudget
    <3>. QED
      BY <2>3, <2>4, <3>3 DEF Booked
  <2>6. WithinLimits(u, p, booked)
    BY <2>1, <2>2, <2>4, <2>5 DEF BudgetsKept
  <2>7. PICK m \in rows : m = Max(rows) /\ \A i \in rows : i <= m
    BY <2>3, <2>5, GreatestNatural
  <2>8. PICK before : before = Before(booked, m)
    OBVIOUS
  <2>9. before \in SUBSET D /\ earlier \in SUBSET before /\ earlier \in SUBSET rows
    <3>1. \A i \in earlier : i \in rows /\ i # m /\ i \in Int
      BY <2>3, <2>5, <2>7
    <3>2. m \in Int
      BY <2>3, <2>5
    <3>3. \A i \in earlier : i < m
      BY <2>7, <3>1, <3>2
    <3>. QED
      BY <2>5, <2>8, <3>1, <3>3 DEF Before
  <2>10. Limits[p] \in [attempts : Nat \ {0}, points : Nat, tokens : Nat \ {0}]
    BY <2>6, PilotAssumption DEF WithinLimits
  <2>11. Cardinality(rows) <= Limits[p].attempts
    <3>1. IsFiniteSet(booked)
      BY <2>3, <2>5, FS_Subset
    <3>2. /\ Cardinality(rows) \in Nat /\ Cardinality(booked) \in Nat
          /\ Cardinality(rows) <= Cardinality(booked)
      BY <2>5, <3>1, FS_Subset, FS_CardinalityType
    <3>. QED
      BY <2>6, <2>10, <3>2 DEF WithinLimits
  <2>12. PointsIn(u, rows) <= Limits[p].points
    <3>1. PICK f \in [D -> Int] : f = [i \in D |-> u[i].points]
      BY <2>3, WeightsTyped
    <3>2. \A i \in D : f[i] >= 0
      <4>1. \A e \in EntryType : e.points >= 0
        BY DEF EntryType
      <4>. QED
        BY <2>3, <3>1, <4>1
    <3>3. \A i \in rows : f[i] <= f[i]
      BY <2>5
    <3>4. rows \in SUBSET D
      BY <2>5
    <3>5. SumFunctionOnSet(f, rows) <= SumFunctionOnSet(f, booked)
      BY <2>3, <2>5, <3>2, <3>3, SumGrows
    <3>6. SumFunctionOnSet(f, rows) \in Int /\ SumFunctionOnSet(f, booked) \in Int
      BY <2>3, <2>5, <3>4, SumFacts
    <3>7. PointsIn(u, rows) = SumFunctionOnSet(f, rows)
          /\ PointsIn(u, booked) = SumFunctionOnSet(f, booked)
      BY <2>3, <3>1 DEF PointsIn
    <3>. QED
      BY <2>6, <2>10, <3>5, <3>6, <3>7 DEF WithinLimits
  <2>13. ASSUME NEW i \in earlier
         PROVE  /\ ledger[KeyOf(u[i])].state \notin Active
                /\ \/ ledger[KeyOf(u[i])].metrics # Unknown
                   \/ ledger[KeyOf(u[i])].state = "launch_failed"
                /\ Counted(u[i]) = Max({0, ledger[KeyOf(u[i])].metrics})
                /\ Counted(u[i]) \in Int
    <3>1. i \in D /\ i \in before /\ i \in rows
      BY <2>9
    <3>2. ~Unresolved(u[i])
      BY <2>5, <2>6, <2>7, <2>8, <3>1 DEF WithinLimits
    <3>3. u[i].phase = "done" /\ (u[i].noLaunch \/ u[i].metrics # Unknown)
      BY <3>2 DEF Unresolved
    <3>4. launches[KeyOf(u[i])] > 0
      BY <2>2, <3>1 DEF LaunchedIn
    <3>5. SettledAs(u[i], ledger[KeyOf(u[i])])
      BY <2>1, <2>2, <2>3, <3>1, <3>3, <3>4 DEF UsageTold
    <3>6. KeyOf(u[i]) \in Keys
      BY <2>1, <2>2, <2>3, <3>1, EntryTyped
    <3>7. PICK a \in AttemptType : a = ledger[KeyOf(u[i])]
      BY <3>6 DEF PilotInv, AttemptsInv
    <3>8. a.metrics \in Int /\ a.metrics >= Unknown
          /\ (a.state = "launch_failed" => a.metrics <= 0)
      BY <3>6, <3>7 DEF AttemptType, CeilingsInv, MetricsInv
    <3>9. a.state \notin Active /\ (a.metrics # Unknown \/ a.state = "launch_failed")
      BY <3>3, <3>5, <3>7 DEF SettledAs, Final, Active, Reviewed, Ends
    <3>10. Counted(u[i]) = IF a.metrics > 0 THEN a.metrics ELSE 0
      <4>1. u[i].metrics = a.metrics /\ (u[i].noLaunch <=> a.state = "launch_failed")
        BY <3>5, <3>7 DEF SettledAs
      <4>2. Counted(u[i]) = IF a.metrics # Unknown /\ a.state # "launch_failed"
                              THEN a.metrics ELSE 0
        BY <3>3, <4>1 DEF Counted
      <4>. QED
        BY <3>8, <4>2 DEF Unknown
    <3>11. Max({0, a.metrics}) = IF a.metrics > 0 THEN a.metrics ELSE 0
      BY <3>8, MaxZero
    <3>. QED
      BY <3>7, <3>8, <3>9, <3>10, <3>11
  <2>14. SumFunctionOnSet([i \in earlier |-> Max({0, ledger[KeyOf(u[i])].metrics})], earlier)
           < Limits[p].tokens
    <3>1. PICK f \in [D -> Int] : f = [i \in D |-> Counted(u[i])]
      BY <2>3, WeightsTyped
    <3>2. PICK g : g = [i \in earlier |-> Max({0, ledger[KeyOf(u[i])].metrics})]
      OBVIOUS
    <3>3. g \in [earlier -> Int] /\ \A i \in earlier : g[i] = f[i]
      BY <2>9, <2>13, <3>1, <3>2
    <3>4. IsFiniteSet(earlier) /\ earlier \in SUBSET (earlier \cap D) /\ earlier \in SUBSET D
      BY <2>3, <2>9, FS_Subset
    <3>5. SumFunctionOnSet(g, earlier) = SumFunctionOnSet(f, earlier)
      <4>1. PICK C : C = earlier
        OBVIOUS
      <4>2. IsFiniteSet(C) /\ g \in [C -> Int] /\ earlier \in SUBSET (C \cap D)
        BY <3>3, <3>4, <4>1
      <4>3. IsFiniteSet(D)
        BY <2>3
      <4>. QED
        BY <3>3, <4>2, <4>3, SumSame
    <3>6. \A i \in before : f[i] >= 0
      <4>1. ASSUME NEW i \in before PROVE Counted(u[i]) >= 0
        <5>1. i \in D /\ u[i] \in EntryType
          BY <2>3, <2>9
        <5>2. u[i].metrics >= Unknown /\ u[i].metrics \in Int
          BY <2>1, <2>2, <2>3, <5>1 DEF RowsInv, EntryType
        <5>. QED
          BY <5>2 DEF Counted, Unknown
      <4>. QED
        BY <2>9, <3>1, <4>1
    <3>7. \A i \in earlier : f[i] <= f[i]
      BY <2>9
    <3>8. SumFunctionOnSet(f, earlier) <= SumFunctionOnSet(f, before)
      BY <2>3, <2>9, <3>6, <3>7, SumGrows
    <3>9. SumFunctionOnSet(f, earlier) \in Int /\ SumFunctionOnSet(f, before) \in Int
      BY <2>3, <2>9, <3>4, SumFacts
    <3>10. Spent(u, before) = SumFunctionOnSet(f, before)
      BY <2>3, <3>1 DEF Spent
    <3>11. Spent(u, before) < Limits[p].tokens
      BY <2>5, <2>6, <2>7, <2>8 DEF WithinLimits
    <3>. QED
      BY <2>10, <3>2, <3>5, <3>8, <3>9, <3>10, <3>11
  <2>. QED
    BY <2>2, <2>6, <2>11, <2>12, <2>13, <2>14 DEF WithinLimits
<1>. QED
  BY <1>1, PilotInvariant, CeilingsInvariant, PTL
=============================================================================
