--------------------------- MODULE MCOutcomeStore ---------------------------
(* Instances of the evidence store: an author and reviewers of the same      *)
(* provider, of the same family and independent of both.                     *)
EXTENDS OutcomeStore, TLC

Choice(p, m, e, f) == [provider |-> p, model |-> m, effort |-> e, family |-> f]
M3(effort) == Choice("go", "m3", effort, "minimax")
Astra == Choice("codex", "astra", "low", "gpt")
FewSelections == {M3("low"), M3("high"), Astra}
Reviewing(verdict, p, f) == [verdict |-> verdict, provider |-> p, family |-> f]
FewReviews == {Reviewing("accepted", "codex", "gpt"),
               Reviewing("accepted", "direct", "minimax"),
               Reviewing("rejected", "codex", "gpt")}
\* Decisions about one task and another, with and without a recommendation
\* and a required review, and launches that follow, precede or ignore them, once in the effort only.
DecisionSet ==
  {[subject |-> "s1", selected |-> M3("low"),
    required |-> r, at |-> 0] : r \in BOOLEAN}
  \cup {[subject |-> "s1", selected |-> None, required |-> FALSE, at |-> 1],
        [subject |-> "s2", selected |-> M3("low"),
         required |-> FALSE, at |-> 0]}
Launched(decision, c, reason, at) ==
  [decision |-> decision, subject |-> "s1", actual |-> c, reason |-> reason,
   at |-> at]
LaunchSet ==
  {Launched(x, M3(effort), None, 0) :
     x \in DecisionIds \cup {None}, effort \in {"low", "high"}}
  \cup {Launched(x, Astra, reason, 1) :
          x \in DecisionIds, reason \in Reasons \cup {None}}
EventSet == {"call"} \X (1 .. MaxEvents)
\* Callers' identifiers are only compared: they are used in increasing order.
NamedInOrder ==
  \A n \in 1 .. MaxEvents :
    <<"call", n>> \in UsedIds => {"call"} \X (1 .. n) \subseteq UsedIds
Symmetry == Permutations(DecisionIds)
=============================================================================
