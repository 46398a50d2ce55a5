------------------------ MODULE NativeTransport_proofs ------------------------
(***************************************************************************)
(* What holds of the transport for every budget, every number of lines and  *)
(* calls, and every way a stream can be cut into chunks: the order of what  *)
(* the adapter is given, one refusal per interactive request, the budgets,  *)
(* and that a reading is earned.                                            *)
(*                                                                          *)
(* The inductive invariant has a part per concern.  LinesInv: where lines   *)
(* end and how far the client has got.  CallInv: which client makes which   *)
(* call.  BudgetInv and InputInv: what is kept, and within which bounds.    *)
(* StreamInv and CoverInv: the four places in which an event can be, in     *)
(* order, and that none is in no place.  RefusalInv: what was refused.      *)
(* HandshakeInv: what the readers have asked.                               *)
(***************************************************************************)
EXTENDS NativeTransport, FiniteFacts, FiniteSetTheorems, SequenceTheorems, TLAPS

Kinds == {line.kind : line \in UNION {Lines[m] : m \in Modes}}
Written == [kind : Kinds, size : Nat \ {0}, id : Nat, end : Nat]
LinesInv ==
  /\ mode \in Modes /\ ended \in BOOLEAN
  /\ out \in Seq(Written)
  /\ \A i, j \in 1 .. Len(out) : i < j => out[i].end < out[j].end
  /\ \A i \in 1 .. Len(out) :
       (out[i].kind \in {"response", "rejected"}) = (out[i].id # 0)
  /\ flow \in 0 .. Length(Len(out)) /\ received \in 0 .. flow
  /\ parsed \in 0 .. Len(out)

\* Calls by their fields, whatever the mode.
SomeCall == [op : {"request", "notification", "ack", "read"},
             batch : SUBSET {"in", "out"}, waiting : SUBSET {"init", "ack"},
             id : Nat, due : BOOLEAN]
CallInv ==
  /\ nextId \in Nat \ {0}
  /\ call \in {Idle} \cup SomeCall
  /\ failure # "none" => call = Idle
  /\ Calling("read") => mode \in {"limits", "document"}
  /\ InPoll => mode \in {"codex", "claude"}
  /\ Calling("request") => call.id # 0

\* Lines within the line budget.
Fine == {i \in 1 .. Len(out) : out[i].size - 1 <= MaxLine}
BudgetInv ==
  /\ messages \in Seq(Fine) /\ deferred \in Seq(Fine)
  /\ held \in Seq(Fine) /\ seen \in Seq(Fine)
  /\ failure = "none" =>
       /\ received <= MaxBytes /\ Len(pending) <= MaxPending
       /\ mode \in {"codex", "claude"} => received - Length(parsed) <= MaxLine

Message == [kind : {"request", "prompt", "refusal", "initialized"}, id : Nat]
InputInv ==
  /\ inbox \in Seq(Message) /\ pending \in Seq(Message)
  /\ watching = (pending # <<>>)

\* No event was lost to an error of its own.
Sound ==
  failure \in {"none", "closed", "deadline"} /\ mode \in {"codex", "claude"}
Rising(s) == \A j, k \in DOMAIN s : j < k => s[j] < s[k]
Before(s, t) == \A x \in Range(s), y \in Range(t) : x < y
\* Complete lines are parsed as they come, ...
Parsing == \A i \in 1 .. Len(out) : (i <= parsed) = (out[i].end <= received)
\* ... what poll() has yet to return are the last of them, ...
Waiting ==
  /\ Len(messages) <= parsed
  /\ \A k \in 1 .. Len(messages) : messages[k] = parsed - Len(messages) + k
\* ... the three other places hold earlier ones in order, ...
Ordered ==
  /\ Rising(seen) /\ Rising(held) /\ Rising(deferred)
  /\ Before(seen, held) /\ Before(seen, deferred) /\ Before(seen, messages)
  /\ Before(held, deferred) /\ Before(held, messages)
  /\ Before(deferred, messages)
  /\ Range(seen) \cup Range(held) \cup Range(deferred) \subseteq 1 .. parsed
\* ... and which of these is used depends on the call.
Places ==
  /\ held # <<>> => Calling("ack") \/ failure # "none"
  /\ Calling("notification") => deferred = <<>>
  /\ failure = "closed" => ended /\ Length(parsed) = flow
StreamInv == Parsing /\ Waiting /\ Ordered /\ Places
\* The events in the four places.
Everything == Range(seen) \cup Range(held) \cup Range(deferred) \cup Range(messages)
CoverInv == \A i \in 1 .. parsed : out[i].kind \in {"output", "turn"} => i \in Everything

Sent == inbox \o pending
RefusalInv ==
  /\ \A m \in Range(Sent) : m.kind = "refusal" =>
       m.id \in 1 .. parsed /\ m.id \notin Range(messages)
  /\ \A j, k \in 1 .. Len(Sent) :
       Sent[k].kind = "refusal" /\ Sent[j] = Sent[k] => j = k
  /\ \A i \in 1 .. parsed :
       out[i].kind = "server" => i \in Range(messages) \/ Msg("refusal", i) \in Range(Sent)

HandshakeInv ==
  /\ mode = "limits" /\ nextId = 3 =>
       Msg("initialized", 0) \in Range(inbox) /\ Answers(1) # {}
  /\ ReadingsEarned

\* The inductive invariant.
TransportInv ==
  /\ LinesInv /\ CallInv /\ BudgetInv /\ InputInv
  /\ Sound => StreamInv /\ CoverInv /\ RefusalInv
  /\ HandshakeInv

-----------------------------------------------------------------------------
(* A sequence over a set is one over a larger set.                            *)
LEMMA TailFacts ==
  ASSUME NEW S, NEW s \in Seq(S), s # <<>>
  PROVE  /\ Tail(s) \in Seq(S) /\ Len(Tail(s)) = Len(s) - 1
         /\ \A k \in 1 .. Len(Tail(s)) : Tail(s)[k] = s[k + 1]
BY HeadTailProperties
LEMMA SeqOver ==
  ASSUME NEW S, NEW T, S \subseteq T, NEW s \in Seq(S)
  PROVE  s \in Seq(T)
OBVIOUS

(* What is in a sequence after the operations on it.                          *)
LEMMA RangeFacts ==
  ASSUME NEW S, NEW s \in Seq(S), NEW t \in Seq(S), NEW x \in S
  PROVE  /\ Range(s) \subseteq S
         /\ Append(s, x) \in Seq(S) /\ Range(Append(s, x)) = Range(s) \cup {x}
         /\ s \o t \in Seq(S) /\ Range(s \o t) = Range(s) \cup Range(t)
         /\ s # <<>> => /\ Head(s) \in S /\ Tail(s) \in Seq(S)
                        /\ Range(s) = Range(Tail(s)) \cup {Head(s)}
<1>1. \A u \in Seq(S) : /\ Len(u) \in Nat
                       /\ \A y : y \in Range(u) <=> \E k \in 1 .. Len(u) : y = u[k]
  BY DEF Range
<1>2. Range(s) \subseteq S
  BY <1>1
<1>3. Append(s, x) \in Seq(S) /\ Range(Append(s, x)) = Range(s) \cup {x}
  <2>1. Append(s, x) \in Seq(S) /\ Len(Append(s, x)) = Len(s) + 1
    OBVIOUS
  <2>2. \A k \in 1 .. Len(s) : Append(s, x)[k] = s[k] /\ k \in 1 .. Len(s) + 1
    BY <1>1
  <2>3. Append(s, x)[Len(s) + 1] = x /\ Len(s) + 1 \in 1 .. Len(s) + 1
    BY <1>1
  <2>4. \A k \in 1 .. Len(s) + 1 : k \in 1 .. Len(s) \/ k = Len(s) + 1
    BY <1>1
  <2>5. ASSUME NEW y PROVE y \in Range(Append(s, x)) <=> y \in Range(s) \cup {x}
    <3>1. y \in Range(Append(s, x)) <=> \E k \in 1 .. Len(s) + 1 : y = Append(s, x)[k]
      BY <1>1, <2>1
    <3>2. y \in Range(s) <=> \E k \in 1 .. Len(s) : y = s[k]
      BY <1>1
    <3>. QED
      BY <2>2, <2>3, <2>4, <3>1, <3>2
  <2>. QED
    BY <2>1, <2>5
<1>4. s \o t \in Seq(S) /\ Range(s \o t) = Range(s) \cup Range(t)
  <2>1. s \o t \in Seq(S) /\ Len(s \o t) = Len(s) + Len(t)
    OBVIOUS
  <2>2. \A k \in 1 .. Len(s) : (s \o t)[k] = s[k] /\ k \in 1 .. Len(s) + Len(t)
    BY <1>1
  <2>3. \A k \in 1 .. Len(t) : /\ (s \o t)[Len(s) + k] = t[k]
                               /\ Len(s) + k \in 1 .. Len(s) + Len(t)
    BY <1>1
  <2>4. \A k \in 1 .. Len(s) + Len(t) :
          k \in 1 .. Len(s) \/ \E j \in 1 .. Len(t) : k = Len(s) + j
    <3> SUFFICES ASSUME NEW k \in 1 .. Len(s) + Len(t), ~(k \in 1 .. Len(s))
                 PROVE  \E j \in 1 .. Len(t) : k = Len(s) + j
      OBVIOUS
    <3>1. k - Len(s) \in 1 .. Len(t) /\ k = Len(s) + (k - Len(s))
      BY <1>1
    <3>. QED
      BY <3>1
  <2>5. ASSUME NEW y PROVE y \in Range(s \o t) <=> y \in Range(s) \cup Range(t)
    <3>1. y \in Range(s \o t) <=> \E k \in 1 .. Len(s) + Len(t) : y = (s \o t)[k]
      BY <1>1, <2>1
    <3>2. y \in Range(s) <=> \E k \in 1 .. Len(s) : y = s[k]
      BY <1>1
    <3>3. y \in Range(t) <=> \E k \in 1 .. Len(t) : y = t[k]
      BY <1>1
    <3>. QED
      BY <2>2, <2>3, <2>4, <3>1, <3>2, <3>3
  <2>. QED
    BY <2>1, <2>5
<1>5. ASSUME s # <<>>
      PROVE  /\ Head(s) \in S /\ Tail(s) \in Seq(S)
             /\ Range(s) = Range(Tail(s)) \cup {Head(s)}
  <2>1. /\ Tail(s) \in Seq(S) /\ Len(s) >= 1 /\ Len(Tail(s)) = Len(s) - 1
        /\ Head(s) = s[1] /\ s[1] \in S
    BY <1>5
  <2>2. \A k \in 1 .. Len(s) - 1 : Tail(s)[k] = s[k + 1] /\ k + 1 \in 1 .. Len(s)
    BY <1>1, <1>5
  <2>3. PICK u \in Seq(S) : u = Tail(s)
    BY <2>1
  <2>4. Len(u) = Len(s) - 1 /\ \A k \in 1 .. Len(u) : u[k] = s[k + 1] /\ k + 1 \in 1 .. Len(s)
    BY <2>1, <2>2, <2>3
  <2>5. \A k \in 1 .. Len(s) : k = 1 \/ \E j \in 1 .. Len(u) : k = j + 1
    <3>1. \A k \in 1 .. Len(s) : k = 1 \/ (k - 1 \in 1 .. Len(u) /\ (k - 1) + 1 = k)
      BY <1>1, <2>4
    <3>. QED
      BY <3>1
  <2>6. 1 \in 1 .. Len(s)
    BY <1>1, <2>1
  <2>7. ASSUME NEW y PROVE y \in Range(s) <=> y \in Range(u) \/ y = s[1]
    <3>1. y \in Range(u) <=> \E k \in 1 .. Len(u) : y = u[k]
      BY <1>1
    <3>2. y \in Range(s) <=> \E k \in 1 .. Len(s) : y = s[k]
      BY <1>1
    <3>. QED
      BY <2>4, <2>5, <2>6, <3>1, <3>2
  <2>8. Range(s) = Range(u) \cup {Head(s)}
    BY <2>1, <2>7
  <2>. QED
    BY <2>1, <2>3, <2>8
<1>. QED
  BY <1>2, <1>3, <1>4, <1>5

LEMMA RangeAppend ==
  ASSUME NEW s \in Seq(Nat), NEW x \in Nat
  PROVE  Range(Append(s, x)) = Range(s) \cup {x}
BY RangeFacts

LEMMA RangeConcat ==
  ASSUME NEW s \in Seq(Nat), NEW t \in Seq(Nat)
  PROVE  Range(s \o t) = Range(s) \cup Range(t)
BY RangeFacts

(* How sequences that rise are lengthened, joined and shortened.              *)
LEMMA RisingFacts ==
  ASSUME NEW s \in Seq(Nat), NEW t \in Seq(Nat), NEW x \in Nat, Rising(s)
  PROVE  /\ (\A y \in Range(s) : y < x) => Rising(Append(s, x))
         /\ Rising(t) /\ Before(s, t) => Rising(s \o t)
         /\ s # <<>> => Rising(Tail(s)) /\ \A y \in Range(Tail(s)) : Head(s) < y
<1>1. \A u \in Seq(Nat) : /\ DOMAIN u = 1 .. Len(u) /\ Len(u) \in Nat
                          /\ \A k \in 1 .. Len(u) : u[k] \in Nat /\ u[k] \in Range(u)
  BY DEF Range
<1>0. \A j, k \in 1 .. Len(s) : j < k => s[j] < s[k]
  BY DEF Rising
<1>2. ASSUME \A y \in Range(s) : y < x PROVE Rising(Append(s, x))
  <2>1. Append(s, x) \in Seq(Nat) /\ Len(Append(s, x)) = Len(s) + 1
    OBVIOUS
  <2> SUFFICES ASSUME NEW j \in 1 .. Len(s) + 1, NEW k \in 1 .. Len(s) + 1, j < k
               PROVE  Append(s, x)[j] < Append(s, x)[k]
    BY <1>1, <2>1 DEF Rising
  <2>2. j \in 1 .. Len(s) /\ Append(s, x)[j] = s[j]
    BY <1>1
  <2>3. CASE k = Len(s) + 1
    BY <1>1, <1>2, <2>2, <2>3
  <2>4. CASE k # Len(s) + 1
    <3>0. Len(s) \in Nat /\ k \in 1 .. Len(s)
      BY <1>1, <2>4
    <3>1. k \in 1 .. Len(s) /\ Append(s, x)[k] = s[k]
      BY <3>0
    <3>2. s[j] < s[k]
      BY <1>0, <2>2, <3>1
    <3>. QED
      BY <2>2, <3>1, <3>2
  <2>. QED
    BY <2>3, <2>4
<1>3. ASSUME Rising(t), Before(s, t) PROVE Rising(s \o t)
  <2>1. s \o t \in Seq(Nat) /\ Len(s \o t) = Len(s) + Len(t)
    OBVIOUS
  <2> SUFFICES ASSUME NEW j \in 1 .. Len(s) + Len(t), NEW k \in 1 .. Len(s) + Len(t), j < k
               PROVE  (s \o t)[j] < (s \o t)[k]
    BY <1>1, <2>1 DEF Rising
  <2>2. CASE k <= Len(s)
    <3>1. /\ j \in 1 .. Len(s) /\ k \in 1 .. Len(s)
          /\ (s \o t)[j] = s[j] /\ (s \o t)[k] = s[k]
      BY <1>1, <2>2
    <3>. QED
      BY <1>1, <3>1 DEF Rising
  <2>3. CASE j > Len(s)
    <3>1. /\ j - Len(s) \in 1 .. Len(t) /\ k - Len(s) \in 1 .. Len(t)
          /\ j - Len(s) < k - Len(s)
          /\ (s \o t)[j] = t[j - Len(s)] /\ (s \o t)[k] = t[k - Len(s)]
      BY <1>1, <2>3
    <3>. QED
      BY <1>1, <1>3, <3>1 DEF Rising
  <2>4. CASE j <= Len(s) /\ k > Len(s)
    <3>1. /\ j \in 1 .. Len(s) /\ k - Len(s) \in 1 .. Len(t)
          /\ (s \o t)[j] = s[j] /\ (s \o t)[k] = t[k - Len(s)]
      BY <1>1, <2>4
    <3>. QED
      BY <1>1, <1>3, <3>1 DEF Before
  <2>. QED
    BY <1>1, <2>2, <2>3, <2>4
<1>4. ASSUME s # <<>>
      PROVE  Rising(Tail(s)) /\ \A y \in Range(Tail(s)) : Head(s) < y
  <2>1. /\ Tail(s) \in Seq(Nat) /\ Len(s) >= 1 /\ Len(Tail(s)) = Len(s) - 1
        /\ Head(s) = s[1]
    BY <1>4
  <2>2. \A k \in 1 .. Len(s) - 1 :
          Tail(s)[k] = s[k + 1] /\ k + 1 \in 1 .. Len(s) /\ 1 < k + 1
    BY <1>1, <1>4
  <2>3. PICK u \in Seq(Nat) : u = Tail(s)
    BY <2>1
  <2>4. /\ Len(u) = Len(s) - 1 /\ 1 \in 1 .. Len(s)
        /\ \A k \in 1 .. Len(u) : u[k] = s[k + 1] /\ k + 1 \in 1 .. Len(s) /\ 1 < k + 1
    BY <1>1, <2>1, <2>2, <2>3
  <2>5. \A k \in 1 .. Len(u) : s[1] < u[k]
    BY <1>0, <2>4
  <2>6. Rising(u)
    <3>1. \A j, k \in 1 .. Len(u) : j < k => j + 1 < k + 1
      BY <1>1
    <3>2. \A j, k \in 1 .. Len(u) : j < k => u[j] < u[k]
      BY <1>0, <2>4, <3>1
    <3>. QED
      BY <1>1, <3>2 DEF Rising
  <2>7. \A y \in Range(u) : \E k \in 1 .. Len(u) : y = u[k]
    BY <1>1 DEF Range
  <2>. QED
    BY <2>1, <2>3, <2>5, <2>6, <2>7
<1>. QED
  BY <1>2, <1>3, <1>4

(* A line that was written is one.                                            *)
LEMMA LineTyped ==
  ASSUME LinesInv
  PROVE  /\ Len(out) \in Nat /\ DOMAIN out = 1 .. Len(out)
         /\ \A i \in 1 .. Len(out) : out[i] \in Written
         /\ \A i \in 1 .. Len(out) :
              /\ out[i].end \in Nat /\ out[i].size \in Nat \ {0} /\ out[i].id \in Nat
              /\ Length(i) = out[i].end
<1>1. out \in Seq(Written)
  BY DEF LinesInv
<1>2. Len(out) \in Nat /\ \A i \in 1 .. Len(out) : out[i] \in Written
  BY <1>1
<1>3. \A r \in Written : r.end \in Nat /\ r.size \in Nat \ {0} /\ r.id \in Nat
  BY DEF Written
<1>4. \A i \in 1 .. Len(out) : Length(i) = out[i].end
  BY <1>2 DEF Length
<1>. QED
  BY <1>1, <1>2, <1>3, <1>4

(* Whole lines are an initial segment of the output, as they end in order.   *)
LEMMA CompleteFacts ==
  ASSUME LinesInv, NEW n \in Nat
  PROVE  /\ Complete(n) \in 0 .. Len(out)
         /\ \A i \in 1 .. Len(out) : (i <= Complete(n)) = (out[i].end <= n)
<1> DEFINE S == {i \in 1 .. Len(out) : Length(i) <= n}
           T == {i \in 1 .. Len(out) : out[i].end > n}
<1>0. Len(out) \in Nat /\ \A i \in 1 .. Len(out) : out[i].end \in Nat
  BY LineTyped
<1>1. \A i \in 1 .. Len(out) : Length(i) = out[i].end
  BY LineTyped
<1>2. \E m \in 0 .. Len(out) :
        S = 1 .. m /\ \A i \in 1 .. Len(out) : (i <= m) = (out[i].end <= n)
  <2>1. CASE T = {}
    <3>1. \A i \in 1 .. Len(out) : out[i].end <= n
      BY <1>0, <2>1
    <3>. QED
      BY <1>0, <1>1, <3>1
  <2>2. CASE T # {}
    <3>1. PICK m \in T : \A k \in T : m <= k
      <4>1. T \in SUBSET Nat
        BY <1>0
      <4>. QED
        BY <2>2, <4>1, LeastNatural
    <3>2. m \in 1 .. Len(out) /\ out[m].end > n
      OBVIOUS
    <3>3. \A i \in 1 .. Len(out) : i < m => out[i].end <= n
      BY <1>0, <3>1
    <3>4. \A i \in 1 .. Len(out) : i >= m => out[i].end > n
      <4> SUFFICES ASSUME NEW i \in 1 .. Len(out), i > m PROVE out[i].end > n
        BY <1>0, <3>2
      <4>1. out[m].end < out[i].end
        BY <1>0, <3>2 DEF LinesInv
      <4>. QED
        BY <1>0, <3>2, <4>1
    <3>5. \A i \in 1 .. Len(out) : (i <= m - 1) = (out[i].end <= n)
      BY <1>0, <3>2, <3>3, <3>4
    <3>6. S = 1 .. m - 1
      BY <1>0, <1>1, <3>2, <3>5
    <3>7. m - 1 \in 0 .. Len(out)
      BY <1>0, <3>2
    <3> HIDE DEF S
    <3>. QED
      BY <3>5, <3>6, <3>7
  <2>. QED
    BY <2>1, <2>2
<1>3. PICK m \in 0 .. Len(out) :
        S = 1 .. m /\ \A i \in 1 .. Len(out) : (i <= m) = (out[i].end <= n)
  BY <1>2
<1>4. Cardinality(1 .. m) = m
  BY <1>0, FS_Interval
<1>. QED
  BY <1>0, <1>3, <1>4 DEF Complete

(* The lines of a chunk are good up to the first bad one.                     *)
LEMMA GoodLines ==
  ASSUME LinesInv, NEW c \in 0 .. Len(out), NEW p \in Nat
  PROVE  \/ FirstBad(p + 1 .. c) = {} /\ \A i \in p + 1 .. c : ~Bad(i)
         \/ \E b \in p + 1 .. c : /\ FirstBad(p + 1 .. c) = {b}
                                  /\ \A i \in p + 1 .. b - 1 : ~Bad(i)
<1> DEFINE S == {i \in p + 1 .. c : Bad(i)}
<1>0. c \in Nat
  BY LineTyped
<1>1. CASE S = {}
  BY <1>1 DEF FirstBad
<1>2. CASE S # {}
  <2>1. S \in SUBSET Nat
    BY <1>0
  <2>2. PICK b \in S : \A k \in S : b <= k
    BY <1>2, <2>1, LeastNatural
  <2>3. b \in p + 1 .. c /\ Bad(b) /\ \A j \in p + 1 .. c : Bad(j) => b <= j
    BY <2>2
  <2>4. \A i \in p + 1 .. b - 1 : ~Bad(i)
    BY <1>0, <2>3
  <2>5. \A i \in FirstBad(p + 1 .. c) : i = b
    BY <1>0, <2>3 DEF FirstBad
  <2>6. b \in FirstBad(p + 1 .. c)
    BY <2>3 DEF FirstBad
  <2>7. FirstBad(p + 1 .. c) = {b}
    BY <2>5, <2>6
  <2>. QED
    BY <2>3, <2>4, <2>7
<1>. QED
  BY <1>1, <1>2

Good(new) == {i \in new : \A j \in FirstBad(new) : i < j}

(* How many of the lines p + 1 .. c are good, and that these are.             *)
LEMMA GoodCounted ==
  ASSUME LinesInv, NEW c \in 0 .. Len(out), NEW p \in 0 .. c
  PROVE  \E g, f \in Nat :
           /\ Cardinality(Good(p + 1 .. c)) = g
           /\ Cardinality(FirstBad(p + 1 .. c)) = f
           /\ \A k \in 1 .. g : p + k \in Fine
           /\ \/ FirstBad(p + 1 .. c) = {} /\ f = 0 /\ p + g = c
              \/ FirstBad(p + 1 .. c) # {} /\ f = 1 /\ p + g + 1 <= c
<1>1. c \in Nat /\ p \in Nat /\ Len(out) \in Nat /\ p <= c /\ c <= Len(out)
  BY LineTyped
<1>2. \A i \in 1 .. Len(out) : ~Bad(i) => i \in Fine
  <2>1. MaxLine \in Nat
    BY TransportAssumption
  <2>. QED
    BY <2>1, LineTyped DEF Bad, Fine
<1>3. ASSUME NEW d \in Nat, p + d <= c,
             \A i \in p + 1 .. c : (i \in Good(p + 1 .. c)) = (i <= p + d),
             \A i \in p + 1 .. c : i <= p + d => ~Bad(i)
      PROVE  /\ Cardinality(Good(p + 1 .. c)) = d
             /\ \A k \in 1 .. d : p + k \in Fine
  <2>1. \A i : i \in Good(p + 1 .. c) => i \in p + 1 .. c
    BY DEF Good
  <2>2. Good(p + 1 .. c) = p + 1 .. p + d
    <3>1. \A i \in p + 1 .. c : (i <= p + d) = (i \in p + 1 .. p + d)
      BY <1>1
    <3>2. \A i \in p + 1 .. p + d : i \in p + 1 .. c
      BY <1>1, <1>3
    <3>3. \A i \in p + 1 .. c : (i \in Good(p + 1 .. c)) = (i \in p + 1 .. p + d)
      BY <1>3, <3>1
    <3>4. \A i : i \in Good(p + 1 .. c) <=> i \in p + 1 .. p + d
      BY <2>1, <3>2, <3>3
    <3>. QED
      BY <3>4
  <2>3. Cardinality(p + 1 .. p + d) = d
    BY <1>1, FS_Interval
  <2>4. \A k \in 1 .. d : p + k \in p + 1 .. c /\ p + k <= p + d /\ p + k \in 1 .. Len(out)
    BY <1>1, <1>3
  <2>. QED
    BY <1>2, <1>3, <2>2, <2>3, <2>4
<1>4. CASE FirstBad(p + 1 .. c) = {}
  <2>1. \A i \in p + 1 .. c : ~Bad(i)
    BY <1>1, <1>4, GoodLines
  <2>2. PICK d \in Nat : p + d = c
    <3>1. c - p \in Nat /\ p + (c - p) = c
      BY <1>1
    <3>. QED
      BY <3>1
  <2>3. \A i \in p + 1 .. c : i \in Good(p + 1 .. c)
    BY <1>4 DEF Good
  <2>4. p + d <= c /\ \A i \in p + 1 .. c : i <= p + d
    BY <1>1, <2>2
  <2>5. /\ Cardinality(Good(p + 1 .. c)) = d
        /\ \A k \in 1 .. d : p + k \in Fine
    <3>1. \A i \in p + 1 .. c : (i \in Good(p + 1 .. c)) = (i <= p + d)
      BY <2>3, <2>4
    <3>. QED
      BY <1>3, <2>1, <2>4, <3>1
  <2>6. Cardinality(FirstBad(p + 1 .. c)) = 0
    BY <1>4, FS_EmptySet
  <2>. QED
    BY <1>4, <2>2, <2>5, <2>6
<1>5. CASE FirstBad(p + 1 .. c) # {}
  <2>1. PICK b \in p + 1 .. c : /\ FirstBad(p + 1 .. c) = {b}
                                /\ \A i \in p + 1 .. b - 1 : ~Bad(i)
    BY <1>1, <1>5, GoodLines
  <2>2. PICK d \in Nat : p + d = b - 1
    <3>1. b - 1 - p \in Nat /\ p + (b - 1 - p) = b - 1
      BY <1>1
    <3>. QED
      BY <3>1
  <2>3. \A i \in p + 1 .. c : (i \in Good(p + 1 .. c)) = (i < b)
    BY <2>1 DEF Good
  <2>4. \A i \in p + 1 .. c : (i < b) = (i <= p + d)
    BY <1>1, <2>2
  <2>5. \A i \in p + 1 .. c : i <= p + d => ~Bad(i)
    BY <1>1, <2>1, <2>2
  <2>6. p + d + 1 <= c /\ p + d <= c
    BY <1>1, <2>2
  <2>7. /\ Cardinality(Good(p + 1 .. c)) = d
        /\ \A k \in 1 .. d : p + k \in Fine
    BY <1>3, <2>3, <2>4, <2>5, <2>6
  <2>8. Cardinality(FirstBad(p + 1 .. c)) = 1
    BY <2>1, FS_Singleton
  <2>. QED
    BY <1>5, <2>6, <2>7, <2>8
<1>. QED
  BY <1>4, <1>5

\* What reading a chunk can do: take g lines, and go on or fail.
ReadOn == call' = [call EXCEPT !.batch = @ \ {"out"}]
Taken(g) == messages \o [k \in 1 .. g |-> parsed + k]
Chunk(received1, parsed1, g) ==
  /\ received1 \in received + 1 .. flow /\ parsed1 \in parsed .. Len(out)
  /\ messages' = Taken(g)
  /\ \A k \in 1 .. g : parsed + k \in Fine
  /\ \/ /\ failure' \in {"output budget", "bad event", "line budget"}
        /\ call' = Idle
     \/ /\ failure' = failure /\ ReadOn
        /\ parsed1 = Complete(received1) /\ parsed1 = parsed + g
        /\ received1 <= MaxBytes /\ received1 - Length(parsed1) <= MaxLine

(* Reading takes the complete lines up to the first bad one, and either fails
   or has taken all of them. *)
LEMMA ReadEffect ==
  ASSUME LinesInv, Parsing, messages \in Seq(Fine), Read
  PROVE  \E g \in Nat : Chunk(received', parsed', g)
<1>0. /\ Len(out) \in Nat /\ received \in Nat /\ flow \in Nat /\ parsed \in Nat
      /\ parsed <= Len(out) /\ MaxBytes \in Nat /\ MaxLine \in Nat
  <2>1. Length(Len(out)) \in Nat
    BY LineTyped DEF Length
  <2>. QED
    BY <2>1, LineTyped, TransportAssumption DEF LinesInv
<1>1. PICK n \in 1 .. flow - received :
        LET new == (parsed + 1) .. Complete(received + n)
            stop == FirstBad(new)
            good == {i \in new : \A j \in stop : i < j}
        IN
        /\ received' = received + n
        /\ IF received' > MaxBytes
           THEN Fail("output budget") /\ UNCHANGED <<parsed, messages>>
           ELSE /\ messages' = messages \o [k \in 1 .. Cardinality(good) |-> parsed + k]
                /\ parsed' = parsed + Cardinality(good) + Cardinality(stop)
                /\ IF stop # {} THEN Fail("bad event")
                   ELSE IF received' - Length(parsed') > MaxLine THEN Fail("line budget")
                   ELSE call' = [call EXCEPT !.batch = @ \ {"out"}] /\ UNCHANGED failure
  BY DEF Read
<1>2. received' = received + n
  BY <1>1
<1>3. received' \in Nat /\ received' \in received + 1 .. flow
  BY <1>0, <1>2
<1>4. PICK c \in 0 .. Len(out) :
        /\ c = Complete(received + n)
        /\ \A i \in 1 .. Len(out) : (i <= c) = (out[i].end <= received + n)
  <2>1. received + n \in Nat
    BY <1>0
  <2>. QED
    BY <2>1, CompleteFacts
<1>5. parsed \in 0 .. c /\ c \in Nat
  <2>1. CASE parsed = 0
    BY <1>0, <2>1
  <2>2. CASE parsed # 0
    <3>1. parsed \in 1 .. Len(out)
      BY <1>0, <2>2
    <3>2. out[parsed].end <= received /\ out[parsed].end \in Nat
      BY <1>0, <3>1, LineTyped DEF Parsing
    <3>. QED
      BY <1>0, <1>4, <3>1, <3>2
  <2>. QED
    BY <2>1, <2>2
<1>6. CASE received' > MaxBytes
  <2>0. parsed' = parsed
    BY <1>1, <1>6
  <2>1. failure' = "output budget" /\ call' = Idle /\ messages' = messages
    BY <1>1, <1>6 DEF Fail
  <2>2. messages = Taken(0)
    <3>1. messages = messages \o << >>
      OBVIOUS
    <3>2. [k \in 1 .. 0 |-> parsed + k] = << >>
      OBVIOUS
    <3>. QED
      BY <3>1, <3>2 DEF Taken
  <2>3. parsed' \in parsed .. Len(out)
    BY <1>0, <2>0
  <2>4. \A k \in 1 .. 0 : parsed + k \in Fine
    OBVIOUS
  <2>5. messages' = Taken(0) /\ failure' \in {"output budget", "bad event", "line budget"}
    BY <2>1, <2>2
  <2>6. Chunk(received', parsed', 0)
    BY <1>3, <2>1, <2>3, <2>4, <2>5 DEF Chunk
  <2>. QED
    BY <2>6
<1>7. CASE ~(received' > MaxBytes)
  <2>0. received' <= MaxBytes
    BY <1>0, <1>3, <1>7
  <2>1. PICK g, f \in Nat :
           /\ Cardinality(Good(parsed + 1 .. c)) = g
           /\ Cardinality(FirstBad(parsed + 1 .. c)) = f
           /\ \A k \in 1 .. g : parsed + k \in Fine
           /\ \/ FirstBad(parsed + 1 .. c) = {} /\ f = 0 /\ parsed + g = c
              \/ FirstBad(parsed + 1 .. c) # {} /\ f = 1 /\ parsed + g + 1 <= c
    BY <1>5, GoodCounted
  <2>2. /\ messages' = Taken(g)
        /\ \/ FirstBad(parsed + 1 .. c) # {} /\ failure' = "bad event" /\ call' = Idle
           \/ FirstBad(parsed + 1 .. c) = {} /\ failure' = "line budget" /\ call' = Idle
           \/ /\ FirstBad(parsed + 1 .. c) = {} /\ ~(received' - Length(parsed') > MaxLine)
              /\ failure' = failure /\ ReadOn
    BY <1>1, <1>4, <1>7, <2>1 DEF Fail, Good, ReadOn, Taken
  <2>3. parsed' = parsed + g + f
    BY <1>1, <1>4, <1>7, <2>1 DEF Good
  <2>4. /\ parsed' \in parsed .. Len(out)
        /\ FirstBad(parsed + 1 .. c) = {} => parsed' = parsed + g /\ parsed' = c
    <3>1. \/ FirstBad(parsed + 1 .. c) = {} /\ f = 0 /\ parsed + g = c
          \/ FirstBad(parsed + 1 .. c) # {} /\ f = 1 /\ parsed + g + 1 <= c
      BY <2>1
    <3>. QED
      BY <1>0, <1>5, <2>3, <3>1
  <2>5. ~(received' - Length(parsed') > MaxLine) => received' - Length(parsed') <= MaxLine
    <3>1. Length(parsed') \in Nat
      BY <1>0, <2>4, LineTyped DEF Length
    <3>. QED
      BY <1>0, <1>3, <3>1
  <2>6. FirstBad(parsed + 1 .. c) = {} => parsed' = Complete(received')
    BY <1>2, <1>4, <2>4
  <2>7. \/ failure' \in {"output budget", "bad event", "line budget"} /\ call' = Idle
        \/ /\ failure' = failure /\ ReadOn
           /\ parsed' = Complete(received') /\ parsed' = parsed + g
           /\ received' - Length(parsed') <= MaxLine
    BY <2>2, <2>4, <2>5, <2>6
  <2>8. \A k \in 1 .. g : parsed + k \in Fine
    BY <2>1
  <2>9. Chunk(received', parsed', g)
    BY <1>3, <2>0, <2>2, <2>4, <2>7, <2>8 DEF Chunk
  <2>. QED
    BY <2>9
<1>. QED
  BY <1>6, <1>7

-----------------------------------------------------------------------------
(* Calls.                                                                     *)

LEMMA CallFields ==
  ASSUME NEW d \in SomeCall
  PROVE  /\ d.op \in {"request", "notification", "ack", "read"} /\ d.id \in Nat
         /\ d # Idle
         /\ [d EXCEPT !.due = TRUE] \in SomeCall
         /\ [d EXCEPT !.due = TRUE].op = d.op /\ [d EXCEPT !.due = TRUE].id = d.id
<1>1. d.op # "idle"
  BY DEF SomeCall
<1>2. Idle.op = "idle"
  BY DEF Idle
<1>. QED
  BY <1>1, <1>2 DEF SomeCall

\* What makes e the same call as d.
Continues(d, e) == e \in SomeCall /\ e.op = d.op /\ e.id = d.id
LEMMA SetBatch ==
  ASSUME NEW d \in SomeCall, NEW b \in SUBSET {"in", "out"}
  PROVE  Continues(d, [d EXCEPT !.batch = b])
BY DEF SomeCall, Continues
LEMMA LessBatch ==
  ASSUME NEW d \in SomeCall, NEW w
  PROVE  Continues(d, [d EXCEPT !.batch = d.batch \ w])
BY DEF SomeCall, Continues
LEMMA LessWaiting ==
  ASSUME NEW d \in SomeCall, NEW w
  PROVE  Continues(d, [d EXCEPT !.waiting = d.waiting \ w])
BY DEF SomeCall, Continues

LEMMA BeginFields ==
  ASSUME NEW op \in {"request", "notification", "ack", "read"}, NEW id \in Nat
  PROVE  Begin(op, id) \in SomeCall /\ Begin(op, id).op = op /\ Begin(op, id).id = id
BY DEF Begin, SomeCall

(* While a call is in progress the session has not ended.                     *)
LEMMA Running ==
  ASSUME CallInv, InPoll \/ Calling("read") \/ call # Idle
  PROVE  call \in SomeCall /\ failure = "none" /\ call # Idle
<1>1. Idle.op = "idle"
  BY DEF Idle
<1>2. call # Idle
  BY <1>1 DEF InPoll, Calling
<1>. QED
  BY <1>2 DEF CallInv

\* The call goes on, or ends.
SameCall ==
  call \in SomeCall /\ call' \in SomeCall /\ call'.op = call.op /\ call'.id = call.id
CallStep ==
  /\ mode' = mode /\ nextId' \in {nextId, 2, 3}
  /\ \/ (call' = call \/ SameCall) /\ failure' = failure
     \/ call' = Idle /\ failure = "none"
LEMMA CallGoesOn ==
  ASSUME CallInv, CallStep
  PROVE  CallInv'
<1>1. Idle.op = "idle"
  BY DEF Idle
<1>2. mode' = mode /\ nextId' \in Nat \ {0}
  BY DEF CallInv, CallStep
<1>3. CASE call' = call /\ failure' = failure
  BY <1>2, <1>3 DEF CallInv, Calling, InPoll
<1>4. CASE SameCall /\ failure' = failure
  <2>1. call # Idle
    BY <1>4, CallFields DEF SameCall
  <2>. QED
    BY <1>2, <1>4, <2>1 DEF CallInv, Calling, InPoll, SameCall
<1>5. CASE call' = Idle
  <2>1. ~InPoll' /\ ~Calling("read")' /\ ~Calling("request")'
    BY <1>1, <1>5 DEF Calling, InPoll
  <2>. QED
    BY <1>2, <1>5, <2>1 DEF CallInv
<1>. QED
  BY <1>3, <1>4, <1>5 DEF CallStep

LEMMA ReadStep ==
  ASSUME CallInv, Read
  PROVE  CallStep /\ failure = "none" /\ call # Idle
<1>1. call \in SomeCall /\ failure = "none" /\ call # Idle
  BY Running DEF Read
<1>2. mode' = mode /\ nextId' = nextId
  BY DEF Read
<1>3. \/ call' = Idle
      \/ call' = [call EXCEPT !.batch = call.batch \ {"out"}] /\ failure' = failure
  BY DEF Read, Fail
<1>4. call' = [call EXCEPT !.batch = call.batch \ {"out"}] => SameCall
  BY <1>1, LessBatch DEF SameCall, Continues
<1>. QED
  BY <1>1, <1>2, <1>3, <1>4 DEF CallStep

\* What the client does with one message.
Handles(i, rest) == Refuse(i) \/ OnRequest(i) \/ OnNotification(i) \/ OnAck(i, rest)
LEMMA HandlesStep ==
  ASSUME CallInv, InPoll, NEW i, NEW rest, Handles(i, rest), mode' = mode, nextId' = nextId
  PROVE  CallStep /\ failure = "none" /\ call # Idle
<1>1. call \in SomeCall /\ failure = "none" /\ call # Idle
  BY Running
<1>2. CASE Refuse(i)
  <2>1. CASE Fits
    BY <1>1, <1>2, <2>1 DEF Refuse, Answer, CallStep
  <2>2. CASE ~Fits
    BY <1>1, <1>2, <2>2 DEF Refuse, Answer, Fail, CallStep
  <2>. QED
    BY <2>1, <2>2
<1>3. CASE OnRequest(i)
  <2>1. call' = Idle \/ (call' = call /\ failure' = failure)
    BY <1>3 DEF OnRequest, Fail
  <2>. QED
    BY <1>1, <2>1 DEF CallStep
<1>4. CASE OnNotification(i)
  BY <1>1, <1>4 DEF OnNotification, CallStep
<1>5. CASE OnAck(i, rest)
  <2>1. failure' = failure \/ call' = Idle
    BY <1>5 DEF OnAck, Fail
  <2>2. \/ call' = Idle
        \/ call' = [call EXCEPT !.waiting = call.waiting \ Acknowledges(i)]
    BY <1>5 DEF OnAck, Fail
  <2>3. call' = [call EXCEPT !.waiting = call.waiting \ Acknowledges(i)] => SameCall
    BY <1>1, LessWaiting DEF SameCall, Continues
  <2>. QED
    BY <1>1, <2>1, <2>2, <2>3 DEF CallStep
<1>. QED
  BY <1>2, <1>3, <1>4, <1>5 DEF Handles

LEMMA TakeStep ==
  ASSUME CallInv, Take \/ TakeDeferred
  PROVE  CallStep /\ failure = "none" /\ call # Idle
<1>1. CASE Take
  <2>1. Handles(Head(messages), deferred) /\ InPoll /\ mode' = mode /\ nextId' = nextId
    BY <1>1 DEF Take, Handles, Handling, Polling
  <2>. QED
    BY <2>1, HandlesStep
<1>2. CASE TakeDeferred
  <2>1. /\ Handles(Head(deferred), Tail(deferred))
        /\ InPoll /\ mode' = mode /\ nextId' = nextId
    BY <1>2 DEF TakeDeferred, Handles, InPoll, Calling
  <2>. QED
    BY <2>1, HandlesStep
<1>. QED
  BY <1>1, <1>2

(* What the other steps of a call in progress do to it.                       *)
LEMMA PollStep ==
  ASSUME CallInv, Overdue \/ Select \/ GiveUp \/ Write \/ ReadEnd
  PROVE  CallStep /\ failure = "none" /\ call # Idle
<1>1. InPoll
  BY DEF Overdue, Select, GiveUp, Write, ReadEnd, Polling, Expired, InPoll, Calling
<1>2. call \in SomeCall /\ failure = "none" /\ call # Idle
  BY <1>1, Running
<1>3. mode' = mode /\ nextId' = nextId
  BY DEF Overdue, Select, GiveUp, Write, ReadEnd
<1>4. CASE Overdue
  BY <1>2, <1>3, <1>4 DEF Overdue, Fail, CallStep
<1>5. CASE Select
  <2>1. PICK keys \in SUBSET Ready : call' = [call EXCEPT !.batch = keys] /\ failure' = failure
    BY <1>5 DEF Select
  <2>2. keys \in SUBSET {"in", "out"}
    BY <2>1 DEF Ready
  <2>3. SameCall
    BY <1>2, <2>1, <2>2, SetBatch DEF SameCall, Continues
  <2>. QED
    BY <1>2, <1>3, <2>1, <2>3 DEF CallStep
<1>6. CASE GiveUp
  BY <1>2, <1>3, <1>6 DEF GiveUp, CallStep
<1>7. CASE Write
  <2>1. \/ call' = Idle
        \/ call' = [call EXCEPT !.batch = call.batch \ {"in"}] /\ failure' = failure
    BY <1>7 DEF Write, Fail
  <2>2. call' = [call EXCEPT !.batch = call.batch \ {"in"}] => SameCall
    BY <1>2, LessBatch DEF SameCall, Continues
  <2>. QED
    BY <1>2, <1>3, <2>1, <2>2 DEF CallStep
<1>8. CASE ReadEnd
  BY <1>2, <1>3, <1>8 DEF ReadEnd, Fail, CallStep
<1>. QED
  BY <1>4, <1>5, <1>6, <1>7, <1>8

Reader ==
  \/ ReaderReads \/ ReaderTimesOut \/ LimitsStart \/ LimitsLine \/ LimitsEnd \/ DocumentEnd
LEMMA ReaderStep ==
  ASSUME CallInv, Reader
  PROVE  CallStep /\ failure = "none" /\ call # Idle
<1>1. Calling("read")
  BY DEF Reader, ReaderReads, ReaderTimesOut, LimitsStart, LimitsLine, LimitsEnd, DocumentEnd
<1>2. call \in SomeCall /\ failure = "none" /\ call # Idle
  BY <1>1, Running
<1>3. mode' = mode /\ nextId' \in {nextId, 2, 3}
  BY DEF Reader, ReaderReads, ReaderTimesOut, LimitsStart, LimitsLine, LimitsEnd, DocumentEnd
<1>4. call' = Idle \/ (call' = call /\ failure' = failure)
  BY DEF Reader, ReaderReads, ReaderTimesOut, LimitsStart, LimitsLine, LimitsEnd, DocumentEnd,
         Return
<1>. QED
  BY <1>2, <1>3, <1>4 DEF CallStep

(* Calls keep to their clients, and none goes on once the session ended.      *)
LEMMA CallKept ==
  ASSUME CallInv, TransportNext
  PROVE  CallInv' /\ mode' = mode /\ (failure # "none" => failure' = failure)
<1>0. ASSUME CallStep PROVE CallInv' /\ mode' = mode /\ (failure # "none" => failure' = failure)
  BY <1>0, CallGoesOn DEF CallStep
<1>1. CASE NativeWrites
  <2>1. CallStep
    BY <1>1 DEF NativeWrites, CallStep
  <2>. QED
    BY <1>0, <2>1
<1>2. CASE NativeEnds
  <2>1. CallStep
    BY <1>2 DEF NativeEnds, CallStep
  <2>. QED
    BY <1>0, <2>1
<1>3. CASE Deadline
  <2>1. call \in SomeCall
    BY <1>3, Running DEF Deadline
  <2>2. call' = [call EXCEPT !.due = TRUE] /\ failure' = failure /\ mode' = mode /\ nextId' = nextId
    BY <1>3 DEF Deadline
  <2>3. SameCall
    BY <2>1, <2>2, CallFields DEF SameCall
  <2>4. CallStep
    BY <2>2, <2>3 DEF CallStep
  <2>. QED
    BY <1>0, <2>4
<1>4. CASE Request
  <2>1. failure = "none" /\ mode \in {"codex", "claude"} /\ mode' = mode /\ nextId' = nextId + 1
    BY <1>4 DEF Request
  <2>2. nextId \in Nat /\ nextId # 0 /\ nextId' \in Nat \ {0}
    BY <2>1 DEF CallInv
  <2>3. CASE call' = Idle
    <3>1. ~InPoll' /\ ~Calling("read")' /\ ~Calling("request")'
      BY <2>3 DEF Calling, InPoll, Idle
    <3>. QED
      BY <2>1, <2>2, <2>3, <3>1 DEF CallInv
  <2>4. CASE call' = Begin("request", nextId) /\ failure' = failure
    <3>1. call' \in SomeCall /\ call'.op = "request" /\ call'.id = nextId
      BY <2>2, <2>4, BeginFields
    <3>. QED
      BY <2>1, <2>2, <2>4, <3>1 DEF CallInv, Calling, InPoll
  <2>. QED
    BY <1>4, <2>3, <2>4 DEF Request, Fail
<1>5. CASE SubmitPrompt
  <2>1. failure = "none" /\ mode \in {"codex", "claude"} /\ mode' = mode /\ nextId' = nextId
    BY <1>5 DEF SubmitPrompt
  <2>2. CASE call' = Idle
    <3>1. CallStep
      BY <2>1, <2>2 DEF CallStep
    <3>. QED
      BY <1>0, <3>1
  <2>3. CASE call' = Begin("ack", 0) /\ failure' = failure
    <3>1. call' \in SomeCall /\ call'.op = "ack"
      BY <2>3, BeginFields
    <3>. QED
      BY <2>1, <2>3, <3>1 DEF CallInv, Calling, InPoll
  <2>. QED
    BY <1>5, <2>2, <2>3 DEF SubmitPrompt, Fail
<1>6. CASE Notification
  <2>1. /\ failure = "none" /\ mode \in {"codex", "claude"} /\ mode' = mode
        /\ nextId' = nextId /\ failure' = failure
    BY <1>6 DEF Notification, Launched
  <2>2. CASE call' = call
    <3>1. CallStep
      BY <2>1, <2>2 DEF CallStep
    <3>. QED
      BY <1>0, <3>1
  <2>3. CASE call' = Begin("notification", 0)
    <3>1. call' \in SomeCall /\ call'.op = "notification"
      BY <2>3, BeginFields
    <3>. QED
      BY <2>1, <2>3, <3>1 DEF CallInv, Calling, InPoll
  <2>. QED
    BY <1>6, <2>2, <2>3 DEF Notification
<1>7. CASE ClientStep
  <2>1. CallStep
    BY <1>7, PollStep, ReadStep, TakeStep, ReaderStep DEF ClientStep, Reader
  <2>. QED
    BY <1>0, <2>1
<1>. QED
  BY <1>1, <1>2, <1>3, <1>4, <1>5, <1>6, <1>7 DEF TransportNext

-----------------------------------------------------------------------------
(* Lines.                                                                     *)

(* A line is written behind the others, and ends after them.                  *)
LEMMA LineAdded ==
  ASSUME LinesInv, NativeWrites
  PROVE  \E r \in Written :
           /\ out' = Append(out, r) /\ out' \in Seq(Written)
           /\ Len(out') = Len(out) + 1 /\ out'[Len(out) + 1] = r
           /\ \A i \in 1 .. Len(out) : out'[i] = out[i] /\ out[i].end < r.end
           /\ (r.kind \in {"response", "rejected"}) = (r.id # 0)
           /\ r.id = 0 \/ r.id \in Open
           /\ flow' \in 0 .. r.end /\ flow <= flow' /\ flow < r.end
<1>1. PICK line \in Lines[mode], id \in Open \cup {0} :
        /\ (line.kind \in {"response", "rejected"}) = (id # 0)
        /\ out' = Append(out, [kind |-> line.kind, size |-> line.size, id |-> id,
                               end |-> Length(Len(out)) + line.size])
        /\ flow' = flow + line.size
  BY DEF NativeWrites
<1>2. mode \in Modes /\ out \in Seq(Written) /\ flow \in 0 .. Length(Len(out))
  BY DEF LinesInv
<1>3. line.size \in Nat /\ line.size # 0
  BY <1>1, <1>2, TransportAssumption
<1>4. line.kind \in Kinds
  BY <1>1, <1>2 DEF Kinds
<1>5. id \in Nat
  <2>1. Open \subseteq 1 .. MaxCalls[mode]
    BY DEF Open
  <2>. QED
    BY <1>1, <2>1
<1>6. Length(Len(out)) \in Nat /\ flow \in Nat /\ flow <= Length(Len(out))
  <2>1. Length(Len(out)) \in Nat
    BY LineTyped DEF Length
  <2>. QED
    BY <1>2, <2>1
<1>7. \A i \in 1 .. Len(out) : out[i].end \in Nat /\ out[i].end <= Length(Len(out))
  <2> SUFFICES ASSUME NEW i \in 1 .. Len(out)
               PROVE  out[i].end \in Nat /\ out[i].end <= Length(Len(out))
    OBVIOUS
  <2>1. Len(out) \in Nat /\ Len(out) # 0 /\ Len(out) \in 1 .. Len(out)
    BY LineTyped
  <2>2. out[i].end \in Nat /\ out[Len(out)].end \in Nat /\ Length(Len(out)) = out[Len(out)].end
    BY <2>1, LineTyped
  <2>3. i < Len(out) => out[i].end < out[Len(out)].end
    BY <2>1 DEF LinesInv
  <2>4. i = Len(out) \/ i < Len(out)
    BY <2>1
  <2>. QED
    BY <2>2, <2>3, <2>4
<1>8. PICK e \in Nat : e = Length(Len(out)) + line.size /\ e > Length(Len(out))
  <2>1. Length(Len(out)) + line.size \in Nat /\ Length(Len(out)) + line.size > Length(Len(out))
    BY <1>3, <1>6
  <2>. QED
    BY <2>1
<1>9. PICK r \in Written :
        r.kind = line.kind /\ r.id = id /\ r.end = e /\ out' = Append(out, r)
  <2>1. [kind |-> line.kind, size |-> line.size, id |-> id, end |-> e] \in Written
    BY <1>3, <1>4, <1>5 DEF Written
  <2>2. out' = Append(out, [kind |-> line.kind, size |-> line.size, id |-> id, end |-> e])
    BY <1>1, <1>8
  <2>. QED
    BY <2>1, <2>2
<1>10. /\ out' \in Seq(Written) /\ Len(out') = Len(out) + 1
       /\ out'[Len(out) + 1] = r /\ \A i \in 1 .. Len(out) : out'[i] = out[i]
  BY <1>2, <1>9
<1>11. \A i \in 1 .. Len(out) : out[i].end < r.end
  BY <1>6, <1>7, <1>8, <1>9
<1>12. flow' \in 0 .. r.end /\ flow <= flow' /\ flow < r.end
  BY <1>1, <1>3, <1>6, <1>8, <1>9
<1>13. /\ (r.kind \in {"response", "rejected"}) = (r.id # 0)
       /\ r.id = 0 \/ r.id \in Open
  BY <1>1, <1>9
<1>. QED
  BY <1>9, <1>10, <1>11, <1>12, <1>13

\* Where the lines are, and how far reading them has got.
lines == <<mode, out, flow, ended, received, parsed>>
LEMMA LinesSame ==
  ASSUME LinesInv, UNCHANGED lines
  PROVE  LinesInv'
BY DEF LinesInv, lines, Length

LEMMA LinesKept ==
  ASSUME LinesInv, CallInv, BudgetInv, Sound => StreamInv, TransportNext
  PROVE  LinesInv'
<1>0. /\ Len(out) \in Nat /\ flow \in Nat /\ received \in Nat /\ parsed \in Nat
      /\ received <= flow /\ parsed <= Len(out) /\ Length(Len(out)) \in Nat
      /\ flow <= Length(Len(out))
  <2>1. Length(Len(out)) \in Nat
    BY LineTyped DEF Length
  <2>. QED
    BY <2>1, LineTyped DEF LinesInv
<1>1. CASE NativeWrites
  <2>1. PICK r \in Written :
           /\ out' = Append(out, r) /\ out' \in Seq(Written)
           /\ Len(out') = Len(out) + 1 /\ out'[Len(out) + 1] = r
           /\ \A i \in 1 .. Len(out) : out'[i] = out[i] /\ out[i].end < r.end
           /\ (r.kind \in {"response", "rejected"}) = (r.id # 0)
           /\ r.id = 0 \/ r.id \in Open
           /\ flow' \in 0 .. r.end /\ flow <= flow' /\ flow < r.end
    BY <1>1, LineAdded
  <2>2. mode' = mode /\ ended' = ended /\ received' = received /\ parsed' = parsed
    BY <1>1 DEF NativeWrites, stream
  <2>3. \A i \in 1 .. Len(out') : i \in 1 .. Len(out) \/ i = Len(out) + 1
    BY <1>0, <2>1
  <2>4. \A i, j \in 1 .. Len(out') : i < j => out'[i].end < out'[j].end
    <3> SUFFICES ASSUME NEW i \in 1 .. Len(out'), NEW j \in 1 .. Len(out'), i < j
                 PROVE  out'[i].end < out'[j].end
      OBVIOUS
    <3>1. i \in 1 .. Len(out)
      BY <1>0, <2>1
    <3>2. CASE j = Len(out) + 1
      BY <2>1, <3>1, <3>2
    <3>3. CASE j \in 1 .. Len(out)
      BY <2>1, <3>1, <3>3 DEF LinesInv
    <3>. QED
      BY <2>3, <3>2, <3>3
  <2>5. \A i \in 1 .. Len(out') :
          (out'[i].kind \in {"response", "rejected"}) = (out'[i].id # 0)
    <3> SUFFICES ASSUME NEW i \in 1 .. Len(out')
                 PROVE  (out'[i].kind \in {"response", "rejected"}) = (out'[i].id # 0)
      OBVIOUS
    <3>1. CASE i = Len(out) + 1
      BY <2>1, <3>1
    <3>2. CASE i \in 1 .. Len(out)
      BY <2>1, <3>2 DEF LinesInv
    <3>. QED
      BY <2>3, <3>1, <3>2
  <2>6. Length(Len(out))' = r.end
    <3>1. Len(out') # 0
      BY <1>0, <2>1
    <3>2. Length(Len(out))' = out'[Len(out')].end
      BY <3>1 DEF Length
    <3>. QED
      BY <2>1, <3>2
  <2>7. flow' \in 0 .. Length(Len(out))' /\ received' \in 0 .. flow'
    BY <1>0, <2>1, <2>2, <2>6
  <2>8. parsed' \in 0 .. Len(out')
    BY <1>0, <2>1, <2>2
  <2>9. mode' \in Modes /\ ended' \in BOOLEAN
    BY <2>2 DEF LinesInv
  <2>. QED
    BY <2>1, <2>4, <2>5, <2>7, <2>8, <2>9 DEF LinesInv
<1>2. CASE NativeEnds
  <2>1. /\ ended' = TRUE /\ flow' \in received .. flow
        /\ mode' = mode /\ out' = out /\ received' = received /\ parsed' = parsed
    BY <1>2 DEF NativeEnds, stream
  <2>2. flow' \in 0 .. Length(Len(out)) /\ received \in 0 .. flow'
    BY <1>0, <2>1
  <2>3. Length(Len(out))' = Length(Len(out))
    BY <2>1 DEF Length
  <2>. QED
    BY <2>1, <2>2, <2>3 DEF LinesInv
<1>3. ASSUME /\ mode' = mode /\ out' = out /\ flow' = flow /\ ended' = ended,
             received' \in 0 .. flow, parsed' \in 0 .. Len(out)
      PROVE  LinesInv'
  <2>1. Length(Len(out))' = Length(Len(out))
    BY <1>3 DEF Length
  <2>. QED
    BY <1>3, <2>1 DEF LinesInv
<1>4. CASE Read
  <2>1. mode' = mode /\ out' = out /\ flow' = flow /\ ended' = ended
    BY <1>4 DEF Read, native
  <2>2. InPoll /\ failure = "none"
    BY <1>4, ReadStep DEF Read
  <2>3. Sound
    BY <2>2 DEF Sound, CallInv
  <2>4. messages \in Seq(Fine)
    BY DEF BudgetInv
  <2>5. PICK g \in Nat : Chunk(received', parsed', g)
    BY <1>4, <2>3, <2>4, ReadEffect DEF StreamInv
  <2>6. received' \in received + 1 .. flow /\ parsed' \in parsed .. Len(out)
    BY <2>5 DEF Chunk
  <2>7. received' \in 0 .. flow /\ parsed' \in 0 .. Len(out)
    BY <1>0, <2>6
  <2>. QED
    BY <1>3, <2>1, <2>7
<1>5. CASE ReaderReads
  <2>1. mode' = mode /\ out' = out /\ flow' = flow /\ ended' = ended /\ parsed' = parsed
    BY <1>5 DEF ReaderReads, native
  <2>2. PICK n \in 1 .. flow - received : received' = received + n
    BY <1>5 DEF ReaderReads
  <2>3. received' \in 0 .. flow /\ parsed' \in 0 .. Len(out)
    BY <1>0, <2>1, <2>2
  <2>. QED
    BY <1>3, <2>1, <2>3
<1>6. CASE LimitsLine
  <2>1. mode' = mode /\ out' = out /\ flow' = flow /\ ended' = ended /\ received' = received
    BY <1>6 DEF LimitsLine, native
  <2>2. parsed < Complete(received) /\ parsed' = parsed + 1
    BY <1>6 DEF LimitsLine
  <2>3. Complete(received) \in 0 .. Len(out)
    BY <1>0, CompleteFacts
  <2>4. received' \in 0 .. flow /\ parsed' \in 0 .. Len(out)
    BY <1>0, <2>1, <2>2, <2>3
  <2>. QED
    BY <1>3, <2>1, <2>4
<1>7. CASE UNCHANGED lines
  BY <1>7, LinesSame
<1>8. CASE Deadline \/ Request \/ SubmitPrompt \/ Notification
  <2>1. UNCHANGED lines
    BY <1>8 DEF Deadline, Request, SubmitPrompt, Notification, native, stream, lines
  <2>. QED
    BY <1>7, <2>1
<1>9. CASE Overdue \/ Select \/ GiveUp \/ Write \/ ReadEnd \/ Take \/ TakeDeferred
  <2>1. UNCHANGED lines
    BY <1>9 DEF Overdue, Select, GiveUp, Write, ReadEnd, Take, TakeDeferred,
                native, stream, lines
  <2>. QED
    BY <1>7, <2>1
<1>10. CASE ReaderTimesOut \/ LimitsStart \/ LimitsEnd \/ DocumentEnd
  <2>1. UNCHANGED lines
    BY <1>10 DEF ReaderTimesOut, LimitsStart, LimitsEnd, DocumentEnd, native, stream, lines
  <2>. QED
    BY <1>7, <2>1
<1>. QED
  BY <1>1, <1>2, <1>4, <1>5, <1>6, <1>8, <1>9, <1>10 DEF TransportNext, ClientStep

-----------------------------------------------------------------------------
(* Input.                                                                     *)

(* A message is queued behind what was sent before, and stdin is watched.     *)
LEMMA QueueKept ==
  ASSUME InputInv, NEW m \in Message, Queue(m)
  PROVE  InputInv' /\ Sent' = Append(Sent, m) /\ Sent \in Seq(Message)
         /\ inbox' = inbox /\ Len(pending') = Len(pending) + 1
<1>1. /\ inbox \in Seq(Message) /\ pending \in Seq(Message)
      /\ watching = (pending # <<>>)
  BY DEF InputInv
<1>2. pending' = Append(pending, m) /\ inbox' = inbox /\ watching' = (watching \/ pending = <<>>)
  BY DEF Queue, Register
<1>3. pending' \in Seq(Message) /\ pending' # <<>> /\ Len(pending') = Len(pending) + 1
  BY <1>1, <1>2
<1>4. watching' = TRUE
  BY <1>1, <1>2
<1>5. InputInv'
  BY <1>1, <1>2, <1>3, <1>4 DEF InputInv
<1>6. inbox \o Append(pending, m) = Append(inbox \o pending, m)
  BY <1>1
<1>. QED
  BY <1>1, <1>2, <1>3, <1>5, <1>6 DEF Sent

(* Writing moves messages from the pipe's near end to its far one.            *)
LEMMA WriteKept ==
  ASSUME InputInv, Write
  PROVE  \/ failure' = "input closed" /\ inbox' = inbox /\ pending' = pending /\ InputInv'
         \/ /\ failure' = failure /\ InputInv' /\ Sent' = Sent
            /\ Len(pending') <= Len(pending)
<1>1. inbox \in Seq(Message) /\ pending \in Seq(Message) /\ Len(pending) \in Nat
  BY DEF InputInv
<1>2. CASE ended /\ Fail("input closed") /\ UNCHANGED input
  BY <1>2 DEF Fail, input, InputInv
<1>3. CASE /\ \E n \in 0 .. Len(pending) :
               /\ inbox' = inbox \o SubSeq(pending, 1, n)
               /\ pending' = SubSeq(pending, n + 1, Len(pending))
           /\ watching' = (pending' # <<>>)
           /\ failure' = failure
  <2>1. PICK n \in 0 .. Len(pending) :
               /\ inbox' = inbox \o SubSeq(pending, 1, n)
               /\ pending' = SubSeq(pending, n + 1, Len(pending))
    BY <1>3
  <2>2. /\ n \in Int /\ n + 1 \in Int /\ Len(pending) \in Int
        /\ \A i \in 1 .. n : pending[i] \in Message
        /\ \A i \in n + 1 .. Len(pending) : pending[i] \in Message
    BY <1>1
  <2>3. PICK a \in Seq(Message) : a = SubSeq(pending, 1, n)
    <3>1. SubSeq(pending, 1, n) \in Seq(Message)
      BY <2>2, SubSeqProperties
    <3>. QED
      BY <3>1
  <2>4. PICK b \in Seq(Message) : /\ b = SubSeq(pending, n + 1, Len(pending))
                                  /\ Len(b) <= Len(pending)
    <3>1. SubSeq(pending, n + 1, Len(pending)) \in Seq(Message)
      BY <2>2, SubSeqProperties
    <3>2. Len(SubSeq(pending, n + 1, Len(pending)))
            = IF n + 1 <= Len(pending) THEN Len(pending) - (n + 1) + 1 ELSE 0
      BY <2>2, SubSeqProperties
    <3>3. Len(SubSeq(pending, n + 1, Len(pending))) <= Len(pending)
      BY <1>1, <3>2
    <3>. QED
      BY <3>1, <3>3
  <2>5. inbox' = inbox \o a /\ pending' = b /\ (inbox \o a) \o b = inbox \o pending
    <3>1. 1 \in 1 .. Len(pending) + 1 /\ n \in 1 - 1 .. Len(pending) /\ Len(pending) \in n .. Len(pending)
      BY <1>1
    <3>2. a \o b = SubSeq(pending, 1, Len(pending))
      BY <1>1, <2>3, <2>4, <3>1, ConcatAdjacentSubSeq
    <3>3. a \o b = pending
      BY <1>1, <3>2, SubSeqFull
    <3>4. (inbox \o a) \o b = inbox \o (a \o b)
      BY <1>1
    <3>. QED
      BY <2>1, <2>3, <2>4, <3>3, <3>4
  <2>6. Sent' = Sent
    BY <2>5 DEF Sent
  <2>7. inbox' \in Seq(Message) /\ pending' \in Seq(Message)
    BY <1>1, <2>5
  <2>8. InputInv'
    BY <1>3, <2>7 DEF InputInv
  <2>9. Len(pending') <= Len(pending)
    BY <2>4, <2>5
  <2>. QED
    BY <1>3, <2>6, <2>8, <2>9
<1>. QED
  BY <1>2, <1>3 DEF Write, Fail

LEMMA SendsKept ==
  ASSUME InputInv, NEW s \in Seq(Message), Sends(s)
  PROVE  InputInv' /\ pending' = pending
<1>1. inbox' = inbox \o s /\ pending' = pending /\ watching' = watching
  BY DEF Sends
<1>2. inbox' \in Seq(Message)
  BY <1>1 DEF InputInv
<1>. QED
  BY <1>1, <1>2 DEF InputInv

LEMMA Messages ==
  ASSUME NEW n \in Nat
  PROVE  {Msg("request", n), Msg("prompt", n), Msg("refusal", n), Msg("initialized", n)}
           \subseteq Message
BY DEF Msg, Message

\* The input is kept, and what is not yet written of it bounded.
InputStep == InputInv' /\ (failure' = "none" => Len(pending') <= MaxPending)

(* Sending keeps to the budget, or ends the session.                          *)
LEMMA Queued ==
  ASSUME InputInv, NEW m \in Message, Queue(m), Fits
  PROVE  InputStep
<1>1. Len(pending) + 1 <= MaxPending
  BY DEF Fits
<1>. QED
  BY <1>1, QueueKept DEF InputStep

LEMMA InputKept ==
  ASSUME LinesInv, CallInv, BudgetInv, InputInv, TransportNext
  PROVE  InputStep
<1>1. /\ inbox \in Seq(Message) /\ pending \in Seq(Message) /\ Len(pending) \in Nat
      /\ MaxPending \in Nat
  BY TransportAssumption DEF InputInv
<1>2. failure' = "none" => Len(pending) <= MaxPending
  BY CallKept DEF BudgetInv
<1>3. CASE UNCHANGED input
  BY <1>2, <1>3 DEF InputStep, InputInv, input
<1>4. CASE Request
  <2>1. nextId \in Nat
    BY DEF CallInv
  <2>2. Msg("request", nextId) \in Message
    BY <2>1, Messages
  <2>3. UNCHANGED input \/ (Fits /\ Queue(Msg("request", nextId)))
    BY <1>4 DEF Request
  <2>. QED
    BY <1>3, <2>2, <2>3, Queued
<1>5. CASE SubmitPrompt
  <2>1. Msg("prompt", 0) \in Message
    BY Messages
  <2>2. UNCHANGED input \/ (Fits /\ Queue(Msg("prompt", 0)))
    BY <1>5 DEF SubmitPrompt
  <2>. QED
    BY <1>3, <2>1, <2>2, Queued
<1>6. CASE Write
  <2>1. CASE failure' = "input closed" /\ InputInv'
    BY <2>1 DEF InputStep
  <2>2. CASE failure' = failure /\ InputInv' /\ Len(pending') <= Len(pending)
    <3>1. Len(pending') \in Nat
      BY <2>2 DEF InputInv
    <3>. QED
      BY <1>1, <1>2, <2>2, <3>1 DEF InputStep
  <2>. QED
    BY <1>6, <2>1, <2>2, WriteKept
<1>7. CASE Take
  <2>1. PICK i : i = Head(messages) /\ Handles(i, deferred)
    BY <1>7 DEF Take, Handles
  <2>2. i \in Nat
    <3>1. messages # <<>> /\ messages \in Seq(Fine)
      BY <1>7 DEF Take, Handling, BudgetInv
    <3>2. Head(messages) \in Fine
      BY <3>1, HeadTailProperties
    <3>. QED
      BY <2>1, <3>2 DEF Fine
  <2>3. CASE Refuse(i)
    <3>1. Msg("refusal", i) \in Message
      BY <2>2, Messages
    <3>2. UNCHANGED input \/ (Fits /\ Queue(Msg("refusal", i)))
      BY <2>3 DEF Refuse, Answer
    <3>. QED
      BY <1>3, <3>1, <3>2, Queued
  <2>4. CASE OnRequest(i) \/ OnNotification(i) \/ OnAck(i, deferred)
    BY <1>3, <2>4 DEF OnRequest, OnNotification, OnAck
  <2>. QED
    BY <2>1, <2>3, <2>4 DEF Handles
<1>8. CASE TakeDeferred
  BY <1>3, <1>8 DEF TakeDeferred, OnAck
<1>9. CASE LimitsStart
  <2>1. Sends(<<Msg("request", 1)>>)
    BY <1>9 DEF LimitsStart
  <2>2. <<Msg("request", 1)>> \in Seq(Message)
    BY Messages
  <2>3. InputInv' /\ pending' = pending
    BY <2>1, <2>2, SendsKept
  <2>. QED
    BY <1>2, <2>3 DEF InputStep
<1>10. CASE LimitsLine
  <2>1. UNCHANGED input \/ Sends(<<Msg("initialized", 0), Msg("request", 2)>>)
    BY <1>10 DEF LimitsLine
  <2>2. Msg("initialized", 0) \in Message /\ Msg("request", 2) \in Message
    BY Messages
  <2>3. <<Msg("initialized", 0), Msg("request", 2)>> \in Seq(Message)
    BY <2>2
  <2>4. Sends(<<Msg("initialized", 0), Msg("request", 2)>>) => InputInv' /\ pending' = pending
    BY <2>3, SendsKept
  <2>. QED
    BY <1>2, <1>3, <2>1, <2>4 DEF InputStep
<1>11. CASE NativeWrites \/ NativeEnds \/ Deadline \/ Notification
  BY <1>3, <1>11 DEF NativeWrites, NativeEnds, Deadline, Notification
<1>12. CASE Overdue \/ Select \/ GiveUp \/ Read \/ ReadEnd
  BY <1>3, <1>12 DEF Overdue, Select, GiveUp, Read, ReadEnd
<1>13. CASE ReaderReads \/ ReaderTimesOut \/ LimitsEnd \/ DocumentEnd
  BY <1>3, <1>13 DEF ReaderReads, ReaderTimesOut, LimitsEnd, DocumentEnd
<1>. QED
  BY <1>4, <1>5, <1>6, <1>7, <1>8, <1>9, <1>10, <1>11, <1>12, <1>13
     DEF TransportNext, ClientStep

-----------------------------------------------------------------------------
(* Budgets.                                                                   *)

(* Only the native process writes lines, and a line keeps its length.         *)
LEMMA FineGrows ==
  ASSUME LinesInv, TransportNext
  PROVE  /\ NativeWrites \/ out' = out
         /\ Fine \subseteq Fine'
         /\ \A s \in Seq(Fine) : s \in Seq(Fine')
         /\ Length(parsed)' = IF parsed' = 0 THEN 0 ELSE out'[parsed'].end
         /\ \A i \in 1 .. Len(out) : out'[i] = out[i]
<1>1. NativeWrites \/ out' = out
  <2>1. CASE NativeEnds \/ Deadline \/ Request \/ SubmitPrompt \/ Notification
    BY <2>1 DEF NativeEnds, Deadline, Request, SubmitPrompt, Notification, native
  <2>2. CASE Overdue \/ Select \/ GiveUp \/ Write \/ Read \/ ReadEnd \/ Take \/ TakeDeferred
    BY <2>2 DEF Overdue, Select, GiveUp, Write, Read, ReadEnd, Take, TakeDeferred, native
  <2>3. CASE Reader
    BY <2>3 DEF Reader, ReaderReads, ReaderTimesOut, LimitsStart, LimitsLine, LimitsEnd,
                DocumentEnd, native
  <2>. QED
    BY <2>1, <2>2, <2>3 DEF TransportNext, ClientStep, Reader
<1>2. \A i \in 1 .. Len(out) : out'[i] = out[i] /\ i \in 1 .. Len(out')
  <2>1. CASE out' = out
    BY <2>1
  <2>2. CASE NativeWrites
    <3>1. Len(out') = Len(out) + 1 /\ Len(out) \in Nat /\ \A i \in 1 .. Len(out) : out'[i] = out[i]
      BY <2>2, LineAdded, LineTyped
    <3>. QED
      BY <3>1
  <2>. QED
    BY <1>1, <2>1, <2>2
<1>3. Fine \subseteq Fine'
  BY <1>2 DEF Fine
<1>4. \A s \in Seq(Fine) : s \in Seq(Fine')
  BY <1>3
<1>. QED
  BY <1>1, <1>2, <1>3, <1>4 DEF Length

\* Events stay where they can be found.
Kept ==
  /\ messages \in Seq(Fine) /\ deferred \in Seq(Fine)
  /\ held \in Seq(Fine) /\ seen \in Seq(Fine)
\* The lines are the same, so Fine is what it was.
KeptNext ==
  /\ messages' \in Seq(Fine) /\ deferred' \in Seq(Fine)
  /\ held' \in Seq(Fine) /\ seen' \in Seq(Fine)
LEMMA HandlesFine ==
  ASSUME Kept, NEW i \in Fine, NEW rest \in Seq(Fine), Handles(i, rest)
  PROVE  deferred' \in Seq(Fine) /\ held' \in Seq(Fine) /\ seen' \in Seq(Fine)
<1>1. CASE Refuse(i)
  BY <1>1 DEF Refuse, given, Kept
<1>2. CASE OnRequest(i)
  <2>1. UNCHANGED given \/ (deferred' = Append(deferred, i) /\ held' = held /\ seen' = seen)
    BY <1>2 DEF OnRequest
  <2>2. Append(deferred, i) \in Seq(Fine)
    BY AppendProperties DEF Kept
  <2>. QED
    BY <2>1, <2>2 DEF given, Kept
<1>3. CASE OnNotification(i)
  <2>1. seen' = Append(seen, i) /\ deferred' = deferred /\ held' = held
    BY <1>3 DEF OnNotification
  <2>. QED
    BY <2>1 DEF Kept
<1>4. CASE OnAck(i, rest)
  <2>1. PICK kept : /\ kept = held \/ kept = Append(held, i)
                    /\ \/ deferred' = kept \o rest /\ held' = <<>>
                       \/ deferred' = rest /\ held' = kept
    <3>1. CASE out[i].kind = "other setup"
      BY <1>4, <3>1 DEF OnAck
    <3>2. CASE out[i].kind # "other setup"
      BY <1>4, <3>2 DEF OnAck, PutBack
    <3>. QED
      BY <3>1, <3>2
  <2>2. kept \in Seq(Fine)
    <3>1. Append(held, i) \in Seq(Fine)
      BY AppendProperties DEF Kept
    <3>. QED
      BY <2>1, <3>1 DEF Kept
  <2>3. seen' = seen
    BY <1>4 DEF OnAck
  <2>4. kept \o rest \in Seq(Fine)
    BY <2>2, ConcatProperties
  <2>5. <<>> \in Seq(Fine)
    OBVIOUS
  <2>. QED
    BY <2>1, <2>2, <2>3, <2>4, <2>5 DEF Kept
<1>. QED
  BY <1>1, <1>2, <1>3, <1>4 DEF Handles

LEMMA KeptKept ==
  ASSUME LinesInv, CallInv, Kept, Sound => StreamInv, TransportNext
  PROVE  KeptNext
<1>1. CASE UNCHANGED <<messages, given>>
  BY <1>1 DEF Kept, KeptNext, given
<1>2. CASE Notification
  <2>1. messages' = messages
    BY <1>2 DEF Notification, stream
  <2>2. CASE UNCHANGED given
    BY <1>1, <2>1, <2>2
  <2>3. CASE /\ deferred # <<>> /\ deferred' = Tail(deferred) /\ held' = held
             /\ seen' = Append(seen, Head(deferred))
    <3>1. Tail(deferred) \in Seq(Fine) /\ Head(deferred) \in Fine
      BY <2>3, HeadTailProperties DEF Kept
    <3>2. Append(seen, Head(deferred)) \in Seq(Fine)
      BY <3>1 DEF Kept
    <3>. QED
      BY <2>1, <2>3, <3>1, <3>2 DEF Kept, KeptNext
  <2>. QED
    BY <1>2, <2>2, <2>3 DEF Notification, PutAside
<1>3. CASE Take
  <2>1. messages # <<>> /\ messages' = Tail(messages) /\ Handles(Head(messages), deferred)
    BY <1>3 DEF Take, Handling, Handles
  <2>2. Head(messages) \in Fine /\ Tail(messages) \in Seq(Fine)
    BY <2>1, HeadTailProperties DEF Kept
  <2>3. deferred' \in Seq(Fine) /\ held' \in Seq(Fine) /\ seen' \in Seq(Fine)
    BY <2>1, <2>2, HandlesFine DEF Kept
  <2>. QED
    BY <2>1, <2>2, <2>3 DEF KeptNext
<1>4. CASE TakeDeferred
  <2>1. /\ deferred # <<>> /\ messages' = messages
        /\ Handles(Head(deferred), Tail(deferred))
    BY <1>4 DEF TakeDeferred, Handles, stream
  <2>2. Head(deferred) \in Fine /\ Tail(deferred) \in Seq(Fine)
    BY <2>1, HeadTailProperties DEF Kept
  <2>3. deferred' \in Seq(Fine) /\ held' \in Seq(Fine) /\ seen' \in Seq(Fine)
    BY <2>1, <2>2, HandlesFine
  <2>. QED
    BY <2>1, <2>3 DEF Kept, KeptNext
<1>5. CASE Read
  <2>1. InPoll /\ failure = "none" /\ UNCHANGED given
    BY <1>5, ReadStep DEF Read
  <2>2. Sound
    BY <2>1 DEF Sound, CallInv
  <2>3. PICK g \in Nat : Chunk(received', parsed', g)
    BY <1>5, <2>2, ReadEffect DEF Kept, StreamInv
  <2>4. messages' = messages \o [k \in 1 .. g |-> parsed + k] /\ \A k \in 1 .. g : parsed + k \in Fine
    BY <2>3 DEF Chunk, Taken
  <2>5. [k \in 1 .. g |-> parsed + k] \in Seq(Fine)
    BY <2>4
  <2>6. messages' \in Seq(Fine)
    BY <2>4, <2>5 DEF Kept
  <2>. QED
    BY <2>1, <2>6 DEF Kept, KeptNext, given
<1>6. CASE NativeWrites \/ NativeEnds \/ Deadline \/ Request \/ SubmitPrompt
  BY <1>1, <1>6 DEF NativeWrites, NativeEnds, Deadline, Request, SubmitPrompt, stream
<1>7. CASE Overdue \/ Select \/ GiveUp \/ Write \/ ReadEnd
  BY <1>1, <1>7 DEF Overdue, Select, GiveUp, Write, ReadEnd, stream
<1>8. CASE Reader
  BY <1>1, <1>8 DEF Reader, ReaderReads, ReaderTimesOut, LimitsStart, LimitsLine, LimitsEnd,
                    DocumentEnd, stream
<1>. QED
  BY <1>2, <1>3, <1>4, <1>5, <1>6, <1>7, <1>8 DEF TransportNext, ClientStep, Reader

\* What is read and not used yet, while the session lasts.
Bounded ==
  failure = "none" =>
    /\ received <= MaxBytes
    /\ mode \in {"codex", "claude"} => received - Length(parsed) <= MaxLine
LEMMA BoundedKept ==
  ASSUME LinesInv, CallInv, Kept, Bounded, Sound => StreamInv, TransportNext
  PROVE  Bounded'
<1>1. (failure' = "none" => failure = "none") /\ mode' = mode
  BY CallKept
<1>2. \A i \in 1 .. Len(out) : out'[i] = out[i]
  BY FineGrows
<1>3. parsed \in 0 .. Len(out) /\ parsed \in Nat /\ Len(out) \in Nat
  BY LineTyped DEF LinesInv
<1>4. CASE received' = received /\ parsed' = parsed
  <2>1. Length(parsed)' = Length(parsed)
    BY <1>2, <1>3, <1>4 DEF Length
  <2>. QED
    BY <1>1, <1>4, <2>1 DEF Bounded
<1>5. CASE Read
  <2>1. InPoll /\ failure = "none" /\ out' = out
    BY <1>5, ReadStep DEF Read, native
  <2>2. Sound
    BY <2>1 DEF Sound, CallInv
  <2>3. PICK g \in Nat : Chunk(received', parsed', g)
    BY <1>5, <2>2, ReadEffect DEF Kept, StreamInv
  <2>4. failure' = "none" => received' <= MaxBytes /\ received' - Length(parsed') <= MaxLine
    BY <2>3 DEF Chunk
  <2>5. Length(parsed)' = Length(parsed')
    BY <2>1 DEF Length
  <2>. QED
    BY <2>4, <2>5 DEF Bounded
<1>6. CASE ReaderReads
  <2>1. mode \notin {"codex", "claude"}
    BY <1>6 DEF ReaderReads, CallInv
  <2>2. received' > MaxBytes => failure' = "unavailable"
    BY <1>6 DEF ReaderReads, Return
  <2>3. received' \in Nat /\ MaxBytes \in Nat
    BY <1>6, LinesKept, TransportAssumption DEF ReaderReads, LinesInv
  <2>. QED
    BY <1>1, <2>1, <2>2, <2>3 DEF Bounded
<1>7. CASE LimitsLine
  BY <1>1, <1>7 DEF LimitsLine, Bounded
<1>8. CASE NativeWrites \/ NativeEnds \/ Deadline \/ Request \/ SubmitPrompt \/ Notification
  BY <1>4, <1>8 DEF NativeWrites, NativeEnds, Deadline, Request, SubmitPrompt, Notification, stream
<1>9. CASE Overdue \/ Select \/ GiveUp \/ Write \/ ReadEnd \/ Take \/ TakeDeferred
  BY <1>4, <1>9 DEF Overdue, Select, GiveUp, Write, ReadEnd, Take, TakeDeferred, stream
<1>10. CASE ReaderTimesOut \/ LimitsStart \/ LimitsEnd \/ DocumentEnd
  BY <1>4, <1>10 DEF ReaderTimesOut, LimitsStart, LimitsEnd, DocumentEnd, stream
<1>. QED
  BY <1>5, <1>6, <1>7, <1>8, <1>9, <1>10 DEF TransportNext, ClientStep

LEMMA BudgetKept ==
  ASSUME LinesInv, CallInv, BudgetInv, InputInv, Sound => StreamInv, TransportNext
  PROVE  BudgetInv'
<1>1. Kept /\ Bounded
  BY DEF BudgetInv, Kept, Bounded
<1>2. KeptNext /\ Bounded'
  BY <1>1, KeptKept, BoundedKept
<1>3. \A s \in Seq(Fine) : s \in Seq(Fine')
  BY FineGrows
<1>4. Kept'
  BY <1>2, <1>3 DEF KeptNext, Kept
<1>5. failure' = "none" => Len(pending') <= MaxPending
  BY InputKept DEF InputStep
<1>. QED
  BY <1>2, <1>4, <1>5 DEF BudgetInv, Kept, Bounded

-----------------------------------------------------------------------------
(* The stream.                                                                *)

(* A session that is sound was so before, and its client is one that polls.   *)
LEMMA SoundBefore ==
  ASSUME CallInv, TransportNext, Sound'
  PROVE  Sound /\ ~Reader /\ failure' \notin {"output budget", "bad event", "line budget"}
<1>1. mode' = mode /\ (failure # "none" => failure' = failure)
  BY CallKept
<1>2. Sound
  BY <1>1 DEF Sound
<1>3. ~Calling("read")
  BY <1>2 DEF CallInv, Sound
<1>4. ~Reader
  BY <1>3 DEF Reader, ReaderReads, ReaderTimesOut, LimitsStart, LimitsLine, LimitsEnd, DocumentEnd
<1>. QED
  BY <1>2, <1>4 DEF Sound

\* What a chunk does when it does not end the session.
WholeChunk(g) ==
  /\ g \in Nat /\ messages' = Taken(g) /\ parsed' = parsed + g
  /\ received' \in Nat /\ parsed' = Complete(received')
  /\ \A k \in 1 .. g : parsed + k \in Fine
LEMMA ReadSound ==
  ASSUME LinesInv, CallInv, Kept, Sound, StreamInv, Read, Sound'
  PROVE  \E g \in Nat : WholeChunk(g)
<1>1. PICK g \in Nat : Chunk(received', parsed', g)
  BY ReadEffect DEF Kept, StreamInv
<1>2. failure' \notin {"output budget", "bad event", "line budget"}
  BY DEF Sound
<1>3. received' \in Nat
  <2>1. received' \in received + 1 .. flow
    BY <1>1 DEF Chunk
  <2>2. received \in Nat /\ flow \in Nat
    <3>1. Length(Len(out)) \in Nat
      BY LineTyped DEF Length
    <3>. QED
      BY <3>1 DEF LinesInv
  <2>. QED
    BY <2>1, <2>2
<1>4. parsed' = Complete(received') /\ parsed' = parsed + g
  BY <1>1, <1>2 DEF Chunk
<1>. QED
  BY <1>1, <1>3, <1>4 DEF Chunk, WholeChunk

LEMMA ParsingKept ==
  ASSUME LinesInv, CallInv, Kept, StreamInv, TransportNext, Sound, Sound'
  PROVE  Parsing'
<1>0. Len(out) \in Nat /\ parsed \in Nat /\ parsed <= Len(out) /\ received \in Nat /\ received <= flow
      /\ flow \in Nat
  <2>1. Length(Len(out)) \in Nat
    BY LineTyped DEF Length
  <2>. QED
    BY <2>1, LineTyped DEF LinesInv
<1>1. CASE NativeWrites
  <2>1. PICK r \in Written :
           /\ Len(out') = Len(out) + 1 /\ out'[Len(out) + 1] = r
           /\ \A i \in 1 .. Len(out) : out'[i] = out[i]
           /\ flow < r.end
    BY <1>1, LineAdded
  <2>2. received' = received /\ parsed' = parsed
    BY <1>1 DEF NativeWrites, stream
  <2>3. r.end \in Nat
    BY DEF Written
  <2> SUFFICES ASSUME NEW i \in 1 .. Len(out')
               PROVE  (i <= parsed) = (out'[i].end <= received)
    BY <2>2 DEF Parsing
  <2>4. CASE i \in 1 .. Len(out)
    BY <2>1, <2>4 DEF Parsing, StreamInv
  <2>5. CASE i = Len(out) + 1
    <3>1. ~(i <= parsed)
      BY <1>0, <2>5
    <3>2. ~(r.end <= received)
      BY <1>0, <2>1, <2>3
    <3>. QED
      BY <2>1, <2>5, <3>1, <3>2
  <2>6. i \in 1 .. Len(out) \/ i = Len(out) + 1
    BY <1>0, <2>1
  <2>. QED
    BY <2>4, <2>5, <2>6
<1>2. CASE Read
  <2>1. PICK g \in Nat : WholeChunk(g)
    BY <1>2, ReadSound
  <2>2. received' \in Nat /\ parsed' = Complete(received')
    BY <2>1 DEF WholeChunk
  <2>3. \A i \in 1 .. Len(out) : (i <= Complete(received')) = (out[i].end <= received')
    BY <2>2, CompleteFacts
  <2>4. out' = out
    BY <1>2 DEF Read, native
  <2>. QED
    BY <2>2, <2>3, <2>4 DEF Parsing
<1>3. CASE out' = out /\ received' = received /\ parsed' = parsed
  BY <1>3 DEF Parsing, StreamInv
<1>4. CASE NativeEnds \/ Deadline \/ Request \/ SubmitPrompt \/ Notification
  BY <1>3, <1>4 DEF NativeEnds, Deadline, Request, SubmitPrompt, Notification, native, stream
<1>5. CASE Overdue \/ Select \/ GiveUp \/ Write \/ ReadEnd \/ Take \/ TakeDeferred
  BY <1>3, <1>5 DEF Overdue, Select, GiveUp, Write, ReadEnd, Take, TakeDeferred, native, stream
<1>. QED
  BY <1>1, <1>2, <1>4, <1>5, SoundBefore DEF TransportNext, ClientStep, Reader

(* The messages are an interval that ends where parsing has got.              *)
LEMMA WaitingFacts ==
  ASSUME LinesInv, Kept, Waiting
  PROVE  /\ Rising(messages) /\ Range(messages) \subseteq 1 .. parsed
         /\ messages \in Seq(Nat) /\ Len(messages) \in Nat /\ parsed \in Nat
         /\ messages # <<>> =>
              /\ Head(messages) \in 1 .. parsed /\ Tail(messages) \in Seq(Nat)
              /\ \A y \in Range(Tail(messages)) : Head(messages) < y
              /\ Range(messages) = Range(Tail(messages)) \cup {Head(messages)}
<1>1. parsed \in Nat
  BY LineTyped DEF LinesInv
<1>2. Fine \subseteq Nat
  BY DEF Fine
<1>3. messages \in Seq(Nat)
  <2>1. messages \in Seq(Fine)
    BY DEF Kept
  <2>. QED
    BY <1>2, <2>1, SeqOver
<1>4. Len(messages) \in Nat /\ DOMAIN messages = 1 .. Len(messages)
  BY <1>3
<1>5. \A k \in 1 .. Len(messages) : messages[k] \in 1 .. parsed
  BY <1>1, <1>4 DEF Waiting
<1>6. Range(messages) \subseteq 1 .. parsed
  BY <1>4, <1>5 DEF Range
<1>7. Rising(messages)
  <2> SUFFICES ASSUME NEW j \in 1 .. Len(messages), NEW k \in 1 .. Len(messages), j < k
               PROVE  messages[j] < messages[k]
    BY <1>4 DEF Rising
  <2>1. messages[j] = parsed - Len(messages) + j /\ messages[k] = parsed - Len(messages) + k
    BY DEF Waiting
  <2>. QED
    BY <1>1, <1>4, <2>1
<1>8. ASSUME messages # <<>>
      PROVE  /\ Head(messages) \in 1 .. parsed /\ Tail(messages) \in Seq(Nat)
             /\ \A y \in Range(Tail(messages)) : Head(messages) < y
             /\ Range(messages) = Range(Tail(messages)) \cup {Head(messages)}
  <2>1. /\ Tail(messages) \in Seq(Nat)
        /\ Range(messages) = Range(Tail(messages)) \cup {Head(messages)}
    BY <1>3, <1>8, RangeFacts
  <2>2. \A y \in Range(Tail(messages)) : Head(messages) < y
    BY <1>3, <1>7, <1>8, RisingFacts
  <2>. QED
    BY <1>6, <2>1, <2>2
<1>. QED
  BY <1>1, <1>3, <1>4, <1>6, <1>7, <1>8

LEMMA WaitingKept ==
  ASSUME LinesInv, CallInv, Kept, StreamInv, TransportNext, Sound, Sound'
  PROVE  Waiting'
<1>0. Waiting
  BY DEF StreamInv
<1>1. /\ messages \in Seq(Nat) /\ Len(messages) \in Nat /\ parsed \in Nat
      /\ Len(messages) <= parsed
      /\ \A k \in 1 .. Len(messages) : messages[k] = parsed - Len(messages) + k
  BY <1>0, WaitingFacts DEF Waiting
<1>2. CASE Read
  <2>1. PICK g \in Nat : WholeChunk(g)
    BY <1>2, ReadSound
  <2>2. messages' = messages \o [k \in 1 .. g |-> parsed + k] /\ parsed' = parsed + g
    BY <2>1 DEF WholeChunk, Taken
  <2>3. PICK new \in Seq(Nat) : /\ new = [k \in 1 .. g |-> parsed + k] /\ Len(new) = g
                                /\ \A k \in 1 .. g : new[k] = parsed + k
    <3>1. [k \in 1 .. g |-> parsed + k] \in Seq(Nat)
      BY <1>1
    <3>2. Len([k \in 1 .. g |-> parsed + k]) = g
      OBVIOUS
    <3>. QED
      BY <3>1, <3>2
  <2>4. Len(messages') = Len(messages) + g
    BY <1>1, <2>2, <2>3, ConcatProperties
  <2>5. ASSUME NEW k \in 1 .. Len(messages) + g
        PROVE  messages'[k] = parsed + g - (Len(messages) + g) + k
    <3>1. messages'[k] = IF k <= Len(messages) THEN messages[k] ELSE new[k - Len(messages)]
      BY <1>1, <2>2, <2>3, ConcatProperties
    <3>2. CASE k <= Len(messages)
      BY <1>1, <3>1, <3>2
    <3>3. CASE ~(k <= Len(messages))
      <4>1. k - Len(messages) \in 1 .. g
        BY <1>1, <3>3
      <4>2. messages'[k] = parsed + (k - Len(messages))
        BY <2>3, <3>1, <3>3, <4>1
      <4>. QED
        BY <1>1, <4>2
    <3>. QED
      BY <3>2, <3>3
  <2>6. Len(messages') <= parsed'
    BY <1>1, <2>2, <2>4
  <2>7. \A k \in 1 .. Len(messages') : messages'[k] = parsed' - Len(messages') + k
    <3> SUFFICES ASSUME NEW k \in 1 .. Len(messages')
                 PROVE  messages'[k] = parsed' - Len(messages') + k
      OBVIOUS
    <3>1. k \in 1 .. Len(messages) + g
      BY <2>4
    <3>2. messages'[k] = parsed + g - (Len(messages) + g) + k
      BY <2>5, <3>1
    <3>3. parsed' = parsed + g
      BY <2>2
    <3>4. parsed' - Len(messages') = parsed + g - (Len(messages) + g)
      BY <1>1, <2>4, <3>3
    <3>. QED
      BY <3>2, <3>4
  <2>. QED
    BY <2>6, <2>7 DEF Waiting
<1>3. CASE Take
  <2>1. messages # <<>> /\ messages' = Tail(messages) /\ parsed' = parsed
    BY <1>3 DEF Take, Handling
  <2>2. PICK u \in Seq(Nat) : /\ u = Tail(messages) /\ Len(u) = Len(messages) - 1
                              /\ \A k \in 1 .. Len(u) : u[k] = messages[k + 1]
    <3>1. /\ Tail(messages) \in Seq(Nat) /\ Len(Tail(messages)) = Len(messages) - 1
          /\ \A k \in 1 .. Len(Tail(messages)) : Tail(messages)[k] = messages[k + 1]
      <4>1. messages \in Seq(Nat) /\ messages # <<>>
        BY <1>1, <2>1
      <4>. QED
        BY <4>1, TailFacts
    <3>. QED
      BY <3>1
  <2>3. ASSUME NEW k \in 1 .. Len(u) PROVE u[k] = parsed - Len(u) + k
    <3>1. k + 1 \in 1 .. Len(messages)
      BY <1>1, <2>2
    <3>2. u[k] = parsed - Len(messages) + (k + 1)
      BY <1>1, <2>2, <3>1
    <3>. QED
      BY <1>1, <2>2, <3>2
  <2>4. Len(u) <= parsed
    BY <1>1, <2>2
  <2>. QED
    BY <2>1, <2>2, <2>3, <2>4 DEF Waiting
<1>4. CASE messages' = messages /\ parsed' = parsed
  BY <1>0, <1>4 DEF Waiting
<1>5. CASE NativeWrites \/ NativeEnds \/ Deadline \/ Request \/ SubmitPrompt \/ Notification
  BY <1>4, <1>5 DEF NativeWrites, NativeEnds, Deadline, Request, SubmitPrompt, Notification, stream
<1>6. CASE Overdue \/ Select \/ GiveUp \/ Write \/ ReadEnd \/ TakeDeferred
  BY <1>4, <1>6 DEF Overdue, Select, GiveUp, Write, ReadEnd, TakeDeferred, stream
<1>. QED
  BY <1>2, <1>3, <1>5, <1>6, SoundBefore DEF TransportNext, ClientStep, Reader

\* No output that was somewhere is nowhere after a step.
NoneLost == \A i \in Everything : out[i].kind \in {"output", "turn"} => i \in Everything'

(* What the acknowledgement loop keeps, and puts back, stays in order.        *)
LEMMA AckMoves ==
  ASSUME Kept, call \in SomeCall, NEW i \in Fine, NEW rest \in Seq(Fine), OnAck(i, rest),
         Sound',
         Rising(held), Rising(rest), Before(held, rest),
         \A y \in Range(held) : y < i, \A y \in Range(rest) : i < y
  PROVE  /\ seen' = seen
         /\ Rising(held') /\ Rising(deferred') /\ Before(held', deferred')
         /\ Range(held') \cup Range(deferred') \subseteq Range(held) \cup Range(rest) \cup {i}
         /\ Range(held) \cup Range(rest) \subseteq Range(held') \cup Range(deferred')
         /\ out[i].kind \in {"output", "turn"} => i \in Range(held') \cup Range(deferred')
         /\ held' # <<>> => Calling("ack")'
<1>1. Fine \subseteq Nat /\ held \in Seq(Fine)
  BY DEF Fine, Kept
<1>2. held \in Seq(Nat) /\ rest \in Seq(Nat) /\ i \in Nat
  BY <1>1, SeqOver
<1>3. PICK kept :
        /\ \/ kept = held /\ out[i].kind \notin {"output", "turn"}
           \/ kept = Append(held, i)
        /\ \/ deferred' = kept \o rest /\ held' = <<>>
           \/ /\ deferred' = rest /\ held' = kept
              /\ call' = [call EXCEPT !.waiting = call.waiting \ Acknowledges(i)]
  <2>1. out[i].kind # "other setup"
    BY DEF OnAck, Fail, Sound
  <2>. QED
    BY <2>1 DEF OnAck, PutBack, Keeps
<1>4. /\ Range(Append(held, i)) = Range(held) \cup {i} /\ Append(held, i) \in Seq(Nat)
      /\ Range(held) \subseteq Nat /\ Range(rest) \subseteq Nat
  BY <1>2, RangeFacts
<1>5. Rising(Append(held, i))
  BY <1>2, RisingFacts
<1>6. /\ kept \in Seq(Nat) /\ Rising(kept)
      /\ Range(kept) \subseteq Range(held) \cup {i} /\ Range(held) \subseteq Range(kept)
      /\ out[i].kind \in {"output", "turn"} => i \in Range(kept)
  BY <1>2, <1>3, <1>4, <1>5
<1>7. Before(kept, rest)
  BY <1>6 DEF Before
<1>8. Range(kept \o rest) = Range(kept) \cup Range(rest)
  BY <1>2, <1>6, RangeFacts
<1>9. Rising(kept \o rest)
  BY <1>2, <1>6, <1>7, RisingFacts
<1>10. seen' = seen /\ Calling("ack")
  BY DEF OnAck
<1>11. CASE deferred' = kept \o rest /\ held' = <<>>
  <2>1. Range(held') = {}
    BY <1>11 DEF Range
  <2>2. Rising(held') /\ Before(held', deferred')
    BY <1>11, <2>1 DEF Rising, Before
  <2>. QED
    BY <1>6, <1>8, <1>9, <1>10, <1>11, <2>1, <2>2
<1>12. CASE /\ deferred' = rest /\ held' = kept
            /\ call' = [call EXCEPT !.waiting = call.waiting \ Acknowledges(i)]
  <2>1. Calling("ack")'
    BY <1>10, <1>12, LessWaiting DEF Calling, Continues
  <2>. QED
    BY <1>6, <1>7, <1>10, <1>12, <2>1
<1>. QED
  BY <1>3, <1>11, <1>12

(* What is in the four places, and that there it is in order.                 *)
LEMMA OrderedFacts ==
  ASSUME LinesInv, Kept, StreamInv
  PROVE  /\ Fine \subseteq Nat
         /\ seen \in Seq(Nat) /\ held \in Seq(Nat) /\ deferred \in Seq(Nat)
         /\ Range(seen) \cup Range(held) \cup Range(deferred) \cup Range(messages) \subseteq Nat
         /\ messages # <<>> =>
              /\ Head(messages) \in Fine
              /\ \A x \in Range(seen) \cup Range(held) \cup Range(deferred) : x < Head(messages)
<1>1. Fine \subseteq Nat
  BY DEF Fine
<1>2. seen \in Seq(Nat) /\ held \in Seq(Nat) /\ deferred \in Seq(Nat) /\ messages \in Seq(Nat)
  BY <1>1, SeqOver DEF Kept
<1>3. /\ Range(seen) \subseteq Nat /\ Range(held) \subseteq Nat
      /\ Range(deferred) \subseteq Nat /\ Range(messages) \subseteq Nat
  BY <1>2, RangeFacts
<1>4. ASSUME messages # <<>>
      PROVE  /\ Head(messages) \in Fine
             /\ \A x \in Range(seen) \cup Range(held) \cup Range(deferred) : x < Head(messages)
  <2>1. Head(messages) \in Fine
    BY <1>4, HeadTailProperties DEF Kept
  <2>2. Head(messages) \in Range(messages)
    BY <1>4, WaitingFacts DEF StreamInv
  <2>. QED
    BY <2>1, <2>2 DEF StreamInv, Ordered, Before
<1>. QED
  BY <1>1, <1>2, <1>3, <1>4

LEMMA OrderedTake ==
  ASSUME LinesInv, CallInv, Kept, StreamInv, Take, Sound'
  PROVE  Ordered' /\ NoneLost
<1>0. PICK i : i = Head(messages)
  OBVIOUS
<1>1. /\ messages # <<>> /\ messages' = Tail(messages) /\ Handles(i, deferred)
      /\ parsed' = parsed /\ out' = out /\ (Calling("ack") => deferred = <<>>) /\ InPoll
  BY <1>0 DEF Take, Handling, Polling, Handles, native
<1>2. /\ i \in 1 .. parsed /\ i \in Fine
      /\ Range(messages) = Range(messages') \cup {i}
      /\ \A y \in Range(messages') : i < y
  BY <1>0, <1>1, WaitingFacts, OrderedFacts DEF StreamInv
<1>3. /\ Range(seen) \subseteq Nat /\ Range(held) \subseteq Nat
      /\ Range(deferred) \subseteq Nat /\ Range(messages) \subseteq Nat /\ Fine \subseteq Nat
      /\ seen \in Seq(Nat) /\ held \in Seq(Nat) /\ deferred \in Seq(Nat) /\ i \in Nat
  BY <1>2, OrderedFacts
<1>4. \A x \in Range(seen) \cup Range(held) \cup Range(deferred) : x < i
  BY <1>0, <1>1, OrderedFacts
<1>5. Ordered
  BY DEF StreamInv
<1>6. /\ Before(seen, messages') /\ Before(held, messages') /\ Before(deferred, messages')
  BY <1>2, <1>5 DEF Ordered, Before
<1>7. call \in SomeCall /\ failure = "none"
  BY <1>1, Running
<1>8. CASE given' = given /\ out[i].kind \notin {"output", "turn"}
  <2>1. seen' = seen /\ held' = held /\ deferred' = deferred
    BY <1>8 DEF given
  <2>2. Ordered'
    <3>1. parsed' = parsed
      BY <1>1
    <3>. QED
      BY <1>5, <1>6, <2>1, <3>1 DEF Ordered
  <2>3. NoneLost
    BY <1>2, <1>8, <2>1 DEF NoneLost, Everything
  <2>. QED
    BY <2>2, <2>3
<1>9. CASE deferred' = Append(deferred, i) /\ held' = held /\ seen' = seen
  <2>1. Range(deferred') = Range(deferred) \cup {i}
    <3>1. Range(Append(deferred, i)) = Range(deferred) \cup {i}
      <4>1. deferred \in Seq(Nat) /\ i \in Nat
        BY <1>3
      <4>. QED
        BY <4>1, RangeAppend
    <3>. QED
      BY <1>9, <3>1
  <2>2. Rising(deferred')
    BY <1>3, <1>4, <1>5, <1>9, RisingFacts DEF Ordered
  <2>3. Before(seen, deferred') /\ Before(held, deferred') /\ Before(deferred', messages')
    BY <1>2, <1>4, <1>5, <1>6, <2>1 DEF Ordered, Before
  <2>4. Ordered'
    BY <1>1, <1>2, <1>5, <1>6, <1>9, <2>1, <2>2, <2>3 DEF Ordered
  <2>5. NoneLost
    BY <1>2, <1>9, <2>1 DEF NoneLost, Everything
  <2>. QED
    BY <2>4, <2>5
<1>10. CASE Refuse(i)
  BY <1>8, <1>10 DEF Refuse, IsServer
<1>11. CASE OnRequest(i)
  <2>1. CASE out[i].id = call.id /\ UNCHANGED given
    <3>1. call.id # 0
      BY <1>11 DEF OnRequest, CallInv
    <3>2. i \in 1 .. Len(out)
      BY <1>2 DEF Fine
    <3>3. out[i].kind \in {"response", "rejected"}
      BY <2>1, <3>1, <3>2 DEF LinesInv
    <3>. QED
      BY <1>8, <2>1, <3>3
  <2>. QED
    BY <1>9, <1>11, <2>1 DEF OnRequest
<1>12. CASE OnNotification(i)
  <2>1. seen' = Append(seen, i) /\ held' = held /\ deferred' = deferred /\ Calling("notification")
    BY <1>12 DEF OnNotification
  <2>2. held = <<>> /\ deferred = <<>>
    BY <1>7, <2>1 DEF StreamInv, Places, Calling
  <2>3. Range(seen') = Range(seen) \cup {i} /\ Range(held) = {} /\ Range(deferred) = {}
    <3>1. Range(seen') = Range(seen) \cup {i}
      <4>1. Range(Append(seen, i)) = Range(seen) \cup {i}
        <5>1. seen \in Seq(Nat) /\ i \in Nat
          BY <1>3
        <5>. QED
          BY <5>1, RangeAppend
      <4>. QED
        BY <2>1, <4>1
    <3>. QED
      BY <2>2, <3>1 DEF Range
  <2>4. Rising(seen')
    BY <1>3, <1>4, <1>5, <2>1, RisingFacts DEF Ordered
  <2>5. Before(seen', held) /\ Before(seen', deferred) /\ Before(seen', messages')
    BY <1>2, <1>6, <2>3 DEF Before
  <2>6. Ordered'
    BY <1>1, <1>2, <1>5, <1>6, <2>1, <2>3, <2>4, <2>5 DEF Ordered
  <2>7. NoneLost
    BY <1>2, <2>1, <2>3 DEF NoneLost, Everything
  <2>. QED
    BY <2>6, <2>7
<1>13. CASE OnAck(i, deferred)
  <2>1. deferred = <<>>
    BY <1>1, <1>13 DEF OnAck
  <2>2. Range(deferred) = {} /\ deferred \in Seq(Fine)
    BY <2>1 DEF Range, Kept
  <2>3. \A y \in Range(held) : y < i
    BY <1>4
  <2>4. /\ seen' = seen
        /\ Rising(held') /\ Rising(deferred') /\ Before(held', deferred')
        /\ Range(held') \cup Range(deferred') \subseteq Range(held) \cup Range(deferred) \cup {i}
        /\ Range(held) \cup Range(deferred) \subseteq Range(held') \cup Range(deferred')
        /\ out[i].kind \in {"output", "turn"} => i \in Range(held') \cup Range(deferred')
    BY <1>2, <1>5, <1>7, <1>13, <2>2, <2>3, AckMoves DEF Ordered
  <2>5. \A x \in Range(seen) : \A y \in Range(held) \cup {i} : x < y
    BY <1>4, <1>5 DEF Ordered, Before
  <2>6. \A x \in Range(held) \cup {i} : \A y \in Range(messages') : x < y
    BY <1>2, <1>6 DEF Before
  <2>7. /\ Before(seen, held') /\ Before(seen, deferred')
        /\ Before(held', messages') /\ Before(deferred', messages')
    BY <2>2, <2>4, <2>5, <2>6 DEF Before
  <2>8. Range(seen) \cup Range(held') \cup Range(deferred') \subseteq 1 .. parsed
    BY <1>2, <1>5, <2>4 DEF Ordered
  <2>9. Ordered'
    BY <1>1, <1>5, <1>6, <2>4, <2>7, <2>8 DEF Ordered
  <2>10. NoneLost
    BY <1>2, <2>4 DEF NoneLost, Everything
  <2>. QED
    BY <2>9, <2>10
<1>. QED
  BY <1>1, <1>10, <1>11, <1>12, <1>13 DEF Handles

LEMMA OrderedTakeDeferred ==
  ASSUME LinesInv, CallInv, Kept, StreamInv, TakeDeferred, Sound'
  PROVE  Ordered' /\ NoneLost
<1>0. PICK i, rest : i = Head(deferred) /\ rest = Tail(deferred)
  OBVIOUS
<1>1. /\ deferred # <<>> /\ messages' = messages /\ parsed' = parsed /\ OnAck(i, rest)
  BY <1>0 DEF TakeDeferred, stream
<1>2. call \in SomeCall
  <2>1. InPoll
    BY DEF TakeDeferred, InPoll, Calling
  <2>. QED
    BY <2>1, Running
<1>3. Ordered
  BY DEF StreamInv
<1>4. /\ Fine \subseteq Nat /\ deferred \in Seq(Nat) /\ Range(seen) \subseteq Nat
      /\ Range(held) \subseteq Nat /\ Range(deferred) \subseteq Nat /\ Range(messages) \subseteq Nat
  BY OrderedFacts
<1>5. i \in Fine /\ rest \in Seq(Fine)
  BY <1>0, <1>1, HeadTailProperties DEF Kept
<1>6. Range(deferred) = Range(rest) \cup {i}
  BY <1>0, <1>1, <1>4, RangeFacts
<1>7. Rising(rest) /\ \A y \in Range(rest) : i < y
  <2>1. Rising(deferred)
    BY <1>3 DEF Ordered
  <2>. QED
    BY <1>0, <1>1, <1>4, <2>1, RisingFacts
<1>8. Before(held, rest) /\ \A y \in Range(held) : y < i
  BY <1>3, <1>6 DEF Ordered, Before
<1>9. Rising(held)
  BY <1>3 DEF Ordered
<1>10. /\ seen' = seen
       /\ Rising(held') /\ Rising(deferred') /\ Before(held', deferred')
       /\ Range(held') \cup Range(deferred') \subseteq Range(held) \cup Range(rest) \cup {i}
       /\ Range(held) \cup Range(rest) \subseteq Range(held') \cup Range(deferred')
       /\ out[i].kind \in {"output", "turn"} => i \in Range(held') \cup Range(deferred')
  BY <1>1, <1>2, <1>5, <1>7, <1>8, <1>9, AckMoves
<1>11. Range(held') \cup Range(deferred') \subseteq Range(held) \cup Range(deferred)
  BY <1>6, <1>10
<1>12. /\ Before(seen, held') /\ Before(seen, deferred')
       /\ Before(held', messages) /\ Before(deferred', messages)
  BY <1>3, <1>11 DEF Ordered, Before
<1>13. Range(seen) \cup Range(held') \cup Range(deferred') \subseteq 1 .. parsed
  BY <1>3, <1>11 DEF Ordered
<1>14. Ordered'
  BY <1>1, <1>3, <1>10, <1>12, <1>13 DEF Ordered
<1>15. NoneLost
  BY <1>1, <1>6, <1>10 DEF NoneLost, Everything
<1>. QED
  BY <1>14, <1>15

LEMMA OrderedNotification ==
  ASSUME LinesInv, CallInv, Kept, StreamInv, Notification
  PROVE  Ordered' /\ NoneLost
<1>1. Ordered /\ messages' = messages /\ parsed' = parsed
  BY DEF Notification, StreamInv, stream
<1>2. CASE UNCHANGED given
  BY <1>1, <1>2 DEF Ordered, NoneLost, Everything, given
<1>3. CASE PutAside
  <2>0. PICK i, rest : i = Head(deferred) /\ rest = Tail(deferred)
    OBVIOUS
  <2>1. deferred # <<>> /\ deferred' = rest /\ seen' = Append(seen, i) /\ held' = held
    BY <1>3, <2>0 DEF Notification, PutAside
  <2>2. held = <<>>
    BY DEF Notification, StreamInv, Places, Calling, Idle
  <2>3. /\ Fine \subseteq Nat /\ deferred \in Seq(Nat) /\ seen \in Seq(Nat)
        /\ Range(seen) \subseteq Nat /\ Range(deferred) \subseteq Nat /\ Range(messages) \subseteq Nat
    BY OrderedFacts
  <2>4. i \in Nat
    <3>1. i \in Fine
      BY <2>0, <2>1, HeadTailProperties DEF Kept
    <3>. QED
      BY <2>3, <3>1
  <2>5. Range(deferred) = Range(rest) \cup {i}
    BY <2>0, <2>1, <2>3, RangeFacts
  <2>6. Rising(rest) /\ \A y \in Range(rest) : i < y
    <3>1. Rising(deferred)
      BY <1>1 DEF Ordered
    <3>. QED
      BY <2>0, <2>1, <2>3, <3>1, RisingFacts
  <2>7. \A y \in Range(seen) : y < i
    BY <1>1, <2>5 DEF Ordered, Before
  <2>8. Rising(Append(seen, i)) /\ Range(Append(seen, i)) = Range(seen) \cup {i}
    <3>1. Rising(seen)
      BY <1>1 DEF Ordered
    <3>2. Rising(Append(seen, i))
      BY <2>3, <2>4, <2>7, <3>1, RisingFacts
    <3>3. Range(Append(seen, i)) = Range(seen) \cup {i}
      <4>1. seen \in Seq(Nat)
        BY <2>3
      <4>. QED
        BY <2>4, <4>1, RangeAppend
    <3>. QED
      BY <3>2, <3>3
  <2>9. Range(held) = {}
    BY <2>2 DEF Range
  <2>10. Range(seen') = Range(seen) \cup {i} /\ Rising(seen')
    BY <2>1, <2>8
  <2>11. /\ Before(seen', held') /\ Before(seen', deferred') /\ Before(seen', messages)
         /\ Before(held', deferred') /\ Before(held', messages) /\ Before(deferred', messages)
    BY <1>1, <2>1, <2>5, <2>6, <2>9, <2>10 DEF Ordered, Before
  <2>12. Range(seen') \cup Range(held') \cup Range(deferred') \subseteq 1 .. parsed
    BY <1>1, <2>1, <2>5, <2>10 DEF Ordered
  <2>13. Ordered'
    BY <1>1, <2>1, <2>6, <2>10, <2>11, <2>12 DEF Ordered
  <2>14. NoneLost
    BY <1>1, <2>1, <2>5, <2>10 DEF NoneLost, Everything
  <2>. QED
    BY <2>13, <2>14
<1>. QED
  BY <1>2, <1>3 DEF Notification

\* The lines a step took out of the buffer are in some place.
NewPlaced == \A i \in 1 .. parsed' : i \in 1 .. parsed \/ i \in Everything'

LEMMA ReadRange ==
  ASSUME LinesInv, CallInv, Kept, StreamInv, Read, Sound, Sound'
  PROVE  \E g \in Nat : /\ parsed' = parsed + g /\ parsed \in Nat
                        /\ Range(messages') = Range(messages) \cup (parsed + 1 .. parsed + g)
<1>1. PICK g \in Nat : WholeChunk(g)
  BY ReadSound
<1>2. /\ messages' = messages \o [k \in 1 .. g |-> parsed + k] /\ parsed' = parsed + g
  BY <1>1 DEF WholeChunk, Taken
<1>3. parsed \in Nat /\ messages \in Seq(Nat)
  BY WaitingFacts DEF StreamInv
<1>4. PICK new : new = [k \in 1 .. g |-> parsed + k]
  OBVIOUS
<1>5. new \in Seq(Nat) /\ Range(new) = parsed + 1 .. parsed + g
  <2>1. new \in Seq(Nat) /\ DOMAIN new = 1 .. g /\ \A k \in 1 .. g : new[k] = parsed + k
    BY <1>3, <1>4
  <2>2. ASSUME NEW y PROVE y \in Range(new) <=> y \in parsed + 1 .. parsed + g
    <3>1. y \in Range(new) <=> \E k \in 1 .. g : y = parsed + k
      BY <2>1 DEF Range
    <3>2. ASSUME NEW k \in 1 .. g PROVE parsed + k \in parsed + 1 .. parsed + g
      BY <1>3
    <3>3. ASSUME y \in parsed + 1 .. parsed + g PROVE y - parsed \in 1 .. g /\ y = parsed + (y - parsed)
      BY <1>3, <3>3
    <3>. QED
      BY <3>1, <3>2, <3>3
  <2>. QED
    BY <2>1, <2>2
<1>6. Range(messages') = Range(messages) \cup Range(new)
  <2>1. messages \in Seq(Nat) /\ new \in Seq(Nat)
    BY <1>3, <1>5
  <2>2. Range(messages \o new) = Range(messages) \cup Range(new)
    BY <2>1, RangeConcat
  <2>. QED
    BY <1>2, <1>4, <2>2
<1>7. Range(messages') = Range(messages) \cup (parsed + 1 .. parsed + g)
  BY <1>5, <1>6
<1>8. parsed' = parsed + g
  BY <1>2
<1>. QED
  BY <1>3, <1>7, <1>8

LEMMA OrderedRead ==
  ASSUME LinesInv, CallInv, Kept, StreamInv, Read, Sound, Sound'
  PROVE  Ordered' /\ NoneLost /\ NewPlaced
<1>1. PICK g \in Nat : /\ parsed' = parsed + g /\ parsed \in Nat
                       /\ Range(messages') = Range(messages) \cup (parsed + 1 .. parsed + g)
  BY ReadRange
<1>2. seen' = seen /\ held' = held /\ deferred' = deferred
  BY DEF Read, given
<1>3. Ordered
  BY DEF StreamInv
<1>4. \A x \in 1 .. parsed : \A y \in parsed + 1 .. parsed + g : x < y
  BY <1>1
<1>5. Before(seen, messages') /\ Before(held, messages') /\ Before(deferred, messages')
  BY <1>1, <1>3, <1>4 DEF Ordered, Before
<1>6. \A x \in 1 .. parsed : x \in 1 .. parsed + g
  BY <1>1
<1>7. Range(seen) \cup Range(held) \cup Range(deferred) \subseteq 1 .. parsed'
  BY <1>1, <1>3, <1>6 DEF Ordered
<1>8. Ordered'
  BY <1>2, <1>3, <1>5, <1>7 DEF Ordered
<1>9. NoneLost
  BY <1>1, <1>2 DEF NoneLost, Everything
<1>10. NewPlaced
  <2>1. \A i \in 1 .. parsed + g : i \in 1 .. parsed \/ i \in parsed + 1 .. parsed + g
    BY <1>1
  <2>. QED
    BY <1>1, <2>1 DEF NewPlaced, Everything
<1>. QED
  BY <1>8, <1>9, <1>10

LEMMA OrderedKept ==
  ASSUME LinesInv, CallInv, Kept, StreamInv, CoverInv, TransportNext, Sound, Sound'
  PROVE  Ordered' /\ CoverInv'
<1>1. /\ \A i \in 1 .. Len(out) : out'[i] = out[i]
      /\ parsed \in Nat /\ parsed <= Len(out) /\ Len(out) \in Nat
  BY FineGrows, LineTyped DEF LinesInv
<1>2. ASSUME NoneLost, NewPlaced
      PROVE  CoverInv'
  <2> SUFFICES ASSUME NEW i \in 1 .. parsed', out'[i].kind \in {"output", "turn"}
               PROVE  i \in Everything'
    BY DEF CoverInv
  <2>1. CASE i \in 1 .. parsed
    <3>1. i \in 1 .. Len(out)
      BY <1>1, <2>1
    <3>. QED
      BY <1>1, <1>2, <2>1, <3>1 DEF CoverInv, NoneLost
  <2>. QED
    BY <1>2, <2>1 DEF NewPlaced
<1>3. parsed' = parsed => NewPlaced
  BY DEF NewPlaced
<1>4. CASE parsed' = parsed /\ messages' = messages /\ UNCHANGED given
  <2>1. Ordered
    BY DEF StreamInv
  <2>2. Ordered' /\ NoneLost
    BY <1>4, <2>1 DEF Ordered, NoneLost, Everything, given
  <2>. QED
    BY <1>2, <1>3, <1>4, <2>2
<1>5. CASE Read
  BY <1>2, <1>5, OrderedRead
<1>6. CASE Take
  <2>1. parsed' = parsed
    BY <1>6 DEF Take
  <2>. QED
    BY <1>2, <1>3, <1>6, <2>1, OrderedTake
<1>7. CASE TakeDeferred
  <2>1. parsed' = parsed
    BY <1>7 DEF TakeDeferred, stream
  <2>. QED
    BY <1>2, <1>3, <1>7, <2>1, OrderedTakeDeferred
<1>8. CASE Notification
  <2>1. parsed' = parsed
    BY <1>8 DEF Notification, stream
  <2>. QED
    BY <1>2, <1>3, <1>8, <2>1, OrderedNotification
<1>9. CASE NativeWrites \/ NativeEnds \/ Deadline \/ Request \/ SubmitPrompt
  BY <1>4, <1>9 DEF NativeWrites, NativeEnds, Deadline, Request, SubmitPrompt, stream
<1>10. CASE Overdue \/ Select \/ GiveUp \/ Write \/ ReadEnd
  BY <1>4, <1>10 DEF Overdue, Select, GiveUp, Write, ReadEnd, stream
<1>. QED
  BY <1>5, <1>6, <1>7, <1>8, <1>9, <1>10, SoundBefore DEF TransportNext, ClientStep, Reader

(* When the end of the output is read, what is parsed is all that was read
   but for a rest, and without a rest all of it. *)
LEMMA NoRest ==
  ASSUME LinesInv, Parsing, ~(Buffered > 0)
  PROVE  Length(parsed) = received
<1>0. /\ Len(out) \in Nat /\ received \in Nat /\ parsed \in Nat /\ parsed <= Len(out)
  <2>1. Length(Len(out)) \in Nat
    BY LineTyped DEF Length
  <2>2. flow \in Nat
    BY <2>1 DEF LinesInv
  <2>. QED
    BY <2>2, LineTyped DEF LinesInv
<1>1. /\ Complete(received) \in 0 .. Len(out)
      /\ \A i \in 1 .. Len(out) : (i <= Complete(received)) = (out[i].end <= received)
  BY <1>0, CompleteFacts
<1>2. \A i \in 1 .. Len(out) : (i <= Complete(received)) = (i <= parsed)
  BY <1>1 DEF Parsing
<1>3. Complete(received) = parsed
  <2>1. PICK c \in 0 .. Len(out) : c = Complete(received)
    BY <1>1
  <2>2. \A i \in 1 .. Len(out) : (i <= c) = (i <= parsed)
    BY <1>2, <2>1
  <2>3. c \in Nat /\ c <= Len(out)
    BY <1>0
  <2>4. ~(c < parsed)
    <3>1. c < parsed => /\ parsed \in 1 .. Len(out) /\ parsed <= parsed /\ ~(parsed <= c)
      BY <1>0, <2>3
    <3>. QED
      BY <2>2, <3>1
  <2>5. ~(parsed < c)
    <3>1. parsed < c => /\ c \in 1 .. Len(out) /\ c <= c /\ ~(c <= parsed)
      BY <1>0, <2>3
    <3>. QED
      BY <2>2, <3>1
  <2>6. c = parsed
    BY <1>0, <2>3, <2>4, <2>5
  <2>. QED
    BY <2>1, <2>6
<1>4. Length(parsed) \in Nat /\ Length(parsed) <= received
  <2>1. CASE parsed = 0
    BY <1>0, <2>1 DEF Length
  <2>2. CASE parsed # 0
    <3>1. parsed \in 1 .. Len(out) /\ parsed <= parsed
      BY <1>0, <2>2
    <3>2. out[parsed].end <= received /\ out[parsed].end \in Nat /\ Length(parsed) = out[parsed].end
      BY <3>1, LineTyped DEF Parsing
    <3>. QED
      BY <3>2
  <2>. QED
    BY <2>1, <2>2
<1>5. ~(received - Length(parsed) > 0)
  BY <1>3 DEF Buffered
<1>. QED
  BY <1>0, <1>4, <1>5

(* The stream is reported closed when all of it was parsed, and the session
   has ended for good. *)
LEMMA ClosedKept ==
  ASSUME LinesInv, CallInv, StreamInv, TransportNext, ~Reader
  PROVE  failure' = "closed" => ended' /\ Length(parsed)' = flow'
<1>1. failure # "closed"
  <2> SUFFICES ASSUME failure = "closed" PROVE FALSE
    OBVIOUS
  <2>1. ended /\ call = Idle
    BY DEF StreamInv, Places, CallInv
  <2>2. ~NativeWrites /\ ~NativeEnds /\ ~Deadline /\ ~Request /\ ~SubmitPrompt /\ ~Notification
    BY <2>1 DEF NativeWrites, NativeEnds, Deadline, Request, SubmitPrompt, Notification
  <2>3. ClientStep
    BY <2>2 DEF TransportNext
  <2>4. failure = "none"
    BY <2>3, PollStep, ReadStep, TakeStep, ReaderStep DEF ClientStep, Reader
  <2>. QED
    BY <2>4
<1>2. CASE ReadEnd
  <2>1. /\ ended /\ received = flow /\ UNCHANGED <<out, ended, flow, parsed>>
        /\ failure' = IF Buffered > 0 THEN "partial event" ELSE "closed"
    BY <1>2 DEF ReadEnd, Fail, native
  <2>2. ~(Buffered > 0) => Length(parsed) = received
    BY NoRest DEF StreamInv
  <2>3. Length(parsed)' = Length(parsed)
    BY <2>1 DEF Length
  <2>. QED
    BY <2>1, <2>2, <2>3
<1>3. CASE failure' = failure
  BY <1>1, <1>3
<1>4. CASE NativeWrites \/ NativeEnds \/ Deadline \/ Notification \/ Select \/ GiveUp
  BY <1>3, <1>4 DEF NativeWrites, NativeEnds, Deadline, Notification, Select, GiveUp
<1>5. CASE Request \/ SubmitPrompt \/ Overdue \/ Write
  BY <1>1, <1>5 DEF Request, SubmitPrompt, Overdue, Write, Fail
<1>6. CASE Read
  BY <1>1, <1>6 DEF Read, Fail
<1>7. CASE Take
  <2>1. PICK i, rest : Handles(i, rest)
    BY <1>7 DEF Take, Handles
  <2>2. failure' \in {failure, "input budget", "rejected", "session differs"}
    BY <2>1 DEF Handles, Refuse, Answer, OnRequest, OnNotification, OnAck, Fail
  <2>. QED
    BY <1>1, <2>2
<1>8. CASE TakeDeferred
  <2>1. failure' \in {failure, "session differs"}
    BY <1>8 DEF TakeDeferred, OnAck, Fail
  <2>. QED
    BY <1>1, <2>1
<1>. QED
  BY <1>2, <1>4, <1>5, <1>6, <1>7, <1>8 DEF TransportNext, ClientStep, Reader

\* Which places are used, by the call in progress.
Used ==
  /\ held # <<>> => Calling("ack") \/ failure # "none"
  /\ Calling("notification") => deferred = <<>>
LEMMA UsedKept ==
  ASSUME LinesInv, CallInv, Kept, StreamInv, TransportNext, ~Reader
  PROVE  Used'
<1>0. Used /\ Ordered
  BY DEF StreamInv, Places, Used
<1>1. CASE UNCHANGED given /\ failure' = failure /\ (call' = call \/ SameCall)
  BY <1>0, <1>1 DEF Used, Calling, SameCall, given
<1>2. CASE call' = Idle /\ failure' # "none"
  BY <1>2 DEF Used, Calling, Idle
<1>3. call' = Idle => ~Calling("notification")'
  BY DEF Calling, Idle
<1>4. CASE NativeWrites \/ NativeEnds
  BY <1>1, <1>4 DEF NativeWrites, NativeEnds
<1>5. CASE Deadline
  <2>1. call \in SomeCall
    BY <1>5, Running DEF Deadline
  <2>2. call' = [call EXCEPT !.due = TRUE] /\ failure' = failure /\ UNCHANGED given
    BY <1>5 DEF Deadline
  <2>3. SameCall
    BY <2>1, <2>2, CallFields DEF SameCall
  <2>. QED
    BY <1>1, <2>2, <2>3
<1>6. CASE Request \/ SubmitPrompt
  <2>1. call = Idle /\ failure = "none" /\ UNCHANGED given
    BY <1>6 DEF Request, SubmitPrompt
  <2>2. held' = <<>>
    BY <1>0, <2>1 DEF Used, Calling, Idle, given
  <2>3. call' = Idle \/ call' = Begin("request", nextId) \/ call' = Begin("ack", 0)
    BY <1>6 DEF Request, SubmitPrompt, Fail
  <2>4. ~Calling("notification")'
    BY <2>3, <1>3 DEF Calling, Begin
  <2>. QED
    BY <2>2, <2>4 DEF Used
<1>7. CASE Notification
  <2>1. call = Idle /\ failure = "none"
    BY <1>7 DEF Notification
  <2>2. held' = <<>>
    BY <1>0, <1>7, <2>1 DEF Notification, Used, Calling, Idle, given
  <2>3. \/ call' = Idle
        \/ deferred' = <<>>
    BY <1>7, <2>1 DEF Notification, PutAside, given
  <2>. QED
    BY <1>3, <2>2, <2>3 DEF Used
<1>8. CASE Overdue \/ ReadEnd
  BY <1>2, <1>8 DEF Overdue, ReadEnd, Fail
<1>9. CASE Select
  <2>1. InPoll
    BY <1>9 DEF Select, Polling
  <2>2. call \in SomeCall
    BY <2>1, Running
  <2>3. PICK keys \in SUBSET Ready : call' = [call EXCEPT !.batch = keys] /\ failure' = failure
    BY <1>9 DEF Select
  <2>4. keys \in SUBSET {"in", "out"}
    BY <2>3 DEF Ready
  <2>5. SameCall
    BY <2>2, <2>3, <2>4, SetBatch DEF SameCall, Continues
  <2>6. UNCHANGED given
    BY <1>9 DEF Select
  <2>. QED
    BY <1>1, <2>3, <2>5, <2>6
<1>10. CASE GiveUp
  <2>1. call' = Idle /\ UNCHANGED given /\ failure' = failure /\ Calling("notification")
    BY <1>10 DEF GiveUp
  <2>2. InPoll
    BY <2>1 DEF InPoll, Calling
  <2>3. failure = "none"
    BY <2>2, Running
  <2>4. held = <<>>
    BY <1>0, <2>1, <2>3 DEF Used, Calling
  <2>. QED
    BY <1>3, <2>1, <2>4 DEF Used, given
<1>11. CASE Write \/ Read
  <2>1. call \in SomeCall /\ UNCHANGED given
    BY <1>11, Running DEF Write, Read
  <2>2. \/ call' = Idle /\ failure' # "none"
        \/ failure' = failure /\ \E w : call' = [call EXCEPT !.batch = call.batch \ w]
    BY <1>11 DEF Write, Read, Fail
  <2>3. ASSUME NEW w, call' = [call EXCEPT !.batch = call.batch \ w] PROVE SameCall
    BY <2>1, <2>3, LessBatch DEF SameCall, Continues
  <2>. QED
    BY <1>1, <1>2, <2>1, <2>2, <2>3
<1>12. CASE Take
  <2>1. PICK i : i = Head(messages) /\ Handles(i, deferred)
    BY <1>12 DEF Take, Handles
  <2>2. InPoll
    BY <1>12 DEF Take, Handling, Polling
  <2>3. call \in SomeCall /\ failure = "none"
    BY <2>2, Running
  <2>4. ~Calling("ack") => held = <<>>
    BY <1>0, <2>3 DEF Used
  <2>5. CASE Refuse(i)
    <3>1. UNCHANGED given
      BY <2>5 DEF Refuse
    <3>2. \/ call' = Idle /\ failure' # "none"
          \/ failure' = failure /\ call' = call
          \/ call' = Idle /\ Calling("notification")
      BY <2>5 DEF Refuse, Answer, Fail
    <3>3. CASE call' = Idle /\ Calling("notification")
      <4>1. held = <<>>
        BY <2>4, <3>3 DEF Calling
      <4>. QED
        BY <1>3, <3>1, <3>3, <4>1 DEF Used, given
    <3>. QED
      BY <1>1, <1>2, <3>1, <3>2, <3>3
  <2>6. CASE OnRequest(i)
    <3>1. Calling("request") /\ held' = held
      BY <2>6 DEF OnRequest, given
    <3>2. held' = <<>>
      BY <2>4, <3>1 DEF Calling
    <3>3. call' = Idle \/ call' = call
      BY <2>6 DEF OnRequest, Fail
    <3>4. ~Calling("notification")'
      BY <1>3, <3>1, <3>3 DEF Calling
    <3>. QED
      BY <3>2, <3>4 DEF Used
  <2>7. CASE OnNotification(i)
    <3>1. call' = Idle /\ held' = held /\ Calling("notification")
      BY <2>7 DEF OnNotification
    <3>2. held' = <<>>
      BY <2>4, <3>1 DEF Calling
    <3>. QED
      BY <1>3, <3>1, <3>2 DEF Used
  <2>8. CASE OnAck(i, deferred)
    <3>1. Calling("ack")
      BY <2>8 DEF OnAck
    <3>2. \/ held' = <<>> /\ call' = Idle
          \/ failure' # "none" /\ call' = Idle
          \/ call' = [call EXCEPT !.waiting = call.waiting \ Acknowledges(i)]
      BY <2>8 DEF OnAck, Fail
    <3>3. ASSUME call' = [call EXCEPT !.waiting = call.waiting \ Acknowledges(i)]
          PROVE  Calling("ack")'
      BY <2>3, <3>1, <3>3, LessWaiting DEF Calling, Continues
    <3>4. Calling("ack")' => ~Calling("notification")'
      BY DEF Calling
    <3>. QED
      BY <1>3, <3>2, <3>3, <3>4 DEF Used
  <2>. QED
    BY <2>1, <2>5, <2>6, <2>7, <2>8 DEF Handles
<1>13. CASE TakeDeferred
  <2>1. PICK i, rest : OnAck(i, rest)
    BY <1>13 DEF TakeDeferred
  <2>2. Calling("ack")
    BY <2>1 DEF OnAck
  <2>3. call \in SomeCall
    BY <2>2, Running DEF InPoll, Calling
  <2>4. \/ held' = <<>> /\ call' = Idle
        \/ failure' # "none" /\ call' = Idle
        \/ call' = [call EXCEPT !.waiting = call.waiting \ Acknowledges(i)]
    BY <2>1 DEF OnAck, Fail
  <2>5. ASSUME call' = [call EXCEPT !.waiting = call.waiting \ Acknowledges(i)]
        PROVE  Calling("ack")'
    BY <2>2, <2>3, <2>5, LessWaiting DEF Calling, Continues
  <2>6. Calling("ack")' => ~Calling("notification")'
    BY DEF Calling
  <2>. QED
    BY <1>3, <2>4, <2>5, <2>6 DEF Used
<1>. QED
  BY <1>4, <1>5, <1>6, <1>7, <1>8, <1>9, <1>10, <1>11, <1>12, <1>13
     DEF TransportNext, ClientStep, Reader

LEMMA StreamKept ==
  ASSUME LinesInv, CallInv, Kept, StreamInv, CoverInv, TransportNext, Sound, Sound'
  PROVE  StreamInv' /\ CoverInv'
<1>1. ~Reader
  BY SoundBefore
<1>2. Places'
  BY <1>1, ClosedKept, UsedKept DEF Places, Used
<1>. QED
  BY <1>2, ParsingKept, WaitingKept, OrderedKept DEF StreamInv

-----------------------------------------------------------------------------
(* Refusals.                                                                  *)

\* What a step does to the input, and to what poll() has yet to return.
SameSent == Sent' = Sent
OldLines == \A i \in 1 .. parsed : out'[i] = out[i]
LEMMA RefusalSame ==
  ASSUME RefusalInv, SameSent, OldLines, messages' = messages, parsed' = parsed
  PROVE  RefusalInv'
BY DEF RefusalInv, SameSent, OldLines

(* What is sent beside refusals does not count.                               *)
LEMMA RefusalOther ==
  ASSUME RefusalInv, Sent \in Seq(Message), NEW m \in Message, m.kind # "refusal",
         Sent' = Append(Sent, m), OldLines, messages' = messages, parsed' = parsed
  PROVE  RefusalInv'
<1>1. /\ Range(Sent') = Range(Sent) \cup {m} /\ Len(Sent) \in Nat
      /\ Len(Sent') = Len(Sent) + 1 /\ Sent'[Len(Sent) + 1] = m
      /\ \A k \in 1 .. Len(Sent) : Sent'[k] = Sent[k]
  BY RangeFacts, AppendProperties
<1>2. \A k \in 1 .. Len(Sent') : k \in 1 .. Len(Sent) \/ k = Len(Sent) + 1
  BY <1>1
<1>3. \A r \in Range(Sent') : r.kind = "refusal" =>
        r.id \in 1 .. parsed' /\ r.id \notin Range(messages')
  BY <1>1 DEF RefusalInv
<1>4. \A j, k \in 1 .. Len(Sent') :
        Sent'[k].kind = "refusal" /\ Sent'[j] = Sent'[k] => j = k
  <2> SUFFICES ASSUME NEW j \in 1 .. Len(Sent'), NEW k \in 1 .. Len(Sent'),
                      Sent'[k].kind = "refusal", Sent'[j] = Sent'[k]
               PROVE  j = k
    OBVIOUS
  <2>1. j \in 1 .. Len(Sent) /\ k \in 1 .. Len(Sent)
    BY <1>1, <1>2
  <2>. QED
    BY <1>1, <2>1 DEF RefusalInv
<1>5. \A i \in 1 .. parsed' : out'[i].kind = "server" =>
        i \in Range(messages') \/ Msg("refusal", i) \in Range(Sent')
  BY <1>1 DEF RefusalInv, OldLines
<1>. QED
  BY <1>3, <1>4, <1>5 DEF RefusalInv

(* The first of the messages is refused, if it is for that, and only it.      *)
LEMMA RefusalTake ==
  ASSUME LinesInv, CallInv, Kept, InputInv, StreamInv, RefusalInv, Take, Sound'
  PROVE  RefusalInv'
<1>1. PICK i : i = Head(messages)
  OBVIOUS
<1>2. /\ messages # <<>> /\ messages' = Tail(messages) /\ Handles(i, deferred)
      /\ parsed' = parsed /\ out' = out
  BY <1>1 DEF Take, Handling, Handles, native
<1>3. /\ i \in 1 .. parsed /\ i \in Nat /\ parsed \in Nat
      /\ Range(messages) = Range(messages') \cup {i}
      /\ \A y \in Range(messages') : i < y
  BY <1>1, <1>2, WaitingFacts DEF StreamInv
<1>4. i \notin Range(messages')
  BY <1>3
<1>5. CASE Sent' = Sent /\ out[i].kind # "server"
  BY <1>2, <1>3, <1>5 DEF RefusalInv
<1>6. CASE Refuse(i)
  <2>1. Fits /\ Queue(Msg("refusal", i))
    BY <1>6 DEF Refuse, Answer, Fail, Sound
  <2>2. PICK m \in Message : m = Msg("refusal", i)
    BY <1>3, Messages
  <2>3. Sent' = Append(Sent, m) /\ Sent \in Seq(Message)
    BY <2>1, <2>2, QueueKept
  <2>4. /\ Range(Sent') = Range(Sent) \cup {m} /\ Len(Sent) \in Nat
        /\ Len(Sent') = Len(Sent) + 1 /\ Sent'[Len(Sent) + 1] = m
        /\ \A k \in 1 .. Len(Sent) : Sent'[k] = Sent[k] /\ Sent[k] \in Range(Sent)
    BY <2>3, RangeFacts, AppendProperties DEF Range
  <2>5. m.kind = "refusal" /\ m.id = i
    BY <2>2 DEF Msg
  <2>6. m \notin Range(Sent)
    BY <1>3, <2>5 DEF RefusalInv
  <2>7. \A r \in Range(Sent') : r.kind = "refusal" =>
          r.id \in 1 .. parsed' /\ r.id \notin Range(messages')
    BY <1>2, <1>3, <1>4, <2>4, <2>5 DEF RefusalInv
  <2>8. \A k \in 1 .. Len(Sent') : k \in 1 .. Len(Sent) \/ k = Len(Sent) + 1
    BY <2>4
  <2>9. \A j, k \in 1 .. Len(Sent') :
          Sent'[k].kind = "refusal" /\ Sent'[j] = Sent'[k] => j = k
    <3> SUFFICES ASSUME NEW j \in 1 .. Len(Sent'), NEW k \in 1 .. Len(Sent'),
                        Sent'[k].kind = "refusal", Sent'[j] = Sent'[k]
                 PROVE  j = k
      OBVIOUS
    <3>1. CASE j \in 1 .. Len(Sent) /\ k \in 1 .. Len(Sent)
      BY <2>4, <3>1 DEF RefusalInv
    <3>2. CASE j = Len(Sent) + 1 /\ k \in 1 .. Len(Sent)
      BY <2>4, <2>6, <3>2
    <3>3. CASE j \in 1 .. Len(Sent) /\ k = Len(Sent) + 1
      BY <2>4, <2>6, <3>3
    <3>. QED
      BY <2>8, <3>1, <3>2, <3>3
  <2>10. \A k \in 1 .. parsed' : out'[k].kind = "server" =>
          k \in Range(messages') \/ Msg("refusal", k) \in Range(Sent')
    BY <1>2, <1>3, <2>2, <2>4 DEF RefusalInv
  <2>. QED
    BY <2>7, <2>9, <2>10 DEF RefusalInv
<1>7. CASE OnRequest(i) \/ OnNotification(i) \/ OnAck(i, deferred)
  <2>1. UNCHANGED input /\ out[i].kind # "server"
    BY <1>7 DEF OnRequest, OnNotification, OnAck, IsServer
  <2>. QED
    BY <1>5, <2>1 DEF input, Sent
<1>. QED
  BY <1>2, <1>6, <1>7 DEF Handles

(* What a chunk adds is to be refused, or not, once poll() returns it.        *)
LEMMA RefusalRead ==
  ASSUME LinesInv, CallInv, Kept, StreamInv, RefusalInv, Read, Sound, Sound'
  PROVE  RefusalInv'
<1>1. PICK g \in Nat : /\ parsed' = parsed + g /\ parsed \in Nat
                       /\ Range(messages') = Range(messages) \cup (parsed + 1 .. parsed + g)
  BY ReadRange
<1>2. Sent' = Sent /\ out' = out
  BY DEF Read, input, native, Sent
<1>3. /\ \A i \in 1 .. parsed : i \in 1 .. parsed + g /\ i \notin parsed + 1 .. parsed + g
      /\ \A i \in 1 .. parsed + g : i \in 1 .. parsed \/ i \in parsed + 1 .. parsed + g
  BY <1>1
<1>4. \A r \in Range(Sent') : r.kind = "refusal" =>
        r.id \in 1 .. parsed' /\ r.id \notin Range(messages')
  BY <1>1, <1>2, <1>3 DEF RefusalInv
<1>5. \A k \in 1 .. parsed' : out'[k].kind = "server" =>
        k \in Range(messages') \/ Msg("refusal", k) \in Range(Sent')
  BY <1>1, <1>2, <1>3 DEF RefusalInv
<1>6. \A j, k \in 1 .. Len(Sent') :
        Sent'[k].kind = "refusal" /\ Sent'[j] = Sent'[k] => j = k
  BY <1>2 DEF RefusalInv
<1>. QED
  BY <1>4, <1>5, <1>6 DEF RefusalInv

LEMMA RefusalKept ==
  ASSUME LinesInv, CallInv, Kept, InputInv, StreamInv, RefusalInv, TransportNext, Sound, Sound'
  PROVE  RefusalInv'
<1>1. OldLines
  <2>1. \A i \in 1 .. Len(out) : out'[i] = out[i]
    BY FineGrows
  <2>2. \A i \in 1 .. parsed : i \in 1 .. Len(out)
    BY LineTyped DEF LinesInv
  <2>. QED
    BY <2>1, <2>2 DEF OldLines
<1>2. CASE SameSent /\ messages' = messages /\ parsed' = parsed
  BY <1>1, <1>2, RefusalSame
<1>3. ASSUME NEW m \in Message, m.kind # "refusal", Queue(m), messages' = messages, parsed' = parsed
      PROVE  RefusalInv'
  BY <1>1, <1>3, QueueKept, RefusalOther
<1>4. CASE Request
  <2>1. failure' # "input budget" /\ nextId \in Nat
    BY DEF Sound, CallInv
  <2>2. Queue(Msg("request", nextId)) /\ messages' = messages /\ parsed' = parsed
    BY <1>4, <2>1 DEF Request, Fail, stream
  <2>3. Msg("request", nextId) \in Message /\ Msg("request", nextId).kind # "refusal"
    BY <2>1, Messages DEF Msg
  <2>. QED
    BY <1>3, <2>2, <2>3
<1>5. CASE SubmitPrompt
  <2>1. failure' # "input budget"
    BY DEF Sound
  <2>2. Queue(Msg("prompt", 0)) /\ messages' = messages /\ parsed' = parsed
    BY <1>5, <2>1 DEF SubmitPrompt, Fail, stream
  <2>3. Msg("prompt", 0) \in Message /\ Msg("prompt", 0).kind # "refusal"
    BY Messages DEF Msg
  <2>. QED
    BY <1>3, <2>2, <2>3
<1>6. CASE Write
  <2>1. failure' # "input closed"
    BY DEF Sound
  <2>2. SameSent
    BY <1>6, <2>1, WriteKept DEF SameSent
  <2>3. messages' = messages /\ parsed' = parsed
    BY <1>6 DEF Write, stream
  <2>. QED
    BY <1>2, <2>2, <2>3
<1>7. CASE Take
  BY <1>7, RefusalTake
<1>8. CASE Read
  BY <1>8, RefusalRead
<1>9. CASE UNCHANGED input /\ messages' = messages /\ parsed' = parsed
  BY <1>2, <1>9 DEF SameSent, Sent, input
<1>10. CASE NativeWrites \/ NativeEnds \/ Deadline \/ Notification
  BY <1>9, <1>10 DEF NativeWrites, NativeEnds, Deadline, Notification, stream
<1>11. CASE Overdue \/ Select \/ GiveUp \/ ReadEnd
  BY <1>9, <1>11 DEF Overdue, Select, GiveUp, ReadEnd, stream
<1>12. CASE TakeDeferred
  BY <1>9, <1>12 DEF TakeDeferred, OnAck, stream
<1>. QED
  BY <1>4, <1>5, <1>6, <1>7, <1>8, <1>10, <1>11, <1>12, SoundBefore
     DEF TransportNext, ClientStep, Reader

-----------------------------------------------------------------------------
(* Readings.                                                                  *)

Readings == {"reading", "denied", "reauth-required", "unknown"}
(* What is sent after something else is in the sequence of both.              *)
LEMMA SentRange ==
  ASSUME NEW s \in Seq(Message), NEW t \in Seq(Message)
  PROVE  Range(s \o t) = Range(s) \cup Range(t)
<1>1. PICK m \in Message : m = Msg("request", 0)
  BY Messages
<1>. QED
  BY <1>1, RangeFacts

(* Only a reader returns a reading, and a reader does nothing else.           *)
LEMMA OnlyReaders ==
  ASSUME CallInv, TransportNext
  PROVE  /\ failure' \in Readings => failure' = failure \/ Reader
         /\ mode \in {"limits", "document"} =>
              NativeWrites \/ NativeEnds \/ Deadline \/ Reader
<1>1. CASE NativeWrites \/ NativeEnds \/ Deadline
  BY <1>1 DEF NativeWrites, NativeEnds, Deadline
<1>2. CASE Request \/ SubmitPrompt \/ Notification
  <2>1. mode \notin {"limits", "document"}
    BY <1>2 DEF Request, SubmitPrompt, Notification, Launched
  <2>2. failure' = failure \/ failure' = "input budget"
    BY <1>2 DEF Request, SubmitPrompt, Notification, Fail
  <2>. QED
    BY <2>1, <2>2 DEF Readings
<1>3. CASE Overdue \/ Select \/ GiveUp \/ Write \/ Read \/ ReadEnd
  <2>1. InPoll
    BY <1>3 DEF Overdue, Select, GiveUp, Write, Read, ReadEnd, Polling, Expired, InPoll, Calling
  <2>2. mode \notin {"limits", "document"}
    BY <2>1 DEF CallInv
  <2>3. CASE Select \/ GiveUp
    BY <2>2, <2>3 DEF Select, GiveUp
  <2>4. CASE Overdue \/ ReadEnd
    BY <2>2, <2>4 DEF Overdue, ReadEnd, Fail, Readings
  <2>5. CASE Write \/ Read
    <3>1. failure' \in {failure, "input closed", "output budget", "bad event", "line budget"}
      BY <2>5 DEF Write, Read, Fail
    <3>. QED
      BY <2>2, <3>1 DEF Readings
  <2>. QED
    BY <1>3, <2>3, <2>4, <2>5
<1>4. CASE Take \/ TakeDeferred
  <2>1. InPoll
    BY <1>4 DEF Take, TakeDeferred, Handling, Polling, InPoll, Calling
  <2>2. PICK i, rest : Handles(i, rest)
    BY <1>4 DEF Take, TakeDeferred, Handles
  <2>3. failure' \in {failure, "input budget", "rejected", "session differs"}
    BY <2>2 DEF Handles, Refuse, Answer, OnRequest, OnNotification, OnAck, Fail
  <2>. QED
    BY <2>1, <2>3 DEF CallInv, Readings
<1>5. CASE Reader
  BY <1>5
<1>. QED
  BY <1>1, <1>2, <1>3, <1>4, <1>5 DEF TransportNext, ClientStep, Reader

\* What the answers to the handshake have to be.
Initialized ==
  mode = "limits" /\ nextId = 3 => Msg("initialized", 0) \in Range(inbox) /\ Answers(1) # {}
LEMMA HandshakeKept ==
  ASSUME LinesInv, CallInv, InputInv, HandshakeInv, TransportNext
  PROVE  HandshakeInv'
<1>1. Initialized /\ ReadingsEarned
  BY DEF HandshakeInv, Initialized
<1>2. mode' = mode /\ (failure # "none" => failure' = failure)
  BY CallKept
<1>3. CASE mode \notin {"limits", "document"}
  <2>1. failure \notin Readings /\ ~Reader
    <3>1. ~Calling("read")
      BY <1>3 DEF CallInv
    <3>2. ~Reader
      BY <3>1 DEF Reader, ReaderReads, ReaderTimesOut, LimitsStart, LimitsLine, LimitsEnd,
                  DocumentEnd
    <3>. QED
      BY <1>1, <1>3, <3>2 DEF ReadingsEarned, Readings
  <2>2. failure' \notin Readings
    BY <2>1, OnlyReaders
  <2>. QED
    BY <1>2, <1>3, <2>2 DEF HandshakeInv, ReadingsEarned, Readings
<1>4. CASE mode \in {"limits", "document"} /\ NativeWrites
  <2>1. \A i \in 1 .. Len(out) : out'[i] = out[i] /\ i \in 1 .. Len(out')
    <3>1. /\ \A i \in 1 .. Len(out) : out'[i] = out[i]
          /\ Len(out') = Len(out) + 1 /\ Len(out) \in Nat
      BY <1>4, LineAdded, LineTyped
    <3>. QED
      BY <3>1
  <2>2. \A n : \A i \in Answers(n) : i \in Answers(n)'
    BY <2>1 DEF Answers
  <2>3. Answers(1) \subseteq Answers(1)' /\ Answers(2) \subseteq Answers(2)'
    BY <2>2
  <2>4. ~ended /\ inbox' = inbox /\ parsed' = parsed /\ nextId' = nextId /\ failure' = failure
    BY <1>4 DEF NativeWrites, input, stream
  <2>5. Initialized'
    BY <1>1, <1>2, <2>3, <2>4 DEF Initialized
  <2>6. ReadingsEarned'
    BY <1>1, <1>2, <2>3, <2>4 DEF ReadingsEarned
  <2>. QED
    BY <2>5, <2>6 DEF HandshakeInv, Initialized
<1>5. CASE /\ out' = out /\ received' = received /\ (ended => ended') /\ inbox' = inbox
           /\ parsed' = parsed /\ nextId' = nextId
           /\ (failure' \in Readings => failure' = failure)
  <2>1. Answers(1)' = Answers(1) /\ Answers(2)' = Answers(2)
    BY <1>5 DEF Answers
  <2>2. Document' = Document
    BY <1>5 DEF Document, Complete, Length
  <2>3. Initialized'
    BY <1>1, <1>2, <1>5, <2>1 DEF Initialized
  <2>4. ReadingsEarned'
    BY <1>1, <1>2, <1>5, <2>1, <2>2 DEF ReadingsEarned, Readings
  <2>. QED
    BY <2>3, <2>4 DEF HandshakeInv, Initialized
<1>6. CASE NativeEnds \/ Deadline
  BY <1>5, <1>6 DEF NativeEnds, Deadline, native, input, stream
<1>7. CASE ReaderTimesOut \/ LimitsEnd
  BY <1>5, <1>7 DEF ReaderTimesOut, LimitsEnd, Return, Readings, native, input, stream
<1>8. CASE ReaderReads
  <2>1. /\ out' = out /\ inbox' = inbox /\ nextId' = nextId /\ parsed' = parsed
        /\ failure' = "unavailable" \/ failure' = failure
    BY <1>8 DEF ReaderReads, Return, native, input
  <2>2. failure = "none"
    BY <1>8, ReaderStep DEF Reader
  <2>3. Answers(1)' = Answers(1)
    BY <2>1 DEF Answers
  <2>4. failure' \notin Readings
    BY <2>1, <2>2 DEF Readings
  <2>5. Initialized'
    BY <1>1, <1>2, <2>1, <2>3 DEF Initialized
  <2>. QED
    BY <2>4, <2>5 DEF HandshakeInv, Initialized, ReadingsEarned, Readings
<1>9. CASE LimitsStart
  <2>1. nextId' = 2 /\ failure' = failure
    BY <1>9 DEF LimitsStart
  <2>2. failure = "none"
    BY <1>9, ReaderStep DEF Reader
  <2>. QED
    BY <2>1, <2>2 DEF HandshakeInv, ReadingsEarned
<1>10. CASE DocumentEnd
  <2>1. mode = "document" /\ ended
    BY <1>10 DEF DocumentEnd, AllRead
  <2>2. UNCHANGED <<out, ended, received>>
    BY <1>10 DEF DocumentEnd, native, stream
  <2>3. failure' \in Readings => Document
    BY <1>10 DEF DocumentEnd, Return, Readings
  <2>4. Document' = Document
    BY <2>2 DEF Document, Complete, Length
  <2>. QED
    BY <1>2, <2>1, <2>2, <2>3, <2>4 DEF HandshakeInv, ReadingsEarned, Readings
<1>11. CASE LimitsLine
  <2>0. PICK i : i = parsed + 1
    OBVIOUS
  <2>1. /\ mode = "limits" /\ parsed' = i /\ out' = out /\ parsed < Complete(received)
    BY <1>11, <2>0 DEF LimitsLine, native
  <2>2. i \in 1 .. Len(out)
    <3>1. Complete(received) \in 0 .. Len(out) /\ Len(out) \in Nat /\ parsed \in Nat
      <4>1. received \in Nat
        <5>1. Length(Len(out)) \in Nat
          BY LineTyped DEF Length
        <5>2. flow \in Nat
          BY <5>1 DEF LinesInv
        <5>. QED
          BY <5>2 DEF LinesInv
      <4>2. Complete(received) \in 0 .. Len(out)
        BY <4>1, CompleteFacts
      <4>3. Len(out) \in Nat
        BY LineTyped
      <4>4. parsed \in 0 .. Len(out)
        BY DEF LinesInv
      <4>. QED
        BY <4>2, <4>3, <4>4
    <3>. QED
      BY <2>0, <2>1, <3>1
  <2>3. out[i].id \in {1, 2} => i \in Answers(out[i].id)
    <3>1. out[i].id \in {1, 2} => out[i].kind \in {"response", "rejected"}
      BY <2>2 DEF LinesInv
    <3>. QED
      BY <2>2, <3>1 DEF Answers
  <2>4. Answers(1)' = Answers(1) /\ Answers(2)' = Answers(2)
    BY <2>1 DEF Answers
  <2>5. failure = "none"
    BY <1>11, ReaderStep DEF Reader
  <2>6. CASE out[i].id = 1 /\ failure' = "unavailable" /\ UNCHANGED <<input, nextId>>
    <3>1. Initialized'
      BY <1>1, <1>2, <2>4, <2>6 DEF Initialized, input
    <3>. QED
      BY <2>6, <3>1 DEF HandshakeInv, Initialized, ReadingsEarned
  <2>7. CASE /\ out[i].id = 1 /\ Sends(<<Msg("initialized", 0), Msg("request", 2)>>)
             /\ failure' = failure
    <3>1. inbox' = inbox \o <<Msg("initialized", 0), Msg("request", 2)>>
      BY <2>7 DEF Sends
    <3>2. Msg("initialized", 0) \in Message /\ Msg("request", 2) \in Message
      BY Messages
    <3>3. PICK a, b \in Message : a = Msg("initialized", 0) /\ b = Msg("request", 2)
      BY <3>2
    <3>4. <<a, b>> \in Seq(Message) /\ inbox \in Seq(Message)
      BY DEF InputInv
    <3>5. Range(inbox \o <<a, b>>) = Range(inbox) \cup Range(<<a, b>>)
      BY <3>4, SentRange
    <3>6. a \in Range(<<a, b>>)
      BY DEF Range
    <3>7. Msg("initialized", 0) \in Range(inbox')
      BY <3>1, <3>3, <3>5, <3>6
    <3>8. Answers(1)' # {}
      BY <2>3, <2>4, <2>7
    <3>9. failure' = "none"
      BY <2>5, <2>7
    <3>. QED
      BY <3>7, <3>8, <3>9 DEF HandshakeInv, ReadingsEarned
  <2>8. CASE out[i].id = 2 /\ nextId = 3 /\ UNCHANGED <<input, nextId>>
    <3>1. Msg("initialized", 0) \in Range(inbox) /\ Answers(1) # {}
      BY <1>1, <2>1, <2>8 DEF Initialized
    <3>2. parsed' \in Answers(2)'
      BY <2>1, <2>3, <2>4, <2>8
    <3>3. inbox' = inbox
      BY <2>8 DEF input
    <3>. QED
      BY <1>2, <2>1, <2>4, <3>1, <3>2, <3>3 DEF HandshakeInv, ReadingsEarned
  <2>9. CASE UNCHANGED <<input, nextId, call, failure>>
    <3>1. Initialized'
      BY <1>1, <1>2, <2>4, <2>9 DEF Initialized, input
    <3>. QED
      BY <2>5, <2>9, <3>1 DEF HandshakeInv, Initialized, ReadingsEarned
  <2>10. \/ out[i].id = 1 /\ failure' = "unavailable" /\ UNCHANGED <<input, nextId>>
         \/ /\ out[i].id = 1 /\ Sends(<<Msg("initialized", 0), Msg("request", 2)>>)
            /\ failure' = failure
         \/ out[i].id = 2 /\ nextId = 3 /\ UNCHANGED <<input, nextId>>
         \/ UNCHANGED <<input, nextId, call, failure>>
    BY <1>11, <2>0 DEF LimitsLine, Return
  <2>. QED
    BY <2>6, <2>7, <2>8, <2>9, <2>10
<1>. QED
  BY <1>3, <1>4, <1>6, <1>7, <1>8, <1>9, <1>10, <1>11, OnlyReaders DEF Reader

-----------------------------------------------------------------------------
(* The invariant, and the properties that follow from it.                     *)

LEMMA InitHolds ==
  ASSUME TransportInit
  PROVE  TransportInv
<1>1. /\ mode \in Modes /\ out = <<>> /\ flow = 0 /\ ended = FALSE
      /\ inbox = <<>> /\ pending = <<>> /\ watching = FALSE
      /\ received = 0 /\ parsed = 0 /\ messages = <<>>
      /\ deferred = <<>> /\ held = <<>> /\ seen = <<>> /\ nextId = 1 /\ failure = "none"
  BY DEF TransportInit
<1>2. Len(out) = 0 /\ Length(0) = 0 /\ Length(Len(out)) = 0
  BY <1>1 DEF Length
<1>3. LinesInv
  <2>1. \A i : i \notin 1 .. Len(out)
    BY <1>2
  <2>2. out \in Seq(Written)
    BY <1>1
  <2>3. /\ flow \in 0 .. Length(Len(out)) /\ received \in 0 .. flow
        /\ parsed \in 0 .. Len(out)
    BY <1>1, <1>2
  <2>4. ended \in BOOLEAN
    BY <1>1
  <2>. QED
    BY <1>1, <2>1, <2>2, <2>3, <2>4 DEF LinesInv
<1>4. CallInv
  <2>1. CASE mode \in {"limits", "document"}
    <3>1. call = Begin("read", 0)
      BY <2>1 DEF TransportInit
    <3>2. /\ call \in SomeCall /\ call.op = "read"
      BY <3>1, BeginFields
    <3>. QED
      BY <1>1, <2>1, <3>2 DEF CallInv, Calling, InPoll
  <2>2. CASE mode \notin {"limits", "document"}
    <3>1. call = Idle
      BY <2>2 DEF TransportInit
    <3>2. call.op = "idle"
      BY <3>1 DEF Idle
    <3>. QED
      BY <1>1, <3>1, <3>2 DEF CallInv, Calling, InPoll
  <2>. QED
    BY <2>1, <2>2
<1>5. BudgetInv
  BY <1>1, <1>2, TransportAssumption DEF BudgetInv
<1>6. InputInv
  <2>1. inbox \in Seq(Message) /\ pending \in Seq(Message)
    BY <1>1
  <2>. QED
    BY <1>1, <2>1 DEF InputInv
<1>7. StreamInv
  <2>1. Range(<<>>) = {}
    BY DEF Range
  <2>2. Parsing /\ Waiting
    BY <1>1, <1>2 DEF Parsing, Waiting
  <2>3. Ordered
    BY <1>1, <2>1 DEF Ordered, Rising, Before
  <2>4. Places
    BY <1>1 DEF Places
  <2>. QED
    BY <2>2, <2>3, <2>4 DEF StreamInv
<1>8. CoverInv
  BY <1>1 DEF CoverInv
<1>9. RefusalInv
  <2>1. Sent = <<>> /\ Range(Sent) = {} /\ Len(Sent) = 0
    BY <1>1 DEF Sent, Range
  <2>. QED
    BY <1>1, <2>1 DEF RefusalInv
<1>10. HandshakeInv
  BY <1>1 DEF HandshakeInv, ReadingsEarned
<1>. QED
  BY <1>3, <1>4, <1>5, <1>6, <1>7, <1>8, <1>9, <1>10 DEF TransportInv

LEMMA StepHolds ==
  ASSUME TransportInv, TransportNext
  PROVE  TransportInv'
<1>1. /\ LinesInv /\ CallInv /\ BudgetInv /\ InputInv /\ HandshakeInv
      /\ Sound => StreamInv /\ CoverInv /\ RefusalInv
  BY DEF TransportInv
<1>2. LinesInv' /\ BudgetInv'
  BY <1>1, LinesKept, BudgetKept
<1>3. CallInv'
  BY <1>1, CallKept
<1>4. InputInv'
  BY <1>1, InputKept DEF InputStep
<1>5. HandshakeInv'
  BY <1>1, HandshakeKept
<1>6. ASSUME Sound' PROVE StreamInv' /\ CoverInv' /\ RefusalInv'
  <2>1. Sound /\ Kept
    BY <1>1, <1>6, SoundBefore DEF BudgetInv, Kept
  <2>. QED
    BY <1>1, <1>6, <2>1, StreamKept, RefusalKept
<1>. QED
  BY <1>2, <1>3, <1>4, <1>5, <1>6 DEF TransportInv

LEMMA StutterHolds ==
  ASSUME TransportInv, UNCHANGED transportVars
  PROVE  TransportInv'
<1>1. /\ UNCHANGED <<mode, out, flow, ended, inbox, pending, watching>>
      /\ UNCHANGED <<received, parsed, messages, deferred, held, seen>>
      /\ UNCHANGED <<call, nextId, failure>>
  BY DEF transportVars, native, input, stream, given
<1>2. /\ LinesInv /\ CallInv /\ BudgetInv /\ InputInv /\ HandshakeInv
      /\ Sound => StreamInv /\ CoverInv /\ RefusalInv
  BY DEF TransportInv
<1>3. LinesInv' /\ CallInv' /\ InputInv' /\ Sound' = Sound
  BY <1>1, <1>2 DEF LinesInv, CallInv, InputInv, Length, Calling, InPoll, Sound
<1>4. BudgetInv'
  BY <1>1, <1>2 DEF BudgetInv, Fine, Length
<1>5. HandshakeInv'
  <2>1. Answers(1)' = Answers(1) /\ Answers(2)' = Answers(2) /\ Document' = Document
    BY <1>1 DEF Answers, Document, Complete, Length
  <2>. QED
    BY <1>1, <1>2, <2>1 DEF HandshakeInv, ReadingsEarned
<1>6. ASSUME Sound PROVE StreamInv' /\ CoverInv' /\ RefusalInv'
  <2>1. Parsing' /\ Waiting'
    BY <1>1, <1>2, <1>6 DEF StreamInv, Parsing, Waiting
  <2>2. Ordered' /\ Places'
    BY <1>1, <1>2, <1>6 DEF StreamInv, Ordered, Rising, Before, Places, Calling, Length
  <2>3. CoverInv'
    BY <1>1, <1>2, <1>6 DEF CoverInv, Everything
  <2>4. RefusalInv'
    BY <1>1, <1>2, <1>6 DEF RefusalInv, Sent
  <2>. QED
    BY <2>1, <2>2, <2>3, <2>4 DEF StreamInv
<1>. QED
  BY <1>3, <1>4, <1>5, <1>6 DEF TransportInv

(* The invariant holds in every reachable state: whatever the native process  *)
(* writes, however its output is cut into chunks, and whenever it ends.       *)
THEOREM TransportInvariant == TransportSpec => []TransportInv
<1>1. TransportInit => TransportInv
  BY InitHolds
<1>2. TransportInv /\ [TransportNext]_transportVars => TransportInv'
  BY StepHolds, StutterHolds
<1>. QED
  BY <1>1, <1>2, PTL DEF TransportSpec

(* What is delivered, kept or put aside was within the line budget.           *)
LEMMA BudgetsFollow ==
  ASSUME TransportInv
  PROVE  WithinBudgets
<1>1. BudgetInv
  BY DEF TransportInv
<1>2. messages \o deferred \o held \o seen \in Seq(Fine)
  BY <1>1 DEF BudgetInv
<1>3. PICK s \in Seq(Fine) : s = messages \o deferred \o held \o seen
  BY <1>2
<1>4. \A i \in Range(s) : i \in Fine
  BY DEF Range
<1>5. \A i \in Range(messages \o deferred \o held \o seen) : out[i].size - 1 <= MaxLine
  BY <1>3, <1>4 DEF Fine
<1>. QED
  BY <1>1, <1>5 DEF BudgetInv, WithinBudgets

LEMMA Joined ==
  ASSUME NEW s \in Seq(Nat), NEW t \in Seq(Nat), NEW u \in Seq(Nat), u = s \o t,
         Rising(s), Rising(t), Before(s, t)
  PROVE  Rising(u) /\ Range(u) = Range(s) \cup Range(t)
<1>1. Rising(s \o t)
  <2>1. 0 \in Nat
    OBVIOUS
  <2>. QED
    BY <2>1, RisingFacts
<1>. QED
  BY <1>1, RangeConcat

(* The four places of events, one after the other, hold them in order.        *)
LEMMA OrderFollows ==
  ASSUME TransportInv
  PROVE  OutputInOrder
<1> SUFFICES ASSUME Sound
             PROVE  /\ Rising(Delivered) /\ Range(Delivered) \subseteq 1 .. parsed
                    /\ \A i \in 1 .. parsed : out[i].kind \in {"output", "turn"} => i \in Range(Delivered)
                    /\ failure = "closed" => Length(parsed) = flow
  BY DEF OutputInOrder, Sound, Rising
<1>1. LinesInv /\ BudgetInv /\ StreamInv /\ CoverInv
  BY DEF TransportInv
<1>2. /\ seen \in Seq(Nat) /\ held \in Seq(Nat) /\ deferred \in Seq(Nat)
      /\ messages \in Seq(Nat)
  <2>1. Fine \subseteq Nat
    BY DEF Fine
  <2>. QED
    BY <1>1, <2>1, SeqOver DEF BudgetInv
<1>3. Len(messages) \in Nat /\ parsed \in Nat
  BY <1>1, <1>2, LineTyped DEF LinesInv
<1>4. Waiting /\ Ordered /\ Places
  BY <1>1 DEF StreamInv
<1>5. Rising(messages) /\ Range(messages) \subseteq 1 .. parsed
  <2>1. /\ Len(messages) <= parsed /\ DOMAIN messages = 1 .. Len(messages)
        /\ \A k \in 1 .. Len(messages) : messages[k] = parsed - Len(messages) + k
    BY <1>2, <1>4 DEF Waiting
  <2>2. Rising(messages)
    BY <1>3, <2>1 DEF Rising
  <2>3. \A k \in 1 .. Len(messages) : messages[k] \in 1 .. parsed
    BY <1>3, <2>1
  <2>. QED
    BY <2>1, <2>2, <2>3 DEF Range
<1>6. /\ Rising(seen) /\ Rising(held) /\ Rising(deferred)
      /\ Before(seen, held) /\ Before(seen, deferred) /\ Before(seen, messages)
      /\ Before(held, deferred) /\ Before(held, messages) /\ Before(deferred, messages)
  BY <1>4 DEF Ordered
<1>7. PICK early \in Seq(Nat) : early = seen \o held
  <2>1. seen \o held \in Seq(Nat)
    BY <1>2
  <2>. QED
    BY <2>1
<1>8. PICK aside \in Seq(Nat) : aside = early \o deferred
  <2>1. early \o deferred \in Seq(Nat)
    BY <1>2
  <2>. QED
    BY <2>1
<1>9. PICK all \in Seq(Nat) : all = aside \o messages
  <2>1. aside \o messages \in Seq(Nat)
    BY <1>2
  <2>. QED
    BY <2>1
<1>10. Delivered = all
  BY <1>7, <1>8, <1>9 DEF Delivered
<1>11. Rising(early) /\ Range(early) = Range(seen) \cup Range(held)
  BY <1>2, <1>6, <1>7, Joined
<1>12. Before(early, deferred) /\ Before(early, messages)
  BY <1>6, <1>11 DEF Before
<1>13. Rising(aside) /\ Range(aside) = Range(early) \cup Range(deferred)
  BY <1>2, <1>6, <1>8, <1>11, <1>12, Joined
<1>14. Before(aside, messages)
  BY <1>6, <1>12, <1>13 DEF Before
<1>15. Rising(all) /\ Range(all) = Range(aside) \cup Range(messages)
  BY <1>2, <1>5, <1>9, <1>13, <1>14, Joined
<1>16. Range(all) = Everything
  BY <1>11, <1>13, <1>15 DEF Everything
<1>17. Range(all) \subseteq 1 .. parsed
  BY <1>4, <1>5, <1>16 DEF Ordered, Everything
<1>18. \A i \in 1 .. parsed : out[i].kind \in {"output", "turn"} => i \in Range(all)
  BY <1>1, <1>16 DEF CoverInv
<1>19. failure = "closed" => Length(parsed) = flow
  BY <1>4 DEF Places
<1>. QED
  BY <1>10, <1>15, <1>17, <1>18, <1>19

(* One refusal for each interactive request that poll() has returned.         *)
LEMMA RefusalsFollow ==
  ASSUME TransportInv
  PROVE  RefusedOnce
<1>1. InputInv /\ (Sound => RefusalInv)
  BY DEF TransportInv
<1>2. watching <=> pending # <<>>
  BY <1>1 DEF InputInv
<1>3. ASSUME Sound, NEW i \in 1 .. parsed, out[i].kind = "server"
      PROVE  Cardinality(Refusals(i)) = IF i \in Range(messages) THEN 0 ELSE 1
  <2>1. Refusals(i) = {k \in 1 .. Len(Sent) : Sent[k] = Msg("refusal", i)}
    BY DEF Refusals, Sent
  <2>2. Sent \in Seq(Message)
    BY <1>1 DEF InputInv, Sent
  <2>3. \A m : m \in Range(Sent) <=> \E k \in 1 .. Len(Sent) : Sent[k] = m
    BY <2>2 DEF Range
  <2>4. Msg("refusal", i).kind = "refusal" /\ Msg("refusal", i).id = i
    BY DEF Msg
  <2>5. CASE i \in Range(messages)
    <3>1. Msg("refusal", i) \notin Range(Sent)
      BY <1>1, <1>3, <2>4, <2>5 DEF RefusalInv
    <3>2. Refusals(i) = {}
      BY <2>1, <2>3, <3>1
    <3>. QED
      BY <2>5, <3>2, FS_EmptySet
  <2>6. CASE i \notin Range(messages)
    <3>1. Msg("refusal", i) \in Range(Sent)
      BY <1>1, <1>3, <2>6 DEF RefusalInv
    <3>2. PICK k \in 1 .. Len(Sent) : Sent[k] = Msg("refusal", i)
      BY <2>3, <3>1
    <3>3. \A j \in 1 .. Len(Sent) : Sent[j] = Msg("refusal", i) => j = k
      BY <1>1, <1>3, <2>4, <3>2 DEF RefusalInv
    <3>4. Refusals(i) = {k}
      BY <2>1, <3>2, <3>3
    <3>. QED
      BY <2>6, <3>4, FS_Singleton
  <2>. QED
    BY <2>5, <2>6
<1>. QED
  BY <1>2, <1>3 DEF RefusedOnce, Sound

(* However calls follow each other and whatever requests, refusals and the    *)
(* acknowledgement loop put aside, the adapter is given the output in order,  *)
(* each event once, none skipped, and all of it before the stream is closed.  *)
THEOREM OutputIsInOrder == TransportSpec => []OutputInOrder
<1>1. TransportInv => OutputInOrder
  BY OrderFollows
<1>. QED
  BY <1>1, TransportInvariant, PTL

(* Every interactive request poll() has returned was refused exactly once,    *)
(* and stdin is watched for as long as input is pending.                      *)
THEOREM EachIsRefusedOnce == TransportSpec => []RefusedOnce
<1>1. TransportInv => RefusedOnce
  BY RefusalsFollow
<1>. QED
  BY <1>1, TransportInvariant, PTL

(* For every size of the budgets: no event beyond them is delivered, and no   *)
(* more than they allow is buffered on either pipe of a running session.      *)
THEOREM BudgetsHold == TransportSpec => []WithinBudgets
<1>1. TransportInv => WithinBudgets
  BY BudgetsFollow
<1>. QED
  BY <1>1, TransportInvariant, PTL

(* A reader's reading is the complete answer to what it asked.                *)
THEOREM ReadingsAreEarned == TransportSpec => []ReadingsEarned
<1>1. TransportInv => ReadingsEarned
  BY DEF TransportInv, HandshakeInv
<1>. QED
  BY <1>1, TransportInvariant, PTL
=============================================================================
