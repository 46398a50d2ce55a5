--------------------------- MODULE NativeTransport ---------------------------
(***************************************************************************)
(* One native process and the client that talks to it over pipes: the       *)
(* bounded JSON-lines transport (src/native_transport.py), Claude's control *)
(* channel on top of it (src/native_claude.py Control, the acknowledgement  *)
(* loop of Claude.launch) and the one-shot readers (src/native_rpc.py).     *)
(*                                                                          *)
(* Abstractions: a line is its kind and its length in units, newline        *)
(* included; the reader sees the stream in chunks of any length; what is    *)
(* sent is a message, of which any number fits in one write.  Any           *)
(* ProtocolError ends the session: every caller closes the process.         *)
(***************************************************************************)
EXTENDS Integers, Sequences, FiniteSets, SequencesExt

CONSTANTS
  Modes,      \* clients considered, of "codex", "claude", "limits", "document"
  Lines,      \* [Modes -> what the native side may write], [kind, size] records
  MaxLines,   \* [Modes -> lines a native process writes], bounded
  MaxCalls,   \* [Modes -> requests a client makes], bounded
  MaxBytes,   \* JsonProcess.max_bytes, in units
  MaxLine,    \* JsonProcess.max_line, in units
  MaxPending  \* the 2 MiB of unsent input, in messages

ASSUME TransportAssumption ==
  /\ Modes \subseteq {"codex", "claude", "limits", "document"}
  /\ \A m \in Modes : \A line \in Lines[m] : line.size \in Nat \ {0}
  /\ {MaxLines, MaxCalls} \subseteq [Modes -> Nat]
  /\ {MaxBytes, MaxLine, MaxPending} \subseteq Nat

VARIABLES
  mode,      \* which client this is
  out,       \* lines the native process wrote: kind, size, id, where it ends
  flow,      \* units of them that can be read: a process may die in a line
  ended,     \* the native process closed its output
  inbox,     \* messages the native process received
  pending,   \* JsonProcess.pending: input not yet written
  watching,  \* stdin is registered with the selector
  received,  \* JsonProcess.received
  parsed,    \* lines taken out of the buffer
  messages,  \* JsonProcess.messages, as line numbers
  deferred,  \* JsonProcess.notifications, as line numbers
  held,      \* `pending` of Claude.launch, as line numbers
  seen,      \* events the adapter was given, in order
  eof,       \* JsonProcess.eof
  call,      \* the call in progress, see Call
  nextId,
  replies,   \* [request ids -> line number of the response returned]
  failure    \* the exception that ended the session, or a reader's result

native == <<out, flow, ended>>
input == <<inbox, pending, watching>>
stream == <<received, parsed, messages, eof>>
given == <<deferred, held, seen>>
transportVars == <<mode, native, input, stream, given, call, nextId, replies, failure>>

\* batch: keys of the current select() not handled yet; a poll() that returns
\* None to a loop and is called again is not told apart from one that goes on
\* selecting.  waiting: what the acknowledgement loop still waits for.  due:
\* the deadline has passed.
Call == [op : {"request", "notification", "ack", "read"},
         batch : SUBSET {"in", "out"}, waiting : SUBSET {"init", "ack"},
         id : 0 .. MaxCalls[mode], due : BOOLEAN]
Idle == [op |-> "idle"]
Begin(op, id) ==
  [op |-> op, batch |-> {}, id |-> id, due |-> FALSE,
   waiting |-> IF op = "ack" THEN {"init", "ack"} ELSE {}]
Calling(op) == call.op = op
InPoll == call.op \in {"request", "notification", "ack"}

\* Units of the first n lines.
Length(n) == IF n = 0 THEN 0 ELSE out[n].end
\* Lines whose newline is among the first n units.
Complete(n) == Cardinality({i \in 1 .. Len(out) : Length(i) <= n})
\* The unterminated rest of what was read.
Buffered == received - Length(Complete(received))

Msg(kind, id) == [kind |-> kind, id |-> id]

TransportInit ==
  /\ mode \in Modes
  /\ out = <<>> /\ flow = 0 /\ ended = FALSE
  /\ inbox = <<>> /\ pending = <<>> /\ watching = FALSE
  /\ received = 0 /\ parsed = 0 /\ messages = <<>> /\ eof = FALSE
  /\ deferred = <<>> /\ held = <<>> /\ seen = <<>>
  /\ nextId = 1 /\ replies = <<>> /\ failure = "none"
  /\ call = IF mode \in {"limits", "document"} THEN Begin("read", 0) ELSE Idle

Fail(why) == failure' = why /\ call' = Idle
\* send(): over the budget nothing is queued; stdin is watched from the first
\* byte on.  What follows a successful send is left to the caller.
Fits == Len(pending) + 1 <= MaxPending
Register == watching \/ pending = <<>>
Queue(message) ==
  /\ pending' = Append(pending, message)
  /\ watching' = Register
  /\ UNCHANGED inbox
----------------------------------------------------------------------------
(* The native process (external) *)

\* Responses answer a request received and not answered before.
Answers(id) == {i \in 1 .. Len(out) : /\ out[i].kind \in {"response", "rejected"}
                                      /\ out[i].id = id}
Open == {id \in 1 .. MaxCalls[mode] : /\ \E i \in 1 .. Len(inbox) : inbox[i] = Msg("request", id)
                                /\ Answers(id) = {}}
NativeWrites ==
  /\ ~ended /\ Len(out) < MaxLines[mode]
  /\ \E line \in Lines[mode], id \in Open \cup {0} :
       /\ (line.kind \in {"response", "rejected"}) = (id # 0)
       /\ out' = Append(out, [kind |-> line.kind, size |-> line.size, id |-> id,
                               end |-> Length(Len(out)) + line.size])
       /\ flow' = flow + line.size
  /\ UNCHANGED <<mode, ended, input, stream, given, call, nextId, replies, failure>>

NativeEnds ==
  /\ ~ended
  /\ ended' = TRUE
  /\ flow' \in received .. flow
  /\ UNCHANGED <<mode, out, input, stream, given, call, nextId, replies, failure>>

\* time.monotonic() passes the deadline of the call.
Deadline ==
  /\ call # Idle
  /\ ~call.due
  /\ call' = [call EXCEPT !.due = TRUE]
  /\ UNCHANGED <<mode, native, input, stream, given, nextId, replies, failure>>

----------------------------------------------------------------------------
(* The client's calls *)

\* request(): register the input, then poll until the response or deadline.
Request ==
  /\ call = Idle /\ failure = "none" /\ mode \in {"codex", "claude"}
  /\ nextId <= MaxCalls[mode]
  /\ nextId' = nextId + 1
  /\ \/ ~Fits /\ Fail("input budget") /\ UNCHANGED input
     \/ Fits /\ Queue(Msg("request", nextId)) /\ call' = Begin("request", nextId)
             /\ UNCHANGED failure
  /\ UNCHANGED <<mode, native, stream, given, replies>>

\* Claude.launch() submits the prompt once and waits until it is acknowledged.
SubmitPrompt ==
  /\ call = Idle /\ failure = "none" /\ mode = "claude"
  /\ Msg("prompt", 0) \notin Range(inbox \o pending)
  /\ \/ ~Fits /\ Fail("input budget") /\ UNCHANGED input
     \/ Fits /\ Queue(Msg("prompt", 0)) /\ call' = Begin("ack", 0)
             /\ UNCHANGED failure
  /\ UNCHANGED <<mode, native, stream, given, nextId, replies>>

\* The run loop polls for notifications once the adapter's launch returned.
Launched == \/ mode = "codex" /\ nextId > 1
            \/ mode = "claude" /\ Msg("prompt", 0) \in Range(inbox \o pending)

\* notification(): what requests put aside comes first.
PutAside == deferred # <<>>
Notification ==
  /\ call = Idle /\ failure = "none" /\ Launched
  /\ IF PutAside
     THEN /\ deferred' = Tail(deferred) /\ seen' = Append(seen, Head(deferred))
          /\ UNCHANGED <<held, call>>
     ELSE call' = Begin("notification", 0) /\ UNCHANGED given
  /\ UNCHANGED <<mode, native, input, stream, nextId, replies, failure>>
----------------------------------------------------------------------------
(* poll() *)

\* The acknowledgement loop too is given first what was put aside.
Polling == /\ InPoll /\ call.batch = {}
           /\ Calling("ack") => deferred = <<>>
\* Mutant: the clock is looked at only between complete events.
ExpiredBetween == /\ call.op \in {"request", "ack"} /\ call.batch = {} /\ call.due
                  /\ Buffered = 0
\* The loops of request() and of the acknowledgement look at the clock before
\* every poll.
Expired == call.op \in {"request", "ack"} /\ call.batch = {} /\ call.due
Overdue ==
  /\ Expired
  /\ Fail("deadline")
  /\ UNCHANGED <<mode, native, input, stream, given, nextId, replies>>
\* A message that came in during the poll at the deadline is still handled.
Handling == Polling /\ messages # <<>>

Ready == {key \in {"in", "out"} :
            \/ key = "in" /\ watching
            \/ key = "out" /\ (received < flow \/ ended)}
Select ==
  /\ Polling /\ messages = <<>> /\ ~call.due
  /\ \E keys \in SUBSET Ready \ {{}} : call' = [call EXCEPT !.batch = keys]
  /\ UNCHANGED <<mode, native, input, stream, given, nextId, replies, failure>>

\* poll() returns None to notification(), and that to the run loop.
GiveUp ==
  /\ Polling /\ messages = <<>> /\ Calling("notification")
  /\ call' = Idle
  /\ UNCHANGED <<mode, native, input, stream, given, nextId, replies, failure>>

\* os.write(): some of the input, none when the pipe is full, or a broken pipe.
Write ==
  /\ InPoll /\ "in" \in call.batch
  /\ \/ ended /\ Fail("input closed") /\ UNCHANGED input
     \/ /\ \E n \in 0 .. Len(pending) :
             /\ inbox' = inbox \o SubSeq(pending, 1, n)
             /\ pending' = SubSeq(pending, n + 1, Len(pending))
        /\ watching' = (pending' # <<>>)
        /\ call' = [call EXCEPT !.batch = @ \ {"in"}]
        /\ UNCHANGED failure
  /\ UNCHANGED <<mode, native, stream, given, nextId, replies>>

\* The lines a chunk completes are taken out of the buffer one by one, up to
\* the first that is malformed or too long.
\* Mutant: the line budget is left to the buffer.
BadJson(i) == out[i].kind = "garbage"
Bad(i) == out[i].kind = "garbage" \/ out[i].size - 1 > MaxLine
FirstBad(new) == {i \in new : Bad(i) /\ \A j \in new : Bad(j) => i <= j}
Read ==
  /\ InPoll /\ "out" \in call.batch /\ received < flow
  /\ \E n \in 1 .. flow - received :
       LET new == (parsed + 1) .. Complete(received + n)
           stop == FirstBad(new)
           good == {i \in new : \A j \in stop : i < j}
       IN
       /\ received' = received + n
       /\ IF received' > MaxBytes
          THEN Fail("output budget") /\ UNCHANGED <<parsed, messages>>
          ELSE /\ messages' = messages \o [k \in 1 .. Cardinality(good) |-> parsed + k]
               /\ parsed' = parsed + Cardinality(good) + Cardinality(stop)
               /\ IF stop # {} THEN Fail("bad event")
                  ELSE IF received' - Length(parsed') > MaxLine THEN Fail("line budget")
                  ELSE call' = [call EXCEPT !.batch = @ \ {"out"}] /\ UNCHANGED failure
  /\ UNCHANGED <<mode, native, input, given, eof, nextId, replies>>
\* No message is left when the end is read: poll() returns those of a chunk
\* before it selects again.
ReadEnd ==
  /\ InPoll /\ "out" \in call.batch /\ received = flow /\ ended
  /\ eof' = TRUE
  /\ Fail(IF Buffered > 0 THEN "partial event" ELSE "closed")
  /\ UNCHANGED <<mode, native, input, received, parsed, messages, given, nextId, replies>>

----------------------------------------------------------------------------
(* What the caller does with the message poll() returned *)

\* answer_request(): every interactive permission is refused.
Answer(i) ==
  IF Fits THEN Queue(Msg("refusal", i)) /\ UNCHANGED failure
  ELSE Fail("input budget") /\ UNCHANGED input
\* Mutant: what arrives during a request is put aside unseen.
IsServerOutside(i) == out[i].kind = "server" /\ ~Calling("request")
IsServer(i) == out[i].kind = "server"
Refuse(i) ==
  /\ IsServer(i)
  /\ Answer(i)
  /\ Fits => call' = IF Calling("notification") THEN Idle ELSE call
  /\ UNCHANGED <<given, replies>>

\* request(): its own response ends it, anything else is put aside.
OnRequest(i) ==
  /\ Calling("request") /\ ~IsServer(i)
  /\ IF out[i].id = call.id
     THEN /\ IF out[i].kind = "rejected" THEN Fail("rejected") /\ UNCHANGED replies
             ELSE /\ replies' = Append(replies, <<call.id, i>>) /\ call' = Idle
                  /\ UNCHANGED failure
          /\ UNCHANGED given
     ELSE /\ deferred' = Append(deferred, i)
          /\ UNCHANGED <<call, held, seen, replies, failure>>
  /\ UNCHANGED input

OnNotification(i) ==
  /\ Calling("notification") /\ ~IsServer(i)
  /\ seen' = Append(seen, i) /\ call' = Idle
  /\ UNCHANGED <<deferred, held, input, replies, failure>>

\* The acknowledgement loop of Claude.launch() keeps what it does not use and,
\* once the session and the prompt are acknowledged, puts it back in front.
\* Mutant: extendleft() without reversing.
PutBackReversed(kept, rest) == Reverse(kept) \o rest
PutBack(kept, rest) == kept \o rest
\* A "turn" is an event of the submitted message: it acknowledges the prompt
\* and is kept.  "foreign" stands for the messages of another session, "other
\* setup" for an init that differs from what was verified.
Acknowledges(i) == IF out[i].kind = "turn" THEN {"ack"} ELSE {out[i].kind}
Keeps(i) == out[i].kind \notin {"init", "ack", "foreign"}
OnAck(i, rest) ==
  /\ Calling("ack") /\ ~IsServer(i)
  /\ IF out[i].kind = "other setup"
     THEN deferred' = rest /\ Fail("session differs") /\ UNCHANGED held
     ELSE LET waiting == call.waiting \ Acknowledges(i)
              kept == IF Keeps(i) THEN Append(held, i) ELSE held
          IN /\ IF waiting = {}
                THEN /\ deferred' = PutBack(kept, rest) /\ held' = <<>> /\ call' = Idle
                ELSE /\ deferred' = rest /\ held' = kept
                     /\ call' = [call EXCEPT !.waiting = waiting]
             /\ UNCHANGED failure
  /\ UNCHANGED <<seen, input, replies>>
Take ==
  /\ Handling
  /\ messages' = Tail(messages)
  /\ LET i == Head(messages) IN
       Refuse(i) \/ OnRequest(i) \/ OnNotification(i) \/ OnAck(i, deferred)
  /\ UNCHANGED <<mode, native, received, parsed, eof, nextId>>

TakeDeferred ==
  /\ Calling("ack") /\ ~Expired /\ deferred # <<>>
  /\ OnAck(Head(deferred), Tail(deferred))
  /\ UNCHANGED <<mode, native, stream, nextId>>

----------------------------------------------------------------------------
(* The one-shot readers: read_rate_limits() and read_json() *)

Return(value) == failure' = value /\ call' = Idle

\* Both read until their deadline, the byte ceiling or the end of the output.
ReaderReads ==
  /\ Calling("read") /\ ~call.due /\ received < flow
  /\ mode = "limits" => nextId > 1 /\ parsed = Complete(received)
  /\ \E n \in 1 .. flow - received :
       /\ mode = "document" => received + n <= MaxBytes + 1
       /\ received' = received + n
       /\ IF received' > MaxBytes THEN Return("unavailable") ELSE UNCHANGED <<call, failure>>
  /\ UNCHANGED <<mode, native, input, parsed, messages, eof, given, nextId, replies>>
ReaderTimesOut ==
  /\ Calling("read") /\ call.due
  /\ Return("unavailable")
  /\ UNCHANGED <<mode, native, input, stream, given, nextId, replies>>

\* The handshake: nothing is asked before the initialization is confirmed.
Sends(sent) == inbox' = inbox \o sent /\ UNCHANGED <<pending, watching>>
LimitsStart ==
  /\ Calling("read") /\ mode = "limits" /\ nextId = 1
  /\ Sends(<<Msg("request", 1)>>) /\ nextId' = 2
  /\ UNCHANGED <<mode, native, stream, given, call, replies, failure>>
LimitsLine ==
  LET line == out[parsed + 1] IN
  /\ Calling("read") /\ mode = "limits" /\ parsed < Complete(received)
  /\ parsed' = parsed + 1
  /\ \/ /\ line.id = 1 /\ nextId = 2
        /\ \/ /\ line.kind = "rejected" \/ ended
              /\ Return("unavailable") /\ UNCHANGED <<input, nextId>>
           \/ /\ line.kind = "response"
              /\ Sends(<<Msg("initialized", 0), Msg("request", 2)>>)
              /\ nextId' = 3 /\ UNCHANGED <<call, failure>>
     \/ /\ line.id = 2 /\ nextId = 3
        \* a result or an error that is not an object is no answer
        /\ \E value \in {"unavailable"} \cup IF line.kind = "response" THEN {"reading"}
                        ELSE {"reauth-required", "denied", "unknown"} : Return(value)
        /\ UNCHANGED <<input, nextId>>
     \/ /\ line.id # nextId - 1
        /\ UNCHANGED <<input, nextId, call, failure>>
  /\ UNCHANGED <<mode, native, received, messages, eof, given, replies>>
LimitsEnd ==
  /\ Calling("read") /\ mode = "limits" /\ nextId > 1
  /\ ended /\ received = flow /\ parsed = Complete(received)
  /\ Return("unavailable")
  /\ UNCHANGED <<mode, native, input, stream, given, nextId, replies>>

\* The document counts only when all of it was read and the process succeeded.
Document == Len(out) = 1 /\ Complete(received) = 1 /\ out[1].kind = "output"
\* Mutant: the document is judged by what there is when the output stalls.
AllSoFar == received = flow
AllRead == ended /\ received = flow
DocumentEnd ==
  /\ Calling("read") /\ mode = "document" /\ ~call.due
  /\ AllRead
  /\ \E exited \in BOOLEAN :
       Return(IF exited /\ Document THEN "reading" ELSE "unavailable")
  /\ UNCHANGED <<mode, native, input, stream, given, nextId, replies>>
----------------------------------------------------------------------------

ClientStep ==
  \/ Overdue \/ Select \/ GiveUp \/ Write \/ Read \/ ReadEnd
  \/ Take \/ TakeDeferred
  \/ ReaderReads \/ ReaderTimesOut \/ LimitsStart \/ LimitsLine \/ LimitsEnd \/ DocumentEnd
TransportNext ==
  \/ NativeWrites \/ NativeEnds \/ Deadline
  \/ Request \/ SubmitPrompt \/ Notification
  \/ ClientStep

TransportSpec == TransportInit /\ [][TransportNext]_transportVars
FairTransportSpec ==
  TransportSpec /\ WF_transportVars(ClientStep) /\ WF_transportVars(Deadline)

----------------------------------------------------------------------------
(* Properties *)

\* Whatever requests, refusals and acknowledgements come in between, the
\* adapter is given the native output in the order it was written, every event
\* once and none skipped, and all of it before the stream is reported closed
\* (poll(), request(), notification(), Claude.launch()).
Delivered == seen \o held \o deferred \o messages
OutputInOrder ==
  failure \in {"none", "closed", "deadline"} /\ mode \in {"codex", "claude"} =>
    /\ \A j, k \in DOMAIN Delivered : j < k => Delivered[j] < Delivered[k]
    /\ Range(Delivered) \subseteq 1 .. parsed
    /\ \A i \in 1 .. parsed : out[i].kind \in {"output", "turn"} => i \in Range(Delivered)
    /\ failure = "closed" => Length(parsed) = flow

\* Every interactive request the client has come across was refused, once, and
\* a refusal that does not fit the pipe yet is not forgotten: the selector
\* watches stdin for as long as input is pending (answer_request(), send()).
Refusals(i) == {k \in 1 .. Len(inbox \o pending) : (inbox \o pending)[k] = Msg("refusal", i)}
RefusedOnce ==
  /\ failure \in {"none", "closed", "deadline"} /\ mode \in {"codex", "claude"} =>
    \A i \in 1 .. parsed : out[i].kind = "server" =>
      Cardinality(Refusals(i)) = IF i \in Range(messages) THEN 0 ELSE 1
  /\ watching <=> pending # <<>>

\* No event beyond the budgets is delivered and no more than the budgets is
\* buffered, on either pipe (max_bytes, max_line, the pending input).
WithinBudgets ==
  /\ \A i \in Range(messages \o deferred \o held \o seen) : out[i].size - 1 <= MaxLine
  /\ failure = "none" => received <= MaxBytes /\ Len(pending) <= MaxPending
  /\ failure = "none" /\ mode \in {"codex", "claude"} => received - Length(parsed) <= MaxLine

\* A reading comes from the complete answer to a question asked: of a finished
\* handshake, or of a process that has written all it had to.
ReadingsEarned ==
  failure \in {"reading", "denied", "reauth-required", "unknown"} =>
    \/ /\ mode = "limits" /\ Msg("initialized", 0) \in Range(inbox)
       /\ parsed \in Answers(2) /\ Answers(1) # {}
    \/ mode = "document" /\ ended /\ Document

\* Every call ends, whatever the native side does or fails to do: a stalled
\* line, a full pipe or a stream of other messages cannot keep it beyond its
\* deadline.
CallsEnd == call # Idle ~> call = Idle
============================================================================
