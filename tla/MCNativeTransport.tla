-------------------------- MODULE MCNativeTransport --------------------------
(* Instances of the transport: what a Codex process writes can be split       *)
(* anywhere, and exceed the line or the byte budget; Claude's lines come      *)
(* whole, but in enough variety for its acknowledgement loop.                 *)
EXTENDS NativeTransport

Line(kind, size) == [kind |-> kind, size |-> size]
AllLines ==
  [codex |-> {Line("response", 2), Line("rejected", 1), Line("server", 1),
              Line("output", 2), Line("output", 4), Line("garbage", 1)},
   claude |-> {Line(k, 1) : k \in {"response", "output", "init", "ack", "turn",
                                  "foreign", "other setup", "server"}},
   limits |-> {Line("response", 2), Line("rejected", 1), Line("output", 1)},
   document |-> {Line("output", 3), Line("garbage", 1)}]
LinesOf == [m \in Modes |-> AllLines[m]]
MaxLinesOf == [m \in Modes |-> IF m = "document" THEN 2 ELSE 3]
MaxCallsOf == [m \in Modes |-> IF m = "claude" THEN 1 ELSE 2]
=============================================================================
