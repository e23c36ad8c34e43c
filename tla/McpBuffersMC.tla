------------------------------ MODULE McpBuffersMC ------------------------------
(* Small instances of McpBuffers for TLC. *)
EXTENDS McpBuffers

\* In turn 0x1ABCDEF5, an extended identifier, and a remote request for 0x7A5
TwoKinds ==
  [n \in Numbers |->
     IF n % 2 = 1 THEN [ext |-> TRUE, id |-> 448585461, rtr |-> FALSE, len |-> 8]
     ELSE [ext |-> FALSE, id |-> 1957, rtr |-> TRUE, len |-> 2]]
=============================================================================
