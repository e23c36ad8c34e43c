--------------------------- MODULE PositionReqSender ---------------------------
(***************************************************************************)
(* The program that asks for the motor's position in every cycle and       *)
(* displays the answers (positionreq-sender.c).  Its real-time thread and  *)
(* its main thread share nothing but the CAN socket: one writes requests,  *)
(* the other waits for frames.  CycleTimer describes when cycles begin.    *)
(*                                                                         *)
(* The module is composed with the bus in CanMotorSystem.                  *)
(***************************************************************************)
EXTENDS Integers, Sequences

CONSTANTS
  Base,                \* values of a byte (256)
  None                 \* no position displayed yet

canid_motorposition == 2

VARIABLES
  main,                \* "start", "prepare", "recv", "exited"
  rt,                  \* real-time thread: "none", "affinity", "send", "sleep", "exited"
  reqq,                \* requests written and not yet on the bus
  rxq,                 \* frames the socket has received
  shown                \* the position displayed last
vars == <<main, rt, reqq, rxq, shown>>

Init ==
  /\ main = "start" /\ rt = "none"
  /\ reqq = << >> /\ rxq = << >> /\ shown = None

Exit == main' = "exited" /\ rt' = "exited"

\* main: every step before the receive loop ends the program when it fails.
OpenSocket ==
  /\ main = "start"
  /\ (main' = "prepare" /\ UNCHANGED rt) \/ Exit
  /\ UNCHANGED <<reqq, rxq, shown>>

StartThread ==
  /\ main = "prepare"
  /\ (main' = "recv" /\ rt' = "affinity") \/ Exit
  /\ UNCHANGED <<reqq, rxq, shown>>

-----------------------------------------------------------------------------
(* rt_thread_run *)

SetAffinity ==
  /\ rt = "affinity"
  /\ (rt' = "send" /\ UNCHANGED main) \/ Exit
  /\ UNCHANGED <<reqq, rxq, shown>>

\* send_rtr_motor_position.  A remote request has no data; `data' is the
\* number under which the request is known here.
Request(q) == [id |-> canid_motorposition, rtr |-> TRUE, len |-> 2, data |-> q]

Send(q) ==
  /\ rt = "send" /\ rt' = "sleep"
  /\ reqq' = Append(reqq, Request(q))
  /\ UNCHANGED <<main, rxq, shown>>
SendFails ==
  /\ rt = "send" /\ rt' = "sleep"
  /\ UNCHANGED <<main, reqq, rxq, shown>>

SleepCycle ==
  /\ rt = "sleep"
  /\ (rt' = "send" /\ UNCHANGED main) \/ Exit
  /\ UNCHANGED <<reqq, rxq, shown>>

-----------------------------------------------------------------------------
(* recv_remote_response *)

IsPosition_rtr(f) == f.id = canid_motorposition /\ f.len = 2        \* mutant
IsPosition(f) == ~f.rtr /\ f.id = canid_motorposition /\ f.len = 2

\* Big-endian
Decoded_wide(bytes) == bytes[1] * Base * Base + bytes[2]            \* mutant
Decoded(bytes) == bytes[1] * Base + bytes[2]

Receive ==
  /\ main = "recv" /\ rxq # << >>
  /\ rxq' = Tail(rxq)
  /\ shown' = IF IsPosition(Head(rxq)) THEN Decoded(Head(rxq).data) ELSE shown
  /\ UNCHANGED <<main, rt, reqq>>

\* The socket has a frame for the program, once it is bound.
Listening == main \in {"prepare", "recv"}
Deliver(f) ==
  /\ rxq' = IF Listening THEN Append(rxq, f) ELSE rxq
  /\ UNCHANGED <<main, rt, reqq, shown>>
=============================================================================
