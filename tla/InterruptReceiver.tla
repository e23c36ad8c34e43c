--------------------------- MODULE InterruptReceiver ---------------------------
(***************************************************************************)
(* A node that receives by interrupt: the sketch receive_sleep of the CAN  *)
(* library, which sends the CAN controller, its transceiver and the        *)
(* microcontroller to sleep while the bus is silent.  (receive_interrupt   *)
(* is the same loop without the branch that sleeps.)                       *)
(*                                                                         *)
(* The sketch calls the driver of module Mcp2515, whose operations take    *)
(* several steps; meanwhile frames arrive, the controller changes its mode *)
(* and the interrupt handler runs.  The controller pulls its INT pin low   *)
(* while a receive buffer is full or, if enabled, its wake flag is set;    *)
(* the microcontroller notices falling edges only.                         *)
(***************************************************************************)
EXTENDS Integers

CONSTANTS
  MaxTries, None       \* of Mcp2515

ASSUME InterruptReceiverAssumption == MaxTries \in Nat \ {0}

CAN_500KBPS == <<16, "16MHz">>
RxBuffers == {0, 1}

VARIABLES
  pc, op, result, setting, valid, second, target, waking, wakeIntEnabled, tries, mcpMode,
  ready, mode, pending, wakie, wakif, rate, asked, wrote, failed, activity,     \* Mcp2515
  lp,                  \* where the sketch is
  flagRecv,
  rxn,                 \* the buffer readMsgBufID has chosen
  full,                \* receive buffers that hold a frame
  rs,                  \* transceiver control pin: "hiz", "low", "high" (standby)
  attached,            \* the handler is attached to falling edges of INT
  edge,                \* an edge was noticed and the handler has not run yet
  early                \* history: INT was low already when the handler was attached
mcpVars == <<pc, op, result, setting, valid, second, target, waking, wakeIntEnabled, tries,
             mcpMode, ready, mode, pending, wakie, wakif, rate, asked, wrote, failed, activity>>
sketchVars == <<lp, flagRecv, rxn, rs, attached, early>>
vars == <<mcpVars, sketchVars, full, edge>>

Mcp == INSTANCE Mcp2515 WITH Settings <- {CAN_500KBPS}

Init ==
  /\ Mcp!Init
  /\ lp = "begin" /\ flagRecv = FALSE /\ rxn = 0
  /\ full = {} /\ rs = "hiz" /\ attached = FALSE /\ edge = FALSE /\ early = FALSE

IntLow == full # {} \/ (wakif /\ wakie)

\* Conjoined to every step that may pull INT low.
Latch == edge' = (edge \/ (attached /\ ~IntLow /\ IntLow'))

-----------------------------------------------------------------------------
(* setup() *)

\* begin is repeated until it succeeds; the reset clears the buffers.
Begin ==
  /\ lp = "begin" /\ Mcp!begin(CAN_500KBPS)
  /\ lp' = "beginning" /\ full' = {} /\ rs' = "hiz"
  /\ UNCHANGED <<flagRecv, rxn, attached, edge, early>>
BeginReturns ==
  /\ lp = "beginning" /\ pc = "idle"
  /\ lp' = IF result = "OK" THEN "attach" ELSE "begin"
  /\ UNCHANGED <<mcpVars, flagRecv, rxn, rs, attached, early, full, edge>>

\* attachInterrupt; changing what is noticed may itself look like an edge.
AttachInterrupt ==
  /\ lp = "attach" /\ lp' = "configure"
  /\ attached' = TRUE /\ edge' \in BOOLEAN /\ early' = (IntLow /\ ~edge')
  /\ UNCHANGED <<mcpVars, flagRecv, rxn, rs, full>>

WakeUpEnabled_off == FALSE                                          \* mutant
WakeUpEnabled == TRUE
Configure ==
  /\ lp = "configure" /\ Mcp!setSleepWakeup(WakeUpEnabled) /\ lp' = "pins"
  /\ UNCHANGED <<flagRecv, rxn, rs, attached, early, full>> /\ Latch

\* mcpPinMode and mcpDigitalWrite switch the transceiver on.
SetupEnds ==
  /\ lp = "pins" /\ lp' = "loop" /\ rs' = "low"
  /\ UNCHANGED <<mcpVars, flagRecv, rxn, attached, early, full, edge>>

\* MCP2515_ISR, also out of the microcontroller's sleep
MCP2515_ISR ==
  /\ edge /\ lp # "cli"
  /\ edge' = FALSE /\ flagRecv' = TRUE
  /\ lp' = IF lp = "asleep" THEN "awake" ELSE lp
  /\ UNCHANGED <<mcpVars, rxn, rs, attached, early, full>>

-----------------------------------------------------------------------------
(* loop() *)

AfterFrame_once == "loop"                                           \* mutant
AfterFrame == "while"

TakeFlag ==
  /\ lp = "loop" /\ flagRecv
  /\ flagRecv' = FALSE
  /\ lp' = "while"
  /\ UNCHANGED <<mcpVars, rxn, rs, attached, early, full, edge>>

\* while (CAN_MSGAVAIL == CAN.checkReceive())
CheckReceive ==
  /\ lp = "while"
  /\ lp' = IF full = {} THEN "loop" ELSE "status"
  /\ UNCHANGED <<mcpVars, flagRecv, rxn, rs, attached, early, full, edge>>

\* readMsgBuf: the status, and then the buffer it names
Chosen == IF 0 \in full THEN 0 ELSE 1
ReadStatus ==
  /\ lp = "status"
  /\ lp' = IF full = {} THEN AfterFrame ELSE "read"
  /\ rxn' = Chosen
  /\ UNCHANGED <<mcpVars, flagRecv, rs, attached, early, full, edge>>
ReadFrame ==
  /\ lp = "read"
  /\ full' = full \ {rxn} /\ lp' = AfterFrame
  /\ UNCHANGED <<mcpVars, flagRecv, rxn, rs, attached, early, edge>>

\* The bus was silent for KEEP_AWAKE_TIME.
GoToSleep ==
  /\ lp = "loop" /\ ~flagRecv
  /\ Mcp!sleep /\ lp' = "sleep"
  /\ UNCHANGED <<flagRecv, rxn, rs, attached, early, full>> /\ Latch
Standby ==
  /\ lp = "sleep" /\ pc = "idle"
  /\ rs' = "high" /\ lp' = "cli"
  /\ UNCHANGED <<mcpVars, flagRecv, rxn, attached, early, full, edge>>

\* With interrupts off, flagRecv is tested again; they are on again, but cannot
\* come through, when the microcontroller falls asleep.
MissedInterrupt_no == FALSE                                         \* mutant
MissedInterrupt == flagRecv
SleepCpu ==
  /\ lp = "cli"
  /\ lp' = IF MissedInterrupt THEN "awake" ELSE "asleep"
  /\ UNCHANGED <<mcpVars, flagRecv, rxn, rs, attached, early, full, edge>>

Wake_not == UNCHANGED mcpVars                                       \* mutant
Wake == Mcp!wake
WakeUp ==
  /\ lp = "awake" /\ Wake /\ lp' = "wake"
  /\ UNCHANGED <<flagRecv, rxn, rs, attached, early, full>> /\ Latch
EnableTransceiver ==
  /\ lp = "wake" /\ pc = "idle"
  /\ rs' = "low" /\ lp' = "loop"
  /\ UNCHANGED <<mcpVars, flagRecv, rxn, attached, early, full, edge>>

Setup == Begin \/ BeginReturns \/ AttachInterrupt \/ Configure \/ SetupEnds
Loop == TakeFlag \/ CheckReceive \/ ReadStatus \/ ReadFrame \/ Standby \/ SleepCpu \/ WakeUp
          \/ EnableTransceiver
Driver == Mcp!Driver /\ UNCHANGED <<sketchVars, full>> /\ Latch

-----------------------------------------------------------------------------
(* The controller *)

ChangeMode ==
  /\ Mcp!TakeUpMode \/ Mcp!BusActivity \/ Mcp!WakeUp
  /\ UNCHANGED <<sketchVars, full>> /\ Latch

\* A frame rolls over into buffer 1 when buffer 0 is full.
Receive ==
  /\ mode \in {"normal", "listenonly"} /\ full # RxBuffers
  /\ full' = full \cup {IF 0 \in full THEN 1 ELSE 0}
  /\ UNCHANGED <<mcpVars, sketchVars>> /\ Latch

\* No interrupt comes: loop() has nothing to do, or the microcontroller sleeps on.
Waiting == lp \in {"loop", "asleep"} /\ UNCHANGED vars

Next == Setup \/ Loop \/ GoToSleep \/ Driver \/ MCP2515_ISR \/ ChangeMode \/ Receive \/ Waiting

\* The microcontroller runs, and serves its interrupts.
Spec == Init /\ [][Next]_vars /\ WF_vars(Setup \/ Loop \/ Driver) /\ WF_vars(MCP2515_ISR)

-----------------------------------------------------------------------------
\* Types of the sketch's variables (Mcp2515 has those of the driver's), and that
\* a buffer is read only if it is full.
TypeOK ==
  /\ lp \in {"begin", "beginning", "attach", "configure", "pins", "loop", "while", "status", "read",
             "sleep", "cli", "asleep", "awake", "wake"}
  /\ flagRecv \in BOOLEAN /\ rxn \in RxBuffers /\ full \subseteq RxBuffers /\ (lp = "read" => rxn \in full)
  /\ rs \in {"hiz", "low", "high"} /\ attached \in BOOLEAN /\ edge \in BOOLEAN /\ early \in BOOLEAN

Draining == lp \in {"while", "status", "read"}

\* A low INT pin, which makes no further edges, is always about to be attended
\* to: no wake-up is lost between the tests of flagRecv, the controller's mode
\* changes and the microcontroller's sleep.  Two cases are excluded, in which
\* one is lost: INT was low already when the handler was attached, and a mode
\* request that timed out and is carried out later.
NoWakeUpLost ==
  attached /\ IntLow =>
    edge \/ (flagRecv /\ lp # "asleep") \/ Draining \/ early \/ failed

\* While it is not sleeping the node takes part in the bus again, whatever the
\* controller did in the meantime, unless a mode request timed out.
AwakeOnBus ==
  lp \in {"loop", "while", "status", "read"} /\ ~failed
    => mode = "normal" /\ rs = "low" /\ ~wakif

\* As long as frames are waiting the sketch goes on reading.  (Which of the two
\* is read is another matter: on a saturated bus buffer 0 is always full again.)
ReadingGoesOn == attached /\ full # {} ~> lp = "read" \/ early \/ failed

\* "The node will wake up when a new message arrives": activity on the bus of a
\* sleeping node brings it back.
WakesOnMessage == lp = "asleep" /\ activity ~> lp = "loop" \/ early \/ failed
=============================================================================
