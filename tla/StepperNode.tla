------------------------------ MODULE StepperNode ------------------------------
(***************************************************************************)
(* The firmware of the motor (stepper_can.ino) on its CAN controller: the  *)
(* polling loop, the step pulses, the answers to position requests, and    *)
(* the receive and send paths of the driver (mcp_can.cpp) they use.        *)
(*                                                                         *)
(* The MCP2515 is external: two receive buffers with rollover and three    *)
(* transmit buffers, which it serves on its own while the firmware runs.   *)
(* Frames are numbered in the order in which they arrive.                  *)
(***************************************************************************)
EXTENDS Integers, FiniteSets, FiniteSetsExt

CONSTANTS
  MAX_STEPS,           \* positions in a turn (1600)
  TIMEOUTVALUE,        \* polls before sendMsg gives up (50)
  Frames,              \* frames other nodes send
  MaxFrames,           \* bound on their number, for model checking
  None                 \* an empty buffer

CANID_STEPMSG == 1
CANID_POSMSG == 2

ASSUME NodeAssumption ==
  /\ MAX_STEPS \in Nat /\ MAX_STEPS > 1
  /\ TIMEOUTVALUE \in Nat \ {0}
  /\ Frames \subseteq [id : Nat, rtr : BOOLEAN, len : 0 .. 8, data : Nat]
  /\ MaxFrames \in Nat
  /\ None \notin 0 .. MAX_STEPS - 1
  /\ None \notin [n : 1 .. MaxFrames, frame : Frames]

Positions == 0 .. MAX_STEPS - 1
RxBuffers == 0 .. 1
TxBuffers == 0 .. 2                             \* MCP_N_TXBUFFERS, none reserved
Numbers == 1 .. MaxFrames

VARIABLES
  pc,                  \* "setup", "halted", "poll", "status", "read", "process",
                       \* "count" (after the pulse), and in sendMsg "free", "load", "sent"
  rxb,                 \* receive buffers: None or [n, frame]
  txb,                 \* transmit buffers: None or the position to be sent
  rx,                  \* the buffer readMsgBufID has chosen
  msg,                 \* the frame read, as [n, frame]
  stepper_position,
  uiTimeOut, txbuf_n, busy,   \* of sendMsg; busy is what its last poll saw
  result,              \* what sendMsg returned last
  motor,               \* where the motor really is, in steps from the start
  arrived,             \* number of frames that arrived
  accepted, handled,   \* history: numbers stored in a buffer; times each was processed
  asked, sent, dropped \* history: answers begun, put on the bus, given up
appVars == <<rx, msg, stepper_position, motor>>
sendVars == <<uiTimeOut, txbuf_n, busy, result>>
busVars == <<rxb, arrived, accepted>>
answers == <<asked, sent, dropped>>
vars == <<pc, appVars, sendVars, busVars, txb, handled, answers>>

Init ==
  /\ pc = "setup"
  /\ rxb = [b \in RxBuffers |-> None] /\ txb = [b \in TxBuffers |-> None]
  /\ rx = 0 /\ msg = None
  /\ stepper_position = 0 /\ motor = 0
  /\ uiTimeOut = 0 /\ txbuf_n = 0 /\ busy = FALSE /\ result = "none"
  /\ arrived = 0 /\ accepted = {} /\ handled = [n \in Numbers |-> 0]
  /\ asked = 0 /\ sent = 0 /\ dropped = 0

\* setup(): can.begin succeeds, or bail_out loops for ever.
Setup ==
  /\ pc = "setup"
  /\ pc' \in {"poll", "halted"}
  /\ UNCHANGED <<appVars, sendVars, busVars, txb, handled, answers>>

Halted == pc = "halted" /\ UNCHANGED vars

-----------------------------------------------------------------------------
\* checkReceive
Poll ==
  /\ pc = "poll" /\ \E b \in RxBuffers : rxb[b] # None
  /\ pc' = "status"
  /\ UNCHANGED <<appVars, sendVars, busVars, txb, handled, answers>>

NoMessage == pc = "poll" /\ (\A b \in RxBuffers : rxb[b] = None) /\ UNCHANGED vars

\* readRxTxStatus and the choice in readMsgBufID; that neither buffer is full
\* cannot happen here, only the firmware empties them.
ChooseBuffer ==
  /\ pc = "status"
  /\ rx' = IF rxb[0] # None THEN 0 ELSE 1
  /\ pc' = "read"
  /\ UNCHANGED <<msg, stepper_position, motor, sendVars, busVars, txb, handled, answers>>

\* mcp2515_read_canMsg: the READ RX BUFFER instruction frees the buffer.
AfterRead_kept(b) == rxb                                            \* mutant
AfterRead(b) == [rxb EXCEPT ![b] = None]
read_canMsg ==
  /\ pc = "read"
  /\ msg' = rxb[rx] /\ rxb' = AfterRead(rx)
  /\ pc' = "process"
  /\ UNCHANGED <<rx, stepper_position, motor, sendVars, arrived, accepted, txb, handled, answers>>

\* What process_can_msg does with a frame.  Only the length and the first byte
\* of a step command are looked at, and whether it is a remote request is not.
StepOf(f) ==
  IF f.id # CANID_STEPMSG \/ f.len # 1 THEN 0
  ELSE IF f.data = 1 THEN 1 ELSE IF f.data = 2 THEN -1 ELSE 0
IsRequest(f) == f.id = CANID_POSMSG /\ f.len = 2 /\ f.rtr

Processing ==
  /\ pc = "process"
  /\ handled' = [handled EXCEPT ![msg.n] = @ + 1]

Ignore ==
  /\ Processing /\ StepOf(msg.frame) = 0 /\ ~IsRequest(msg.frame)
  /\ pc' = "poll"
  /\ UNCHANGED <<appVars, sendVars, busVars, txb, answers>>

\* The pulse of make_step moves the motor ...
Pulse ==
  /\ Processing /\ StepOf(msg.frame) # 0
  /\ motor' = (motor + StepOf(msg.frame)) % MAX_STEPS
  /\ pc' = "count"
  /\ UNCHANGED <<rx, msg, stepper_position, sendVars, busVars, txb, answers>>

\* ... and then the position is counted, modulo a turn.
Counted_stop(p, d) ==                                               \* mutant
  IF d = 1 THEN IF p = MAX_STEPS - 1 THEN 0 ELSE p + 1
  ELSE IF p = 0 THEN 0 ELSE p - 1
Counted(p, d) ==
  IF d = 1 THEN IF p = MAX_STEPS - 1 THEN 0 ELSE p + 1
  ELSE IF p = 0 THEN MAX_STEPS - 1 ELSE p - 1
Count ==
  /\ pc = "count"
  /\ stepper_position' = Counted(stepper_position, StepOf(msg.frame))
  /\ pc' = "poll"
  /\ UNCHANGED <<rx, msg, motor, sendVars, busVars, txb, handled, answers>>

-----------------------------------------------------------------------------
\* send_position: the call of sendMsg
Answer ==
  /\ Processing /\ IsRequest(msg.frame)
  /\ uiTimeOut' = 0 /\ asked' = asked + 1
  /\ pc' = "free"
  /\ UNCHANGED <<appVars, txbuf_n, busy, result, busVars, txb, sent, dropped>>

\* getNextFreeTXBuf: the lowest buffer that is not pending
FreeTx_all == TxBuffers                                             \* mutant
FreeTx == {b \in TxBuffers : txb[b] = None}
AfterSearch(t) ==
  IF FreeTx = {} /\ t < TIMEOUTVALUE THEN "free"
  ELSE IF t = TIMEOUTVALUE THEN "poll" ELSE "load"

\* The counter of both loops.
Polled_stuck(t) == t                                                \* mutant
Polled(t) == t + 1

SearchTx ==
  /\ pc = "free"
  /\ uiTimeOut' = Polled(uiTimeOut)
  /\ busy' = (FreeTx = {})
  /\ txbuf_n' = IF FreeTx = {} THEN txbuf_n ELSE Min(FreeTx)
  /\ pc' = AfterSearch(uiTimeOut')
  /\ IF pc' = "poll"
     THEN result' = "CAN_GETTXBFTIMEOUT" /\ dropped' = dropped + 1
     ELSE UNCHANGED <<result, dropped>>
  /\ UNCHANGED <<appVars, busVars, txb, handled, asked, sent>>

\* mcp2515_write_canMsg and mcp2515_start_transmit
write_canMsg ==
  /\ pc = "load"
  /\ txb' = [txb EXCEPT ![txbuf_n] = stepper_position]
  /\ uiTimeOut' = 0
  /\ pc' = "sent"
  /\ UNCHANGED <<appVars, txbuf_n, busy, result, busVars, handled, answers>>

\* The loop that waits until the frame is on the bus.
SentResult_ok(t) == IF busy' /\ t < TIMEOUTVALUE THEN "none" ELSE "CAN_OK"  \* mutant
SentResult(t) ==
  IF busy' /\ t < TIMEOUTVALUE THEN "none"
  ELSE IF t = TIMEOUTVALUE THEN "CAN_SENDMSGTIMEOUT" ELSE "CAN_OK"
WaitSent ==
  /\ pc = "sent"
  /\ uiTimeOut' = Polled(uiTimeOut)
  /\ busy' = (txb[txbuf_n] # None)
  /\ result' = SentResult(uiTimeOut')
  /\ pc' = IF result' = "none" THEN "sent" ELSE "poll"
  /\ UNCHANGED <<appVars, txbuf_n, busVars, txb, handled, answers>>

App == Setup \/ Poll \/ ChooseBuffer \/ read_canMsg \/ Ignore \/ Pulse \/ Count
         \/ Answer \/ SearchTx \/ write_canMsg \/ WaitSent

-----------------------------------------------------------------------------
\* A frame goes to receive buffer 0, rolls over to buffer 1, or is lost.
Arrive(f) ==
  /\ pc \notin {"setup", "halted"} /\ arrived < MaxFrames
  /\ arrived' = arrived + 1
  /\ LET new == [n |-> arrived + 1, frame |-> f]
         free == {b \in RxBuffers : rxb[b] = None}
     IN IF free = {}
        THEN UNCHANGED <<rxb, accepted>>
        ELSE /\ rxb' = [rxb EXCEPT ![Min(free)] = new]
             /\ accepted' = accepted \cup {arrived + 1}
  /\ UNCHANGED <<pc, appVars, sendVars, txb, handled, answers>>

\* The pending buffer with the highest number goes first; the bus decides when.
Transmit ==
  LET pending == {b \in TxBuffers : txb[b] # None}
  IN /\ pending # {}
     /\ txb' = [txb EXCEPT ![Max(pending)] = None]
     /\ sent' = sent + 1
     /\ UNCHANGED <<pc, appVars, sendVars, busVars, handled, asked, dropped>>

Next == App \/ (\E f \in Frames : Arrive(f)) \/ Transmit \/ NoMessage \/ Halted
Spec == Init /\ [][Next]_vars /\ WF_vars(App)

-----------------------------------------------------------------------------
Stored == [n : Numbers, frame : Frames]
TypeOK ==
  /\ pc \in {"setup", "halted", "poll", "status", "read", "process", "count", "free", "load", "sent"}
  /\ rxb \in [RxBuffers -> Stored \cup {None}]
  /\ txb \in [TxBuffers -> Positions \cup {None}]
  /\ rx \in RxBuffers /\ msg \in Stored \cup {None}
  /\ stepper_position \in Positions /\ motor \in Positions
  /\ uiTimeOut \in 0 .. TIMEOUTVALUE /\ txbuf_n \in TxBuffers /\ busy \in BOOLEAN
  /\ result \in {"none", "CAN_OK", "CAN_GETTXBFTIMEOUT", "CAN_SENDMSGTIMEOUT"}
  /\ arrived \in 0 .. MaxFrames /\ accepted \subseteq 1 .. arrived
  /\ handled \in [Numbers -> Nat]
  /\ asked \in Nat /\ sent \in Nat /\ dropped \in Nat

\* Between two pulses the counted position is the motor's angle, whichever way
\* and however often it turned.
PositionTracksMotor == pc # "count" => stepper_position = motor

\* A frame that reached a receive buffer is in exactly one place until it is
\* processed, and it is processed exactly once.
HandledOnce == \A n \in accepted :
  LET waiting == Cardinality({b \in RxBuffers : rxb[b] # None /\ rxb[b].n = n})
      inHand == IF pc = "process" /\ msg.n = n THEN 1 ELSE 0
  IN waiting + inHand + handled[n] = 1

\* Every answer begun is being prepared, pending in a buffer of its own, on the
\* bus or reported as given up: a pending answer is never overwritten.
AnswersAccountedFor ==
  asked = sent + dropped + Cardinality({b \in TxBuffers : txb[b] # None})
            + (IF pc \in {"free", "load"} THEN 1 ELSE 0)

\* CAN_OK tells that the answer is on the bus: the firmware and the controller
\* agree about the buffer, whatever else the controller was doing meanwhile.
OkMeansSent == pc = "poll" /\ result = "CAN_OK" => txb[txbuf_n] = None

\* Every frame in a receive buffer is processed, in spite of the waiting in
\* sendMsg on a bus that may be blocked for ever.
FramesAreProcessed == \A n \in Numbers : n \in accepted ~> handled[n] = 1
=============================================================================
