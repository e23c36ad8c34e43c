----------------------------- MODULE CanMotorSystem -----------------------------
(***************************************************************************)
(* The motor's whole loop: positionreq-sender.c (PositionReqSender), the   *)
(* bus, and the firmware on its CAN controller (StepperNode).  Step orders *)
(* come from speedcmd-sender.c, which is reduced here to the frames it     *)
(* writes, and another node may ask for the position too.                  *)
(*                                                                         *)
(* Every frame on the bus reaches the motor's controller, and, unless it   *)
(* is its own, the socket of the requesting program.                       *)
(***************************************************************************)
EXTENDS StepperNode, Sequences

CONSTANTS
  Base,                        \* values of a byte
  MaxQueries, MaxOrders        \* bounds, for model checking

Queries == 1 .. MaxQueries

VARIABLES
  main, rt, reqq, rxq, shown,  \* PositionReqSender
  cmdq,                \* step orders written and not yet on the bus
  orders, queries,     \* numbers of step orders and of requests so far
  open,                \* history: per request, the motor's positions since; {} when it is over
  askers               \* history: the request that a transmit buffer answers

reqVars == <<main, rt, reqq, rxq, shown>>
history == <<queries, open, askers>>
systemVars == <<vars, reqVars, cmdq, orders, history>>

Req == INSTANCE PositionReqSender

\* canid_stepmsg: one byte, the direction
StepFrame(d) == [id |-> 1, rtr |-> FALSE, len |-> 1, data |-> IF d = 1 THEN 1 ELSE 2]
Directions == {1, -1}

\* Frames and MaxFrames of StepperNode
SystemFrames == {StepFrame(d) : d \in Directions} \cup {Req!Request(q) : q \in Queries}
AllFrames == MaxQueries + MaxOrders

ASSUME SystemAssumption ==
  /\ Base \in Nat /\ MAX_STEPS \in 2 .. Base * Base
  /\ MaxQueries \in Nat /\ MaxOrders \in Nat
  /\ Frames = SystemFrames /\ MaxFrames = AllFrames
  /\ None \notin Queries

SystemInit ==
  /\ Init /\ Req!Init
  /\ cmdq = << >> /\ orders = 0 /\ queries = 0
  /\ open = [q \in Queries |-> {}] /\ askers = [b \in TxBuffers |-> None]

-----------------------------------------------------------------------------
(* The requesting program *)

Asked(q) == queries' = q /\ open' = [open EXCEPT ![q] = {motor}] /\ UNCHANGED askers
Over(q) == open' = [open EXCEPT ![q] = {}] /\ UNCHANGED <<queries, askers>>

SendRequest ==
  /\ queries < MaxQueries
  /\ Req!Send(queries + 1) /\ Asked(queries + 1)
  /\ UNCHANGED <<vars, cmdq, orders>>

ReceiveFrame ==
  /\ Req!Receive
  /\ IF Req!IsPosition(Head(rxq)) THEN Over(Head(rxq).query) ELSE UNCHANGED history
  /\ UNCHANGED <<vars, cmdq, orders>>

OtherProgramStep ==
  /\ Req!OpenSocket \/ Req!StartThread \/ Req!SetAffinity \/ Req!SendFails \/ Req!SleepCycle
  /\ UNCHANGED <<vars, cmdq, orders, history>>

\* The other program: speedcmd-sender writes a step order.
OrderStep(d) ==
  /\ orders < MaxOrders
  /\ orders' = orders + 1 /\ cmdq' = Append(cmdq, StepFrame(d))
  /\ UNCHANGED <<vars, reqVars, history>>

-----------------------------------------------------------------------------
(* The firmware *)

MotorTurns ==
  /\ Pulse
  /\ open' = [q \in Queries |-> IF open[q] = {} THEN {} ELSE open[q] \cup {motor'}]
  /\ UNCHANGED <<reqVars, cmdq, orders, queries, askers>>

\* The answer is given up when no transmit buffer becomes free.
FindBuffer ==
  /\ SearchTx
  /\ IF dropped' = dropped THEN UNCHANGED history ELSE Over(msg.frame.data)
  /\ UNCHANGED <<reqVars, cmdq, orders>>

LoadAnswer ==
  /\ write_canMsg
  /\ askers' = [askers EXCEPT ![txbuf_n] = msg.frame.data]
  /\ UNCHANGED <<reqVars, cmdq, orders, queries, open>>

OtherFirmwareStep ==
  /\ Setup \/ Poll \/ ChooseBuffer \/ read_canMsg \/ Ignore
       \/ Count \/ Answer \/ WaitSent
  /\ UNCHANGED <<reqVars, cmdq, orders, history>>

-----------------------------------------------------------------------------
(* The bus *)

\* How a frame of another node looks to the socket; queries are numbers here.
ToSocket(f) ==
  [id |-> f.id, rtr |-> f.rtr, len |-> f.len, data |-> <<0, IF f.rtr THEN 0 ELSE f.data>>,
   query |-> None]

BusRequest ==
  /\ reqq # << >>
  /\ Arrive(Head(reqq)) /\ reqq' = Tail(reqq)
  /\ IF accepted' = accepted THEN Over(Head(reqq).data) ELSE UNCHANGED history
  /\ UNCHANGED <<main, rt, rxq, shown, cmdq, orders>>

BusOrder ==
  /\ cmdq # << >>
  /\ Arrive(Head(cmdq)) /\ cmdq' = Tail(cmdq)
  /\ Req!Deliver(ToSocket(Head(cmdq)))
  /\ UNCHANGED <<orders, history>>

\* A request by another node.
BusOther ==
  LET q == queries + 1
  IN /\ q \in Queries
     /\ Arrive(Req!Request(q)) /\ Req!Deliver(ToSocket(Req!Request(q)))
     /\ IF accepted' = accepted
        THEN queries' = q /\ UNCHANGED <<open, askers>> ELSE Asked(q)
     /\ UNCHANGED <<cmdq, orders>>

\* send_position writes the position high byte first.
PositionBytes(p) == <<(p \div Base) % Base, p % Base>>

BusAnswer ==
  \E b \in TxBuffers :
    /\ Transmit /\ txb'[b] # txb[b]
    /\ Req!Deliver([id |-> CANID_POSMSG, rtr |-> FALSE, len |-> 2,
                    data |-> PositionBytes(txb[b]), query |-> askers[b]])
    /\ IF Req!Listening THEN UNCHANGED history ELSE Over(askers[b])
    /\ UNCHANGED <<cmdq, orders>>

Program == SendRequest \/ ReceiveFrame \/ OtherProgramStep
Firmware == MotorTurns \/ FindBuffer \/ LoadAnswer \/ OtherFirmwareStep
Bus == BusRequest \/ BusOrder \/ BusOther \/ BusAnswer

\* Nothing more to do: the firmware polls, or has halted.
Idle == pc \in {"poll", "halted"} /\ UNCHANGED systemVars

SystemNext == Program \/ (\E d \in Directions : OrderStep(d)) \/ Firmware \/ Bus \/ Idle

\* The programs run, and the bus is not blocked for ever.
SystemSpec ==
  /\ SystemInit /\ [][SystemNext]_systemVars
  /\ WF_systemVars(ReceiveFrame) /\ WF_systemVars(OtherProgramStep) /\ WF_systemVars(Firmware)
  /\ WF_systemVars(BusRequest) /\ WF_systemVars(BusOrder) /\ WF_systemVars(BusAnswer)

-----------------------------------------------------------------------------
SocketFrames ==
  [id : Nat, rtr : BOOLEAN, len : 0 .. 8, data : Nat \X Nat, query : Queries \cup {None}]
SystemTypeOK ==
  /\ TypeOK
  /\ main \in {"start", "prepare", "recv", "exited"}
  /\ rt \in {"none", "affinity", "send", "sleep", "exited"}
  /\ reqq \in Seq({Req!Request(q) : q \in Queries}) /\ rxq \in Seq(SocketFrames)
  /\ cmdq \in Seq({StepFrame(d) : d \in Directions})
  /\ shown \in Positions \cup {None}
  /\ orders \in 0 .. MaxOrders /\ queries \in 0 .. MaxQueries
  /\ open \in [Queries -> SUBSET Positions]
  /\ askers \in [TxBuffers -> Queries \cup {None}]

\* Step orders on their way to the motor, from the socket to the firmware.
Todo == [d \in Directions |->
  Cardinality({i \in DOMAIN cmdq : StepOf(cmdq[i]) = d})
  + Cardinality({b \in RxBuffers : rxb[b] # None /\ StepOf(rxb[b].frame) = d})
  + (IF pc = "process" /\ StepOf(msg.frame) = d THEN 1 ELSE 0)]

\* The system keeps the promises of MotorService: no step is made twice or
\* without an order, and a displayed position is one the motor had after the
\* request it answers, although answers are computed while the motor turns,
\* may stay in a transmit buffer for long and overtake each other.
Service == INSTANCE MotorService WITH position <- motor, todo <- Todo
KeepsPromises == Service!Spec

\* On a bus that is not blocked no request stays unanswered without a loss at
\* a known place: a full receive buffer, no free transmit buffer, or a program
\* that does not run.
QueriesEnd ==
  \A q \in Queries : open[q] # {} ~> open[q] = {} \/ pc = "halted" \/ main = "exited"

\* No two answers under way are for the same request, so that no request is
\* answered twice.
Answers == {<<"tx", b>> : b \in {c \in TxBuffers : txb[c] # None}}
             \cup {<<"rx", i>> : i \in {j \in DOMAIN rxq : rxq[j].query # None}}
AnswerTo(a) == IF a[1] = "tx" THEN askers[a[2]] ELSE rxq[a[2]].query
AnsweredOnce ==
  \A a, b \in Answers : AnswerTo(a) = AnswerTo(b) => a = b
=============================================================================
