------------------------ MODULE CanMotorSystem_proofs ------------------------
(***************************************************************************)
(* Proofs about CanMotorSystem for every number of positions, requests and *)
(* step orders, every base of the bytes that holds a position in two of    *)
(* them, and every time-out of the driver.                                 *)
(*                                                                         *)
(* Every step of the system is one of the node or leaves it alone, so that *)
(* the invariants of StepperNode_proofs hold here as well.  To them comes  *)
(* CarryInv: where the requests under way are, and that each of the places *)
(* holds others than the rest.                                             *)
(***************************************************************************)
EXTENDS CanMotorSystem, StepperNode_proofs, SequenceTheorems

-----------------------------------------------------------------------------
(* The frames of the system. *)

Requests == {Req!Request(q) : q \in Queries}
Orders == {StepFrame(d) : d \in Directions}

\* A step order is a frame of its own direction, and no request.
LEMMA OrderFrames ==
  ASSUME NEW d \in Directions
  PROVE  /\ StepFrame(d) \in Frames /\ StepFrame(d) \in Orders
         /\ StepOf(StepFrame(d)) = d /\ ~IsRequest(StepFrame(d))
<1>1. StepFrame(d) \in Frames /\ StepFrame(d) \in Orders
  BY SystemAssumption DEF SystemAssumption, SystemFrames, Orders
<1>2. StepOf(StepFrame(d)) = d /\ ~IsRequest(StepFrame(d))
  BY DEF Directions, StepFrame, StepOf, IsRequest, CANID_STEPMSG, CANID_POSMSG
<1> QED BY <1>1, <1>2

\* A request is a frame that turns nothing.
LEMMA RequestFrames ==
  ASSUME NEW q \in Queries
  PROVE  /\ Req!Request(q) \in Frames /\ Req!Request(q) \in Requests
         /\ Req!Request(q).data = q
         /\ StepOf(Req!Request(q)) = 0 /\ IsRequest(Req!Request(q))
<1>1. Req!Request(q) \in Frames /\ Req!Request(q) \in Requests
  BY SystemAssumption DEF SystemAssumption, SystemFrames, Requests
<1>2. StepOf(Req!Request(q)) = 0 /\ IsRequest(Req!Request(q)) /\ Req!Request(q).data = q
  BY DEF Req!Request, Req!canid_motorposition, StepOf, IsRequest, CANID_STEPMSG, CANID_POSMSG
<1> QED BY <1>1, <1>2

\* There are no other frames.
LEMMA FrameKinds ==
  /\ \A f \in Frames : f \in Orders \/ f \in Requests
  /\ \A f \in Requests : f \in Frames /\ f.data \in Queries /\ IsRequest(f) /\ StepOf(f) = 0
  /\ \A f \in Orders : f \in Frames /\ ~IsRequest(f) /\ StepOf(f) \in Directions
<1>1. \A f \in Frames : f \in Orders \/ f \in Requests
  BY SystemAssumption DEF SystemAssumption, SystemFrames, Orders, Requests
<1>2. \A f \in Requests : f \in Frames /\ f.data \in Queries /\ IsRequest(f) /\ StepOf(f) = 0
  BY RequestFrames DEF Requests
<1>3. \A f \in Orders : f \in Frames /\ ~IsRequest(f) /\ StepOf(f) \in Directions
  BY OrderFrames DEF Orders
<1> QED BY <1>1, <1>2, <1>3

-----------------------------------------------------------------------------
(* Types, and every step of the system is one of the node. *)

RestOK ==
  /\ main \in {"start", "prepare", "recv", "exited"}
  /\ rt \in {"none", "affinity", "send", "sleep", "exited"}
  /\ reqq \in Seq(Requests) /\ rxq \in Seq(SocketFrames) /\ cmdq \in Seq(Orders)
  /\ orders \in 0 .. MaxOrders /\ queries \in 0 .. MaxQueries
  /\ open \in [Queries -> SUBSET Positions]
  /\ askers \in [TxBuffers -> Queries \cup {None}]

\* Every step of the system is one of the node, or leaves it alone.
LEMMA SystemIsNode == RestOK /\ [SystemNext]_systemVars => [Next]_vars
<1> SUFFICES ASSUME RestOK, [SystemNext]_systemVars PROVE [Next]_vars
  OBVIOUS
<1>1. CASE Program \/ Idle \/ UNCHANGED systemVars
  BY <1>1 DEF Program, SendRequest, ReceiveFrame, OtherProgramStep, Idle, systemVars
<1>2. CASE \E d \in Directions : OrderStep(d)
  BY <1>2 DEF OrderStep
<1>3. CASE Firmware
  BY <1>3 DEF Firmware, MotorTurns, FindBuffer, LoadAnswer, OtherFirmwareStep, Next, App
<1>4. CASE BusRequest
  <2>1. Head(reqq) \in Frames
    BY <1>4, HeadTailProperties, FrameKinds DEF BusRequest, RestOK
  <2> QED BY <1>4, <2>1 DEF BusRequest, Next
<1>5. CASE BusOrder
  <2>1. Head(cmdq) \in Frames
    BY <1>5, HeadTailProperties, FrameKinds DEF BusOrder, RestOK
  <2> QED BY <1>5, <2>1 DEF BusOrder, Next
<1>6. CASE BusOther
  <2>1. queries + 1 \in Queries
    BY <1>6 DEF BusOther
  <2> QED BY <1>6, <2>1, RequestFrames DEF BusOther, Next
<1>7. CASE BusAnswer
  BY <1>7 DEF BusAnswer, Next
<1> QED BY <1>1, <1>2, <1>3, <1>4, <1>5, <1>6, <1>7 DEF SystemNext, Bus

\* Bytes.
LEMMA BaseIsPositive == Base \in Nat \ {0} /\ MAX_STEPS \in Nat /\ MAX_STEPS <= Base * Base
<1>1. Base \in Nat /\ MAX_STEPS \in Nat /\ 2 <= MAX_STEPS /\ MAX_STEPS <= Base * Base
  BY SystemAssumption DEF SystemAssumption
<1>2. Base # 0
  <2> SUFFICES ASSUME Base = 0 PROVE FALSE
    OBVIOUS
  <2>1. Base * Base = 0 BY <1>1
  <2> QED BY <1>1, <2>1
<1> QED BY <1>1, <1>2

\* Quotient and remainder.
LEMMA Division ==
  ASSUME NEW d \in Nat \ {0}, NEW t \in Nat
  PROVE  /\ t \div d \in Nat /\ t % d \in 0 .. d - 1
         /\ t = (d * (t \div d)) + (t % d)
<1>1. t = (d * (t \div d)) + (t % d)
  OBVIOUS
<1>2. t \div d \in Nat /\ t % d \in 0 .. d - 1
  OBVIOUS
<1> QED BY <1>1, <1>2

\* What the program decodes is what the firmware encoded: every position survives
\* the two bytes of an answer, high byte first.
THEOREM DecodedIsPosition ==
  ASSUME NEW p \in Positions
  PROVE  /\ PositionBytes(p) \in Nat \X Nat
         /\ Req!Decoded(PositionBytes(p)) = p
<1> DEFINE h == p \div Base
<1> DEFINE l == p % Base
<1>1. Base \in Nat \ {0} /\ p \in Nat /\ p < Base * Base
  BY BaseIsPositive DEF Positions
<1>2. h \in Nat /\ l \in 0 .. Base - 1 /\ p = (Base * h) + l
  BY <1>1, Division
<1> HIDE DEF h, l
<1>3. h < Base
  <2> SUFFICES ASSUME h >= Base PROVE FALSE
    BY <1>1, <1>2
  <2>1. PICK e \in Nat : h = Base + e
    <3>1. h - Base \in Nat /\ h = Base + (h - Base)
      BY <1>1, <1>2
    <3> QED BY <3>1
  <2>2. Base * h = Base * Base + Base * e /\ Base * e \in Nat /\ Base * Base \in Nat
    BY <1>1, <2>1
  <2> QED BY <1>1, <1>2, <2>2
<1>4. h % Base = h
  BY <1>1, <1>2, <1>3
<1>5. PositionBytes(p) = <<h, l>>
  BY <1>4 DEF PositionBytes, h, l
<1>6. Req!Decoded(PositionBytes(p)) = (h * Base) + l
  BY <1>5 DEF Req!Decoded
<1>7. h * Base = Base * h
  BY <1>1, <1>2
<1> QED BY <1>1, <1>2, <1>5, <1>6, <1>7

-----------------------------------------------------------------------------
(* What the program's socket receives. *)

AnswerFrame(b) ==
  [id |-> CANID_POSMSG, rtr |-> FALSE, len |-> 2, data |-> PositionBytes(txb[b]),
   query |-> askers[b]]

\* What the other nodes send is not taken for a position.
LEMMA OthersToSocket ==
  ASSUME NEW f \in Frames
  PROVE  ToSocket(f) \in SocketFrames /\ ToSocket(f).query = None /\ ~Req!IsPosition(ToSocket(f))
<1>1. CASE f \in Orders
  <2>1. PICK d \in Directions : f = StepFrame(d)
    BY <1>1 DEF Orders
  <2>2. ToSocket(f) = [id |-> 1, rtr |-> FALSE, len |-> 1, data |-> <<0, IF d = 1 THEN 1 ELSE 2>>,
                       query |-> None]
    BY <2>1 DEF ToSocket, StepFrame
  <2> QED BY <2>2 DEF SocketFrames, Req!IsPosition, Req!canid_motorposition
<1>2. CASE f \in Requests
  <2>1. PICK q \in Queries : f = Req!Request(q)
    BY <1>2 DEF Requests
  <2>2. ToSocket(f) = [id |-> 2, rtr |-> TRUE, len |-> 2, data |-> <<0, 0>>, query |-> None]
    BY <2>1 DEF ToSocket, Req!Request, Req!canid_motorposition
  <2> QED BY <2>2 DEF SocketFrames, Req!IsPosition, Req!canid_motorposition
<1> QED BY <1>1, <1>2, FrameKinds

\* What the motor sends is, and decodes to the position that was in the buffer.
LEMMA AnswersToSocket ==
  ASSUME NEW b \in TxBuffers, txb[b] \in Positions, askers[b] \in Queries \cup {None}
  PROVE  /\ AnswerFrame(b) \in SocketFrames /\ Req!IsPosition(AnswerFrame(b))
         /\ AnswerFrame(b).query = askers[b] /\ Req!Decoded(AnswerFrame(b).data) = txb[b]
<1>1. PositionBytes(txb[b]) \in Nat \X Nat /\ Req!Decoded(PositionBytes(txb[b])) = txb[b]
  BY DecodedIsPosition
<1>2. AnswerFrame(b) \in SocketFrames
  BY <1>1 DEF AnswerFrame, SocketFrames, CANID_POSMSG
<1>3. Req!IsPosition(AnswerFrame(b))
  BY DEF AnswerFrame, Req!IsPosition, CANID_POSMSG, Req!canid_motorposition
<1> QED BY <1>1, <1>2, <1>3 DEF AnswerFrame

\* An answer in preparation is to a request.
Answering == pc \in {"free", "load"} => msg # None /\ IsRequest(msg.frame)

\* The number of the request in work is one that was asked.
LEMMA RequestAtHand ==
  NodeInv /\ msg # None /\ IsRequest(msg.frame) => msg.frame \in Requests /\ msg.frame.data \in Queries
<1> SUFFICES ASSUME NodeInv, msg # None, IsRequest(msg.frame)
             PROVE  msg.frame \in Requests /\ msg.frame.data \in Queries
  OBVIOUS
<1>1. msg.frame \in Frames
  BY DEF NodeInv, RangesOK, Stored
<1> QED BY <1>1, FrameKinds

\* That it is in work does not change until the answer is loaded or given up.
LEMMA AnsweringStep == NodeInv /\ Answering /\ [Next]_vars => Answering'
<1> SUFFICES ASSUME NodeInv, Answering, [Next]_vars PROVE Answering'
  OBVIOUS
<1> USE DEF Answering
<1>1. CASE Setup \/ Poll \/ ChooseBuffer \/ read_canMsg \/ Ignore \/ Pulse \/ Count
  BY <1>1 DEF Setup, Poll, ChooseBuffer, read_canMsg, Ignore, Pulse, Count
<1>2. CASE Answer
  BY <1>2 DEF Answer, Processing, appVars, NodeInv, PcInv
<1>3. CASE SearchTx
  BY <1>3 DEF SearchTx, appVars
<1>4. CASE write_canMsg \/ WaitSent
  BY <1>4 DEF write_canMsg, WaitSent
<1>5. CASE (\E f \in Frames : Arrive(f)) \/ Transmit \/ NoMessage \/ Halted \/ UNCHANGED vars
  BY <1>5 DEF Arrive, Transmit, NoMessage, Halted, vars, appVars
<1> QED BY <1>1, <1>2, <1>3, <1>4, <1>5 DEF Next, App

\* What the bus delivers to the socket.
LEMMA Delivered ==
  ASSUME NEW f \in SocketFrames, RestOK, Req!Deliver(f)
  PROVE  /\ main' \in {"start", "prepare", "recv", "exited"}
         /\ rt' \in {"none", "affinity", "send", "sleep", "exited"}
         /\ reqq' \in Seq(Requests) /\ rxq' \in Seq(SocketFrames)
BY AppendProperties DEF RestOK, Req!Deliver

\* Types: the requesting program, ...
LEMMA ProgramRest == NodeInv /\ RestOK /\ Program => RestOK'
<1> SUFFICES ASSUME NodeInv, RestOK, Program PROVE RestOK'
  OBVIOUS
<1>1. CASE SendRequest
  <2>1. queries + 1 \in Queries /\ motor \in Positions
    BY <1>1, SystemAssumption DEF SendRequest, RestOK, Queries, NodeInv, RangesOK, SystemAssumption
  <2>2. Append(reqq, Req!Request(queries + 1)) \in Seq(Requests)
    BY <2>1, RequestFrames, AppendProperties DEF RestOK
  <2>3. queries + 1 \in 0 .. MaxQueries
    BY <2>1, SystemAssumption DEF Queries, SystemAssumption
  <2>4. open' \in [Queries -> SUBSET Positions]
    BY <1>1, <2>1 DEF SendRequest, Asked, RestOK
  <2> QED BY <1>1, <2>2, <2>3, <2>4 DEF SendRequest, Req!Send, Asked, RestOK
<1>2. CASE ReceiveFrame
  <2>1. Tail(rxq) \in Seq(SocketFrames)
    BY <1>2, HeadTailProperties DEF ReceiveFrame, Req!Receive, RestOK
  <2>2. UNCHANGED <<queries, askers>> /\ open' \in [Queries -> SUBSET Positions]
    BY <1>2 DEF ReceiveFrame, Over, history, RestOK
  <2> QED BY <1>2, <2>1, <2>2 DEF ReceiveFrame, Req!Receive, RestOK
<1>3. CASE OtherProgramStep
  <2>1. UNCHANGED <<reqq, rxq, cmdq, orders, queries, open, askers>>
    BY <1>3 DEF OtherProgramStep, Req!OpenSocket, Req!StartThread, Req!SetAffinity, Req!SendFails,
                Req!SleepCycle, history
  <2>2. main' \in {"start", "prepare", "recv", "exited"}
        /\ rt' \in {"none", "affinity", "send", "sleep", "exited"}
    BY <1>3 DEF OtherProgramStep, Req!OpenSocket, Req!StartThread, Req!SetAffinity, Req!SendFails,
                Req!SleepCycle, Req!Exit, RestOK
  <2> QED BY <2>1, <2>2 DEF RestOK
<1> QED BY <1>1, <1>2, <1>3 DEF Program

\* ... the firmware, ...
LEMMA FirmwareRest == NodeInv /\ NodeInv' /\ Answering /\ RestOK /\ Firmware => RestOK'
<1> SUFFICES ASSUME NodeInv, NodeInv', Answering, RestOK, Firmware PROVE RestOK'
  OBVIOUS
<1>1. CASE MotorTurns
  <2>1. motor' \in Positions
    BY DEF NodeInv, RangesOK
  <2>2. open' \in [Queries -> SUBSET Positions]
    BY <1>1, <2>1 DEF MotorTurns, RestOK
  <2> QED BY <1>1, <2>2 DEF MotorTurns, RestOK, reqVars
<1>2. CASE FindBuffer
  <2>1. UNCHANGED <<queries, askers>> /\ open' \in [Queries -> SUBSET Positions]
    BY <1>2 DEF FindBuffer, Over, history, RestOK
  <2> QED BY <1>2, <2>1 DEF FindBuffer, RestOK, reqVars
<1>3. CASE LoadAnswer
  <2>1. msg.frame.data \in Queries
    BY <1>3, RequestAtHand DEF LoadAnswer, write_canMsg, Answering
  <2>2. askers' \in [TxBuffers -> Queries \cup {None}]
    BY <1>3, <2>1 DEF LoadAnswer, RestOK
  <2> QED BY <1>3, <2>2 DEF LoadAnswer, RestOK, reqVars
<1>4. CASE OtherFirmwareStep
  BY <1>4 DEF OtherFirmwareStep, RestOK, reqVars, history
<1> QED BY <1>1, <1>2, <1>3, <1>4 DEF Firmware

\* The answer that leaves its buffer.
LEMMA Transmitted ==
  ASSUME NodeInv, NEW b \in TxBuffers, Transmit, txb'[b] # txb[b]
  PROVE  txb[b] \in Positions /\ txb[b] # None /\ txb' = [txb EXCEPT ![b] = None]
<1> DEFINE pending == {c \in TxBuffers : txb[c] # None}
<1>1. pending # {} /\ txb' = [txb EXCEPT ![Max(pending)] = None]
  BY DEF Transmit
<1>2. pending \in SUBSET (0 .. 2)
  BY DEF TxBuffers
<1>3. Max(pending) \in pending
  BY <1>1, <1>2, GreatestIsMember
<1>4. txb \in [TxBuffers -> Positions \cup {None}]
  BY DEF NodeInv, RangesOK
<1>5. b = Max(pending)
  BY <1>1, <1>3, <1>4
<1> QED BY <1>1, <1>3, <1>4, <1>5

\* ... the step orders ...
LEMMA OrderRest == RestOK /\ (\E d \in Directions : OrderStep(d)) => RestOK'
<1> SUFFICES ASSUME RestOK, NEW d \in Directions, OrderStep(d) PROVE RestOK'
  OBVIOUS
<1>1. Append(cmdq, StepFrame(d)) \in Seq(Orders)
  BY OrderFrames, AppendProperties DEF RestOK
<1>2. orders + 1 \in 0 .. MaxOrders
  BY SystemAssumption DEF OrderStep, RestOK, SystemAssumption
<1> QED BY <1>1, <1>2 DEF OrderStep, RestOK, reqVars, history

\* ... and the bus.
LEMMA BusRest == NodeInv /\ RestOK /\ Bus => RestOK'
<1> SUFFICES ASSUME NodeInv, RestOK, Bus PROVE RestOK'
  OBVIOUS
<1>1. CASE BusRequest
  <2>1. Tail(reqq) \in Seq(Requests)
    BY <1>1, HeadTailProperties DEF BusRequest, RestOK
  <2>2. UNCHANGED <<queries, askers>> /\ open' \in [Queries -> SUBSET Positions]
    BY <1>1 DEF BusRequest, Over, history, RestOK
  <2> QED BY <1>1, <2>1, <2>2 DEF BusRequest, RestOK
<1>2. CASE BusOrder
  <2>1. Head(cmdq) \in Frames /\ Tail(cmdq) \in Seq(Orders)
    BY <1>2, HeadTailProperties, FrameKinds DEF BusOrder, RestOK
  <2>2. ToSocket(Head(cmdq)) \in SocketFrames
    BY <2>1, OthersToSocket
  <2>3. Req!Deliver(ToSocket(Head(cmdq))) /\ UNCHANGED <<orders, queries, open, askers>>
        /\ cmdq' = Tail(cmdq)
    BY <1>2 DEF BusOrder, history
  <2>4. /\ main' \in {"start", "prepare", "recv", "exited"}
        /\ rt' \in {"none", "affinity", "send", "sleep", "exited"}
        /\ reqq' \in Seq(Requests) /\ rxq' \in Seq(SocketFrames)
    BY <2>2, <2>3, Delivered
  <2> QED BY <2>1, <2>3, <2>4 DEF RestOK
<1>3. CASE BusOther
  <2>1. queries + 1 \in Queries /\ motor \in Positions
    BY <1>3 DEF BusOther, NodeInv, RangesOK
  <2> DEFINE f == Req!Request(queries + 1)
  <2>2. ToSocket(f) \in SocketFrames
    BY <2>1, RequestFrames, OthersToSocket
  <2>3. Req!Deliver(ToSocket(f)) /\ UNCHANGED <<orders, cmdq>>
    BY <1>3 DEF BusOther
  <2>4. /\ main' \in {"start", "prepare", "recv", "exited"}
        /\ rt' \in {"none", "affinity", "send", "sleep", "exited"}
        /\ reqq' \in Seq(Requests) /\ rxq' \in Seq(SocketFrames)
    BY <2>2, <2>3, Delivered
  <2>5. queries + 1 \in 0 .. MaxQueries
    BY <2>1, SystemAssumption DEF Queries, SystemAssumption
  <2>6. queries' = queries + 1 /\ askers' = askers /\ open' \in [Queries -> SUBSET Positions]
    BY <1>3, <2>1 DEF BusOther, Asked, RestOK
  <2> QED BY <2>3, <2>4, <2>5, <2>6 DEF RestOK
<1>4. CASE BusAnswer
  <2> PICK b \in TxBuffers :
        /\ Transmit /\ txb'[b] # txb[b] /\ Req!Deliver(AnswerFrame(b))
        /\ (IF Req!Listening THEN UNCHANGED history ELSE Over(askers[b]))
        /\ UNCHANGED <<cmdq, orders>>
    BY <1>4 DEF BusAnswer, AnswerFrame
  <2>1. AnswerFrame(b) \in SocketFrames
    BY Transmitted, AnswersToSocket DEF RestOK
  <2>2. /\ main' \in {"start", "prepare", "recv", "exited"}
        /\ rt' \in {"none", "affinity", "send", "sleep", "exited"}
        /\ reqq' \in Seq(Requests) /\ rxq' \in Seq(SocketFrames)
    BY <2>1, Delivered
  <2>3. UNCHANGED <<queries, askers>> /\ open' \in [Queries -> SUBSET Positions]
    BY DEF history, Over, RestOK
  <2> QED BY <2>2, <2>3 DEF RestOK
<1> QED BY <1>1, <1>2, <1>3, <1>4 DEF Bus

\* All steps together.
LEMMA RestStep ==
  NodeInv /\ NodeInv' /\ Answering /\ RestOK /\ [SystemNext]_systemVars => RestOK'
<1>1. RestOK /\ UNCHANGED systemVars => RestOK'
  BY DEF RestOK, systemVars, reqVars, history
<1> QED BY <1>1, ProgramRest, FirmwareRest, BusRest, OrderRest DEF SystemNext, Idle

-----------------------------------------------------------------------------
(* Which requests are where: a place with several slots is a function from  *)
(* its slots to the requests in them, None for none.                        *)

Slots(D) == [D -> Queries \cup {None}]
Carried(f) == {f[i] : i \in DOMAIN f} \ {None}
Distinct(f) == \A i, j \in DOMAIN f : f[i] # None /\ f[i] = f[j] => i = j

\* Another entry in an empty slot, or none.
LEMMA SlotFilled ==
  ASSUME NEW D, NEW f \in Slots(D), NEW g \in Slots(D), NEW d \in D,
         \A i \in D : i # d => g[i] = f[i], f[d] = None, g[d] \notin Carried(f), Distinct(f)
  PROVE  Distinct(g) /\ Carried(g) = Carried(f) \cup ({g[d]} \ {None})
BY DEF Carried, Distinct, Slots

\* A slot is emptied.
LEMMA SlotCleared ==
  ASSUME NEW D, NEW f \in Slots(D), NEW g \in Slots(D), NEW d \in D,
         \A i \in D : i # d => g[i] = f[i], g[d] = None, Distinct(f)
  PROVE  Distinct(g) /\ Carried(g) = Carried(f) \ {f[d]}
BY DEF Carried, Distinct, Slots

\* One more slot at the end.
LEMMA SlotAdded ==
  ASSUME NEW n \in Nat, NEW f \in Slots(1 .. n), NEW g \in Slots(1 .. n + 1),
         \A i \in 1 .. n : g[i] = f[i], g[n + 1] \notin Carried(f), Distinct(f)
  PROVE  Distinct(g) /\ Carried(g) = Carried(f) \cup ({g[n + 1]} \ {None})
BY DEF Carried, Distinct, Slots

\* The first slot is removed.
LEMMA SlotRemoved ==
  ASSUME NEW n \in Nat, NEW f \in Slots(1 .. n + 1), NEW g \in Slots(1 .. n),
         \A i \in 1 .. n : g[i] = f[i + 1], Distinct(f)
  PROVE  Distinct(g) /\ Carried(g) = Carried(f) \ {f[1]}
<1>1. DOMAIN f = 1 .. n + 1 /\ DOMAIN g = 1 .. n
  BY DEF Slots
<1>2. Distinct(g)
  <2> SUFFICES ASSUME NEW i \in 1 .. n, NEW j \in 1 .. n, g[i] # None, g[i] = g[j] PROVE i = j
    BY <1>1 DEF Distinct
  <2>1. /\ i + 1 \in DOMAIN f /\ j + 1 \in DOMAIN f
        /\ f[i + 1] # None /\ f[i + 1] = f[j + 1]
    BY <1>1
  <2>2. i + 1 = j + 1
    BY <2>1 DEF Distinct
  <2> QED BY <2>2
<1>3. Carried(g) \subseteq Carried(f) \ {f[1]}
  <2> SUFFICES ASSUME NEW i \in 1 .. n, g[i] # None
               PROVE  g[i] \in Carried(f) /\ g[i] # f[1]
    BY <1>1 DEF Carried
  <2>1. i + 1 \in DOMAIN f /\ 1 \in DOMAIN f /\ i + 1 # 1 /\ g[i] = f[i + 1]
    BY <1>1
  <2> QED BY <2>1 DEF Carried, Distinct
<1>4. Carried(f) \ {f[1]} \subseteq Carried(g)
  <2> SUFFICES ASSUME NEW i \in 1 .. n + 1, f[i] # None, f[i] # f[1]
               PROVE  f[i] \in Carried(g)
    BY <1>1 DEF Carried
  <2>1. i - 1 \in 1 .. n /\ g[i - 1] = f[i - 1 + 1] /\ i - 1 + 1 = i
    BY <1>1
  <2> QED BY <1>1, <2>1 DEF Carried
<1> QED BY <1>2, <1>3, <1>4

\* Written by the program, in the controller's receive buffers, with the
\* firmware, as answers in the transmit buffers, and back in the socket.
Requested == [i \in 1 .. Len(reqq) |-> reqq[i].data]
Holding(b) == rxb[b] # None /\ IsRequest(rxb[b].frame)
InBuffers == [b \in RxBuffers |-> IF Holding(b) THEN rxb[b].frame.data ELSE None]
InWork == IF pc \in {"process", "free", "load"} /\ IsRequest(msg.frame) THEN {msg.frame.data} ELSE {}
Replies == [b \in TxBuffers |-> IF txb[b] # None THEN askers[b] ELSE None]
Returned == [i \in 1 .. Len(rxq) |-> rxq[i].query]

Apart(A, B, C, D, E) ==
  /\ A \cap (B \cup C \cup D \cup E) = {} /\ B \cap (C \cup D \cup E) = {}
  /\ C \cap (D \cup E) = {} /\ D \cap E = {}

\* No request is in two places.
OnePlace ==
  /\ Distinct(Requested) /\ Distinct(InBuffers) /\ Distinct(Replies) /\ Distinct(Returned)
  /\ Apart(Carried(Requested), Carried(InBuffers), InWork, Carried(Replies), Carried(Returned))

UnderWay ==
  Carried(Requested) \cup Carried(InBuffers) \cup InWork \cup Carried(Replies) \cup Carried(Returned)

\* A request under way is open, and the motor's position is one it had since.
OpenInv ==
  /\ \A q \in UnderWay : q \in Queries /\ open[q] # {}
  /\ \A q \in Queries : q > queries => open[q] = {}
  /\ \A q \in Queries : open[q] # {} => motor \in open[q]

\* An answer holds a position of that time.
TxTimely == \A b \in TxBuffers :
  txb[b] # None => askers[b] \in Queries /\ txb[b] \in open[askers[b]]
RxTimely == \A i \in 1 .. Len(rxq) :
  /\ Req!IsPosition(rxq[i]) <=> rxq[i].query # None
  /\ rxq[i].query # None => Req!Decoded(rxq[i].data) \in open[rxq[i].query]

CarryInv == OnePlace /\ OpenInv /\ TxTimely /\ RxTimely

SlotsTyped ==
  /\ Len(reqq) \in Nat /\ Requested \in Slots(1 .. Len(reqq))
  /\ Len(rxq) \in Nat /\ Returned \in Slots(1 .. Len(rxq))
  /\ InBuffers \in Slots(RxBuffers) /\ Replies \in Slots(TxBuffers)

\* Each place holds requests.
LEMMA SlotTypes == NodeInv /\ RestOK => SlotsTyped
<1> SUFFICES ASSUME NodeInv, RestOK PROVE SlotsTyped
  OBVIOUS
<1>1. Len(reqq) \in Nat /\ \A i \in 1 .. Len(reqq) : reqq[i] \in Requests
  BY LenProperties, ElementOfSeq DEF RestOK
<1>2. Len(rxq) \in Nat /\ \A i \in 1 .. Len(rxq) : rxq[i] \in SocketFrames
  BY LenProperties, ElementOfSeq DEF RestOK
<1>3. Requested \in Slots(1 .. Len(reqq))
  BY <1>1, FrameKinds DEF Slots, Requested
<1>4. Returned \in Slots(1 .. Len(rxq))
  BY <1>2 DEF Slots, Returned, SocketFrames
<1>5. \A b \in RxBuffers : Holding(b) => rxb[b].frame.data \in Queries
  BY FrameKinds DEF Holding, NodeInv, RangesOK, Stored
<1>6. InBuffers \in Slots(RxBuffers)
  BY <1>5 DEF Slots, InBuffers
<1>7. Replies \in Slots(TxBuffers)
  BY DEF Slots, Replies, RestOK
<1> QED BY <1>1, <1>2, <1>3, <1>4, <1>6, <1>7 DEF SlotsTyped

\* And so it does after a step.
LEMMA SlotTypesNext == NodeInv' /\ RestOK' => SlotsTyped'
BY SlotTypes, PTL

\* The carriers are where they were.
LEMMA NothingMoves ==
  /\ CarryInv
  /\ UNCHANGED <<Requested, InBuffers, InWork, txb, askers, rxq, open, queries, motor>>
  => CarryInv'
<1> SUFFICES ASSUME CarryInv,
                    UNCHANGED <<Requested, InBuffers, InWork, txb, askers, rxq, open, queries, motor>>
             PROVE  CarryInv'
  OBVIOUS
<1>1. Replies' = Replies /\ Returned' = Returned
  BY DEF Replies, Returned
<1> QED BY <1>1 DEF CarryInv, OnePlace, OpenInv, UnderWay, TxTimely, RxTimely

\* Requests that stay under way keep the positions they had.
Keeping == \A r \in UnderWay' : r \in UnderWay => open[r] \subseteq open'[r]

\* A buffer that keeps its answer keeps it timely.
LEMMA TxKept ==
  ASSUME TxTimely, Keeping, None \notin Queries,
         \A b \in TxBuffers : txb'[b] # None => txb'[b] = txb[b] /\ askers'[b] = askers[b]
  PROVE  TxTimely'
<1> SUFFICES ASSUME NEW b \in TxBuffers, txb'[b] # None
             PROVE  askers'[b] \in Queries /\ txb'[b] \in open'[askers'[b]]
  BY DEF TxTimely
<1>1. txb'[b] = txb[b] /\ askers'[b] = askers[b]
  OBVIOUS
<1>2. askers[b] \in Queries /\ txb[b] \in open[askers[b]]
  BY <1>1 DEF TxTimely
<1>3. askers[b] \in Carried(Replies) /\ askers[b] \in Carried(Replies')
  BY <1>1, <1>2 DEF Carried, Replies
<1> QED BY <1>1, <1>2, <1>3 DEF Keeping, UnderWay

\* A received frame is an answer exactly if it is for a request, and then holds
\* a position of its time.
RightAnswer(f, opened) ==
  /\ Req!IsPosition(f) <=> f.query # None
  /\ f.query # None => Req!Decoded(f.data) \in opened[f.query]

\* Answers stay timely in the queue, and one more may come.
LEMMA RxExtended ==
  ASSUME RxTimely, Keeping,
         \A i \in 1 .. Len(rxq') :
           (\E j \in 1 .. Len(rxq) : rxq'[i] = rxq[j]) \/ RightAnswer(rxq'[i], open')
  PROVE  RxTimely'
<1> SUFFICES ASSUME NEW i \in 1 .. Len(rxq')
             PROVE  RightAnswer(rxq'[i], open')
  BY DEF RxTimely, RightAnswer
<1>1. CASE \E j \in 1 .. Len(rxq) : rxq'[i] = rxq[j]
  <2> PICK j \in 1 .. Len(rxq) : rxq'[i] = rxq[j]
    BY <1>1
  <2>1. RightAnswer(rxq[j], open)
    BY DEF RxTimely, RightAnswer
  <2>2. rxq[j].query # None =>
          rxq[j].query \in Carried(Returned) /\ rxq[j].query \in Carried(Returned')
    BY DEF Carried, Returned
  <2> QED BY <2>1, <2>2 DEF Keeping, UnderWay, RightAnswer
<1> QED BY <1>1

\* A queue that receives nothing keeps its answers timely.
LEMMA RxKept ==
  ASSUME RxTimely, Keeping,
         \A i \in 1 .. Len(rxq') : \E j \in 1 .. Len(rxq) : rxq'[i] = rxq[j]
  PROVE  RxTimely'
BY RxExtended

\* A request is over, or all stay as they are.
Ending ==
  /\ UNCHANGED <<queries, motor>>
  /\ open' = open \/ \E q \in Queries : q \notin UnderWay' /\ open' = [open EXCEPT ![q] = {}]

\* Nothing is opened by such a step.
LEMMA OpenKept ==
  ASSUME RestOK, OpenInv, UnderWay' \subseteq UnderWay, Ending
  PROVE  OpenInv' /\ Keeping
<1>1. CASE open' = open
  BY <1>1 DEF OpenInv, Ending, Keeping
<1>2. CASE \E q \in Queries : q \notin UnderWay' /\ open' = [open EXCEPT ![q] = {}]
  <2> PICK q \in Queries : q \notin UnderWay' /\ open' = [open EXCEPT ![q] = {}]
    BY <1>2
  <2>1. open'[q] = {} /\ \A r \in Queries : r # q => open'[r] = open[r]
    BY DEF RestOK
  <2> QED BY <2>1 DEF OpenInv, Ending, Keeping
<1> QED BY <1>1, <1>2 DEF Ending

Known == NodeInv /\ MotorInv /\ Answering /\ RestOK

\* The next request is not under way yet.
LEMMA NextRequest ==
  ASSUME RestOK, OpenInv, queries + 1 \in Queries
  PROVE  queries + 1 \notin UnderWay /\ queries + 1 # None /\ open[queries + 1] = {}
<1>1. queries + 1 > queries /\ None \notin Queries
  BY SystemAssumption DEF RestOK, SystemAssumption
<1> QED BY <1>1 DEF OpenInv

\* One request is opened.
LEMMA OpenAsked ==
  ASSUME RestOK, OpenInv, queries + 1 \in Queries, Asked(queries + 1), UNCHANGED motor,
         UnderWay' \subseteq UnderWay \cup {queries + 1}
  PROVE  OpenInv' /\ Keeping
<1>1. queries + 1 \notin UnderWay /\ open[queries + 1] = {} /\ queries \in Nat
  BY NextRequest, SystemAssumption DEF RestOK, SystemAssumption
<1>2. open'[queries + 1] = {motor} /\ \A r \in Queries : r # queries + 1 => open'[r] = open[r]
  BY DEF Asked, RestOK
<1>3. queries' = queries + 1
  BY DEF Asked
<1>4. \A r \in Queries : r > queries + 1 => r > queries /\ r # queries + 1
  BY <1>1 DEF Queries
<1> QED BY <1>1, <1>2, <1>3, <1>4 DEF OpenInv, Keeping

\* The program writes a request: it is under way.
LEMMA RequestMoves == Known /\ Known' /\ CarryInv /\ SendRequest => CarryInv'
<1> SUFFICES ASSUME Known, Known', CarryInv, SendRequest PROVE CarryInv'
  OBVIOUS
<1> DEFINE q == queries + 1
<1> DEFINE n == Len(reqq)
<1>1. /\ q \in Queries /\ q \notin UnderWay /\ q # None /\ None \notin Queries
  <2>1. q \in Queries
    BY SystemAssumption DEF SendRequest, Known, RestOK, Queries, SystemAssumption
  <2> QED BY <2>1, NextRequest, SystemAssumption DEF Known, CarryInv, SystemAssumption
<1>2. /\ reqq' = Append(reqq, Req!Request(q)) /\ Asked(q)
      /\ UNCHANGED <<vars, rxq>>
  BY DEF SendRequest, Req!Send
<1>3. /\ n \in Nat /\ Len(reqq') = n + 1 /\ reqq'[n + 1] = Req!Request(q)
      /\ \A i \in 1 .. n : reqq'[i] = reqq[i]
  <2>1. reqq \in Seq(Requests) /\ Req!Request(q) \in Requests
    BY <1>1, RequestFrames DEF Known, RestOK
  <2> QED BY <1>2, <2>1, AppendProperties, LenProperties
<1>4. Requested \in Slots(1 .. n) /\ Requested' \in Slots(1 .. n + 1)
  BY <1>3, SlotTypes, SlotTypesNext DEF Known, SlotsTyped
<1>5. Requested'[n + 1] = q /\ \A i \in 1 .. n : Requested'[i] = Requested[i]
  BY <1>1, <1>3, RequestFrames DEF Requested
<1>6. Distinct(Requested') /\ Carried(Requested') = Carried(Requested) \cup {q}
  <2>1. q \notin Carried(Requested) /\ Distinct(Requested)
    BY <1>1 DEF UnderWay, CarryInv, OnePlace
  <2> HIDE DEF q, n
  <2> QED BY <1>1, <1>3, <1>4, <1>5, <2>1, SlotAdded
<1>7. UNCHANGED <<InBuffers, InWork, txb, askers, rxq, motor, Replies, Returned>>
  BY <1>2 DEF InBuffers, Holding, InWork, vars, appVars, busVars, Asked, Replies, Returned
<1>8. UnderWay' = UnderWay \cup {q}
  BY <1>6, <1>7 DEF UnderWay
<1>9. OnePlace'
  BY <1>1, <1>6, <1>7 DEF OnePlace, Apart, CarryInv, UnderWay
<1>10. OpenInv' /\ Keeping
  BY <1>1, <1>2, <1>7, <1>8, OpenAsked DEF Known, CarryInv
<1>11. TxTimely' /\ RxTimely'
  BY <1>1, <1>7, <1>10, TxKept, RxKept DEF CarryInv
<1> QED BY <1>9, <1>10, <1>11 DEF CarryInv

\* The program reads an answer: its request is over.
LEMMA ReceiveMovesBack == Known /\ Known' /\ CarryInv /\ ReceiveFrame => CarryInv'
<1> SUFFICES ASSUME Known, Known', CarryInv, ReceiveFrame PROVE CarryInv'
  OBVIOUS
<1> DEFINE f == Head(rxq)
<1> DEFINE n == Len(rxq) - 1
<1>1. rxq \in Seq(SocketFrames) /\ rxq # << >> /\ rxq' = Tail(rxq) /\ None \notin Queries
  BY SystemAssumption DEF ReceiveFrame, Req!Receive, Known, RestOK, SystemAssumption
<1>2. /\ n \in Nat /\ Len(rxq) = n + 1 /\ Len(rxq') = n /\ f = rxq[1] /\ f \in SocketFrames
      /\ \A i \in 1 .. n : rxq'[i] = rxq[i + 1]
  BY <1>1, HeadTailProperties, LenProperties
<1>3. Returned \in Slots(1 .. n + 1) /\ Returned' \in Slots(1 .. n)
  BY <1>2, SlotTypes, SlotTypesNext DEF Known, SlotsTyped
<1>4. Returned[1] = f.query /\ \A i \in 1 .. n : Returned'[i] = Returned[i + 1]
  BY <1>2 DEF Returned
<1>5. Distinct(Returned') /\ Carried(Returned') = Carried(Returned) \ {f.query}
  <2>1. Distinct(Returned)
    BY DEF CarryInv, OnePlace
  <2> HIDE DEF f, n
  <2> QED BY <1>2, <1>3, <1>4, <2>1, SlotRemoved
<1>6. UNCHANGED <<Requested, InBuffers, InWork, txb, askers, motor, queries, Replies>>
  BY DEF ReceiveFrame, Req!Receive, Over, history, Requested, InBuffers, Holding, InWork, vars, appVars,
         busVars, Replies
<1>7. Req!IsPosition(f) <=> f.query # None
  BY <1>2 DEF CarryInv, RxTimely
<1>8. f.query # None => f.query \in Carried(Returned) /\ f.query \in Queries
  BY <1>2, <1>3, <1>4 DEF Carried, Slots
<1>9. UnderWay' \subseteq UnderWay /\ (f.query # None => f.query \notin UnderWay') /\ OnePlace'
  <2> HIDE DEF f, n
  <2> QED BY <1>5, <1>6, <1>8 DEF UnderWay, OnePlace, Apart, CarryInv
<1>10. Ending
  BY <1>6, <1>7, <1>8, <1>9 DEF Ending, ReceiveFrame, Over, history
<1>11. OpenInv' /\ Keeping
  BY <1>9, <1>10, OpenKept DEF Known, CarryInv
<1>12. TxTimely' /\ RxTimely'
  <2>1. \A i \in 1 .. Len(rxq') : \E j \in 1 .. Len(rxq) : rxq'[i] = rxq[j]
    BY <1>2
  <2> QED BY <1>1, <1>6, <1>11, <2>1, TxKept, RxKept DEF CarryInv
<1> QED BY <1>9, <1>11, <1>12 DEF CarryInv

\* A pulse adds a position to all open requests.
LEMMA PulseMoves == Known /\ Known' /\ CarryInv /\ MotorTurns => CarryInv'
<1> SUFFICES ASSUME Known, Known', CarryInv, MotorTurns PROVE CarryInv'
  OBVIOUS
<1>1. ~IsRequest(msg.frame) /\ pc' = "count"
  <2>1. msg.frame \in Frames /\ StepOf(msg.frame) # 0
    BY DEF MotorTurns, Pulse, Processing, Known, NodeInv, RangesOK, PcInv, Stored
  <2> QED BY <2>1, FrameKinds DEF MotorTurns, Pulse
<1>2. UNCHANGED <<Requested, InBuffers, InWork, txb, askers, rxq, queries, Replies, Returned>>
  BY <1>1 DEF MotorTurns, Pulse, Requested, InBuffers, Holding, InWork, Replies, Returned, reqVars, busVars
<1>3. UnderWay' = UnderWay /\ OnePlace'
  BY <1>2 DEF UnderWay, OnePlace, CarryInv
<1>4. \A q \in Queries : open'[q] = IF open[q] = {} THEN {} ELSE open[q] \cup {motor'}
  BY DEF MotorTurns
<1>5. Keeping /\ OpenInv'
  BY <1>2, <1>3, <1>4 DEF Keeping, OpenInv, CarryInv
<1>6. TxTimely' /\ RxTimely'
  <2>1. None \notin Queries
    BY SystemAssumption DEF SystemAssumption
  <2> QED BY <1>2, <1>5, <2>1, TxKept, RxKept DEF CarryInv
<1> QED BY <1>3, <1>5, <1>6 DEF CarryInv

\* sendMsg gives an answer up, or goes on.
LEMMA SearchMoves == Known /\ Known' /\ CarryInv /\ FindBuffer => CarryInv'
<1> SUFFICES ASSUME Known, Known', CarryInv, FindBuffer PROVE CarryInv'
  OBVIOUS
<1>1. /\ pc = "free" /\ IsRequest(msg.frame) /\ msg.frame.data \in Queries /\ msg' = msg
      /\ InWork = {msg.frame.data}
  <2>1. pc = "free" /\ msg' = msg
    BY DEF FindBuffer, SearchTx, appVars
  <2> QED BY <2>1, RequestAtHand DEF Known, Answering, InWork
<1>2. UNCHANGED <<Requested, InBuffers, txb, askers, rxq, motor, queries, Replies, Returned>>
  BY DEF FindBuffer, SearchTx, Over, history, Requested, InBuffers, Holding, Replies, Returned, reqVars,
         busVars, appVars
<1>3. CASE pc' = "poll"
  <2>1. InWork' = {} /\ dropped' # dropped
    BY <1>3 DEF FindBuffer, SearchTx, InWork, Known, NodeInv, RangesOK
  <2>2. UnderWay' \subseteq UnderWay /\ msg.frame.data \notin UnderWay' /\ OnePlace'
    BY <1>1, <1>2, <2>1 DEF UnderWay, OnePlace, Apart, CarryInv
  <2>3. Ending
    BY <1>1, <1>2, <2>1, <2>2 DEF Ending, FindBuffer, Over
  <2>4. OpenInv' /\ Keeping
    BY <2>2, <2>3, OpenKept DEF Known, CarryInv
  <2>5. TxTimely' /\ RxTimely'
    BY <1>2, <2>4, SystemAssumption, TxKept, RxKept DEF CarryInv, SystemAssumption
  <2> QED BY <2>2, <2>4, <2>5 DEF CarryInv
<1>4. CASE pc' # "poll"
  <2>1. pc' \in {"free", "load"} /\ dropped' = dropped
    BY <1>4 DEF FindBuffer, SearchTx, AfterSearch
  <2>2. InWork' = InWork /\ open' = open
    BY <1>1, <2>1 DEF InWork, FindBuffer, history
  <2> QED BY <1>2, <2>2, NothingMoves
<1> QED BY <1>3, <1>4

\* An answer is loaded: the request goes from the firmware to a buffer, with the
\* position the motor has now.
LEMMA AnswerMoves == Known /\ Known' /\ CarryInv /\ LoadAnswer => CarryInv'
<1> SUFFICES ASSUME Known, Known', CarryInv, LoadAnswer PROVE CarryInv'
  OBVIOUS
<1> DEFINE q == msg.frame.data
<1>1. /\ pc = "load" /\ pc' = "sent" /\ q \in Queries /\ q # None
      /\ InWork = {q} /\ InWork' = {}
  <2>1. pc = "load" /\ pc' = "sent" /\ None \notin Queries
    BY SystemAssumption DEF LoadAnswer, write_canMsg, SystemAssumption
  <2> QED BY <2>1, RequestAtHand DEF Known, Answering, InWork
<1>2. UNCHANGED <<Requested, InBuffers, rxq, motor, queries, open, Returned>>
  BY DEF LoadAnswer, write_canMsg, Requested, InBuffers, Holding, Returned, reqVars, busVars, appVars
<1>3. /\ txbuf_n \in TxBuffers /\ txb[txbuf_n] = None
      /\ stepper_position = motor /\ motor # None
      /\ txb'[txbuf_n] = motor /\ askers'[txbuf_n] = q
      /\ \A b \in TxBuffers : b # txbuf_n => txb'[b] = txb[b] /\ askers'[b] = askers[b]
  <2>1. /\ txbuf_n \in TxBuffers /\ txb[txbuf_n] = None /\ txb \in [TxBuffers -> Positions \cup {None}]
        /\ stepper_position = motor /\ motor \in Positions /\ askers \in [TxBuffers -> Queries \cup {None}]
    BY <1>1 DEF Known, NodeInv, RangesOK, PcInv, MotorInv, PositionTracksMotor, RestOK
  <2>2. None \notin Positions
    BY NodeAssumption DEF NodeAssumption, Positions
  <2> QED BY <2>1, <2>2 DEF LoadAnswer, write_canMsg
<1>4. Replies \in Slots(TxBuffers) /\ Replies' \in Slots(TxBuffers)
  BY SlotTypes, SlotTypesNext DEF Known, SlotsTyped
<1>5. /\ Replies[txbuf_n] = None /\ Replies'[txbuf_n] = q
      /\ \A b \in TxBuffers : b # txbuf_n => Replies'[b] = Replies[b]
  BY <1>3 DEF Replies
<1>6. Distinct(Replies') /\ Carried(Replies') = Carried(Replies) \cup {q}
  <2>1. q \notin Carried(Replies) /\ Distinct(Replies)
    BY <1>1 DEF CarryInv, OnePlace, Apart
  <2> HIDE DEF q
  <2> QED BY <1>1, <1>3, <1>4, <1>5, <2>1, SlotFilled
<1>7. UnderWay' = UnderWay /\ OnePlace'
  <2> HIDE DEF q
  <2> QED BY <1>1, <1>2, <1>6 DEF UnderWay, OnePlace, Apart, CarryInv
<1>8. OpenInv' /\ Keeping
  BY <1>2, <1>7 DEF OpenInv, Keeping, CarryInv
<1>9. motor \in open[q]
  BY <1>1 DEF OpenInv, UnderWay, CarryInv
<1>10. TxTimely'
  <2> HIDE DEF q
  <2> QED BY <1>1, <1>2, <1>3, <1>9 DEF TxTimely, CarryInv
<1>11. RxTimely'
  BY <1>2, <1>8, RxKept DEF CarryInv
<1> QED BY <1>7, <1>8, <1>10, <1>11 DEF CarryInv

\* A frame is read: a request goes from the receive buffer to the firmware.
LEMMA ReadMoves == Known /\ Known' /\ CarryInv /\ read_canMsg /\ UNCHANGED <<reqVars, history>> => CarryInv'
<1> SUFFICES ASSUME Known, Known', CarryInv, read_canMsg, UNCHANGED <<reqVars, history>> PROVE CarryInv'
  OBVIOUS
<1>1. /\ rx \in RxBuffers /\ rxb[rx] # None /\ msg' = rxb[rx] /\ pc' = "process" /\ InWork = {}
      /\ rxb'[rx] = None /\ \A b \in RxBuffers : b # rx => rxb'[b] = rxb[b]
  BY DEF read_canMsg, AfterRead, Known, NodeInv, RangesOK, PcInv, InWork
<1>2. UNCHANGED <<Requested, txb, askers, rxq, motor, queries, open, Replies, Returned>>
  BY DEF read_canMsg, Requested, Replies, Returned, reqVars, history
<1>3. InBuffers \in Slots(RxBuffers) /\ InBuffers' \in Slots(RxBuffers)
  BY SlotTypes, SlotTypesNext DEF Known, SlotsTyped
<1>4. InBuffers'[rx] = None /\ \A b \in RxBuffers : b # rx => InBuffers'[b] = InBuffers[b]
  BY <1>1 DEF InBuffers, Holding
<1>5. Distinct(InBuffers') /\ Carried(InBuffers') = Carried(InBuffers) \ {InBuffers[rx]}
  BY <1>1, <1>3, <1>4, SlotCleared DEF CarryInv, OnePlace
<1>6. InWork' = {InBuffers[rx]} \ {None} /\ InWork' \subseteq Carried(InBuffers)
  <2>1. InBuffers[rx] # None => InBuffers[rx] \in Carried(InBuffers)
    BY <1>1, <1>3 DEF Carried, Slots
  <2>2. CASE IsRequest(rxb[rx].frame)
    <3>1. InBuffers[rx] = rxb[rx].frame.data /\ InWork' = {rxb[rx].frame.data}
      BY <1>1, <2>2 DEF InBuffers, Holding, InWork
    <3>2. rxb[rx].frame.data # None
      <4>1. rxb[rx].frame \in Frames
        BY <1>1 DEF Known, NodeInv, RangesOK, Stored
      <4> QED BY <2>2, <4>1, FrameKinds, SystemAssumption DEF SystemAssumption
    <3> QED BY <2>1, <3>1, <3>2
  <2>3. CASE ~IsRequest(rxb[rx].frame)
    BY <1>1, <2>3 DEF InBuffers, Holding, InWork
  <2> QED BY <2>2, <2>3
<1>7. UnderWay' = UnderWay /\ OnePlace'
  <2>1. None \notin Carried(InBuffers)
    BY DEF Carried
  <2>2. Carried(InBuffers') \cup InWork' = Carried(InBuffers) /\ Carried(InBuffers') \cap InWork' = {}
    BY <1>5, <1>6, <2>1
  <2>3. Carried(Requested') = Carried(Requested) /\ Carried(Replies') = Carried(Replies)
        /\ Carried(Returned') = Carried(Returned)
    BY <1>2
  <2>4. UnderWay' = UnderWay
    BY <1>1, <2>2, <2>3, Zenon DEF UnderWay
  <2>5. Apart(Carried(Requested'), Carried(InBuffers'), InWork', Carried(Replies'), Carried(Returned'))
    <3>1. Apart(Carried(Requested), Carried(InBuffers), {}, Carried(Replies), Carried(Returned))
      BY <1>1 DEF OnePlace, CarryInv
    <3> QED BY <2>2, <2>3, <3>1 DEF Apart
  <2> QED BY <1>2, <1>5, <2>4, <2>5 DEF OnePlace, CarryInv
<1> QED BY <1>2, <1>7 DEF CarryInv, OpenInv, TxTimely, RxTimely

\* The whole firmware.
LEMMA FirmwareMoves == Known /\ Known' /\ CarryInv /\ Firmware => CarryInv'
<1> SUFFICES ASSUME Known, Known', CarryInv, OtherFirmwareStep PROVE CarryInv'
  BY PulseMoves, SearchMoves, AnswerMoves DEF Firmware
<1>1. CASE read_canMsg
  BY <1>1, ReadMoves DEF OtherFirmwareStep
<1>2. CASE Setup \/ Poll \/ ChooseBuffer \/ Count \/ WaitSent \/ Ignore \/ Answer
  <2>1. UNCHANGED <<rxb, txb, motor, reqVars, history>>
    BY <1>2 DEF OtherFirmwareStep, Setup, Poll, ChooseBuffer, Count, WaitSent, Ignore, Answer, busVars,
                appVars
  <2>2. InWork' = InWork
    <3>1. CASE Setup \/ Poll \/ ChooseBuffer \/ Count \/ WaitSent
      BY <3>1 DEF Setup, Poll, ChooseBuffer, Count, WaitSent, InWork
    <3>2. CASE Ignore \/ Answer
      BY <3>2 DEF Ignore, Answer, Processing, InWork, appVars
    <3> QED BY <1>2, <3>1, <3>2
  <2>3. UNCHANGED <<Requested, InBuffers>>
    BY <2>1 DEF Requested, InBuffers, Holding, reqVars
  <2> QED BY <2>1, <2>2, <2>3, NothingMoves DEF reqVars, history
<1> QED BY <1>1, <1>2 DEF OtherFirmwareStep

\* A frame that arrives is stored in an empty buffer, or lost.
LEMMA Arrived ==
  ASSUME NodeInv, NEW f \in Frames, Arrive(f)
  PROVE  /\ UNCHANGED <<pc, msg, txb, motor>>
         /\ \/ accepted' = accepted /\ rxb' = rxb
            \/ /\ accepted' # accepted
               /\ \E m \in RxBuffers :
                    /\ rxb[m] = None /\ rxb'[m] # None /\ rxb'[m].frame = f
                    /\ \A b \in RxBuffers : b # m => rxb'[b] = rxb[b]
<1> DEFINE new == [n |-> arrived + 1, frame |-> f]
<1> DEFINE free == {b \in RxBuffers : rxb[b] = None}
<1>1. UNCHANGED <<pc, msg, txb, motor>>
  BY DEF Arrive, appVars
<1>2. CASE free = {}
  BY <1>1, <1>2 DEF Arrive
<1>3. CASE free # {}
  <2>1. free \in SUBSET (0 .. 2)
    BY DEF RxBuffers
  <2> PICK m \in RxBuffers : m = Min(free) /\ rxb[m] = None
    BY <1>3, <2>1, LeastIsMember
  <2>2. rxb' = [rxb EXCEPT ![m] = new] /\ accepted' = accepted \cup {arrived + 1}
    BY <1>3 DEF Arrive
  <2>3. accepted' # accepted
    BY <2>2 DEF NodeInv, RangesOK
  <2>4. new # None /\ new.frame = f
    <3>1. arrived + 1 \in 1 .. MaxFrames
      BY NodeAssumption DEF Arrive, NodeInv, RangesOK, NodeAssumption
    <3> QED BY <3>1, NodeAssumption DEF NodeAssumption
  <2>5. rxb'[m] = new /\ \A b \in RxBuffers : b # m => rxb'[b] = rxb[b]
    BY <2>2 DEF NodeInv, RangesOK
  <2> HIDE DEF new
  <2> QED BY <1>1, <2>3, <2>4, <2>5
<1> QED BY <1>2, <1>3

\* What that means for the requests in the buffers.
LEMMA ArrivedRequest ==
  ASSUME Known, Known', NEW f \in Frames, Arrive(f), Distinct(InBuffers),
         IsRequest(f) => f.data \notin Carried(InBuffers)
  PROVE  /\ InWork' = InWork
         /\ Distinct(InBuffers')
         /\ accepted' = accepted \/ ~IsRequest(f) => Carried(InBuffers') = Carried(InBuffers)
         /\ accepted' # accepted /\ IsRequest(f)
              => Carried(InBuffers') = Carried(InBuffers) \cup {f.data}
<1>1. InWork' = InWork
  BY Arrived DEF Known, InWork
<1>2. CASE accepted' = accepted
  <2>1. InBuffers' = InBuffers
    BY <1>2, Arrived DEF Known, InBuffers, Holding
  <2> QED BY <1>1, <1>2, <2>1
<1>3. CASE accepted' # accepted
  <2> PICK m \in RxBuffers : /\ rxb[m] = None /\ rxb'[m] # None /\ rxb'[m].frame = f
                             /\ \A b \in RxBuffers : b # m => rxb'[b] = rxb[b]
    BY <1>3, Arrived DEF Known
  <2>1. InBuffers \in Slots(RxBuffers) /\ InBuffers' \in Slots(RxBuffers)
    BY SlotTypes, SlotTypesNext DEF Known, SlotsTyped
  <2>2. /\ InBuffers[m] = None /\ InBuffers'[m] = IF IsRequest(f) THEN f.data ELSE None
        /\ \A b \in RxBuffers : b # m => InBuffers'[b] = InBuffers[b]
    BY DEF InBuffers, Holding
  <2>3. None \notin Carried(InBuffers)
    BY DEF Carried
  <2>4. /\ Distinct(InBuffers')
        /\ Carried(InBuffers') = Carried(InBuffers) \cup ({InBuffers'[m]} \ {None})
    BY <2>1, <2>2, <2>3, SlotFilled
  <2>5. IsRequest(f) => f.data # None
    BY FrameKinds, SystemAssumption DEF SystemAssumption
  <2> QED BY <1>1, <1>3, <2>2, <2>4, <2>5
<1> QED BY <1>2, <1>3

\* A request goes from the program to a receive buffer, or is lost.
LEMMA BusRequestMoves == Known /\ Known' /\ CarryInv /\ BusRequest => CarryInv'
<1> SUFFICES ASSUME Known, Known', CarryInv, BusRequest PROVE CarryInv'
  OBVIOUS
<1> DEFINE f == Head(reqq)
<1> DEFINE q == Head(reqq).data
<1> DEFINE n == Len(reqq) - 1
<1>1. reqq \in Seq(Requests) /\ reqq # << >> /\ reqq' = Tail(reqq) /\ Arrive(f) /\ None \notin Queries
  BY SystemAssumption DEF BusRequest, Known, RestOK, SystemAssumption
<1>2. /\ n \in Nat /\ Len(reqq) = n + 1 /\ Len(reqq') = n /\ f = reqq[1] /\ f \in Requests
      /\ \A i \in 1 .. n : reqq'[i] = reqq[i + 1]
  BY <1>1, HeadTailProperties, LenProperties
<1>3. Requested \in Slots(1 .. n + 1) /\ Requested' \in Slots(1 .. n)
  BY <1>2, SlotTypes, SlotTypesNext DEF Known, SlotsTyped
<1>4. Requested[1] = q /\ \A i \in 1 .. n : Requested'[i] = Requested[i + 1]
  BY <1>2 DEF Requested
<1>5. Distinct(Requested') /\ Carried(Requested') = Carried(Requested) \ {q}
  <2>1. Distinct(Requested)
    BY DEF CarryInv, OnePlace
  <2> HIDE DEF q, n
  <2> QED BY <1>2, <1>3, <1>4, <2>1, SlotRemoved
<1>6. f \in Frames /\ IsRequest(f) /\ q \in Queries /\ q # None
  BY <1>1, <1>2, FrameKinds
<1>7. q \in Carried(Requested)
  BY <1>2, <1>3, <1>4, <1>6 DEF Carried, Slots
<1>8. q \notin Carried(InBuffers) /\ Distinct(InBuffers)
  BY <1>7 DEF CarryInv, OnePlace, Apart
<1>9. /\ InWork' = InWork /\ Distinct(InBuffers')
      /\ accepted' = accepted => Carried(InBuffers') = Carried(InBuffers)
      /\ accepted' # accepted => Carried(InBuffers') = Carried(InBuffers) \cup {q}
  BY <1>1, <1>6, <1>8, ArrivedRequest
<1>10. UNCHANGED <<txb, motor, rxq, askers, queries, Replies, Returned>>
  <2>1. UNCHANGED <<txb, motor>>
    BY <1>1, <1>6, Arrived DEF Known
  <2> QED BY <2>1 DEF BusRequest, Over, history, Replies, Returned
<1>11. UnderWay' \subseteq UnderWay /\ (accepted' = accepted => q \notin UnderWay') /\ OnePlace'
  <2> HIDE DEF f, q, n
  <2> QED BY <1>5, <1>7, <1>9, <1>10 DEF UnderWay, OnePlace, Apart, CarryInv
<1>12. Ending
  BY <1>6, <1>10, <1>11 DEF Ending, BusRequest, Over, history
<1>13. OpenInv' /\ Keeping
  BY <1>11, <1>12, OpenKept DEF Known, CarryInv
<1>14. TxTimely' /\ RxTimely'
  BY <1>1, <1>10, <1>13, TxKept, RxKept DEF CarryInv
<1> QED BY <1>11, <1>13, <1>14 DEF CarryInv

\* What the socket's queue holds after a delivery.
LEMMA Received ==
  ASSUME Known, Known', NEW f \in SocketFrames, Req!Deliver(f), Distinct(Returned),
         f.query \notin Carried(Returned)
  PROVE  /\ Distinct(Returned')
         /\ Req!Listening => Carried(Returned') = Carried(Returned) \cup ({f.query} \ {None})
         /\ ~Req!Listening => Carried(Returned') = Carried(Returned) /\ rxq' = rxq
         /\ \A i \in 1 .. Len(rxq') :
              \/ \E j \in 1 .. Len(rxq) : rxq'[i] = rxq[j]
              \/ Req!Listening /\ rxq'[i] = f
<1>1. CASE ~Req!Listening
  <2>1. rxq' = rxq /\ Returned' = Returned
    BY <1>1 DEF Req!Deliver, Returned
  <2> QED BY <1>1, <2>1
<1>2. CASE Req!Listening
  <2> DEFINE n == Len(rxq)
  <2>1. /\ n \in Nat /\ Len(rxq') = n + 1 /\ rxq'[n + 1] = f
        /\ \A i \in 1 .. n : rxq'[i] = rxq[i]
    <3>1. rxq \in Seq(SocketFrames) /\ rxq' = Append(rxq, f)
      BY <1>2 DEF Known, RestOK, Req!Deliver
    <3> QED BY <3>1, AppendProperties, LenProperties
  <2>2. Returned \in Slots(1 .. n) /\ Returned' \in Slots(1 .. n + 1)
    BY <2>1, SlotTypes, SlotTypesNext DEF Known, SlotsTyped
  <2>3. Returned'[n + 1] = f.query /\ \A i \in 1 .. n : Returned'[i] = Returned[i]
    BY <2>1 DEF Returned
  <2> HIDE DEF n
  <2>4. /\ Distinct(Returned')
        /\ Carried(Returned') = Carried(Returned) \cup ({f.query} \ {None})
    BY <2>1, <2>2, <2>3, SlotAdded
  <2>5. \A i \in 1 .. Len(rxq') :
          (\E j \in 1 .. Len(rxq) : rxq'[i] = rxq[j]) \/ rxq'[i] = f
    BY <2>1 DEF n
  <2> QED BY <1>2, <2>4, <2>5
<1> QED BY <1>1, <1>2

\* A step order carries no request.
LEMMA BusOrderMoves == Known /\ Known' /\ CarryInv /\ BusOrder => CarryInv'
<1> SUFFICES ASSUME Known, Known', CarryInv, BusOrder PROVE CarryInv'
  OBVIOUS
<1> DEFINE f == Head(cmdq)
<1>1. f \in Orders /\ f \in Frames /\ ~IsRequest(f)
  BY HeadTailProperties, FrameKinds DEF BusOrder, Known, RestOK
<1>2. Arrive(f) /\ Req!Deliver(ToSocket(f)) /\ UNCHANGED <<queries, open, askers>>
  BY DEF BusOrder, history
<1>3. /\ ToSocket(f) \in SocketFrames /\ ToSocket(f).query = None
      /\ RightAnswer(ToSocket(f), open')
  BY <1>1, OthersToSocket DEF RightAnswer
<1> HIDE DEF f
<1>4. UNCHANGED <<txb, motor, reqq, Requested, Replies>>
  BY <1>1, <1>2, Arrived DEF Known, Req!Deliver, Requested, Replies
<1>5. /\ InWork' = InWork /\ Distinct(InBuffers')
      /\ Carried(InBuffers') = Carried(InBuffers)
  BY <1>1, <1>2, ArrivedRequest DEF CarryInv, OnePlace
<1>6. None \notin Carried(Returned)
  BY DEF Carried
<1>7. /\ Distinct(Returned') /\ Carried(Returned') = Carried(Returned)
      /\ \A i \in 1 .. Len(rxq') :
           (\E j \in 1 .. Len(rxq) : rxq'[i] = rxq[j]) \/ rxq'[i] = ToSocket(f)
  BY <1>2, <1>3, <1>6, Received DEF CarryInv, OnePlace
<1>8. UnderWay' = UnderWay /\ OnePlace'
  BY <1>4, <1>5, <1>7 DEF UnderWay, OnePlace, CarryInv
<1>9. OpenInv' /\ Keeping
  BY <1>2, <1>4, <1>8 DEF OpenInv, Keeping, CarryInv
<1>10. TxTimely' /\ RxTimely'
  BY <1>2, <1>3, <1>4, <1>7, <1>9, SystemAssumption, TxKept, RxExtended DEF CarryInv, SystemAssumption
<1> QED BY <1>8, <1>9, <1>10 DEF CarryInv

\* A request of another node goes to a receive buffer, or is lost.
LEMMA BusOtherMoves == Known /\ Known' /\ CarryInv /\ BusOther => CarryInv'
<1> SUFFICES ASSUME Known, Known', CarryInv, BusOther PROVE CarryInv'
  OBVIOUS
<1> DEFINE q == queries + 1
<1> DEFINE f == Req!Request(q)
<1>1. /\ q \in Queries /\ Arrive(f) /\ Req!Deliver(ToSocket(f)) /\ askers' = askers
      /\ IF accepted' = accepted THEN queries' = q /\ open' = open ELSE Asked(q)
  BY DEF BusOther, Asked
<1>2. f \in Frames /\ IsRequest(f) /\ f.data = q
  BY <1>1, RequestFrames
<1>3. /\ ToSocket(f) \in SocketFrames /\ ToSocket(f).query = None
      /\ RightAnswer(ToSocket(f), open')
  BY <1>2, OthersToSocket DEF RightAnswer
<1>4. q \notin UnderWay /\ q # None
  BY <1>1, NextRequest DEF Known, CarryInv
<1> HIDE DEF f
<1>5. UNCHANGED <<txb, motor, reqq, Requested, Replies>>
  BY <1>1, <1>2, Arrived DEF Known, Req!Deliver, Requested, Replies
<1>6. /\ InWork' = InWork /\ Distinct(InBuffers')
      /\ accepted' = accepted => Carried(InBuffers') = Carried(InBuffers)
      /\ accepted' # accepted => Carried(InBuffers') = Carried(InBuffers) \cup {q}
  <2>1. Distinct(InBuffers) /\ f.data \notin Carried(InBuffers)
    BY <1>2, <1>4 DEF CarryInv, OnePlace, UnderWay
  <2> HIDE DEF q
  <2> QED BY <1>1, <1>2, <2>1, ArrivedRequest
<1>7. None \notin Carried(Returned)
  BY DEF Carried
<1>8. /\ Distinct(Returned') /\ Carried(Returned') = Carried(Returned)
      /\ \A i \in 1 .. Len(rxq') :
           (\E j \in 1 .. Len(rxq) : rxq'[i] = rxq[j]) \/ rxq'[i] = ToSocket(f)
  BY <1>1, <1>3, <1>7, Received DEF CarryInv, OnePlace
<1>9. /\ OnePlace' /\ UnderWay' \subseteq UnderWay \cup {q}
      /\ accepted' = accepted => UnderWay' = UnderWay
  <2> HIDE DEF q
  <2> QED BY <1>4, <1>5, <1>6, <1>8 DEF UnderWay, OnePlace, Apart, CarryInv
<1>10. OpenInv' /\ Keeping
  <2>1. CASE accepted' = accepted
    <3>1. \A r \in Queries : r > q => r > queries
      BY SystemAssumption DEF Known, RestOK, Queries, SystemAssumption
    <3> HIDE DEF q
    <3> QED BY <1>1, <1>5, <1>9, <2>1, <3>1 DEF OpenInv, Keeping, CarryInv
  <2>2. CASE accepted' # accepted
    BY <1>1, <1>5, <1>9, <2>2, OpenAsked DEF Known, CarryInv
  <2> QED BY <2>1, <2>2
<1>11. TxTimely' /\ RxTimely'
  BY <1>1, <1>3, <1>5, <1>8, <1>10, SystemAssumption, TxKept, RxExtended DEF CarryInv, SystemAssumption
<1> QED BY <1>9, <1>10, <1>11 DEF CarryInv

\* An answer goes from its buffer to the socket, or is lost.
LEMMA BusAnswerMoves == Known /\ Known' /\ CarryInv /\ BusAnswer => CarryInv'
<1> SUFFICES ASSUME Known, Known', CarryInv, BusAnswer PROVE CarryInv'
  OBVIOUS
<1> PICK b \in TxBuffers :
      /\ Transmit /\ txb'[b] # txb[b] /\ Req!Deliver(AnswerFrame(b))
      /\ (IF Req!Listening THEN UNCHANGED history ELSE Over(askers[b]))
  BY DEF BusAnswer, AnswerFrame
<1> DEFINE q == askers[b]
<1>1. txb[b] \in Positions /\ txb[b] # None /\ txb' = [txb EXCEPT ![b] = None]
  BY Transmitted DEF Known
<1>2. q \in Queries /\ txb[b] \in open[q] /\ q # None
  BY <1>1, SystemAssumption DEF CarryInv, TxTimely, SystemAssumption
<1>3. /\ UNCHANGED <<motor, reqq, queries, askers, Requested, InBuffers, InWork>>
      /\ (IF Req!Listening THEN open' = open ELSE open' = [open EXCEPT ![q] = {}])
  BY DEF Transmit, Req!Deliver, history, Over, appVars, busVars, Requested, InBuffers, Holding, InWork
<1>4. /\ AnswerFrame(b) \in SocketFrames /\ Req!IsPosition(AnswerFrame(b))
      /\ AnswerFrame(b).query = q /\ Req!Decoded(AnswerFrame(b).data) = txb[b]
  BY <1>1, <1>2, AnswersToSocket
<1>5. Distinct(Replies') /\ Carried(Replies') = Carried(Replies) \ {q} /\ q \in Carried(Replies)
  <2>1. Replies \in Slots(TxBuffers) /\ Replies' \in Slots(TxBuffers)
    BY SlotTypes, SlotTypesNext DEF Known, SlotsTyped
  <2>2. txb'[b] = None /\ \A c \in TxBuffers : c # b => txb'[c] = txb[c]
    BY <1>1 DEF Known, NodeInv, RangesOK
  <2>3. Replies'[b] = None /\ Replies[b] = q /\ \A c \in TxBuffers : c # b => Replies'[c] = Replies[c]
    BY <1>1, <1>3, <2>2 DEF Replies
  <2>4. Distinct(Replies) /\ q \in Carried(Replies)
    BY <1>2, <2>1, <2>3 DEF CarryInv, OnePlace, Carried, Slots
  <2> HIDE DEF q
  <2> QED BY <2>1, <2>3, <2>4, SlotCleared
<1>6. /\ Distinct(Returned')
      /\ Req!Listening => Carried(Returned') = Carried(Returned) \cup {q}
      /\ ~Req!Listening => Carried(Returned') = Carried(Returned)
      /\ \A i \in 1 .. Len(rxq') :
           \/ \E j \in 1 .. Len(rxq) : rxq'[i] = rxq[j]
           \/ Req!Listening /\ rxq'[i] = AnswerFrame(b)
  <2>1. Distinct(Returned) /\ q \notin Carried(Returned)
    BY <1>5 DEF CarryInv, OnePlace, Apart
  <2> HIDE DEF q
  <2> QED BY <1>2, <1>4, <2>1, Received
<1>7. UnderWay' \subseteq UnderWay /\ (~Req!Listening => q \notin UnderWay') /\ OnePlace'
  <2> HIDE DEF q
  <2> QED BY <1>3, <1>5, <1>6 DEF UnderWay, OnePlace, Apart, CarryInv
<1>8. Ending
  BY <1>2, <1>3, <1>7 DEF Ending
<1>9. OpenInv' /\ Keeping
  BY <1>7, <1>8, OpenKept DEF Known, CarryInv
<1>10. TxTimely'
  <2>1. \A c \in TxBuffers : txb'[c] # None => txb'[c] = txb[c] /\ askers'[c] = askers[c]
    BY <1>1, <1>3 DEF Known, NodeInv, RangesOK
  <2> QED BY <1>9, <2>1, SystemAssumption, TxKept DEF CarryInv, SystemAssumption
<1>11. RxTimely'
  <2>1. Req!Listening => RightAnswer(AnswerFrame(b), open')
    BY <1>2, <1>3, <1>4 DEF RightAnswer
  <2> QED BY <1>6, <1>9, <2>1, RxExtended DEF CarryInv
<1> QED BY <1>7, <1>9, <1>10, <1>11 DEF CarryInv

\* Every step of the system.
LEMMA CarryStep == Known /\ Known' /\ CarryInv /\ [SystemNext]_systemVars => CarryInv'
<1> SUFFICES ASSUME Known, Known', CarryInv, [SystemNext]_systemVars PROVE CarryInv'
  OBVIOUS
<1>1. CASE \/ UNCHANGED <<vars, reqq, rxq, history>>
  <2>1. UNCHANGED <<Requested, InBuffers, InWork, txb, askers, rxq, open, queries, motor>>
    BY <1>1 DEF vars, appVars, busVars, history, Requested, InBuffers, Holding, InWork
  <2> QED BY <2>1, NothingMoves
<1>2. CASE OtherProgramStep \/ Idle \/ (\E d \in Directions : OrderStep(d)) \/ UNCHANGED systemVars
  <2>1. UNCHANGED <<vars, reqq, rxq, history>>
    BY <1>2 DEF OtherProgramStep, Idle, OrderStep, systemVars, reqVars, Req!OpenSocket,
                Req!StartThread, Req!SetAffinity, Req!SendFails, Req!SleepCycle
  <2> QED BY <1>1, <2>1
<1> QED BY <1>2, RequestMoves, ReceiveMovesBack, FirmwareMoves, BusRequestMoves, BusOrderMoves,
           BusOtherMoves, BusAnswerMoves DEF SystemNext, Program, Bus

SystemInv == Known /\ CarryInv

\* The inductive invariant of the system holds at the start, ...
LEMMA SystemStarts == SystemInit => SystemInv
<1> SUFFICES ASSUME SystemInit PROVE SystemInv
  OBVIOUS
<1>1. Init /\ Req!Init
  BY DEF SystemInit
<1>2. NodeInv /\ MotorInv /\ Answering
  BY <1>1, InitNode DEF Init, MotorInv, PositionTracksMotor, Answering
<1>3. RestOK
  BY <1>1, SystemAssumption, EmptySeq
     DEF SystemInit, Req!Init, RestOK, SystemAssumption
<1>4. /\ reqq = << >> /\ rxq = << >> /\ Len(reqq) = 0 /\ Len(rxq) = 0
      /\ rxb = [b \in RxBuffers |-> None] /\ txb = [b \in TxBuffers |-> None] /\ pc = "setup"
      /\ open = [q \in Queries |-> {}]
  BY <1>1 DEF SystemInit, Init, Req!Init
<1>5. /\ Distinct(Requested) /\ Carried(Requested) = {}
      /\ Distinct(Returned) /\ Carried(Returned) = {}
  BY <1>4 DEF Distinct, Carried, Requested, Returned
<1>6. /\ Distinct(InBuffers) /\ Carried(InBuffers) = {} /\ InWork = {}
      /\ Distinct(Replies) /\ Carried(Replies) = {}
  BY <1>4 DEF Distinct, Carried, InBuffers, Holding, InWork, Replies
<1>7. OnePlace /\ UnderWay = {}
  BY <1>5, <1>6 DEF OnePlace, Apart, UnderWay
<1>8. OpenInv /\ TxTimely /\ RxTimely
  BY <1>4, <1>7 DEF OpenInv, TxTimely, RxTimely
<1> QED BY <1>2, <1>3, <1>7, <1>8 DEF SystemInv, Known, CarryInv

\* ... its parts about the node are kept ...
LEMMA KnownStep == Known /\ [SystemNext]_systemVars => Known'
<1> SUFFICES ASSUME Known, [SystemNext]_systemVars PROVE Known'
  OBVIOUS
<1>1. [Next]_vars
  BY SystemIsNode DEF Known
<1>2. NodeInv' /\ MotorInv' /\ Answering'
  BY <1>1, NodeStep, MotorStep, AnsweringStep DEF Known
<1>3. RestOK'
  BY <1>2, RestStep DEF Known
<1> QED BY <1>2, <1>3 DEF Known

\* ... and so is the whole,
LEMMA SystemStep == SystemInv /\ [SystemNext]_systemVars => SystemInv'
BY KnownStep, CarryStep DEF SystemInv

\* always.
LEMMA SystemKept == SystemSpec => []SystemInv
BY SystemStarts, SystemStep, PTL DEF SystemSpec

\* In the system the firmware and its controller behave as StepperNode specifies:
\* what the programs and the bus do to them is among what that module expects of
\* other nodes.
THEOREM NodeBehaves == SystemSpec => Init /\ [][Next]_vars
<1>1. SystemInit => Init
  BY DEF SystemInit
<1>2. SystemInv /\ [SystemNext]_systemVars => [Next]_vars
  BY SystemIsNode DEF SystemInv, Known
<1> QED BY <1>1, <1>2, SystemKept, PTL DEF SystemSpec

\* So no frame that reached the motor is lost or processed twice, none of its
\* answers is overwritten, CAN_OK means that it was sent, and the counted position
\* is the motor's, with any number of requests and orders.
THEOREM NodeInSystem ==
  SystemSpec => [](HandledOnce /\ AnswersAccountedFor /\ OkMeansSent /\ PositionTracksMotor)
<1>1. Init => PlaceInv /\ AnswersInv /\ OkInv /\ MotorInv /\ NodeInv
  <2> SUFFICES ASSUME Init PROVE PlaceInv /\ AnswersInv /\ OkInv /\ MotorInv /\ NodeInv
    OBVIOUS
  <2>1. PlaceInv
    BY NodeAssumption DEF Init, PlaceInv, NodeAssumption
  <2>2. Pending = {}
    BY DEF Init, Pending
  <2>3. Cardinality(Pending) = 0
    BY <2>2, FS_EmptySet
  <2>4. AnswersInv
    BY <2>3 DEF Init, AnswersInv, InPreparation
  <2> QED BY <2>1, <2>4, InitNode DEF Init, OkInv, MotorInv, PositionTracksMotor
<1>2. PlaceInv => HandledOnce
  BY Zenon DEF PlaceInv, HandledOnce, Waiting, InHand
<1>3. AnswersInv => AnswersAccountedFor
  BY Zenon DEF AnswersInv, AnswersAccountedFor, Pending, InPreparation
<1>4. OkInv => OkMeansSent
  BY DEF OkInv, OkMeansSent
<1>5. MotorInv => PositionTracksMotor
  BY DEF MotorInv
<1> QED BY <1>1, <1>2, <1>3, <1>4, <1>5, NodeBehaves, NodeStep, PlaceStep, AnswersStep, OkStep,
           MotorStep, PTL

-----------------------------------------------------------------------------
\* A received answer: the request is open, and the answer is one of its positions.
LEMMA ShownIsTimely ==
  ASSUME SystemInv, Req!Receive, Req!IsPosition(Head(rxq))
  PROVE  /\ Head(rxq).query \in Queries
         /\ shown' \in open[Head(rxq).query] /\ open[Head(rxq).query] \subseteq Positions
<1>1. rxq \in Seq(SocketFrames) /\ rxq # << >>
  BY DEF Req!Receive, SystemInv, Known, RestOK
<1>2. 1 \in 1 .. Len(rxq) /\ Head(rxq) = rxq[1] /\ Head(rxq) \in SocketFrames
  BY <1>1, HeadTailProperties, LenProperties
<1>3. Head(rxq).query # None /\ shown' \in open[Head(rxq).query]
  BY <1>2 DEF Req!Receive, SystemInv, CarryInv, RxTimely
<1>4. Head(rxq).query \in Queries
  BY <1>2, <1>3 DEF SocketFrames
<1> QED BY <1>3, <1>4 DEF SystemInv, Known, RestOK

ShownOK == shown \in Positions \cup {None}

\* The displayed position is always one the motor can have.
LEMMA ShownStep == SystemInv /\ ShownOK /\ [SystemNext]_systemVars => ShownOK'
<1> SUFFICES ASSUME SystemInv, ShownOK, [SystemNext]_systemVars PROVE ShownOK'
  OBVIOUS
<1>1. CASE ReceiveFrame
  <2>1. CASE Req!IsPosition(Head(rxq))
    BY <1>1, <2>1, ShownIsTimely DEF ReceiveFrame, ShownOK
  <2>2. CASE ~Req!IsPosition(Head(rxq))
    BY <1>1, <2>2 DEF ReceiveFrame, Req!Receive, ShownOK
  <2> QED BY <2>1, <2>2
<1>2. CASE UNCHANGED shown
  BY <1>2 DEF ShownOK
<1>3. CASE SendRequest \/ OtherProgramStep \/ (\E d \in Directions : OrderStep(d)) \/ Firmware
  BY <1>2, <1>3 DEF SendRequest, OtherProgramStep, OrderStep, Firmware, MotorTurns, FindBuffer,
     LoadAnswer, OtherFirmwareStep, reqVars, Req!Send, Req!OpenSocket, Req!StartThread,
     Req!SetAffinity, Req!SendFails, Req!SleepCycle
<1>4. CASE Bus \/ Idle \/ UNCHANGED systemVars
  BY <1>2, <1>4 DEF Bus, BusRequest, BusOrder, BusOther, BusAnswer, Req!Deliver, Idle, systemVars, reqVars
<1> QED BY <1>1, <1>3, <1>4 DEF SystemNext, Program

\* All queues, buffers and threads of the composed system stay in range, and
\* the displayed position is one the motor can have.
THEOREM SystemTypeCorrect == SystemSpec => []SystemTypeOK
<1>1. SystemInit => BusyOK /\ ShownOK
  BY DEF SystemInit, Init, Req!Init, BusyOK, ShownOK
<1>2. SystemInv /\ BusyOK /\ [SystemNext]_systemVars => BusyOK'
  BY SystemIsNode, BusyStep DEF SystemInv, Known
<1>3. NodeInv /\ BusyOK => TypeOK
  BY Zenon DEF NodeInv, BusyOK, RangesOK, TypeOK
<1>4. RestOK /\ ShownOK /\ TypeOK => SystemTypeOK
  BY Zenon DEF RestOK, ShownOK, SystemTypeOK, Requests, Orders
<1>5. SystemInv => NodeInv /\ RestOK
  BY DEF SystemInv, Known
<1>6. SystemInv /\ BusyOK /\ ShownOK => SystemTypeOK
  BY <1>3, <1>4, <1>5
<1> QED BY <1>1, <1>2, <1>6, SystemKept, ShownStep, PTL DEF SystemSpec

\* No two answers under way, in a transmit buffer or in the socket, are for the
\* same request, for every number of requests and step orders.
THEOREM RequestsAnsweredOnce == SystemSpec => []AnsweredOnce
<1>1. SystemInv => AnsweredOnce
  <2> SUFFICES ASSUME SystemInv, NEW a \in Answers, NEW b \in Answers, AnswerTo(a) = AnswerTo(b)
               PROVE  a = b
    BY DEF AnsweredOnce
  <2>1. rxq \in Seq(SocketFrames) /\ DOMAIN rxq = 1 .. Len(rxq)
    BY LenProperties DEF SystemInv, Known, RestOK
  <2>2. \A x \in Answers :
          \/ \E c \in TxBuffers :
               x = <<"tx", c>> /\ AnswerTo(x) = Replies[c] /\ Replies[c] # None /\ c \in DOMAIN Replies
          \/ \E i \in 1 .. Len(rxq) :
               x = <<"rx", i>> /\ AnswerTo(x) = Returned[i] /\ Returned[i] # None /\ i \in DOMAIN Returned
    <3> SUFFICES ASSUME NEW x \in Answers
                 PROVE  \/ \E c \in TxBuffers : x = <<"tx", c>> /\ AnswerTo(x) = Replies[c]
                             /\ Replies[c] # None /\ c \in DOMAIN Replies
                        \/ \E i \in 1 .. Len(rxq) : x = <<"rx", i>> /\ AnswerTo(x) = Returned[i]
                             /\ Returned[i] # None /\ i \in DOMAIN Returned
      OBVIOUS
    <3>1. CASE \E c \in TxBuffers : txb[c] # None /\ x = <<"tx", c>>
      <4> PICK c \in TxBuffers : txb[c] # None /\ x = <<"tx", c>>
        BY <3>1
      <4>1. askers[c] \in Queries /\ None \notin Queries
        BY SystemAssumption DEF SystemInv, CarryInv, TxTimely, SystemAssumption
      <4>2. AnswerTo(x) = Replies[c] /\ Replies[c] # None /\ c \in DOMAIN Replies
        BY <4>1 DEF AnswerTo, Replies
      <4> QED BY <4>2
    <3>2. CASE \E i \in 1 .. Len(rxq) : rxq[i].query # None /\ x = <<"rx", i>>
      BY <3>2 DEF AnswerTo, Returned
    <3> QED BY <2>1, <3>1, <3>2 DEF Answers
  <2>3. Distinct(Replies) /\ Distinct(Returned) /\ Carried(Replies) \cap Carried(Returned) = {}
    BY DEF SystemInv, CarryInv, OnePlace, Apart
  <2> QED BY <2>2, <2>3 DEF Distinct, Carried
<1> QED BY <1>1, SystemKept, PTL

Ordered(s, d) == {i \in DOMAIN s : StepOf(s[i]) = d}
Buffered(d) == {b \in RxBuffers : rxb[b] # None /\ StepOf(rxb[b].frame) = d}
AtHand(d) == IF pc = "process" /\ StepOf(msg.frame) = d THEN 1 ELSE 0
OneIf(c) == IF c THEN 1 ELSE 0

\* The orders written are finitely many.
LEMMA OrderedFinite ==
  ASSUME NEW s \in Seq(Orders), NEW d
  PROVE  /\ Ordered(s, d) \subseteq 1 .. Len(s) /\ IsFiniteSet(Ordered(s, d))
         /\ Cardinality(Ordered(s, d)) \in Nat
<1>1. Len(s) \in Nat /\ DOMAIN s = 1 .. Len(s)
  BY LenProperties
<1>2. Ordered(s, d) \subseteq 1 .. Len(s)
  BY <1>1 DEF Ordered
<1>3. IsFiniteSet(1 .. Len(s))
  <2>1. \A x, y \in Int : IsFiniteSet(x .. y)
    BY FS_Interval
  <2>2. 1 \in Int /\ Len(s) \in Int
    BY <1>1
  <2> QED BY <2>1, <2>2, Zenon
<1>4. IsFiniteSet(Ordered(s, d))
  BY <1>2, <1>3, FS_Subset
<1> QED BY <1>2, <1>4, FS_CardinalityType

\* The number of orders for a direction when one is written ...
LEMMA OrderedAdded ==
  ASSUME NEW s \in Seq(Orders), NEW f \in Orders, NEW d
  PROVE  Cardinality(Ordered(Append(s, f), d)) = Cardinality(Ordered(s, d)) + OneIf(StepOf(f) = d)
<1> DEFINE n == Len(s)
<1> DEFINE t == Append(s, f)
<1>1. /\ n \in Nat /\ DOMAIN s = 1 .. n /\ DOMAIN t = 1 .. n + 1 /\ t[n + 1] = f
      /\ \A i \in 1 .. n : t[i] = s[i]
  <2>1. t \in Seq(Orders) /\ Len(t) = n + 1 /\ t[n + 1] = f /\ \A i \in 1 .. n : t[i] = s[i]
    BY AppendProperties
  <2> QED BY <2>1, LenProperties
<1>2. IsFiniteSet(Ordered(s, d)) /\ Cardinality(Ordered(s, d)) \in Nat /\ Ordered(s, d) \subseteq 1 .. n
  BY OrderedFinite
<1> HIDE DEF n, t
<1>3. n + 1 \notin Ordered(s, d)
  BY <1>1, <1>2
<1>4. CASE StepOf(f) = d
  <2>1. Ordered(t, d) = Ordered(s, d) \cup {n + 1}
    BY <1>1, <1>4 DEF Ordered
  <2>2. Cardinality(Ordered(t, d)) = Cardinality(Ordered(s, d)) + 1
    BY <1>2, <1>3, <2>1, FS_AddElement
  <2> QED BY <1>4, <2>2 DEF OneIf, t
<1>5. CASE StepOf(f) # d
  <2>1. Ordered(t, d) = Ordered(s, d)
    BY <1>1, <1>5 DEF Ordered
  <2> QED BY <1>2, <1>5, <2>1 DEF OneIf, t
<1> QED BY <1>4, <1>5

\* ... and when the first goes to the bus.
LEMMA OrderedRemoved ==
  ASSUME NEW s \in Seq(Orders), s # << >>, NEW d
  PROVE  Cardinality(Ordered(s, d)) = Cardinality(Ordered(Tail(s), d)) + OneIf(StepOf(Head(s)) = d)
<1> DEFINE n == Len(s) - 1
<1> DEFINE t == Tail(s)
<1> DEFINE X == Ordered(s, d) \ {1}
<1> DEFINE Y == Ordered(t, d)
<1>1. /\ n \in Nat /\ DOMAIN s = 1 .. n + 1 /\ DOMAIN t = 1 .. n /\ Head(s) = s[1]
      /\ \A i \in 1 .. n : t[i] = s[i + 1]
  <2>1. /\ t \in Seq(Orders) /\ Len(t) = Len(s) - 1 /\ Head(s) = s[1]
        /\ \A i \in 1 .. Len(t) : t[i] = s[i + 1]
    BY HeadTailProperties
  <2>2. Len(s) \in Nat \ {0} /\ DOMAIN s = 1 .. Len(s) /\ DOMAIN t = 1 .. Len(t)
    BY <2>1, LenProperties, EmptySeq
  <2> QED BY <2>1, <2>2
<1>2. /\ IsFiniteSet(Ordered(s, d)) /\ Cardinality(Ordered(s, d)) \in Nat
      /\ IsFiniteSet(Y) /\ Cardinality(Y) \in Nat
  <2>1. t \in Seq(Orders)
    BY HeadTailProperties
  <2> QED BY <2>1, OrderedFinite
<1>3. Ordered(s, d) \subseteq 1 .. n + 1 /\ Y \subseteq 1 .. n
  BY <1>1 DEF Ordered
<1> DEFINE shift == [i \in Y |-> i + 1]
<1>4. shift \in Bijection(Y, X)
  <2>1. \A i \in Y : i \in 1 .. n /\ i + 1 \in 1 .. n + 1 /\ StepOf(s[i + 1]) = d
    BY <1>1, <1>3 DEF Ordered
  <2>2. \A i \in Y : i + 1 \in X
    BY <1>1, <2>1 DEF Ordered
  <2>3. \A j \in X : j - 1 \in Y /\ j = (j - 1) + 1
    BY <1>1, <1>3 DEF Ordered
  <2> HIDE DEF X, Y
  <2>4. shift \in [Y -> X]
    BY <2>2
  <2>5. \A i, j \in Y : shift[i] = shift[j] => i = j
    BY <2>1
  <2>6. \A j \in X : \E i \in Y : shift[i] = j
    BY <2>3
  <2> HIDE DEF shift
  <2>7. shift \in Injection(Y, X)
    BY <2>4, <2>5 DEF Injection, IsInjective
  <2>8. shift \in Surjection(Y, X)
    BY <2>4, <2>6 DEF Surjection
  <2> QED BY <2>7, <2>8 DEF Bijection
<1> HIDE DEF shift, X, Y, t, n
<1>5. Cardinality(X) = Cardinality(Y)
  BY <1>2, <1>4, FS_Bijection DEF ExistsBijection
<1>6. CASE StepOf(Head(s)) = d
  <2>1. 1 \in Ordered(s, d)
    BY <1>1, <1>6 DEF Ordered
  <2>2. Cardinality(X) = Cardinality(Ordered(s, d)) - 1
    BY <1>2, <2>1, FS_RemoveElement DEF X
  <2> QED BY <1>2, <1>5, <1>6, <2>2 DEF OneIf, Y, t
<1>7. CASE StepOf(Head(s)) # d
  <2>1. 1 \notin Ordered(s, d)
    BY <1>1, <1>7 DEF Ordered
  <2>2. X = Ordered(s, d)
    BY <2>1 DEF X
  <2> QED BY <1>2, <1>5, <1>7, <2>2 DEF OneIf, Y, t
<1> QED BY <1>6, <1>7

\* So are the buffered ones.
LEMMA BufferedCount ==
  ASSUME NEW d
  PROVE  Buffered(d) \in SUBSET (0 .. 2) /\ Cardinality(Buffered(d)) \in Nat
<1>1. Buffered(d) \in SUBSET (0 .. 2)
  BY DEF Buffered, RxBuffers
<1> QED BY <1>1, WaitingCount

\* The orders not yet made are those written, buffered and at hand.
LEMMA TodoSums ==
  ASSUME RestOK
  PROVE  /\ Todo \in [Directions -> Nat]
         /\ \A d \in Directions : /\ Cardinality(Ordered(cmdq, d)) \in Nat
                                  /\ Cardinality(Buffered(d)) \in Nat /\ AtHand(d) \in {0, 1}
                                  /\ Todo[d] = Cardinality(Ordered(cmdq, d))
                                                 + Cardinality(Buffered(d)) + AtHand(d)
<1>1. \A d \in Directions : Cardinality(Ordered(cmdq, d)) \in Nat
  BY OrderedFinite DEF RestOK
<1>2. \A d \in Directions : Cardinality(Buffered(d)) \in Nat
  BY BufferedCount
<1>3. \A d \in Directions : AtHand(d) \in {0, 1}
  BY DEF AtHand
<1>4. Todo = [d \in Directions |-> Cardinality(Ordered(cmdq, d)) + Cardinality(Buffered(d)) + AtHand(d)]
  BY Zenon DEF Todo, Ordered, Buffered, AtHand
<1> QED BY <1>1, <1>2, <1>3, <1>4

SumsInTodo ==
  /\ Todo \in [Directions -> Nat]
  /\ \A d \in Directions : /\ Cardinality(Ordered(cmdq, d)) \in Nat
                           /\ Cardinality(Buffered(d)) \in Nat /\ AtHand(d) \in {0, 1}
                           /\ Todo[d] = Cardinality(Ordered(cmdq, d))
                                          + Cardinality(Buffered(d)) + AtHand(d)

\* The same in one formula, ...
LEMMA TodoSum == RestOK => SumsInTodo
BY TodoSums DEF SumsInTodo

\* ... and after a step.
LEMMA TodoSumNext == RestOK' => SumsInTodo'
BY TodoSum, PTL

\* An order arrives in a buffer, ...
LEMMA BufferedAdded ==
  ASSUME NEW f, NEW m \in RxBuffers, NEW d,
         rxb[m] = None, rxb'[m] # None, rxb'[m].frame = f,
         \A b \in RxBuffers : b # m => rxb'[b] = rxb[b]
  PROVE  Cardinality(Buffered(d)') = Cardinality(Buffered(d)) + OneIf(StepOf(f) = d)
<1>1. Buffered(d) \in SUBSET (0 .. 2) /\ Cardinality(Buffered(d)) \in Nat /\ m \in 0 .. 2
  BY BufferedCount DEF RxBuffers
<1>2. m \notin Buffered(d)
  BY DEF Buffered
<1>3. CASE StepOf(f) = d
  <2>1. Buffered(d)' = Buffered(d) \cup {m}
    BY <1>3 DEF Buffered
  <2>2. Cardinality(Buffered(d)') = Cardinality(Buffered(d)) + 1
    BY <1>1, <1>2, <2>1, PendingCount
  <2> QED BY <1>3, <2>2 DEF OneIf
<1>4. CASE StepOf(f) # d
  <2>1. Buffered(d)' = Buffered(d)
    BY <1>4 DEF Buffered
  <2> QED BY <1>1, <1>4, <2>1 DEF OneIf
<1> QED BY <1>3, <1>4

\* ... or is lost, ...
LEMMA ArrivedOrders ==
  ASSUME NodeInv, NEW f \in Frames, Arrive(f), NEW d
  PROVE  /\ AtHand(d)' = AtHand(d)
         /\ accepted' = accepted => Cardinality(Buffered(d)') = Cardinality(Buffered(d))
         /\ accepted' # accepted
              => Cardinality(Buffered(d)') = Cardinality(Buffered(d)) + OneIf(StepOf(f) = d)
<1>1. AtHand(d)' = AtHand(d)
  BY Arrived DEF AtHand
<1>2. CASE accepted' = accepted
  <2>1. Buffered(d)' = Buffered(d)
    BY <1>2, Arrived DEF Buffered
  <2> QED BY <1>1, <1>2, <2>1
<1>3. CASE accepted' # accepted
  <2> PICK m \in RxBuffers : /\ rxb[m] = None /\ rxb'[m] # None /\ rxb'[m].frame = f
                             /\ \A b \in RxBuffers : b # m => rxb'[b] = rxb[b]
    BY <1>3, Arrived
  <2>1. Cardinality(Buffered(d)') = Cardinality(Buffered(d)) + OneIf(StepOf(f) = d)
    BY BufferedAdded
  <2> QED BY <1>1, <1>3, <2>1
<1> QED BY <1>2, <1>3

\* ... and is read into the firmware's hands.
LEMMA OrdersRead ==
  ASSUME NodeInv, read_canMsg, NEW d
  PROVE  Cardinality(Buffered(d)') + AtHand(d)' = Cardinality(Buffered(d)) + AtHand(d)
<1>1. /\ pc = "read" /\ pc' = "process" /\ msg' = rxb[rx] /\ rx \in RxBuffers /\ rxb[rx] # None
      /\ rxb'[rx] = None /\ \A b \in RxBuffers : b # rx => rxb'[b] = rxb[b]
  BY DEF read_canMsg, AfterRead, NodeInv, RangesOK, PcInv
<1>2. Buffered(d) \in SUBSET (0 .. 2) /\ Cardinality(Buffered(d)) \in Nat /\ AtHand(d) = 0
  BY <1>1, BufferedCount DEF AtHand
<1>3. CASE StepOf(rxb[rx].frame) = d
  <2>1. Buffered(d)' = Buffered(d) \ {rx} /\ rx \in Buffered(d) /\ AtHand(d)' = 1
    BY <1>1, <1>3 DEF Buffered, AtHand
  <2>2. Cardinality(Buffered(d)') = Cardinality(Buffered(d)) - 1
    BY <1>2, <2>1, WaitingCount
  <2> QED BY <1>2, <2>1, <2>2
<1>4. CASE StepOf(rxb[rx].frame) # d
  <2>1. Buffered(d)' = Buffered(d) /\ AtHand(d)' = 0
    BY <1>1, <1>4 DEF Buffered, AtHand
  <2> QED BY <1>2, <2>1
<1> QED BY <1>3, <1>4

-----------------------------------------------------------------------------
(* The steps of the service. *)

\* The service sees nothing, ...
LEMMA Stutters == UNCHANGED <<motor, Todo, open, shown>> => [Service!Next]_Service!vars
BY DEF Service!vars

\* ... a request is forgotten, ...
LEMMA Forgets ==
  ASSUME NEW q \in Queries, open[q] # {}, open' = [open EXCEPT ![q] = {}],
         UNCHANGED <<motor, Todo, shown>>
  PROVE  [Service!Next]_Service!vars
<1>1. Service!Forget(q)
  BY DEF Service!Forget, Service!Close
<1> QED BY <1>1 DEF Service!Next

\* ... or one is asked.
LEMMA Asks ==
  ASSUME SystemInv, queries + 1 \in Queries, Asked(queries + 1), UNCHANGED <<motor, Todo, shown>>
  PROVE  [Service!Next]_Service!vars
<1>1. open[queries + 1] = {}
  BY NextRequest DEF SystemInv, Known, CarryInv
<1>2. Service!Ask(queries + 1)
  BY <1>1 DEF Service!Ask, Asked
<1> QED BY <1>2 DEF Service!Next

\* The orders are where they were.
LEMMA NoOrderMoves ==
  ASSUME UNCHANGED <<cmdq, rxb>>, \A d \in Directions : AtHand(d)' = AtHand(d)
  PROVE  Todo' = Todo
BY Zenon DEF Todo, AtHand

\* They moved, but are as many.
LEMMA TodoKept ==
  ASSUME RestOK, RestOK',
         \A d \in Directions :
           Cardinality(Ordered(cmdq', d)) + Cardinality(Buffered(d)') + AtHand(d)'
           = Cardinality(Ordered(cmdq, d)) + Cardinality(Buffered(d)) + AtHand(d)
  PROVE  Todo' = Todo
<1>1. \A d \in Directions : Todo'[d] = Todo[d]
  BY TodoSum, TodoSumNext DEF SumsInTodo, Ordered
<1> QED BY <1>1, TodoSum, TodoSumNext DEF SumsInTodo

\* The steps of the requesting program: Ask, Show and stutter.
LEMMA ProgramServes ==
  SystemInv /\ SystemInv' /\ Program => [Service!Next]_Service!vars
<1> SUFFICES ASSUME SystemInv, SystemInv', Program PROVE [Service!Next]_Service!vars
  OBVIOUS
<1>1. Todo' = Todo /\ UNCHANGED motor
  <2>1. UNCHANGED <<cmdq, rxb, pc, msg, motor>>
    BY DEF Program, SendRequest, ReceiveFrame, OtherProgramStep, vars, appVars, busVars
  <2> QED BY <2>1, NoOrderMoves DEF AtHand
<1>2. CASE SendRequest
  <2>1. queries + 1 \in Queries
    BY <1>2, SystemAssumption DEF SendRequest, SystemInv, Known, RestOK, Queries, SystemAssumption
  <2> QED BY <1>1, <1>2, <2>1, Asks DEF SendRequest, Req!Send
<1>3. CASE ReceiveFrame
  <2> DEFINE q == Head(rxq).query
  <2>1. CASE Req!IsPosition(Head(rxq))
    <3>1. q \in Queries /\ shown' \in open[q] /\ open' = [open EXCEPT ![q] = {}]
      BY <1>3, <2>1, ShownIsTimely DEF ReceiveFrame, Over
    <3>2. Service!Show(q)
      BY <1>1, <3>1 DEF Service!Show, Service!Close
    <3> QED BY <3>1, <3>2 DEF Service!Next
  <2>2. CASE ~Req!IsPosition(Head(rxq))
    BY <1>1, <1>3, <2>2, Stutters DEF ReceiveFrame, Req!Receive, history
  <2> QED BY <2>1, <2>2
<1>4. CASE OtherProgramStep
  <2>1. UNCHANGED <<open, shown>>
    BY <1>4 DEF OtherProgramStep, history, Req!OpenSocket, Req!StartThread, Req!SetAffinity,
                Req!SendFails, Req!SleepCycle
  <2> QED BY <1>1, <2>1, Stutters
<1> QED BY <1>2, <1>3, <1>4 DEF Program

\* A written step order: Order.
LEMMA OrderServes ==
  ASSUME SystemInv, SystemInv', NEW d \in Directions, OrderStep(d)
  PROVE  [Service!Next]_Service!vars
<1>1. /\ cmdq \in Seq(Orders) /\ cmdq' = Append(cmdq, StepFrame(d)) /\ RestOK /\ RestOK'
      /\ UNCHANGED <<rxb, pc, msg, motor, open, shown>>
  BY DEF OrderStep, SystemInv, Known, RestOK, vars, appVars, busVars, reqVars, history
<1>2. StepFrame(d) \in Orders /\ StepOf(StepFrame(d)) = d
  BY OrderFrames
<1>3. ASSUME NEW e \in Directions PROVE Todo'[e] = Todo[e] + OneIf(e = d)
  <2>1. Cardinality(Ordered(cmdq', e)) = Cardinality(Ordered(cmdq, e)) + OneIf(d = e)
    BY <1>1, <1>2, OrderedAdded
  <2>2. Buffered(e)' = Buffered(e) /\ AtHand(e)' = AtHand(e)
    BY <1>1 DEF Buffered, AtHand
  <2>3. OneIf(d = e) = OneIf(e = d) /\ OneIf(d = e) \in {0, 1}
    BY DEF OneIf
  <2>4. /\ Todo[e] = Cardinality(Ordered(cmdq, e)) + Cardinality(Buffered(e)) + AtHand(e)
        /\ Cardinality(Ordered(cmdq, e)) \in Nat
        /\ Cardinality(Buffered(e)) \in Nat /\ AtHand(e) \in {0, 1}
    BY <1>1, TodoSum DEF SumsInTodo
  <2>5. Todo'[e] = Cardinality(Ordered(cmdq', e)) + Cardinality(Buffered(e)') + AtHand(e)'
    BY <1>1, TodoSumNext DEF SumsInTodo, Ordered
  <2> QED BY <2>1, <2>2, <2>3, <2>4, <2>5
<1>4. Todo' = [Todo EXCEPT ![d] = @ + 1]
  <2>1. Todo \in [Directions -> Nat] /\ Todo' \in [Directions -> Nat]
    BY <1>1, TodoSum, TodoSumNext DEF SumsInTodo
  <2> QED BY <1>3, <2>1 DEF OneIf
<1>5. Service!Order(d) /\ d \in Service!Directions
  BY <1>1, <1>4 DEF Service!Order, Service!Directions, Directions
<1> QED BY <1>5 DEF Service!Next

\* A pulse of the motor: Step.
LEMMA TurnServes ==
  SystemInv /\ SystemInv' /\ MotorTurns => [Service!Next]_Service!vars
<1> SUFFICES ASSUME SystemInv, SystemInv', MotorTurns PROVE [Service!Next]_Service!vars
  OBVIOUS
<1> DEFINE d == StepOf(msg.frame)
<1>1. /\ pc = "process" /\ pc' = "count" /\ d # 0 /\ motor' = (motor + d) % MAX_STEPS
      /\ UNCHANGED <<msg, rxb, cmdq, shown>>
      /\ open' = [q \in Queries |-> IF open[q] = {} THEN {} ELSE open[q] \cup {motor'}]
      /\ RestOK /\ RestOK'
  BY DEF MotorTurns, Pulse, Processing, busVars, reqVars, SystemInv, Known
<1>2. d \in Directions
  <2>1. msg.frame \in Frames
    BY <1>1 DEF SystemInv, Known, NodeInv, RangesOK, PcInv, Stored
  <2> QED BY <1>1, <2>1, StepValues DEF Directions
<1>3. ASSUME NEW e \in Directions PROVE Todo[e] = Todo'[e] + OneIf(e = d)
  <2>1. UNCHANGED <<Ordered(cmdq, e), Buffered(e)>>
    BY <1>1 DEF Ordered, Buffered
  <2>2. AtHand(e)' = 0 /\ AtHand(e) = OneIf(e = d)
    BY <1>1 DEF AtHand, OneIf
  <2> QED BY <1>1, <2>1, <2>2, TodoSum, TodoSumNext DEF SumsInTodo
<1>4. Todo[d] > 0 /\ Todo' = [Todo EXCEPT ![d] = @ - 1]
  <2>1. Todo \in [Directions -> Nat] /\ Todo' \in [Directions -> Nat]
    BY <1>1, TodoSum, TodoSumNext DEF SumsInTodo
  <2> HIDE DEF d
  <2>2. Todo[d] = Todo'[d] + 1 /\ \A e \in Directions : e # d => Todo'[e] = Todo[e]
    BY <1>2, <1>3, <2>1 DEF OneIf
  <2> QED BY <1>2, <2>1, <2>2
<1>5. Service!Step(d) /\ d \in Service!Directions
  <2> HIDE DEF d
  <2> QED BY <1>1, <1>2, <1>4 DEF Service!Step, Service!Directions, Directions
<1> QED BY <1>5 DEF Service!Next

\* The firmware: Step, Forget and stutter.
LEMMA FirmwareServes ==
  SystemInv /\ SystemInv' /\ Firmware => [Service!Next]_Service!vars
<1> SUFFICES ASSUME SystemInv, SystemInv', Firmware PROVE [Service!Next]_Service!vars
  OBVIOUS
<1>1. CASE FindBuffer
  <2>1. UNCHANGED <<cmdq, rxb, motor, shown>> /\ pc = "free" /\ pc' # "process"
    BY <1>1 DEF FindBuffer, SearchTx, AfterSearch, appVars, busVars, reqVars
  <2>2. Todo' = Todo
    BY <2>1, NoOrderMoves DEF AtHand
  <2>3. CASE dropped' = dropped
    BY <1>1, <2>1, <2>2, <2>3, Stutters DEF FindBuffer, history
  <2>4. CASE dropped' # dropped
    <3>1. msg.frame.data \in UnderWay
      BY <2>1 DEF SystemInv, Known, Answering, UnderWay, InWork
    <3>2. msg.frame.data \in Queries /\ open[msg.frame.data] # {}
      BY <3>1 DEF SystemInv, CarryInv, OpenInv
    <3> QED BY <1>1, <2>1, <2>2, <2>4, <3>2, Forgets DEF FindBuffer, Over
  <2> QED BY <2>3, <2>4
<1>2. CASE LoadAnswer
  <2>1. UNCHANGED <<cmdq, rxb, motor, shown, open>> /\ pc = "load" /\ pc' = "sent"
    BY <1>2 DEF LoadAnswer, write_canMsg, appVars, busVars, reqVars
  <2> QED BY <2>1, NoOrderMoves, Stutters DEF AtHand
<1>3. CASE OtherFirmwareStep /\ read_canMsg
  <2>1. UNCHANGED <<cmdq, motor, shown, open>>
    BY <1>3 DEF OtherFirmwareStep, read_canMsg, reqVars, history
  <2>2. ASSUME NEW d \in Directions
        PROVE  Cardinality(Buffered(d)') + AtHand(d)' = Cardinality(Buffered(d)) + AtHand(d)
    BY <1>3, OrdersRead DEF SystemInv, Known
  <2>3. \A d \in Directions :
           Cardinality(Ordered(cmdq', d)) + Cardinality(Buffered(d)') + AtHand(d)'
           = Cardinality(Ordered(cmdq, d)) + Cardinality(Buffered(d)) + AtHand(d)
    <3> SUFFICES ASSUME NEW d \in Directions
                 PROVE  Cardinality(Ordered(cmdq, d)) + Cardinality(Buffered(d)') + AtHand(d)'
                        = Cardinality(Ordered(cmdq, d)) + Cardinality(Buffered(d)) + AtHand(d)
      BY <2>1
    <3>1. /\ Cardinality(Ordered(cmdq, d)) \in Nat
          /\ Cardinality(Buffered(d)) \in Nat /\ AtHand(d) \in {0, 1}
          /\ Cardinality(Buffered(d)') \in Nat /\ AtHand(d)' \in {0, 1}
      BY TodoSum, TodoSumNext DEF SumsInTodo, SystemInv, Known
    <3> QED BY <2>2, <3>1
  <2>4. Todo' = Todo
    BY <2>3, TodoKept DEF SystemInv, Known
  <2> QED BY <2>1, <2>4, Stutters
<1>4. CASE OtherFirmwareStep /\ (Setup \/ Poll \/ ChooseBuffer \/ Count \/ WaitSent)
  <2>1. UNCHANGED <<cmdq, rxb, motor, shown, open>> /\ pc # "process" /\ pc' # "process"
    BY <1>4 DEF OtherFirmwareStep, Setup, Poll, ChooseBuffer, Count, WaitSent, appVars, busVars, reqVars,
                history
  <2> QED BY <2>1, NoOrderMoves, Stutters DEF AtHand
<1>5. CASE OtherFirmwareStep /\ (Ignore \/ Answer)
  <2>1. UNCHANGED <<cmdq, rxb, motor, shown, open>> /\ pc = "process" /\ pc' # "process"
    BY <1>5 DEF OtherFirmwareStep, Ignore, Answer, Processing, appVars, busVars, reqVars, history
  <2>2. StepOf(msg.frame) = 0
    <3>1. CASE Ignore
      BY <3>1 DEF Ignore
    <3>2. CASE Answer
      BY <2>1, <3>2, RequestAtHand, FrameKinds DEF Answer, SystemInv, Known, NodeInv, PcInv
    <3> QED BY <1>5, <3>1, <3>2
  <2>3. \A d \in Directions : AtHand(d)' = AtHand(d)
    BY <2>1, <2>2 DEF AtHand, Directions
  <2> QED BY <2>1, <2>3, NoOrderMoves, Stutters
<1> QED BY <1>1, <1>2, <1>3, <1>4, <1>5, TurnServes DEF Firmware, OtherFirmwareStep

\* A request is no order.
LEMMA RequestArrives ==
  ASSUME SystemInv, SystemInv', NEW f \in Requests, Arrive(f), UNCHANGED cmdq
  PROVE  Todo' = Todo /\ UNCHANGED motor
<1>1. f \in Frames /\ StepOf(f) = 0 /\ UNCHANGED motor
  BY FrameKinds, Arrived DEF SystemInv, Known
<1>2. ASSUME NEW d \in Directions
      PROVE  Cardinality(Buffered(d)') = Cardinality(Buffered(d)) /\ AtHand(d)' = AtHand(d)
  <2>1. /\ AtHand(d)' = AtHand(d)
        /\ accepted' = accepted => Cardinality(Buffered(d)') = Cardinality(Buffered(d))
        /\ accepted' # accepted => Cardinality(Buffered(d)') = Cardinality(Buffered(d)) + OneIf(StepOf(f) = d)
    BY <1>1, ArrivedOrders DEF SystemInv, Known
  <2>2. OneIf(StepOf(f) = d) = 0
    BY <1>1 DEF OneIf, Directions
  <2>3. Cardinality(Buffered(d)) \in Nat
    BY BufferedCount
  <2> QED BY <2>1, <2>2, <2>3
<1> QED BY <1>1, <1>2, TodoKept DEF SystemInv, Known

\* A request reaches the motor, or is lost: stutter or Forget.
LEMMA BusRequestServes ==
  SystemInv /\ SystemInv' /\ BusRequest => [Service!Next]_Service!vars
<1> SUFFICES ASSUME SystemInv, SystemInv', BusRequest PROVE [Service!Next]_Service!vars
  OBVIOUS
<1> DEFINE f == Head(reqq)
<1>1. /\ reqq \in Seq(Requests) /\ reqq # << >> /\ Arrive(f) /\ UNCHANGED <<cmdq, shown>>
      /\ IF accepted' = accepted THEN Over(f.data) ELSE UNCHANGED open
  BY DEF BusRequest, history, SystemInv, Known, RestOK
<1>2. f = reqq[1] /\ f \in Requests /\ 1 \in 1 .. Len(reqq)
  BY <1>1, HeadTailProperties, LenProperties
<1>3. Todo' = Todo /\ UNCHANGED motor
  BY <1>1, <1>2, RequestArrives
<1>4. f.data \in Queries /\ open[f.data] # {}
  <2>1. f.data \in Queries /\ f.data # None
    BY <1>2, FrameKinds, SystemAssumption DEF SystemAssumption
  <2>2. f.data \in UnderWay
    BY <1>2, <2>1 DEF UnderWay, Carried, Requested
  <2> QED BY <2>2 DEF SystemInv, CarryInv, OpenInv
<1> QED BY <1>1, <1>3, <1>4, Stutters, Forgets DEF Over

\* An order reaches the motor, or is lost: stutter or Lose.
LEMMA BusOrderServes ==
  SystemInv /\ SystemInv' /\ BusOrder => [Service!Next]_Service!vars
<1> SUFFICES ASSUME SystemInv, SystemInv', BusOrder PROVE [Service!Next]_Service!vars
  OBVIOUS
<1> DEFINE f == Head(cmdq)
<1> DEFINE d == StepOf(f)
<1>1. /\ cmdq \in Seq(Orders) /\ cmdq # << >> /\ cmdq' = Tail(cmdq) /\ Arrive(f)
      /\ UNCHANGED <<open, shown>> /\ RestOK /\ RestOK' /\ NodeInv
  BY DEF BusOrder, history, Req!Deliver, SystemInv, Known, RestOK
<1>2. f \in Frames /\ d \in Directions /\ UNCHANGED motor
  <2>1. f \in Orders
    BY <1>1, HeadTailProperties
  <2> QED BY <1>1, <2>1, FrameKinds, Arrived
<1>3. ASSUME NEW e \in Directions
      PROVE  /\ accepted' # accepted => Todo'[e] = Todo[e]
             /\ accepted' = accepted => Todo[e] = Todo'[e] + OneIf(d = e)
  <2>1. Cardinality(Ordered(cmdq, e)) = Cardinality(Ordered(cmdq', e)) + OneIf(d = e)
    BY <1>1, OrderedRemoved
  <2>2. /\ AtHand(e)' = AtHand(e)
        /\ accepted' = accepted => Cardinality(Buffered(e)') = Cardinality(Buffered(e))
        /\ accepted' # accepted => Cardinality(Buffered(e)') = Cardinality(Buffered(e)) + OneIf(d = e)
    BY <1>1, <1>2, ArrivedOrders
  <2>3. OneIf(d = e) \in {0, 1}
    BY DEF OneIf
  <2> HIDE DEF f, d
  <2>4. /\ Todo[e] = Cardinality(Ordered(cmdq, e)) + Cardinality(Buffered(e)) + AtHand(e)
        /\ Cardinality(Ordered(cmdq, e)) \in Nat
        /\ Cardinality(Buffered(e)) \in Nat /\ AtHand(e) \in {0, 1}
    BY <1>1, TodoSum DEF SumsInTodo
  <2>5. /\ Todo'[e] = Cardinality(Ordered(cmdq', e)) + Cardinality(Buffered(e)') + AtHand(e)'
        /\ Cardinality(Ordered(cmdq', e)) \in Nat
    BY <1>1, TodoSumNext DEF SumsInTodo, Ordered
  <2> QED BY <2>1, <2>2, <2>3, <2>4, <2>5
<1> HIDE DEF f, d
<1>4. Todo \in [Directions -> Nat] /\ Todo' \in [Directions -> Nat]
  BY <1>1, TodoSum, TodoSumNext DEF SumsInTodo
<1>5. CASE accepted' # accepted
  <2>1. Todo' = Todo
    BY <1>3, <1>4, <1>5
  <2> QED BY <1>1, <1>2, <2>1, Stutters
<1>6. CASE accepted' = accepted
  <2>1. Todo[d] = Todo'[d] + 1 /\ \A e \in Directions : e # d => Todo'[e] = Todo[e]
    BY <1>2, <1>3, <1>4, <1>6 DEF OneIf
  <2>2. Todo[d] > 0 /\ Todo' = [Todo EXCEPT ![d] = @ - 1]
    BY <1>2, <1>4, <2>1
  <2>3. Service!Lose(d) /\ d \in Service!Directions
    BY <1>1, <1>2, <2>2 DEF Service!Lose, Service!Directions, Directions
  <2> QED BY <2>3 DEF Service!Next
<1> QED BY <1>5, <1>6

\* A request by another node: Ask, or stutter when it is lost.
LEMMA BusOtherServes ==
  SystemInv /\ SystemInv' /\ BusOther => [Service!Next]_Service!vars
<1> SUFFICES ASSUME SystemInv, SystemInv', BusOther PROVE [Service!Next]_Service!vars
  OBVIOUS
<1> DEFINE f == Req!Request(queries + 1)
<1>1. /\ queries + 1 \in Queries /\ Arrive(f) /\ UNCHANGED <<cmdq, shown>>
      /\ IF accepted' = accepted THEN UNCHANGED open ELSE Asked(queries + 1)
  BY DEF BusOther, Req!Deliver
<1>2. Todo' = Todo /\ UNCHANGED motor
  BY <1>1, RequestFrames, RequestArrives
<1> QED BY <1>1, <1>2, Stutters, Asks

\* An answer leaves the motor, to the program or to nobody: stutter or Forget.
LEMMA BusAnswerServes ==
  SystemInv /\ SystemInv' /\ BusAnswer => [Service!Next]_Service!vars
<1> SUFFICES ASSUME SystemInv, SystemInv', BusAnswer PROVE [Service!Next]_Service!vars
  OBVIOUS
<1> PICK b \in TxBuffers :
      /\ Transmit /\ txb'[b] # txb[b] /\ Req!Deliver(AnswerFrame(b)) /\ UNCHANGED <<cmdq, orders>>
      /\ (IF Req!Listening THEN UNCHANGED history ELSE Over(askers[b]))
  BY DEF BusAnswer, AnswerFrame
<1>1. UNCHANGED <<cmdq, rxb, pc, msg, motor, shown>>
  BY DEF Transmit, Req!Deliver, appVars, busVars
<1>2. Todo' = Todo
  BY <1>1, NoOrderMoves DEF AtHand
<1>3. askers[b] \in Queries /\ open[askers[b]] # {}
  BY Transmitted DEF SystemInv, Known, CarryInv, TxTimely
<1> QED BY <1>1, <1>2, <1>3, Stutters, Forgets DEF history, Over

-----------------------------------------------------------------------------
\* Every step of the system is one of the service, or a stutter.
LEMMA ServiceStep ==
  SystemInv /\ SystemInv' /\ [SystemNext]_systemVars => [Service!Next]_Service!vars
<1> SUFFICES ASSUME SystemInv, SystemInv', [SystemNext]_systemVars PROVE [Service!Next]_Service!vars
  OBVIOUS
<1>1. CASE Idle \/ UNCHANGED systemVars
  <2>1. UNCHANGED <<cmdq, rxb, pc, msg, motor, open, shown>>
    BY <1>1 DEF Idle, systemVars, vars, appVars, busVars, reqVars, history
  <2> QED BY <2>1, NoOrderMoves, Stutters DEF AtHand
<1> QED BY <1>1, ProgramServes, OrderServes, FirmwareServes, BusRequestServes, BusOrderServes,
           BusOtherServes, BusAnswerServes DEF SystemNext, Bus

\* The system starts as the service does.
LEMMA ServiceStarts == SystemInit => Service!Init
<1> SUFFICES ASSUME SystemInit PROVE Service!Init
  OBVIOUS
<1>1. /\ cmdq = << >> /\ rxb = [b \in RxBuffers |-> None] /\ pc = "setup" /\ motor = 0
      /\ open = [q \in Queries |-> {}] /\ shown = None
  BY DEF SystemInit, Init, Req!Init
<1>2. ASSUME NEW d \in Directions PROVE Todo[d] = 0
  <2>1. Ordered(cmdq, d) = {} /\ Buffered(d) = {} /\ AtHand(d) = 0
    BY <1>1 DEF Ordered, Buffered, AtHand
  <2>2. Cardinality(Ordered(cmdq, d)) = 0 /\ Cardinality(Buffered(d)) = 0
    BY <2>1, FS_EmptySet
  <2>3. RestOK
    BY SystemStarts DEF SystemInv, Known
  <2> QED BY <2>1, <2>2, <2>3, TodoSum DEF SumsInTodo
<1>3. Todo = [d \in Service!Directions |-> 0]
  <2>1. RestOK
    BY SystemStarts DEF SystemInv, Known
  <2>2. Todo \in [Directions -> Nat] /\ Service!Directions = Directions
    BY <2>1, TodoSum DEF SumsInTodo, Service!Directions, Directions
  <2> QED BY <1>2, <2>2
<1> QED BY <1>1, <1>3 DEF Service!Init

\* The whole system keeps the promises of MotorService: no step is made twice
\* or without an order, and a displayed position is one the motor had after
\* the request that it answers, for every number of positions, requests,
\* orders and every time-out.
THEOREM PromisesAreKept == SystemSpec => KeepsPromises
BY ServiceStarts, ServiceStep, SystemKept, PTL DEF SystemSpec, KeepsPromises, Service!Spec
=============================================================================
