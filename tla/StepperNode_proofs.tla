-------------------------- MODULE StepperNode_proofs --------------------------
(***************************************************************************)
(* Proofs about StepperNode for every number of positions, every time-out, *)
(* every set of frames and every number of them.                           *)
(***************************************************************************)
EXTENDS StepperNode, FiniteSetTheorems, TLAPS

\* The least of the buffers that are free is one of them.
LEMMA LeastIsMember ==
  ASSUME NEW S \in SUBSET (0 .. 2), S # {}
  PROVE  Min(S) \in S
<1>1. \E x \in S : \A y \in S : x <= y
  <2>1. CASE 0 \in S
    BY <2>1
  <2>2. CASE 0 \notin S /\ 1 \in S
    BY <2>2
  <2>3. CASE 0 \notin S /\ 1 \notin S
    <3>1. PICK x \in S : TRUE
      OBVIOUS
    <3>2. \A y \in S : y = 2
      BY <2>3
    <3> QED BY <3>1, <3>2
  <2> QED BY <2>1, <2>2, <2>3
<1> QED BY <1>1 DEF Min

LEMMA GreatestIsMember ==
  ASSUME NEW S \in SUBSET (0 .. 2), S # {}
  PROVE  Max(S) \in S
<1>1. \E x \in S : \A y \in S : x >= y
  <2>1. CASE 2 \in S
    BY <2>1
  <2>2. CASE 2 \notin S /\ 1 \in S
    BY <2>2
  <2>3. CASE 2 \notin S /\ 1 \notin S
    <3>1. PICK x \in S : TRUE
      OBVIOUS
    <3>2. \A y \in S : y = 0
      BY <2>3
    <3> QED BY <3>1, <3>2
  <2> QED BY <2>1, <2>2, <2>3
<1> QED BY <1>1 DEF Max

\* Counting a step is addition modulo a turn.
LEMMA CountedIsModulo ==
  ASSUME NEW p \in Positions, NEW d \in {1, -1}
  PROVE  Counted(p, d) = (p + d) % MAX_STEPS /\ Counted(p, d) \in Positions
<1> USE NodeAssumption DEF NodeAssumption, Positions, Counted
<1>1. CASE d = 1 /\ p = MAX_STEPS - 1
  BY <1>1
<1>2. CASE d = 1 /\ p # MAX_STEPS - 1
  BY <1>2
<1>3. CASE d = -1 /\ p = 0
  <2>1. (-1) % MAX_STEPS = MAX_STEPS - 1
    OBVIOUS
  <2> QED BY <1>3, <2>1
<1>4. CASE d = -1 /\ p # 0
  BY <1>4
<1> QED BY <1>1, <1>2, <1>3, <1>4

LEMMA StepValues ==
  ASSUME NEW f \in Frames
  PROVE  StepOf(f) \in {0, 1, -1}
  BY DEF StepOf

-----------------------------------------------------------------------------
\* What holds at each place of the program.
PcInv ==
  /\ pc = "status" => \E b \in RxBuffers : rxb[b] # None
  /\ pc = "read" => rxb[rx] # None
  /\ pc \in {"process", "count"} => msg # None
  /\ pc = "count" => StepOf(msg.frame) # 0
  /\ pc \in {"free", "sent"} => uiTimeOut < TIMEOUTVALUE
  /\ pc = "load" => txb[txbuf_n] = None

\* The type invariant without its truth value, which other provers handle.
RangesOK ==
  /\ pc \in {"setup", "halted", "poll", "status", "read", "process", "count", "free", "load", "sent"}
  /\ rxb \in [RxBuffers -> Stored \cup {None}]
  /\ txb \in [TxBuffers -> Positions \cup {None}]
  /\ rx \in RxBuffers /\ msg \in Stored \cup {None}
  /\ stepper_position \in Positions /\ motor \in Positions
  /\ uiTimeOut \in 0 .. TIMEOUTVALUE /\ txbuf_n \in TxBuffers
  /\ result \in {"none", "CAN_OK", "CAN_GETTXBFTIMEOUT", "CAN_SENDMSGTIMEOUT"}
  /\ arrived \in 0 .. MaxFrames /\ accepted \subseteq 1 .. arrived
  /\ handled \in [Numbers -> Nat]
  /\ asked \in Nat /\ sent \in Nat /\ dropped \in Nat
NodeInv == RangesOK /\ PcInv

LEMMA InitNode == Init => NodeInv
  BY NodeAssumption DEF Init, NodeInv, RangesOK, PcInv, NodeAssumption, Positions, RxBuffers, TxBuffers

LEMMA FreeTxMember == FreeTx # {} => Min(FreeTx) \in TxBuffers /\ txb[Min(FreeTx)] = None
<1>1. FreeTx \in SUBSET (0 .. 2)
  BY DEF FreeTx, TxBuffers
<1>2. FreeTx # {} => Min(FreeTx) \in FreeTx
  BY <1>1, LeastIsMember
<1> QED BY <1>2 DEF FreeTx

BusyOK == busy \in BOOLEAN

LEMMA BusyStep == BusyOK /\ [Next]_vars => BusyOK'
<1> SUFFICES ASSUME BusyOK, [Next]_vars PROVE BusyOK'
  OBVIOUS
<1> USE DEF BusyOK
<1>1. CASE UNCHANGED busy
  BY <1>1
<1>2. CASE SearchTx
  BY <1>2, Zenon DEF Polled, SearchTx
<1>3. CASE WaitSent
  BY <1>3, Zenon DEF Polled, WaitSent
<1>4. CASE Setup \/ Poll \/ ChooseBuffer \/ read_canMsg \/ Ignore \/ Pulse
  BY <1>1, <1>4 DEF Setup, Poll, ChooseBuffer, read_canMsg, Ignore, Pulse, sendVars
<1>5. CASE Count \/ Answer \/ write_canMsg \/ Transmit \/ NoMessage \/ Halted
  BY <1>1, <1>5 DEF Count, Answer, write_canMsg, Transmit, NoMessage, Halted, sendVars, vars
<1>6. CASE \E f \in Frames : Arrive(f)
  BY <1>1, <1>6 DEF Arrive, sendVars
<1>7. CASE UNCHANGED vars
  BY <1>1, <1>7 DEF vars, sendVars
<1> QED BY <1>2, <1>3, <1>4, <1>5, <1>6, <1>7 DEF Next, App

\* The receive path: what reading, choosing and stepping do.
LEMMA ReceiveNode ==
  NodeInv /\ (Setup \/ Poll \/ ChooseBuffer \/ read_canMsg \/ Ignore \/ Pulse \/ Count) => NodeInv'
<1> SUFFICES ASSUME NodeInv, Setup \/ Poll \/ ChooseBuffer \/ read_canMsg \/ Ignore \/ Pulse \/ Count
             PROVE  NodeInv'
  OBVIOUS
<1> USE DEF NodeInv, RangesOK, PcInv, appVars, sendVars, busVars, answers
<1>1. CASE Setup \/ Poll
  BY <1>1 DEF Setup, Poll
<1>2. CASE ChooseBuffer
  BY <1>2 DEF ChooseBuffer, RxBuffers
<1>3. CASE read_canMsg
  BY <1>3 DEF read_canMsg, AfterRead
<1>4. CASE Ignore
  BY <1>4 DEF Ignore, Processing, Stored
<1>5. CASE Pulse
  <2>1. msg \in Stored /\ msg.frame \in Frames /\ msg.n \in Numbers
    BY <1>5 DEF Pulse, Processing, Stored
  <2>2. StepOf(msg.frame) \in {1, -1}
    BY <1>5, <2>1, StepValues DEF Pulse
  <2>3. motor' \in Positions
    BY <1>5, <2>2, NodeAssumption DEF Pulse, Positions, NodeAssumption
  <2>4. handled' \in [Numbers -> Nat]
    BY <1>5, <2>1 DEF Pulse, Processing
  <2> QED BY <1>5, <2>1, <2>3, <2>4 DEF Pulse, Processing
<1>6. CASE Count
  <2>1. msg.frame \in Frames
    BY <1>6 DEF Count, Stored
  <2>2. StepOf(msg.frame) \in {1, -1}
    BY <1>6, <2>1, StepValues DEF Count
  <2>3. stepper_position' \in Positions
    BY <1>6, <2>2, CountedIsModulo DEF Count
  <2> QED BY <1>6, <2>3 DEF Count
<1> QED BY <1>1, <1>2, <1>3, <1>4, <1>5, <1>6

\* The send path.
LEMMA SendNode ==
  NodeInv /\ (Answer \/ SearchTx \/ write_canMsg \/ WaitSent) => NodeInv'
<1> SUFFICES ASSUME NodeInv, Answer \/ SearchTx \/ write_canMsg \/ WaitSent
             PROVE  NodeInv'
  OBVIOUS
<1> USE NodeAssumption DEF NodeInv, RangesOK, PcInv, appVars, sendVars, busVars, answers
<1>1. CASE Answer
  <2>1. msg \in Stored /\ msg.n \in Numbers
    BY <1>1 DEF Answer, Processing, Stored
  <2> QED BY <1>1, <2>1 DEF Answer, Processing, NodeAssumption
<1>2. CASE SearchTx
  <2>1. uiTimeOut' \in 0 .. TIMEOUTVALUE
    BY <1>2 DEF Polled, SearchTx, NodeAssumption
  <2>2. txbuf_n' \in TxBuffers
    BY <1>2, FreeTxMember DEF Polled, SearchTx
  <2>3. pc' \in {"free", "load", "poll"}
    BY <1>2 DEF Polled, SearchTx, AfterSearch
  <2>4. pc' = "free" => uiTimeOut' < TIMEOUTVALUE
    BY <1>2, <2>1 DEF Polled, SearchTx, AfterSearch
  <2>5. pc' = "load" => txb'[txbuf_n'] = None
    <3>1. pc' = "load" => FreeTx # {}
      BY <1>2, <2>1 DEF Polled, SearchTx, AfterSearch, NodeAssumption
    <3> QED BY <1>2, <3>1, FreeTxMember DEF Polled, SearchTx
  <2>6. result' \in {"none", "CAN_OK", "CAN_GETTXBFTIMEOUT", "CAN_SENDMSGTIMEOUT"} /\ dropped' \in Nat
    BY <1>2 DEF Polled, SearchTx
  <2> QED BY <1>2, <2>1, <2>2, <2>3, <2>4, <2>5, <2>6 DEF Polled, SearchTx
<1>3. CASE write_canMsg
  BY <1>3 DEF write_canMsg, NodeAssumption
<1>4. CASE WaitSent
  <2>1. uiTimeOut' \in 0 .. TIMEOUTVALUE
    BY <1>4 DEF Polled, WaitSent, NodeAssumption
  <2>2. result' \in {"none", "CAN_OK", "CAN_SENDMSGTIMEOUT"}
    BY <1>4 DEF Polled, WaitSent, SentResult
  <2>3. pc' \in {"sent", "poll"}
    BY <1>4 DEF Polled, WaitSent
  <2>4. pc' = "sent" => uiTimeOut' < TIMEOUTVALUE
    BY <1>4, <2>1 DEF Polled, WaitSent, SentResult
  <2> QED BY <1>4, <2>1, <2>2, <2>3, <2>4 DEF Polled, WaitSent
<1> QED BY <1>1, <1>2, <1>3, <1>4

\* The controller.
LEMMA BusNode ==
  NodeInv /\ ((\E f \in Frames : Arrive(f)) \/ Transmit) => NodeInv'
<1> SUFFICES ASSUME NodeInv, (\E f \in Frames : Arrive(f)) \/ Transmit PROVE NodeInv'
  OBVIOUS
<1> USE NodeAssumption DEF NodeInv, RangesOK, PcInv, appVars, sendVars, busVars, answers
<1>1. CASE \E f \in Frames : Arrive(f)
  <2> PICK f \in Frames : Arrive(f)
    BY <1>1
  <2> DEFINE new == [n |-> arrived + 1, frame |-> f]
  <2> DEFINE free == {b \in RxBuffers : rxb[b] = None}
  <2>1. arrived' = arrived + 1 /\ arrived' \in 0 .. MaxFrames /\ arrived + 1 \in Numbers
    BY DEF Arrive, NodeAssumption, Numbers
  <2>2. new \in Stored /\ new # None
    BY <2>1 DEF Stored, NodeAssumption, Numbers
  <2>3. CASE free = {}
    <3>1. UNCHANGED <<rxb, accepted>>
      BY <2>3 DEF Arrive
    <3>2. accepted' \subseteq 1 .. arrived'
      BY <2>1, <3>1 DEF NodeAssumption
    <3> HIDE DEF new, free
    <3>3. UNCHANGED <<pc, rx, msg, stepper_position, motor, uiTimeOut, txbuf_n, busy, result, txb,
                      handled, asked, sent, dropped>>
      BY DEF Arrive
    <3> QED BY <2>1, <3>1, <3>2, <3>3
  <2>4. CASE free # {}
    <3>1. free \in SUBSET (0 .. 2)
      BY DEF RxBuffers
    <3>2. Min(free) \in free
      BY <3>1, <2>4, LeastIsMember
    <3>3. rxb' = [rxb EXCEPT ![Min(free)] = new] /\ accepted' = accepted \cup {arrived + 1}
      BY <2>4 DEF Arrive
    <3>4. rxb' \in [RxBuffers -> Stored \cup {None}] /\ rxb[Min(free)] = None
          /\ \A b \in RxBuffers : rxb[b] # None => rxb'[b] # None
      BY <3>2, <3>3, <2>2
    <3>5. accepted' \subseteq 1 .. arrived'
      BY <3>3, <2>1 DEF NodeAssumption
    <3> HIDE DEF new, free
    <3>6. UNCHANGED <<pc, rx, msg, stepper_position, motor, uiTimeOut, txbuf_n, busy, result, txb,
                      handled, asked, sent, dropped>>
      BY DEF Arrive
    <3> QED BY <2>1, <3>4, <3>5, <3>6
  <2> QED BY <2>3, <2>4
<1>2. CASE Transmit
  <2> DEFINE pending == {b \in TxBuffers : txb[b] # None}
  <2>1. pending # {} /\ txb' = [txb EXCEPT ![Max(pending)] = None] /\ sent' = sent + 1
        /\ UNCHANGED <<pc, appVars, sendVars, busVars, handled, asked, dropped>>
    BY <1>2 DEF Transmit
  <2> HIDE DEF pending
  <2>2. \A b \in TxBuffers : txb'[b] \in {txb[b], None}
    BY <2>1
  <2>3. txb' \in [TxBuffers -> Positions \cup {None}]
    BY <2>1
  <2> QED BY <2>1, <2>2, <2>3
<1> QED BY <1>1, <1>2

LEMMA NodeStep == NodeInv /\ [Next]_vars => NodeInv'
<1> SUFFICES ASSUME NodeInv, [Next]_vars PROVE NodeInv'
  OBVIOUS
<1>1. CASE UNCHANGED vars
  BY <1>1 DEF NodeInv, RangesOK, PcInv, vars, appVars, sendVars, busVars, answers
<1> QED BY <1>1, ReceiveNode, SendNode, BusNode DEF Next, App, NoMessage, Halted

\* All buffers, positions and counters stay in range.
THEOREM TypeCorrect == Spec => []TypeOK
<1>1. Init => BusyOK
  BY DEF Init, BusyOK
<1>2. NodeInv /\ BusyOK => TypeOK
  BY Zenon DEF NodeInv, BusyOK, RangesOK, TypeOK
<1> QED BY <1>1, <1>2, InitNode, NodeStep, BusyStep, PTL DEF Spec

-----------------------------------------------------------------------------
\* During the count the motor is one step ahead.
MotorInv ==
  /\ PositionTracksMotor
  /\ pc = "count" => motor = (stepper_position + StepOf(msg.frame)) % MAX_STEPS

LEMMA MotorStep == NodeInv /\ MotorInv /\ [Next]_vars => MotorInv'
<1> SUFFICES ASSUME NodeInv, MotorInv, [Next]_vars PROVE MotorInv'
  OBVIOUS
<1> USE DEF MotorInv, PositionTracksMotor
<1>1. CASE UNCHANGED <<stepper_position, motor>> /\ pc # "count" /\ pc' # "count"
  BY <1>1
<1>2. CASE Setup \/ Poll \/ ChooseBuffer \/ read_canMsg \/ Ignore \/ Answer
  BY <1>1, <1>2 DEF Setup, Poll, ChooseBuffer, read_canMsg, Ignore, Answer, Processing, appVars
<1>3. CASE SearchTx \/ write_canMsg \/ WaitSent
  BY <1>1, <1>3 DEF Polled, SearchTx, AfterSearch, write_canMsg, WaitSent, appVars
<1>4. CASE Pulse
  BY <1>4 DEF Pulse, Processing
<1>5. CASE Count
  <2>1. msg.frame \in Frames /\ stepper_position \in Positions
    BY <1>5 DEF Count, NodeInv, RangesOK, PcInv, Stored
  <2>2. StepOf(msg.frame) \in {1, -1}
    BY <1>5, <2>1, StepValues DEF Count, NodeInv, PcInv
  <2>3. stepper_position' = motor
    BY <1>5, <2>1, <2>2, CountedIsModulo DEF Count
  <2> QED BY <1>5, <2>3 DEF Count
<1>6. CASE (\E f \in Frames : Arrive(f)) \/ Transmit \/ NoMessage \/ Halted \/ UNCHANGED vars
  BY <1>6 DEF Arrive, Transmit, NoMessage, Halted, vars, appVars
<1> QED BY <1>2, <1>3, <1>4, <1>5, <1>6 DEF Next, App

\* However often the motor turns past the end of a turn, in either direction,
\* the counted position is its angle.
THEOREM PositionIsMotor == Spec => []PositionTracksMotor
<1>1. Init => MotorInv
  BY DEF Init, MotorInv, PositionTracksMotor
<1>2. MotorInv => PositionTracksMotor
  BY DEF MotorInv
<1> QED BY <1>1, <1>2, InitNode, NodeStep, MotorStep, PTL DEF Spec

-----------------------------------------------------------------------------
Pending == {b \in TxBuffers : txb[b] # None}
InPreparation == IF pc \in {"free", "load"} THEN 1 ELSE 0
AnswersInv == asked = sent + dropped + Cardinality(Pending) + InPreparation

\* The buffers pending are finitely many, and count like it.
LEMMA PendingCount ==
  ASSUME NEW S \in SUBSET (0 .. 2), NEW b \in 0 .. 2
  PROVE  /\ Cardinality(S) \in Nat
         /\ b \notin S => Cardinality(S \cup {b}) = Cardinality(S) + 1
         /\ b \in S => Cardinality(S \ {b}) = Cardinality(S) - 1
<1>1. IsFiniteSet(0 .. 2)
  <2>1. \A x, y \in Int : IsFiniteSet(x .. y)
    BY FS_Interval
  <2>2. 0 \in Int /\ 2 \in Int
    OBVIOUS
  <2> QED BY <2>1, <2>2, Zenon
<1>2. IsFiniteSet(S)
  BY <1>1, FS_Subset
<1>3. Cardinality(S) \in Nat
  BY <1>2, FS_CardinalityType
<1>4. b \notin S => Cardinality(S \cup {b}) = Cardinality(S) + 1
  BY <1>2, FS_AddElement
<1>5. b \in S => Cardinality(S \ {b}) = Cardinality(S) - 1
  BY <1>2, FS_RemoveElement
<1> QED BY <1>3, <1>4, <1>5

LEMMA AnswersStep == NodeInv /\ AnswersInv /\ [Next]_vars => AnswersInv'
<1> SUFFICES ASSUME NodeInv, AnswersInv, [Next]_vars PROVE AnswersInv'
  OBVIOUS
<1> DEFINE k == Cardinality(Pending)
<1>0. /\ Pending \in SUBSET (0 .. 2)
      /\ k \in Nat /\ asked \in Nat /\ sent \in Nat /\ dropped \in Nat
  <2>1. Pending \in SUBSET (0 .. 2)
    BY DEF Pending, TxBuffers
  <2>2. \A S \in SUBSET (0 .. 2) : \A b \in 0 .. 2 : Cardinality(S) \in Nat
    BY PendingCount
  <2>3. k \in Nat
    BY <2>1, <2>2
  <2> QED BY <2>1, <2>3 DEF NodeInv, RangesOK
<1>1. ASSUME UNCHANGED <<txb, answers>>, InPreparation' = InPreparation
      PROVE  AnswersInv'
  BY <1>1 DEF AnswersInv, Pending, answers
<1>2. CASE Setup \/ Poll \/ ChooseBuffer \/ read_canMsg \/ Ignore \/ Pulse \/ Count \/ WaitSent
  <2>1. UNCHANGED <<txb, answers>>
    BY <1>2 DEF Setup, Poll, ChooseBuffer, read_canMsg, Ignore, Pulse, Count, WaitSent
  <2>2. pc \notin {"free", "load"} /\ pc' \notin {"free", "load"}
    BY <1>2 DEF Setup, Poll, ChooseBuffer, read_canMsg, Ignore, Pulse, Count, WaitSent, Processing
  <2> QED BY <1>1, <2>1, <2>2 DEF InPreparation
<1>3. CASE Answer
  <2>1. Pending' = Pending /\ sent' = sent /\ dropped' = dropped /\ asked' = asked + 1
    BY <1>3 DEF Answer, Pending
  <2>2. InPreparation = 0 /\ InPreparation' = 1
    BY <1>3 DEF Answer, Processing, InPreparation
  <2> HIDE DEF k
  <2>3. asked = sent + dropped + k + 0 /\ Cardinality(Pending') = k
    BY <2>1, <2>2 DEF AnswersInv, k
  <2> QED BY <1>0, <2>1, <2>2, <2>3 DEF AnswersInv
<1>4. CASE SearchTx
  <2>1. Pending' = Pending /\ sent' = sent /\ asked' = asked
    BY <1>4 DEF Polled, SearchTx, Pending
  <2>2. InPreparation = 1
    BY <1>4 DEF Polled, SearchTx, InPreparation
  <2>3. \/ dropped' = dropped + 1 /\ InPreparation' = 0
        \/ dropped' = dropped /\ InPreparation' = 1
    BY <1>4 DEF Polled, SearchTx, AfterSearch, InPreparation
  <2> HIDE DEF k
  <2>4. asked = sent + dropped + k + 1 /\ Cardinality(Pending') = k
    BY <2>1, <2>2 DEF AnswersInv, k
  <2>5. asked = sent + dropped' + k + InPreparation'
    BY <1>0, <2>2, <2>3, <2>4
  <2> QED BY <2>1, <2>4, <2>5 DEF AnswersInv
<1>5. CASE write_canMsg
  <2>1. sent' = sent /\ asked' = asked /\ dropped' = dropped
        /\ InPreparation = 1 /\ InPreparation' = 0
    BY <1>5 DEF write_canMsg, answers, InPreparation
  <2>2. txbuf_n \in 0 .. 2 /\ txb[txbuf_n] = None /\ stepper_position # None
    BY <1>5, NodeAssumption
       DEF write_canMsg, NodeInv, RangesOK, PcInv, TxBuffers, Positions, NodeAssumption
  <2>3. Pending' = Pending \cup {txbuf_n} /\ txbuf_n \notin Pending
    BY <1>5, <2>2 DEF write_canMsg, Pending, NodeInv, RangesOK, TxBuffers
  <2>4. Cardinality(Pending') = k + 1
    BY <1>0, <2>2, <2>3, PendingCount
  <2> HIDE DEF k
  <2>5. asked = sent + dropped + k + 1
    BY <2>1 DEF AnswersInv, k
  <2> QED BY <1>0, <2>1, <2>4, <2>5 DEF AnswersInv
<1>6. CASE Transmit
  <2>1. Pending # {} /\ txb' = [txb EXCEPT ![Max(Pending)] = None] /\ sent' = sent + 1
        /\ asked' = asked /\ dropped' = dropped /\ pc' = pc
    BY <1>6 DEF Transmit, Pending
  <2>2. Max(Pending) \in Pending /\ Max(Pending) \in 0 .. 2
    BY <1>0, <2>1, GreatestIsMember
  <2>3. Pending' = Pending \ {Max(Pending)}
    BY <2>1, <2>2 DEF Pending, NodeInv, RangesOK, TxBuffers
  <2>4. Cardinality(Pending') = k - 1
    BY <1>0, <2>2, <2>3, PendingCount
  <2>5. InPreparation' = InPreparation /\ InPreparation \in Nat
    BY <2>1 DEF InPreparation
  <2> HIDE DEF k
  <2>6. asked = sent + dropped + k + InPreparation
    BY DEF AnswersInv, k
  <2> QED BY <1>0, <2>1, <2>4, <2>5, <2>6 DEF AnswersInv
<1>7. CASE (\E f \in Frames : Arrive(f)) \/ NoMessage \/ Halted \/ UNCHANGED vars
  BY <1>1, <1>7 DEF Arrive, NoMessage, Halted, vars, InPreparation
<1> QED BY <1>2, <1>3, <1>4, <1>5, <1>6, <1>7 DEF Next, App

\* No pending answer is ever overwritten, whichever buffers are free.
THEOREM NoAnswerOverwritten == Spec => []AnswersAccountedFor
<1>1. Init => AnswersInv
  <2> SUFFICES ASSUME Init PROVE AnswersInv
    OBVIOUS
  <2>1. Pending = {}
    BY DEF Init, Pending
  <2>2. Cardinality(Pending) = 0
    BY <2>1, FS_EmptySet
  <2> QED BY <2>2 DEF Init, AnswersInv, InPreparation
<1>2. AnswersInv => AnswersAccountedFor
  BY Zenon DEF AnswersInv, AnswersAccountedFor, Pending, InPreparation
<1> QED BY <1>1, <1>2, InitNode, NodeStep, AnswersStep, PTL DEF Spec

-----------------------------------------------------------------------------
\* From the return of sendMsg to its next call the buffer stays empty.
OkInv ==
  /\ pc = "setup" => result = "none"
  /\ pc \in {"poll", "status", "read", "process", "count"} /\ result = "CAN_OK"
       => txb[txbuf_n] = None

LEMMA OkStep == NodeInv /\ OkInv /\ [Next]_vars => OkInv'
<1> SUFFICES ASSUME NodeInv, OkInv, [Next]_vars PROVE OkInv'
  OBVIOUS
<1> USE DEF OkInv
<1>1. CASE Setup \/ Poll \/ ChooseBuffer \/ read_canMsg \/ Ignore \/ Pulse \/ Count
  BY <1>1 DEF Setup, Poll, ChooseBuffer, read_canMsg, Ignore, Pulse, Count, Processing, sendVars
<1>2. CASE Answer \/ write_canMsg
  BY <1>2 DEF Answer, write_canMsg
<1>3. CASE SearchTx
  BY <1>3 DEF Polled, SearchTx, AfterSearch
<1>4. CASE WaitSent
  <2>1. pc' # "setup"
    BY <1>4 DEF Polled, WaitSent
  <2>2. result' = "CAN_OK" => ~busy'
    <3>1. uiTimeOut' # TIMEOUTVALUE => uiTimeOut' < TIMEOUTVALUE
      BY <1>4, NodeAssumption DEF Polled, WaitSent, NodeInv, RangesOK, PcInv, NodeAssumption
    <3>2. result' = SentResult(uiTimeOut')
      BY <1>4 DEF Polled, WaitSent
    <3> QED BY <3>1, <3>2, Zenon DEF SentResult
  <2>3. ~busy' => txb'[txbuf_n'] = None
    BY <1>4 DEF Polled, WaitSent
  <2> QED BY <2>1, <2>2, <2>3
<1>5. CASE Transmit
  <2>1. txb[txbuf_n] = None => txb'[txbuf_n] = None
    BY <1>5 DEF Transmit, NodeInv, RangesOK
  <2> QED BY <1>5, <2>1 DEF Transmit, sendVars
<1>6. CASE (\E f \in Frames : Arrive(f)) \/ NoMessage \/ Halted \/ UNCHANGED vars
  BY <1>6 DEF Arrive, NoMessage, Halted, vars, sendVars
<1> QED BY <1>1, <1>2, <1>3, <1>4, <1>5, <1>6 DEF Next, App

\* Whenever sendMsg reports CAN_OK, the controller has sent the answer.
THEOREM OkIsSent == Spec => []OkMeansSent
<1>1. Init => OkInv
  BY DEF Init, OkInv
<1>2. OkInv => OkMeansSent
  BY DEF OkInv, OkMeansSent
<1> QED BY <1>1, <1>2, InitNode, NodeStep, OkStep, PTL DEF Spec

-----------------------------------------------------------------------------
\* Where frame n is.
Waiting(n) == {b \in RxBuffers : rxb[b] # None /\ rxb[b].n = n}
InHand(n) == IF pc = "process" /\ msg.n = n THEN 1 ELSE 0
PlaceInv ==
  /\ \A b \in RxBuffers : rxb[b] # None => rxb[b].n \in accepted
  /\ pc = "process" => msg.n \in accepted
  /\ \A n \in Numbers : n > arrived => handled[n] = 0
  /\ \A n \in accepted : Cardinality(Waiting(n)) + InHand(n) + handled[n] = 1

LEMMA WaitingCount ==
  /\ \A S \in SUBSET (0 .. 2) : \A b \in S : Cardinality(S \ {b}) = Cardinality(S) - 1
  /\ \A S \in SUBSET (0 .. 2) : Cardinality(S) \in Nat
  /\ \A b \in 0 .. 2 : Cardinality({b}) = 1
<1>1. \A S \in SUBSET (0 .. 2) : \A b \in S : Cardinality(S \ {b}) = Cardinality(S) - 1
  BY PendingCount
<1>2. \A S \in SUBSET (0 .. 2) : \A b \in 0 .. 2 : Cardinality(S) \in Nat
  BY PendingCount
<1>3. \A S \in SUBSET (0 .. 2) : Cardinality(S) \in Nat
  BY <1>2
<1>4. \A b \in 0 .. 2 : Cardinality({b}) = 1
  BY FS_Singleton
<1> QED BY <1>1, <1>3, <1>4

LEMMA PlaceArrive ==
  ASSUME NodeInv, PlaceInv, NEW f \in Frames, Arrive(f)
  PROVE  PlaceInv'
<1>0. arrived + 1 \in Numbers
  BY NodeAssumption DEF Arrive, NodeInv, RangesOK, Numbers, NodeAssumption
<1> PICK a \in Numbers : a = arrived + 1
  BY <1>0
<1> DEFINE new == [n |-> a, frame |-> f]
<1> DEFINE free == {b \in RxBuffers : rxb[b] = None}
<1>1. /\ arrived \in Nat /\ arrived' = a /\ a \notin accepted
      /\ accepted \subseteq Numbers
  BY NodeAssumption DEF Arrive, NodeInv, RangesOK, Numbers, NodeAssumption
<1>2. UNCHANGED <<pc, msg, handled>>
  BY DEF Arrive, appVars
<1>3. \A n \in Numbers : InHand(n)' = InHand(n)
  BY <1>2 DEF InHand
<1>4. \A n \in Numbers : n > arrived' => handled'[n] = 0
  BY <1>1, <1>2 DEF PlaceInv, Numbers
<1>5. CASE free = {}
  <2>1. UNCHANGED <<rxb, accepted>>
    BY <1>5 DEF Arrive
  <2>2. \A n \in Numbers : Waiting(n)' = Waiting(n)
    BY <2>1 DEF Waiting
  <2> QED BY <1>1, <1>2, <1>3, <1>4, <2>1, <2>2 DEF PlaceInv
<1>6. CASE free # {}
  <2>1. free \in SUBSET (0 .. 2)
    BY DEF RxBuffers
  <2> PICK m \in RxBuffers : m = Min(free) /\ rxb[m] = None
    BY <2>1, <1>6, LeastIsMember
  <2>2. m \in 0 .. 2
    BY DEF RxBuffers
  <2>3. rxb' = [rxb EXCEPT ![m] = new] /\ accepted' = accepted \cup {a}
    BY <1>6 DEF Arrive
  <2>4. new # None /\ new.n = a
    BY <1>1, NodeAssumption DEF NodeAssumption, Numbers
  <2>5. rxb'[m] = new /\ \A b \in RxBuffers : b # m => rxb'[b] = rxb[b]
    BY <2>3 DEF NodeInv, RangesOK
  <2> HIDE DEF new, free
  <2>6. \A b \in RxBuffers : rxb'[b] # None => rxb'[b].n \in accepted'
    BY <2>3, <2>4, <2>5 DEF PlaceInv
  <2>7. ASSUME NEW n \in accepted PROVE Waiting(n)' = Waiting(n)
    BY <2>4, <2>5, <1>1 DEF Waiting
  <2>8. Waiting(a)' = {m}
    BY <2>4, <2>5, <1>1 DEF Waiting, PlaceInv
  <2>9. Cardinality(Waiting(a)') = 1
    BY <2>2, <2>8, WaitingCount
  <2>10. InHand(a) = 0 /\ handled[a] = 0
    BY <1>1 DEF InHand, PlaceInv, Numbers
  <2>11. ASSUME NEW n \in accepted'
         PROVE  Cardinality(Waiting(n)') + InHand(n)' + handled'[n] = 1
    <3>1. CASE n = a
      <4>1. InHand(a)' = 0 /\ handled'[a] = 0
        BY <1>1, <1>2, <1>3, <2>10
      <4> QED BY <3>1, <2>9, <4>1
    <3>2. CASE n \in accepted
      BY <3>2, <1>1, <1>2, <1>3, <2>7 DEF PlaceInv
    <3> QED BY <2>3, <3>1, <3>2
  <2> QED BY <1>2, <1>4, <2>3, <2>6, <2>11 DEF PlaceInv
<1> QED BY <1>5, <1>6

LEMMA PlaceRead == NodeInv /\ PlaceInv /\ read_canMsg => PlaceInv'
<1> SUFFICES ASSUME NodeInv, PlaceInv, read_canMsg PROVE PlaceInv'
  OBVIOUS
<1>1. rx \in RxBuffers /\ rxb[rx] # None /\ pc = "read" /\ accepted \subseteq Numbers
  BY NodeAssumption DEF read_canMsg, NodeInv, RangesOK, PcInv, Numbers, NodeAssumption
<1>2. rxb[rx].n \in accepted
  BY <1>1 DEF PlaceInv
<1> PICK k \in accepted : k = rxb[rx].n
  BY <1>2
<1> PICK r \in RxBuffers : r = rx
  BY <1>1
<1>3. UNCHANGED <<handled, accepted, arrived>> /\ pc' = "process" /\ msg' = rxb[rx]
  BY DEF read_canMsg
<1>4. rxb'[r] = None /\ \A b \in RxBuffers : b # r => rxb'[b] = rxb[b]
  BY <1>1 DEF read_canMsg, AfterRead, NodeInv, RangesOK
<1>5. \A n \in Numbers : InHand(n) = 0 /\ InHand(n)' = (IF n = k THEN 1 ELSE 0)
  BY <1>1, <1>3 DEF InHand
<1>6. \A n \in Numbers : n # k => Waiting(n)' = Waiting(n)
  BY <1>1, <1>4 DEF Waiting
<1>7. Waiting(k)' = Waiting(k) \ {r} /\ r \in Waiting(k)
  BY <1>1, <1>4 DEF Waiting
<1>8. Waiting(k) \in SUBSET (0 .. 2)
  BY DEF Waiting, RxBuffers
<1>9. Cardinality(Waiting(k)') = Cardinality(Waiting(k)) - 1 /\ Cardinality(Waiting(k)) \in Nat
  BY <1>7, <1>8, WaitingCount
<1>10. ASSUME NEW n \in accepted
       PROVE  Cardinality(Waiting(n)') + InHand(n)' + handled'[n] = 1
  <2>1. n \in Numbers /\ Cardinality(Waiting(n)) + InHand(n) + handled[n] = 1
    BY <1>1 DEF PlaceInv
  <2>2. CASE n # k
    <3>1. InHand(n)' = 0 /\ InHand(n) = 0 /\ Cardinality(Waiting(n)') = Cardinality(Waiting(n))
      BY <1>5, <1>6, <2>1, <2>2
    <3> QED BY <1>3, <2>1, <3>1
  <2>3. CASE n = k
    <3>1. InHand(k)' = 1 /\ InHand(k) = 0
      BY <1>5, <2>1, <2>3
    <3>2. handled[k] \in Nat /\ handled'[k] = handled[k]
      BY <1>3, <2>1, <2>3 DEF NodeInv, RangesOK
    <3> QED BY <1>9, <2>1, <2>3, <3>1, <3>2
  <2> QED BY <2>2, <2>3
<1>11. \A b \in RxBuffers : rxb'[b] # None => rxb'[b].n \in accepted
  BY <1>4 DEF PlaceInv
<1>12. msg'.n \in accepted
  BY <1>2, <1>3
<1> QED BY <1>3, <1>10, <1>11, <1>12 DEF PlaceInv

LEMMA PlaceProcess == NodeInv /\ PlaceInv /\ (Ignore \/ Pulse \/ Answer) => PlaceInv'
<1> SUFFICES ASSUME NodeInv, PlaceInv, Ignore \/ Pulse \/ Answer PROVE PlaceInv'
  OBVIOUS
<1>0. msg.n \in accepted
  BY DEF Ignore, Pulse, Answer, Processing, PlaceInv
<1> PICK k \in accepted : k = msg.n
  BY <1>0
<1>1. pc = "process" /\ pc' # "process" /\ handled' = [handled EXCEPT ![k] = @ + 1]
      /\ UNCHANGED <<rxb, accepted, arrived>>
  BY DEF Ignore, Pulse, Answer, Processing, busVars
<1>2. accepted \subseteq 1 .. arrived /\ arrived \in Nat /\ accepted \subseteq Numbers
      /\ handled \in [Numbers -> Nat]
  BY <1>1, NodeAssumption DEF PlaceInv, NodeInv, RangesOK, Numbers, NodeAssumption
<1>3. \A n \in Numbers : /\ handled'[n] = (IF n = k THEN handled[n] + 1 ELSE handled[n])
                          /\ InHand(n)' = 0 /\ InHand(n) = (IF n = k THEN 1 ELSE 0)
                          /\ Waiting(n)' = Waiting(n)
  BY <1>1, <1>2 DEF InHand, Waiting
<1>4. \A n \in Numbers : n > arrived' => handled'[n] = 0
  BY <1>1, <1>2, <1>3 DEF PlaceInv
<1>5. ASSUME NEW n \in accepted
      PROVE  Cardinality(Waiting(n)') + InHand(n)' + handled'[n] = 1
  <2>1. n \in Numbers /\ Cardinality(Waiting(n)) + InHand(n) + handled[n] = 1
    BY <1>2 DEF PlaceInv
  <2>2. Waiting(n) \in SUBSET (0 .. 2)
    BY DEF Waiting, RxBuffers
  <2>3. Cardinality(Waiting(n)) \in Nat /\ handled[n] \in Nat
    BY <1>2, <2>1, <2>2, WaitingCount
  <2> QED BY <1>3, <2>1, <2>3
<1> QED BY <1>1, <1>4, <1>5 DEF PlaceInv

LEMMA PlaceStep == NodeInv /\ PlaceInv /\ [Next]_vars => PlaceInv'
<1> SUFFICES ASSUME NodeInv, PlaceInv, [Next]_vars PROVE PlaceInv'
  OBVIOUS
<1>1. ASSUME UNCHANGED <<rxb, accepted, arrived, handled>>, pc # "process", pc' # "process"
      PROVE  PlaceInv'
  BY <1>1 DEF PlaceInv, Waiting, InHand
<1>2. CASE Setup \/ Poll \/ ChooseBuffer \/ Count
  BY <1>1, <1>2 DEF Setup, Poll, ChooseBuffer, Count, busVars
<1>3. CASE SearchTx \/ write_canMsg \/ WaitSent
  BY <1>1, <1>3 DEF Polled, SearchTx, AfterSearch, write_canMsg, WaitSent, busVars
<1>4. CASE Transmit \/ NoMessage \/ Halted \/ UNCHANGED vars
  <2>1. UNCHANGED <<pc, msg, rxb, accepted, arrived, handled>>
    BY <1>4 DEF Transmit, NoMessage, Halted, vars, appVars, busVars
  <2> QED BY <2>1 DEF PlaceInv, Waiting, InHand
<1> QED BY <1>2, <1>3, <1>4, PlaceArrive, PlaceRead, PlaceProcess DEF Next, App

\* No accepted frame is lost or processed twice, whatever arrives while the
\* firmware reads, steps or waits.
THEOREM FramesHandledOnce == Spec => []HandledOnce
<1>1. Init => PlaceInv
  BY NodeAssumption DEF Init, PlaceInv, NodeAssumption
<1>2. PlaceInv => HandledOnce
  BY Zenon DEF PlaceInv, HandledOnce, Waiting, InHand
<1> QED BY <1>1, <1>2, InitNode, NodeStep, PlaceStep, PTL DEF Spec
=============================================================================
