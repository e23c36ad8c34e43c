------------------------- MODULE InterruptReceiver_proofs -------------------------
(***************************************************************************)
(* Proofs about InterruptReceiver for every number of polls: no wake-up is *)
(* lost, and an awake node is on the bus.                                  *)
(*                                                                         *)
(* The inductive invariant follows the controller through the sketch: how  *)
(* its mode, a request on its way and its wake flag are related while      *)
(* begin() runs (BeginInv), the node is awake (AwakeInv), goes to sleep    *)
(* (SleepInv), sleeps (StoppedInv) and wakes up (WakeInv).                 *)
(***************************************************************************)
EXTENDS InterruptReceiver, TLAPS

\* In a mode, with nothing else on its way
At(m) == mode = m /\ pending \in {None, m}

\* Asleep, or woken up by the bus
Sleepy == At("sleep") \/ (mode = "listenonly" /\ pending = None)

\* Where a driver call can be in progress, and whether the handler is attached
PlaceInv ==
  /\ pc # "idle" => lp \in {"beginning", "sleep", "wake"}
  /\ attached = (lp \notin {"begin", "beginning", "attach"})
  /\ Draining \/ lp = "loop" => rs = "low"

BeginInv ==
  lp = "beginning" =>
    /\ op = "begin" /\ setting = CAN_500KBPS /\ ~wakif
    /\ pc \in {"getmode", "clear", "request", "poll", "write", "idle"}
    /\ failed => pc = "idle" /\ result = "FAIL"
    /\ target = IF second THEN "normal" ELSE "config"
    /\ second => mcpMode = "normal"
    /\ ~second => At("config")
    /\ pc \in {"getmode", "clear"} => At("config")
    /\ pc \in {"request", "poll"} => ~waking
    /\ mode \in {"config", "normal"} /\ pending \in {None, "config", "normal"}
    /\ mode = "normal" => pending \in {None, "normal"}
    /\ pc = "poll" => pending \in {None, target}
    /\ pc = "write" => ~second
    /\ pc = "idle" /\ result = "OK" => second /\ At("normal")

Awake == {"attach", "configure", "pins", "loop", "while", "status", "read"}
AwakeInv == lp \in Awake /\ ~failed => At("normal") /\ ~wakif

ModeInv == lp \notin {"begin", "beginning"} => mcpMode = "normal"

SleepInv ==
  lp = "sleep" /\ ~failed =>
    /\ op = "sleep" /\ (pc # "idle" => target = "sleep")
    /\ pc \in {"compare", "getmode", "clear", "request", "poll", "idle"}
    /\ pc \in {"compare", "getmode", "clear"} => At("normal")
    /\ pc \in {"request", "poll"} =>
         /\ ~waking /\ mode \in {"normal", "sleep", "listenonly"}
         /\ pending \in {None, "sleep"} \/ (pc = "request" /\ At("normal"))
    /\ pc = "idle" => Sleepy

StoppedInv == lp \in {"cli", "asleep", "awake"} /\ ~failed => Sleepy

WakeInv ==
  lp = "wake" /\ ~failed =>
    /\ op = "wake" /\ target = "normal"
    /\ pc # "write"
    /\ pc \in {"compare", "getmode", "enable", "flag"} => Sleepy
    /\ pc \in {"request", "poll"} /\ waking =>
         \/ mode = "sleep" /\ pending \in {None, "listenonly"}
         \/ pc = "request" /\ At("sleep")
         \/ At("listenonly")
    /\ pc \in {"restore", "clear"} => At("listenonly")
    /\ pc \in {"request", "poll"} /\ ~waking =>
         /\ ~wakif /\ mode \in {"listenonly", "normal"}
         /\ pending \in {None, "normal"} \/ (pc = "request" /\ At("listenonly"))
    /\ pc = "idle" => At("normal") /\ ~wakif

DriverInv == BeginInv /\ AwakeInv /\ ModeInv /\ SleepInv /\ StoppedInv /\ WakeInv
IInv == TypeOK /\ PlaceInv /\ DriverInv /\ NoWakeUpLost

-----------------------------------------------------------------------------
\* configRate knows the sketch's speed.
LEMMA KnownSpeed == Mcp!Supported(CAN_500KBPS)
BY DEF Mcp!Supported, CAN_500KBPS

\* The sketch reads full buffers only.
LEMMA TypeOK_step ==
  ASSUME TypeOK, [Next]_vars
  PROVE  TypeOK'
<1> USE DEF TypeOK, RxBuffers, PlaceInv, At, Sleepy, Awake, Draining, Mcp!Configuring,
            Mcp!args, Mcp!locals, Mcp!chip, Mcp!past, mcpVars, sketchVars, Latch, IntLow, Chosen
<1>1. CASE Begin \/ BeginReturns
  BY <1>1 DEF Begin, BeginReturns, Mcp!begin, Mcp!Call, CAN_500KBPS
<1>2. CASE AttachInterrupt
  BY <1>2 DEF AttachInterrupt
<1>3. CASE Configure \/ SetupEnds
  BY <1>3 DEF Configure, SetupEnds, WakeUpEnabled, Mcp!setSleepWakeup, Mcp!Call
<1>4. CASE MCP2515_ISR
  BY <1>4 DEF MCP2515_ISR
<1>5. CASE TakeFlag \/ CheckReceive
  BY <1>5 DEF TakeFlag, CheckReceive
<1>6. CASE ReadStatus \/ ReadFrame
  BY <1>6 DEF ReadStatus, ReadFrame, AfterFrame
<1>7. CASE GoToSleep
  BY <1>7 DEF GoToSleep, Mcp!sleep, Mcp!Compared, Mcp!Call
<1>8. CASE Standby \/ SleepCpu
  BY <1>8 DEF Standby, SleepCpu, MissedInterrupt
<1>9. CASE WakeUp
  BY <1>9 DEF WakeUp, Wake, Mcp!wake, Mcp!Compared, Mcp!Call
<1>10. CASE EnableTransceiver
  BY <1>10 DEF EnableTransceiver
<1>11. CASE Driver
  BY <1>11 DEF Driver
<1>12. CASE ChangeMode
  BY <1>12 DEF ChangeMode, Mcp!TakeUpMode, Mcp!BusActivity, Mcp!WakeUp, Mcp!Driving
<1>13. CASE Receive
  BY <1>13 DEF Receive
<1>14. CASE UNCHANGED vars
  BY <1>14 DEF vars
<1> QED
  BY <1>1, <1>2, <1>3, <1>4, <1>5, <1>6, <1>7, <1>8, <1>9, <1>10, 
     <1>11, <1>12, <1>13, <1>14
  DEF Next, Setup, Loop, Waiting, vars

\* Driver calls are in progress only where the sketch waits for them.
LEMMA PlaceInv_step ==
  ASSUME PlaceInv, [Next]_vars
  PROVE  PlaceInv'
<1> USE DEF PlaceInv, At, Sleepy, Awake, Draining, Mcp!Configuring,
            Mcp!args, Mcp!locals, Mcp!chip, Mcp!past, mcpVars, sketchVars
<1>1. CASE Begin \/ BeginReturns
  BY <1>1 DEF Begin, BeginReturns, Mcp!begin, Mcp!Call, CAN_500KBPS
<1>2. CASE AttachInterrupt
  BY <1>2 DEF AttachInterrupt
<1>3. CASE Configure \/ SetupEnds
  BY <1>3 DEF Configure, SetupEnds, WakeUpEnabled, Mcp!setSleepWakeup, Mcp!Call
<1>4. CASE MCP2515_ISR
  BY <1>4 DEF MCP2515_ISR
<1>5. CASE TakeFlag \/ CheckReceive
  BY <1>5 DEF TakeFlag, CheckReceive
<1>6. CASE ReadStatus \/ ReadFrame
  BY <1>6 DEF ReadStatus, ReadFrame, AfterFrame
<1>7. CASE GoToSleep
  BY <1>7 DEF GoToSleep, Mcp!sleep, Mcp!Compared, Mcp!Call
<1>8. CASE Standby \/ SleepCpu
  BY <1>8 DEF Standby, SleepCpu, MissedInterrupt
<1>9. CASE WakeUp
  BY <1>9 DEF WakeUp, Wake, Mcp!wake, Mcp!Compared, Mcp!Call
<1>10. CASE EnableTransceiver
  BY <1>10 DEF EnableTransceiver
<1>11. CASE Driver
  <2>1. Mcp!Driver /\ UNCHANGED <<lp, attached, rs, full, flagRecv, early>> /\ Latch
    BY <1>11 DEF Driver
  <2>2. lp \in {"beginning", "sleep", "wake"}
    BY <2>1 DEF Mcp!Driver, Mcp!Compare, Mcp!GetMode, Mcp!EnableWakeInt, Mcp!SetWakeFlag,
             Mcp!RestoreWakeInt, Mcp!ClearWakeFlag, Mcp!ClearTo, Mcp!Request, Mcp!Poll,
             Mcp!PollOr, Mcp!Write, Mcp!ConfigureRate
  <2>3. CASE Mcp!Compare
    BY <2>1, <2>2, <2>3 DEF Mcp!Compare, Mcp!Return
  <2>4. CASE Mcp!GetMode \/ Mcp!EnableWakeInt \/ Mcp!SetWakeFlag
    BY <2>1, <2>2, <2>4 DEF Mcp!GetMode, Mcp!EnableWakeInt, Mcp!SetWakeFlag
  <2>5. CASE Mcp!RestoreWakeInt \/ Mcp!ClearWakeFlag
    BY <2>1, <2>2, <2>5 DEF Mcp!RestoreWakeInt, Mcp!ClearWakeFlag, Mcp!ClearTo
  <2>6. CASE Mcp!Request
    BY <2>1, <2>2, <2>6 DEF Mcp!Request, Mcp!Goal
  <2>7. CASE Mcp!Poll
    BY <2>1, <2>2, <2>7 DEF Mcp!Poll, Mcp!PollOr, Mcp!TimedOut, Mcp!Return, Mcp!Continued,
                             Mcp!Goal
  <2>8. CASE Mcp!Write
    BY <2>1, <2>2, <2>8 DEF Mcp!Write
  <2>9. CASE Mcp!ConfigureRate
    BY <2>1, <2>2, <2>9, KnownSpeed DEF Mcp!ConfigureRate, Mcp!Return
  <2> QED BY <2>1, <2>3, <2>4, <2>5, <2>6, <2>7, <2>8, <2>9 DEF Mcp!Driver
<1>12. CASE ChangeMode
  BY <1>12 DEF ChangeMode, Mcp!TakeUpMode, Mcp!BusActivity, Mcp!WakeUp, Mcp!Driving
<1>13. CASE Receive
  BY <1>13 DEF Receive
<1>14. CASE UNCHANGED vars
  BY <1>14 DEF vars
<1> QED
  BY <1>1, <1>2, <1>3, <1>4, <1>5, <1>6, <1>7, <1>8, <1>9, <1>10, 
     <1>11, <1>12, <1>13, <1>14
  DEF Next, Setup, Loop, Waiting, vars

\* begin() ends with the controller on the bus, or fails.
LEMMA BeginInv_step ==
  ASSUME PlaceInv, BeginInv, [Next]_vars
  PROVE  BeginInv'
<1> USE DEF BeginInv, PlaceInv, At, Sleepy, Awake, Draining, Mcp!Configuring,
            Mcp!args, Mcp!locals, Mcp!chip, Mcp!past, mcpVars, sketchVars
<1>1. CASE Begin \/ BeginReturns
  BY <1>1 DEF Begin, BeginReturns, Mcp!begin, Mcp!Call, CAN_500KBPS
<1>2. CASE AttachInterrupt
  BY <1>2 DEF AttachInterrupt
<1>3. CASE Configure \/ SetupEnds
  BY <1>3 DEF Configure, SetupEnds, WakeUpEnabled, Mcp!setSleepWakeup, Mcp!Call
<1>4. CASE MCP2515_ISR
  BY <1>4 DEF MCP2515_ISR
<1>5. CASE TakeFlag \/ CheckReceive
  BY <1>5 DEF TakeFlag, CheckReceive
<1>6. CASE ReadStatus \/ ReadFrame
  BY <1>6 DEF ReadStatus, ReadFrame, AfterFrame
<1>7. CASE GoToSleep
  BY <1>7 DEF GoToSleep, Mcp!sleep, Mcp!Compared, Mcp!Call
<1>8. CASE Standby \/ SleepCpu
  BY <1>8 DEF Standby, SleepCpu, MissedInterrupt
<1>9. CASE WakeUp
  BY <1>9 DEF WakeUp, Wake, Mcp!wake, Mcp!Compared, Mcp!Call
<1>10. CASE EnableTransceiver
  BY <1>10 DEF EnableTransceiver
<1>11. CASE Driver
  <2>1. Mcp!Driver /\ UNCHANGED <<lp, attached, rs, full, flagRecv, early>> /\ Latch
    BY <1>11 DEF Driver
  <2>2. lp \in {"beginning", "sleep", "wake"}
    BY <2>1 DEF Mcp!Driver, Mcp!Compare, Mcp!GetMode, Mcp!EnableWakeInt, Mcp!SetWakeFlag,
             Mcp!RestoreWakeInt, Mcp!ClearWakeFlag, Mcp!ClearTo, Mcp!Request, Mcp!Poll,
             Mcp!PollOr, Mcp!Write, Mcp!ConfigureRate
  <2>3. CASE Mcp!Compare
    BY <2>1, <2>2, <2>3 DEF Mcp!Compare, Mcp!Return
  <2>4. CASE Mcp!GetMode \/ Mcp!EnableWakeInt \/ Mcp!SetWakeFlag
    BY <2>1, <2>2, <2>4 DEF Mcp!GetMode, Mcp!EnableWakeInt, Mcp!SetWakeFlag
  <2>5. CASE Mcp!RestoreWakeInt \/ Mcp!ClearWakeFlag
    BY <2>1, <2>2, <2>5 DEF Mcp!RestoreWakeInt, Mcp!ClearWakeFlag, Mcp!ClearTo
  <2>6. CASE Mcp!Request
    BY <2>1, <2>2, <2>6 DEF Mcp!Request, Mcp!Goal
  <2>7. CASE Mcp!Poll
    BY <2>1, <2>2, <2>7 DEF Mcp!Poll, Mcp!PollOr, Mcp!TimedOut, Mcp!Return, Mcp!Continued,
                             Mcp!Goal
  <2>8. CASE Mcp!Write
    BY <2>1, <2>2, <2>8 DEF Mcp!Write
  <2>9. CASE Mcp!ConfigureRate
    BY <2>1, <2>2, <2>9, KnownSpeed DEF Mcp!ConfigureRate, Mcp!Return
  <2> QED BY <2>1, <2>3, <2>4, <2>5, <2>6, <2>7, <2>8, <2>9 DEF Mcp!Driver
<1>12. CASE ChangeMode
  BY <1>12 DEF ChangeMode, Mcp!TakeUpMode, Mcp!BusActivity, Mcp!WakeUp, Mcp!Driving
<1>13. CASE Receive
  BY <1>13 DEF Receive
<1>14. CASE UNCHANGED vars
  BY <1>14 DEF vars
<1> QED
  BY <1>1, <1>2, <1>3, <1>4, <1>5, <1>6, <1>7, <1>8, <1>9, <1>10, 
     <1>11, <1>12, <1>13, <1>14
  DEF Next, Setup, Loop, Waiting, vars

\* The mode to return to is the normal one.
LEMMA ModeInv_step ==
  ASSUME PlaceInv, BeginInv, ModeInv, [Next]_vars
  PROVE  ModeInv'
<1> USE DEF ModeInv, BeginInv, PlaceInv, At, Sleepy, Awake, Draining, Mcp!Configuring,
            Mcp!args, Mcp!locals, Mcp!chip, Mcp!past, mcpVars, sketchVars
<1>1. CASE Begin \/ BeginReturns
  BY <1>1 DEF Begin, BeginReturns, Mcp!begin, Mcp!Call, CAN_500KBPS
<1>2. CASE AttachInterrupt
  BY <1>2 DEF AttachInterrupt
<1>3. CASE Configure \/ SetupEnds
  BY <1>3 DEF Configure, SetupEnds, WakeUpEnabled, Mcp!setSleepWakeup, Mcp!Call
<1>4. CASE MCP2515_ISR
  BY <1>4 DEF MCP2515_ISR
<1>5. CASE TakeFlag \/ CheckReceive
  BY <1>5 DEF TakeFlag, CheckReceive
<1>6. CASE ReadStatus \/ ReadFrame
  BY <1>6 DEF ReadStatus, ReadFrame, AfterFrame
<1>7. CASE GoToSleep
  BY <1>7 DEF GoToSleep, Mcp!sleep, Mcp!Compared, Mcp!Call
<1>8. CASE Standby \/ SleepCpu
  BY <1>8 DEF Standby, SleepCpu, MissedInterrupt
<1>9. CASE WakeUp
  BY <1>9 DEF WakeUp, Wake, Mcp!wake, Mcp!Compared, Mcp!Call
<1>10. CASE EnableTransceiver
  BY <1>10 DEF EnableTransceiver
<1>11. CASE Driver
  <2>1. Mcp!Driver /\ UNCHANGED <<lp, attached, rs, full, flagRecv, early>> /\ Latch
    BY <1>11 DEF Driver
  <2>2. lp \in {"beginning", "sleep", "wake"}
    BY <2>1 DEF Mcp!Driver, Mcp!Compare, Mcp!GetMode, Mcp!EnableWakeInt, Mcp!SetWakeFlag,
             Mcp!RestoreWakeInt, Mcp!ClearWakeFlag, Mcp!ClearTo, Mcp!Request, Mcp!Poll,
             Mcp!PollOr, Mcp!Write, Mcp!ConfigureRate
  <2>3. CASE Mcp!Compare
    BY <2>1, <2>2, <2>3 DEF Mcp!Compare, Mcp!Return
  <2>4. CASE Mcp!GetMode \/ Mcp!EnableWakeInt \/ Mcp!SetWakeFlag
    BY <2>1, <2>2, <2>4 DEF Mcp!GetMode, Mcp!EnableWakeInt, Mcp!SetWakeFlag
  <2>5. CASE Mcp!RestoreWakeInt \/ Mcp!ClearWakeFlag
    BY <2>1, <2>2, <2>5 DEF Mcp!RestoreWakeInt, Mcp!ClearWakeFlag, Mcp!ClearTo
  <2>6. CASE Mcp!Request
    BY <2>1, <2>2, <2>6 DEF Mcp!Request, Mcp!Goal
  <2>7. CASE Mcp!Poll
    BY <2>1, <2>2, <2>7 DEF Mcp!Poll, Mcp!PollOr, Mcp!TimedOut, Mcp!Return, Mcp!Continued,
                             Mcp!Goal
  <2>8. CASE Mcp!Write
    BY <2>1, <2>2, <2>8 DEF Mcp!Write
  <2>9. CASE Mcp!ConfigureRate
    BY <2>1, <2>2, <2>9, KnownSpeed DEF Mcp!ConfigureRate, Mcp!Return
  <2> QED BY <2>1, <2>3, <2>4, <2>5, <2>6, <2>7, <2>8, <2>9 DEF Mcp!Driver
<1>12. CASE ChangeMode
  BY <1>12 DEF ChangeMode, Mcp!TakeUpMode, Mcp!BusActivity, Mcp!WakeUp, Mcp!Driving
<1>13. CASE Receive
  BY <1>13 DEF Receive
<1>14. CASE UNCHANGED vars
  BY <1>14 DEF vars
<1> QED
  BY <1>1, <1>2, <1>3, <1>4, <1>5, <1>6, <1>7, <1>8, <1>9, <1>10, 
     <1>11, <1>12, <1>13, <1>14
  DEF Next, Setup, Loop, Waiting, vars

\* sleep() ends with a sleeping controller, or one that the bus woke up.
LEMMA SleepInv_step ==
  ASSUME PlaceInv, AwakeInv, SleepInv, [Next]_vars
  PROVE  SleepInv'
<1> USE DEF AwakeInv, SleepInv, PlaceInv, At, Sleepy, Awake, Draining, Mcp!Configuring,
            Mcp!args, Mcp!locals, Mcp!chip, Mcp!past, mcpVars, sketchVars
<1>1. CASE Begin \/ BeginReturns
  BY <1>1 DEF Begin, BeginReturns, Mcp!begin, Mcp!Call, CAN_500KBPS
<1>2. CASE AttachInterrupt
  BY <1>2 DEF AttachInterrupt
<1>3. CASE Configure \/ SetupEnds
  BY <1>3 DEF Configure, SetupEnds, WakeUpEnabled, Mcp!setSleepWakeup, Mcp!Call
<1>4. CASE MCP2515_ISR
  BY <1>4 DEF MCP2515_ISR
<1>5. CASE TakeFlag \/ CheckReceive
  BY <1>5 DEF TakeFlag, CheckReceive
<1>6. CASE ReadStatus \/ ReadFrame
  BY <1>6 DEF ReadStatus, ReadFrame, AfterFrame
<1>7. CASE GoToSleep
  BY <1>7 DEF GoToSleep, Mcp!sleep, Mcp!Compared, Mcp!Call
<1>8. CASE Standby \/ SleepCpu
  BY <1>8 DEF Standby, SleepCpu, MissedInterrupt
<1>9. CASE WakeUp
  BY <1>9 DEF WakeUp, Wake, Mcp!wake, Mcp!Compared, Mcp!Call
<1>10. CASE EnableTransceiver
  BY <1>10 DEF EnableTransceiver
<1>11. CASE Driver
  <2>1. Mcp!Driver /\ UNCHANGED <<lp, attached, rs, full, flagRecv, early>> /\ Latch
    BY <1>11 DEF Driver
  <2>2. lp \in {"beginning", "sleep", "wake"}
    BY <2>1 DEF Mcp!Driver, Mcp!Compare, Mcp!GetMode, Mcp!EnableWakeInt, Mcp!SetWakeFlag,
             Mcp!RestoreWakeInt, Mcp!ClearWakeFlag, Mcp!ClearTo, Mcp!Request, Mcp!Poll,
             Mcp!PollOr, Mcp!Write, Mcp!ConfigureRate
  <2>3. CASE Mcp!Compare
    BY <2>1, <2>2, <2>3 DEF Mcp!Compare, Mcp!Return
  <2>4. CASE Mcp!GetMode \/ Mcp!EnableWakeInt \/ Mcp!SetWakeFlag
    BY <2>1, <2>2, <2>4 DEF Mcp!GetMode, Mcp!EnableWakeInt, Mcp!SetWakeFlag
  <2>5. CASE Mcp!RestoreWakeInt \/ Mcp!ClearWakeFlag
    BY <2>1, <2>2, <2>5 DEF Mcp!RestoreWakeInt, Mcp!ClearWakeFlag, Mcp!ClearTo
  <2>6. CASE Mcp!Request
    BY <2>1, <2>2, <2>6 DEF Mcp!Request, Mcp!Goal
  <2>7. CASE Mcp!Poll
    BY <2>1, <2>2, <2>7 DEF Mcp!Poll, Mcp!PollOr, Mcp!TimedOut, Mcp!Return, Mcp!Continued,
                             Mcp!Goal
  <2>8. CASE Mcp!Write
    BY <2>1, <2>2, <2>8 DEF Mcp!Write
  <2>9. CASE Mcp!ConfigureRate
    BY <2>1, <2>2, <2>9, KnownSpeed DEF Mcp!ConfigureRate, Mcp!Return
  <2> QED BY <2>1, <2>3, <2>4, <2>5, <2>6, <2>7, <2>8, <2>9 DEF Mcp!Driver
<1>12. CASE ChangeMode
  BY <1>12 DEF ChangeMode, Mcp!TakeUpMode, Mcp!BusActivity, Mcp!WakeUp, Mcp!Driving
<1>13. CASE Receive
  BY <1>13 DEF Receive
<1>14. CASE UNCHANGED vars
  BY <1>14 DEF vars
<1> QED
  BY <1>1, <1>2, <1>3, <1>4, <1>5, <1>6, <1>7, <1>8, <1>9, <1>10, 
     <1>11, <1>12, <1>13, <1>14
  DEF Next, Setup, Loop, Waiting, vars

\* A sleeping controller changes its mode when it wakes up only.
LEMMA StoppedInv_step ==
  ASSUME PlaceInv, SleepInv, StoppedInv, [Next]_vars
  PROVE  StoppedInv'
<1> USE DEF SleepInv, StoppedInv, PlaceInv, At, Sleepy, Awake, Draining, Mcp!Configuring,
            Mcp!args, Mcp!locals, Mcp!chip, Mcp!past, mcpVars, sketchVars
<1>1. CASE Begin \/ BeginReturns
  BY <1>1 DEF Begin, BeginReturns, Mcp!begin, Mcp!Call, CAN_500KBPS
<1>2. CASE AttachInterrupt
  BY <1>2 DEF AttachInterrupt
<1>3. CASE Configure \/ SetupEnds
  BY <1>3 DEF Configure, SetupEnds, WakeUpEnabled, Mcp!setSleepWakeup, Mcp!Call
<1>4. CASE MCP2515_ISR
  BY <1>4 DEF MCP2515_ISR
<1>5. CASE TakeFlag \/ CheckReceive
  BY <1>5 DEF TakeFlag, CheckReceive
<1>6. CASE ReadStatus \/ ReadFrame
  BY <1>6 DEF ReadStatus, ReadFrame, AfterFrame
<1>7. CASE GoToSleep
  BY <1>7 DEF GoToSleep, Mcp!sleep, Mcp!Compared, Mcp!Call
<1>8. CASE Standby \/ SleepCpu
  BY <1>8 DEF Standby, SleepCpu, MissedInterrupt
<1>9. CASE WakeUp
  BY <1>9 DEF WakeUp, Wake, Mcp!wake, Mcp!Compared, Mcp!Call
<1>10. CASE EnableTransceiver
  BY <1>10 DEF EnableTransceiver
<1>11. CASE Driver
  <2>1. Mcp!Driver /\ UNCHANGED <<lp, attached, rs, full, flagRecv, early>> /\ Latch
    BY <1>11 DEF Driver
  <2>2. lp \in {"beginning", "sleep", "wake"}
    BY <2>1 DEF Mcp!Driver, Mcp!Compare, Mcp!GetMode, Mcp!EnableWakeInt, Mcp!SetWakeFlag,
             Mcp!RestoreWakeInt, Mcp!ClearWakeFlag, Mcp!ClearTo, Mcp!Request, Mcp!Poll,
             Mcp!PollOr, Mcp!Write, Mcp!ConfigureRate
  <2>3. CASE Mcp!Compare
    BY <2>1, <2>2, <2>3 DEF Mcp!Compare, Mcp!Return
  <2>4. CASE Mcp!GetMode \/ Mcp!EnableWakeInt \/ Mcp!SetWakeFlag
    BY <2>1, <2>2, <2>4 DEF Mcp!GetMode, Mcp!EnableWakeInt, Mcp!SetWakeFlag
  <2>5. CASE Mcp!RestoreWakeInt \/ Mcp!ClearWakeFlag
    BY <2>1, <2>2, <2>5 DEF Mcp!RestoreWakeInt, Mcp!ClearWakeFlag, Mcp!ClearTo
  <2>6. CASE Mcp!Request
    BY <2>1, <2>2, <2>6 DEF Mcp!Request, Mcp!Goal
  <2>7. CASE Mcp!Poll
    BY <2>1, <2>2, <2>7 DEF Mcp!Poll, Mcp!PollOr, Mcp!TimedOut, Mcp!Return, Mcp!Continued,
                             Mcp!Goal
  <2>8. CASE Mcp!Write
    BY <2>1, <2>2, <2>8 DEF Mcp!Write
  <2>9. CASE Mcp!ConfigureRate
    BY <2>1, <2>2, <2>9, KnownSpeed DEF Mcp!ConfigureRate, Mcp!Return
  <2> QED BY <2>1, <2>3, <2>4, <2>5, <2>6, <2>7, <2>8, <2>9 DEF Mcp!Driver
<1>12. CASE ChangeMode
  BY <1>12 DEF ChangeMode, Mcp!TakeUpMode, Mcp!BusActivity, Mcp!WakeUp, Mcp!Driving
<1>13. CASE Receive
  BY <1>13 DEF Receive
<1>14. CASE UNCHANGED vars
  BY <1>14 DEF vars
<1> QED
  BY <1>1, <1>2, <1>3, <1>4, <1>5, <1>6, <1>7, <1>8, <1>9, <1>10, 
     <1>11, <1>12, <1>13, <1>14
  DEF Next, Setup, Loop, Waiting, vars

\* wake() ends with the controller on the bus and its wake flag cleared.
LEMMA WakeInv_step ==
  ASSUME PlaceInv, ModeInv, StoppedInv, WakeInv, [Next]_vars
  PROVE  WakeInv'
<1> USE DEF ModeInv, StoppedInv, WakeInv, PlaceInv, At, Sleepy, Awake, Draining, Mcp!Configuring,
            Mcp!args, Mcp!locals, Mcp!chip, Mcp!past, mcpVars, sketchVars
<1>1. CASE Begin \/ BeginReturns
  BY <1>1 DEF Begin, BeginReturns, Mcp!begin, Mcp!Call, CAN_500KBPS
<1>2. CASE AttachInterrupt
  BY <1>2 DEF AttachInterrupt
<1>3. CASE Configure \/ SetupEnds
  BY <1>3 DEF Configure, SetupEnds, WakeUpEnabled, Mcp!setSleepWakeup, Mcp!Call
<1>4. CASE MCP2515_ISR
  BY <1>4 DEF MCP2515_ISR
<1>5. CASE TakeFlag \/ CheckReceive
  BY <1>5 DEF TakeFlag, CheckReceive
<1>6. CASE ReadStatus \/ ReadFrame
  BY <1>6 DEF ReadStatus, ReadFrame, AfterFrame
<1>7. CASE GoToSleep
  BY <1>7 DEF GoToSleep, Mcp!sleep, Mcp!Compared, Mcp!Call
<1>8. CASE Standby \/ SleepCpu
  BY <1>8 DEF Standby, SleepCpu, MissedInterrupt
<1>9. CASE WakeUp
  BY <1>9 DEF WakeUp, Wake, Mcp!wake, Mcp!Compared, Mcp!Call
<1>10. CASE EnableTransceiver
  BY <1>10 DEF EnableTransceiver
<1>11. CASE Driver
  <2>1. Mcp!Driver /\ UNCHANGED <<lp, attached, rs, full, flagRecv, early>> /\ Latch
    BY <1>11 DEF Driver
  <2>2. lp \in {"beginning", "sleep", "wake"}
    BY <2>1 DEF Mcp!Driver, Mcp!Compare, Mcp!GetMode, Mcp!EnableWakeInt, Mcp!SetWakeFlag,
             Mcp!RestoreWakeInt, Mcp!ClearWakeFlag, Mcp!ClearTo, Mcp!Request, Mcp!Poll,
             Mcp!PollOr, Mcp!Write, Mcp!ConfigureRate
  <2>3. CASE Mcp!Compare
    BY <2>1, <2>2, <2>3 DEF Mcp!Compare, Mcp!Return
  <2>4. CASE Mcp!GetMode \/ Mcp!EnableWakeInt \/ Mcp!SetWakeFlag
    BY <2>1, <2>2, <2>4 DEF Mcp!GetMode, Mcp!EnableWakeInt, Mcp!SetWakeFlag
  <2>5. CASE Mcp!RestoreWakeInt \/ Mcp!ClearWakeFlag
    BY <2>1, <2>2, <2>5 DEF Mcp!RestoreWakeInt, Mcp!ClearWakeFlag, Mcp!ClearTo
  <2>6. CASE Mcp!Request
    BY <2>1, <2>2, <2>6 DEF Mcp!Request, Mcp!Goal
  <2>7. CASE Mcp!Poll
    BY <2>1, <2>2, <2>7 DEF Mcp!Poll, Mcp!PollOr, Mcp!TimedOut, Mcp!Return, Mcp!Continued,
                             Mcp!Goal
  <2>8. CASE Mcp!Write
    BY <2>1, <2>2, <2>8 DEF Mcp!Write
  <2>9. CASE Mcp!ConfigureRate
    BY <2>1, <2>2, <2>9, KnownSpeed DEF Mcp!ConfigureRate, Mcp!Return
  <2> QED BY <2>1, <2>3, <2>4, <2>5, <2>6, <2>7, <2>8, <2>9 DEF Mcp!Driver
<1>12. CASE ChangeMode
  BY <1>12 DEF ChangeMode, Mcp!TakeUpMode, Mcp!BusActivity, Mcp!WakeUp, Mcp!Driving
<1>13. CASE Receive
  BY <1>13 DEF Receive
<1>14. CASE UNCHANGED vars
  BY <1>14 DEF vars
<1> QED
  BY <1>1, <1>2, <1>3, <1>4, <1>5, <1>6, <1>7, <1>8, <1>9, <1>10, 
     <1>11, <1>12, <1>13, <1>14
  DEF Next, Setup, Loop, Waiting, vars

\* The controller stays on the bus while the sketch does not put it to sleep.
LEMMA AwakeInv_step ==
  ASSUME PlaceInv, BeginInv, WakeInv, AwakeInv, [Next]_vars
  PROVE  AwakeInv'
<1> USE DEF BeginInv, WakeInv, AwakeInv, PlaceInv, At, Sleepy, Awake, Draining, Mcp!Configuring,
            Mcp!args, Mcp!locals, Mcp!chip, Mcp!past, mcpVars, sketchVars
<1>1. CASE Begin \/ BeginReturns
  BY <1>1 DEF Begin, BeginReturns, Mcp!begin, Mcp!Call, CAN_500KBPS
<1>2. CASE AttachInterrupt
  BY <1>2 DEF AttachInterrupt
<1>3. CASE Configure \/ SetupEnds
  BY <1>3 DEF Configure, SetupEnds, WakeUpEnabled, Mcp!setSleepWakeup, Mcp!Call
<1>4. CASE MCP2515_ISR
  BY <1>4 DEF MCP2515_ISR
<1>5. CASE TakeFlag \/ CheckReceive
  BY <1>5 DEF TakeFlag, CheckReceive
<1>6. CASE ReadStatus \/ ReadFrame
  BY <1>6 DEF ReadStatus, ReadFrame, AfterFrame
<1>7. CASE GoToSleep
  BY <1>7 DEF GoToSleep, Mcp!sleep, Mcp!Compared, Mcp!Call
<1>8. CASE Standby \/ SleepCpu
  BY <1>8 DEF Standby, SleepCpu, MissedInterrupt
<1>9. CASE WakeUp
  BY <1>9 DEF WakeUp, Wake, Mcp!wake, Mcp!Compared, Mcp!Call
<1>10. CASE EnableTransceiver
  BY <1>10 DEF EnableTransceiver
<1>11. CASE Driver
  <2>1. Mcp!Driver /\ UNCHANGED <<lp, attached, rs, full, flagRecv, early>> /\ Latch
    BY <1>11 DEF Driver
  <2>2. lp \in {"beginning", "sleep", "wake"}
    BY <2>1 DEF Mcp!Driver, Mcp!Compare, Mcp!GetMode, Mcp!EnableWakeInt, Mcp!SetWakeFlag,
             Mcp!RestoreWakeInt, Mcp!ClearWakeFlag, Mcp!ClearTo, Mcp!Request, Mcp!Poll,
             Mcp!PollOr, Mcp!Write, Mcp!ConfigureRate
  <2>3. CASE Mcp!Compare
    BY <2>1, <2>2, <2>3 DEF Mcp!Compare, Mcp!Return
  <2>4. CASE Mcp!GetMode \/ Mcp!EnableWakeInt \/ Mcp!SetWakeFlag
    BY <2>1, <2>2, <2>4 DEF Mcp!GetMode, Mcp!EnableWakeInt, Mcp!SetWakeFlag
  <2>5. CASE Mcp!RestoreWakeInt \/ Mcp!ClearWakeFlag
    BY <2>1, <2>2, <2>5 DEF Mcp!RestoreWakeInt, Mcp!ClearWakeFlag, Mcp!ClearTo
  <2>6. CASE Mcp!Request
    BY <2>1, <2>2, <2>6 DEF Mcp!Request, Mcp!Goal
  <2>7. CASE Mcp!Poll
    BY <2>1, <2>2, <2>7 DEF Mcp!Poll, Mcp!PollOr, Mcp!TimedOut, Mcp!Return, Mcp!Continued,
                             Mcp!Goal
  <2>8. CASE Mcp!Write
    BY <2>1, <2>2, <2>8 DEF Mcp!Write
  <2>9. CASE Mcp!ConfigureRate
    BY <2>1, <2>2, <2>9, KnownSpeed DEF Mcp!ConfigureRate, Mcp!Return
  <2> QED BY <2>1, <2>3, <2>4, <2>5, <2>6, <2>7, <2>8, <2>9 DEF Mcp!Driver
<1>12. CASE ChangeMode
  BY <1>12 DEF ChangeMode, Mcp!TakeUpMode, Mcp!BusActivity, Mcp!WakeUp, Mcp!Driving
<1>13. CASE Receive
  BY <1>13 DEF Receive
<1>14. CASE UNCHANGED vars
  BY <1>14 DEF vars
<1> QED
  BY <1>1, <1>2, <1>3, <1>4, <1>5, <1>6, <1>7, <1>8, <1>9, <1>10, 
     <1>11, <1>12, <1>13, <1>14
  DEF Next, Setup, Loop, Waiting, vars

\* The INT pin is attended to: an edge is noticed, or the sketch is about to read.
LEMMA NoWakeUpLost_step ==
  ASSUME PlaceInv, AwakeInv, NoWakeUpLost, [Next]_vars
  PROVE  NoWakeUpLost'
<1> USE DEF AwakeInv, NoWakeUpLost, PlaceInv, At, Sleepy, Awake, Draining, Mcp!Configuring,
            Mcp!args, Mcp!locals, Mcp!chip, Mcp!past, mcpVars, sketchVars, Latch, IntLow
<1>1. CASE Begin \/ BeginReturns
  BY <1>1 DEF Begin, BeginReturns, Mcp!begin, Mcp!Call, CAN_500KBPS
<1>2. CASE AttachInterrupt
  BY <1>2 DEF AttachInterrupt
<1>3. CASE Configure \/ SetupEnds
  BY <1>3 DEF Configure, SetupEnds, WakeUpEnabled, Mcp!setSleepWakeup, Mcp!Call
<1>4. CASE MCP2515_ISR
  BY <1>4 DEF MCP2515_ISR
<1>5. CASE TakeFlag \/ CheckReceive
  BY <1>5 DEF TakeFlag, CheckReceive
<1>6. CASE ReadStatus \/ ReadFrame
  BY <1>6 DEF ReadStatus, ReadFrame, AfterFrame
<1>7. CASE GoToSleep
  BY <1>7 DEF GoToSleep, Mcp!sleep, Mcp!Compared, Mcp!Call
<1>8. CASE Standby \/ SleepCpu
  BY <1>8 DEF Standby, SleepCpu, MissedInterrupt
<1>9. CASE WakeUp
  BY <1>9 DEF WakeUp, Wake, Mcp!wake, Mcp!Compared, Mcp!Call
<1>10. CASE EnableTransceiver
  BY <1>10 DEF EnableTransceiver
<1>11. CASE Driver
  <2>1. Mcp!Driver /\ UNCHANGED <<lp, attached, rs, full, flagRecv, early>> /\ Latch
    BY <1>11 DEF Driver
  <2>2. lp \in {"beginning", "sleep", "wake"}
    BY <2>1 DEF Mcp!Driver, Mcp!Compare, Mcp!GetMode, Mcp!EnableWakeInt, Mcp!SetWakeFlag,
             Mcp!RestoreWakeInt, Mcp!ClearWakeFlag, Mcp!ClearTo, Mcp!Request, Mcp!Poll,
             Mcp!PollOr, Mcp!Write, Mcp!ConfigureRate
  <2>3. CASE Mcp!Compare
    BY <2>1, <2>2, <2>3 DEF Mcp!Compare, Mcp!Return
  <2>4. CASE Mcp!GetMode \/ Mcp!EnableWakeInt \/ Mcp!SetWakeFlag
    BY <2>1, <2>2, <2>4 DEF Mcp!GetMode, Mcp!EnableWakeInt, Mcp!SetWakeFlag
  <2>5. CASE Mcp!RestoreWakeInt \/ Mcp!ClearWakeFlag
    BY <2>1, <2>2, <2>5 DEF Mcp!RestoreWakeInt, Mcp!ClearWakeFlag, Mcp!ClearTo
  <2>6. CASE Mcp!Request
    BY <2>1, <2>2, <2>6 DEF Mcp!Request, Mcp!Goal
  <2>7. CASE Mcp!Poll
    BY <2>1, <2>2, <2>7 DEF Mcp!Poll, Mcp!PollOr, Mcp!TimedOut, Mcp!Return, Mcp!Continued,
                             Mcp!Goal
  <2>8. CASE Mcp!Write
    BY <2>1, <2>2, <2>8 DEF Mcp!Write
  <2>9. CASE Mcp!ConfigureRate
    BY <2>1, <2>2, <2>9, KnownSpeed DEF Mcp!ConfigureRate, Mcp!Return
  <2> QED BY <2>1, <2>3, <2>4, <2>5, <2>6, <2>7, <2>8, <2>9 DEF Mcp!Driver
<1>12. CASE ChangeMode
  BY <1>12 DEF ChangeMode, Mcp!TakeUpMode, Mcp!BusActivity, Mcp!WakeUp, Mcp!Driving
<1>13. CASE Receive
  BY <1>13 DEF Receive
<1>14. CASE UNCHANGED vars
  BY <1>14 DEF vars
<1> QED
  BY <1>1, <1>2, <1>3, <1>4, <1>5, <1>6, <1>7, <1>8, <1>9, <1>10, 
     <1>11, <1>12, <1>13, <1>14
  DEF Next, Setup, Loop, Waiting, vars

-----------------------------------------------------------------------------
LEMMA InitIInv == Init => IInv
BY DEF Init, TypeOK, RxBuffers, Mcp!Init, IInv, PlaceInv, DriverInv, BeginInv, AwakeInv,
       ModeInv, SleepInv, StoppedInv, WakeInv, NoWakeUpLost, Awake, Draining

LEMMA NextIInv == IInv /\ [Next]_vars => IInv'
<1> SUFFICES ASSUME IInv, [Next]_vars PROVE IInv'
  OBVIOUS
<1>1. TypeOK' /\ PlaceInv' /\ BeginInv' /\ ModeInv' /\ SleepInv'
  BY TypeOK_step, PlaceInv_step, BeginInv_step, ModeInv_step, SleepInv_step DEF IInv, DriverInv
<1>2. StoppedInv' /\ WakeInv' /\ AwakeInv' /\ NoWakeUpLost'
  BY StoppedInv_step, WakeInv_step, AwakeInv_step, NoWakeUpLost_step DEF IInv, DriverInv
<1> QED BY <1>1, <1>2 DEF IInv, DriverInv

LEMMA Inductive == Spec => []IInv
BY InitIInv, NextIInv, PTL DEF Spec

\* The variables of the sketch keep their types, and it reads full buffers only.
THEOREM TypeCorrect == Spec => []TypeOK
<1>1. IInv => TypeOK
  BY DEF IInv
<1> QED BY <1>1, Inductive, PTL

\* A low INT pin is always attended to, wherever frames, the controller's mode
\* changes and the interrupt come between the sketch's steps and the driver's.
THEOREM NoneLost == Spec => []NoWakeUpLost
<1>1. IInv => NoWakeUpLost
  BY DEF IInv
<1> QED BY <1>1, Inductive, PTL

\* While it is not sleeping the node is on the bus, unless a mode request timed out.
THEOREM OnBus == Spec => []AwakeOnBus
<1>1. IInv => AwakeOnBus
  BY DEF IInv, DriverInv, PlaceInv, AwakeInv, AwakeOnBus, Awake, At, Draining
<1> QED BY <1>1, Inductive, PTL

-----------------------------------------------------------------------------
\* What the sketch does with the driver and the controller is what Mcp2515 allows,
\* so that its invariants, among them those about what a call reports, hold here.
THEOREM DriverIsUsedAsSpecified == Spec => Mcp!Spec
<1>1. Init => Mcp!Init
  BY DEF Init
<1>2. ASSUME UNCHANGED mcpVars PROVE [Mcp!Next]_Mcp!vars
  BY <1>2 DEF mcpVars, Mcp!vars
<1>3. ASSUME [Next]_vars PROVE [Mcp!Next]_Mcp!vars
  <2>1. CASE Begin
    BY <2>1 DEF Begin, Mcp!Next, Mcp!Calls
  <2>2. CASE Configure
    BY <2>2 DEF Configure, WakeUpEnabled, Mcp!Next, Mcp!Calls
  <2>3. CASE GoToSleep \/ WakeUp
    BY <2>3 DEF GoToSleep, WakeUp, Wake, Mcp!Next, Mcp!Calls
  <2>4. CASE Driver \/ ChangeMode
    BY <2>4 DEF Driver, ChangeMode, Mcp!Next
  <2>5. CASE BeginReturns \/ AttachInterrupt \/ SetupEnds \/ MCP2515_ISR
    BY <1>2, <2>5 DEF BeginReturns, AttachInterrupt, SetupEnds, MCP2515_ISR
  <2>6. CASE TakeFlag \/ CheckReceive \/ ReadStatus \/ ReadFrame
    BY <1>2, <2>6 DEF TakeFlag, CheckReceive, ReadStatus, ReadFrame
  <2>7. CASE Standby \/ SleepCpu \/ EnableTransceiver
    BY <1>2, <2>7 DEF Standby, SleepCpu, EnableTransceiver
  <2>8. CASE Receive \/ Waiting \/ UNCHANGED vars
    BY <1>2, <2>8 DEF Receive, Waiting, vars
  <2> QED BY <1>3, <2>1, <2>2, <2>3, <2>4, <2>5, <2>6, <2>7, <2>8 DEF Next, Setup, Loop
<1> QED BY <1>1, <1>3, PTL DEF Spec, Mcp!Spec

\* The proofs about Mcp2515, for the one setting the sketch begins with
DriverProofs == INSTANCE Mcp2515_proofs WITH Settings <- {CAN_500KBPS}

\* The driver the sketch uses is the one those proofs are about.
LEMMA SameDriver == /\ Mcp!Init => DriverProofs!Init
                    /\ [Mcp!Next]_Mcp!vars => [DriverProofs!Next]_DriverProofs!vars
<1>1. Mcp!Init => DriverProofs!Init
  BY DEF Mcp!Init, DriverProofs!Init, Mcp!Modes, DriverProofs!Modes
<1>2. Mcp!Calls => DriverProofs!Calls
  BY DEF Mcp!Calls, DriverProofs!Calls, Mcp!begin, DriverProofs!begin, Mcp!setMode, DriverProofs!setMode,
     Mcp!ModeToKeep, DriverProofs!ModeToKeep, Mcp!sleep, DriverProofs!sleep, Mcp!wake, DriverProofs!wake,
     Mcp!Compared, DriverProofs!Compared, Mcp!configure, DriverProofs!configure, Mcp!setSleepWakeup,
     DriverProofs!setSleepWakeup, Mcp!Call, DriverProofs!Call, Mcp!Modes, DriverProofs!Modes,
     Mcp!Configuring, DriverProofs!Configuring, Mcp!locals, DriverProofs!locals, Mcp!chip, DriverProofs!chip,
     Mcp!past, DriverProofs!past
<1>3. Mcp!Driver => DriverProofs!Driver
  BY DEF Mcp!Driver, DriverProofs!Driver, Mcp!Compare, DriverProofs!Compare, Mcp!GetMode, DriverProofs!GetMode,
     Mcp!EnableWakeInt, DriverProofs!EnableWakeInt, Mcp!SetWakeFlag, DriverProofs!SetWakeFlag,
     Mcp!RestoreWakeInt, DriverProofs!RestoreWakeInt, Mcp!ClearWakeFlag, DriverProofs!ClearWakeFlag,
     Mcp!ClearTo, DriverProofs!ClearTo, Mcp!Request, DriverProofs!Request, Mcp!Poll, DriverProofs!Poll,
     Mcp!PollOr, DriverProofs!PollOr, Mcp!TimedOut, DriverProofs!TimedOut, Mcp!Return, DriverProofs!Return,
     Mcp!Continued, DriverProofs!Continued, Mcp!Goal, DriverProofs!Goal, Mcp!Write, DriverProofs!Write,
     Mcp!ConfigureRate, DriverProofs!ConfigureRate, Mcp!Supported, DriverProofs!Supported,
     Mcp!Configuring, DriverProofs!Configuring, Mcp!locals, DriverProofs!locals, Mcp!chip, DriverProofs!chip,
     Mcp!past, DriverProofs!past, Mcp!args, DriverProofs!args
<1>4. Mcp!TakeUpMode \/ Mcp!BusActivity \/ Mcp!WakeUp
      => DriverProofs!TakeUpMode \/ DriverProofs!BusActivity \/ DriverProofs!WakeUp
  BY DEF Mcp!TakeUpMode, DriverProofs!TakeUpMode, Mcp!BusActivity, DriverProofs!BusActivity, Mcp!WakeUp,
     DriverProofs!WakeUp, Mcp!Driving, DriverProofs!Driving, Mcp!locals, DriverProofs!locals, Mcp!args,
     DriverProofs!args
<1>5. Mcp!Next => DriverProofs!Next
  BY <1>2, <1>3, <1>4 DEF Mcp!Next, DriverProofs!Next
<1>6. UNCHANGED Mcp!vars => UNCHANGED DriverProofs!vars
  BY DEF Mcp!vars, DriverProofs!vars
<1> QED BY <1>1, <1>5, <1>6

\* What the driver's invariants promise holds for the sketch too: a mode change that
\* reported success has happened, a configuration that reported success is the one the
\* controller has, and waking the controller leaves the wake interrupt as it was set.
THEOREM ReportsAreTrue == Spec => [](Mcp!ModeAsReported /\ Mcp!ConfiguredWhenOk /\ Mcp!WakeIntKept)
<1>1. DriverProofs!Mcp2515Assumption
  BY InterruptReceiverAssumption DEF DriverProofs!Mcp2515Assumption, CAN_500KBPS
<1>2. DriverProofs!Init => DriverProofs!IInv
  BY <1>1, DriverProofs!InitIInv
<1>3. DriverProofs!IInv /\ [DriverProofs!Next]_DriverProofs!vars => DriverProofs!IInv'
  BY <1>1, DriverProofs!NextIInv
<1>4. DriverProofs!IInv => DriverProofs!ModeAsReported /\ DriverProofs!ConfiguredWhenOk /\ DriverProofs!WakeIntKept
  BY DEF DriverProofs!IInv, DriverProofs!WroteInv, DriverProofs!ConfiguredWhenOk, DriverProofs!Done,
     DriverProofs!WakeIntInv, DriverProofs!WakeIntKept
<1>5. DriverProofs!ModeAsReported /\ DriverProofs!ConfiguredWhenOk /\ DriverProofs!WakeIntKept
      => Mcp!ModeAsReported /\ Mcp!ConfiguredWhenOk /\ Mcp!WakeIntKept
  BY DEF DriverProofs!ModeAsReported, Mcp!ModeAsReported, DriverProofs!ConfiguredWhenOk, Mcp!ConfiguredWhenOk,
     DriverProofs!WakeIntKept, Mcp!WakeIntKept, DriverProofs!Done, Mcp!Done, DriverProofs!Configuring,
     Mcp!Configuring, DriverProofs!Supported, Mcp!Supported
<1> QED BY <1>2, <1>3, <1>4, <1>5, SameDriver, DriverIsUsedAsSpecified, PTL DEF Mcp!Spec
=============================================================================
