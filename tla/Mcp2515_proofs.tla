----------------------------- MODULE Mcp2515_proofs -----------------------------
(***************************************************************************)
(* Proofs about Mcp2515 for every set of settings and every number of      *)
(* polls: what the driver reports is what the controller does.             *)
(*                                                                         *)
(* The inductive invariant says, beside the types, what the operation in   *)
(* progress is at (OpInv), which older request may still be on its way     *)
(* (PendingInv), where the wake flag can come from (FlagInv), where the    *)
(* user's wake interrupt is kept (WakeIntInv) and what happened between    *)
(* the two mode changes of an operation (WroteInv).                        *)
(***************************************************************************)
EXTENDS Mcp2515, TLAPS

Places == {"idle", "compare", "getmode", "enable", "flag", "restore", "clear", "request", "poll",
           "write"}

\* The two halves of the type invariant
RangesOK ==
  /\ pc \in Places /\ op \in Operations /\ result \in {"OK", "FAIL"}
  /\ setting \in Settings \cup {None} /\ target \in Modes /\ tries \in 0 .. MaxTries
  /\ mcpMode \in Modes \ {"sleep"} /\ mode \in Modes /\ pending \in Modes \cup {None}
  /\ rate \in Settings \cup {None}
FlagsOK ==
  /\ valid \in BOOLEAN /\ second \in BOOLEAN /\ waking \in BOOLEAN /\ wakeIntEnabled \in BOOLEAN
  /\ ready \in BOOLEAN /\ wakie \in BOOLEAN /\ wakif \in BOOLEAN /\ asked \in BOOLEAN
  /\ wrote \in BOOLEAN /\ failed \in BOOLEAN /\ activity \in BOOLEAN

Twofold == Configuring \cup {"begin"}

\* What the current operation is at.
OpInv ==
  /\ pc = "compare" => op \in {"sleep", "wake"}
  /\ pc = "write" => op \in Twofold /\ ~second
  /\ pc # "idle" /\ op = "sleep" => target = "sleep"
  /\ pc # "idle" /\ op = "wake" => target = mcpMode
  /\ pc # "idle" /\ op \in Twofold => target = IF second THEN mcpMode ELSE "config"

\* Where an older request may still be on its way: not where a mode was just
\* seen to be taken up, and nowhere as long as none timed out.
Settled == pc = "idle" /\ result = "OK" /\ op \in Configuring \cup {"setMode"}
PendingInv ==
  /\ pc = "poll" => pending \in {None, Goal}
  /\ pc = "write" => mode = "config"
  /\ Settled \/ pc = "write" \/ (~failed /\ pc \notin {"request", "poll"})
       => pending \in {None, mode}

\* The wake flag is set by the bus, except while the driver wakes the controller.
FlagInv ==
  wakif /\ ~activity =>
    /\ pc \in {"request", "poll"} => waking
    /\ pc = "write" => failed
    /\ ~Settled
    /\ failed \/ pc \in {"request", "poll", "restore", "clear"}

\* The user's wake interrupt is in the register, or in wakeIntEnabled.
WakeIntInv ==
  /\ pc # "idle" /\ op = "begin" => ~asked
  /\ ~failed => IF pc \in {"flag", "restore"} \/ (pc \in {"request", "poll"} /\ waking)
                THEN wakeIntEnabled = asked ELSE wakie = asked

\* What happened between the two mode changes.
WroteInv ==
  /\ second /\ valid /\ op \in Configuring => wrote
  /\ second /\ op = "begin" => rate = setting
  /\ pc = "idle" /\ result = "OK" /\ op \in Configuring => second
  /\ pc = "idle" /\ result = "OK" /\ op = "begin" => second \/ ~Supported(setting)

IInv ==
  RangesOK /\ FlagsOK /\ OpInv /\ PendingInv /\ FlagInv /\ WakeIntInv /\ WroteInv /\ ModeAsReported

\* The steps of the controller, which is external
Chip == TakeUpMode \/ BusActivity \/ WakeUp

-----------------------------------------------------------------------------
\* The variables that are not Boolean keep their types.
LEMMA RangesOK_step ==
  ASSUME RangesOK, [Next]_vars
  PROVE  RangesOK'
<1> USE Mcp2515Assumption DEF Mcp2515Assumption, RangesOK, Places, Modes, Operations,
            Configuring, Goal, args, locals, chip, past
<1>1. CASE \E s \in Settings : begin(s)
  BY <1>1 DEF begin, Call
<1>2. CASE \E m \in Modes : setMode(m)
  BY <1>2 DEF setMode, ModeToKeep, Call
<1>3. CASE sleep \/ wake
  BY <1>3 DEF sleep, wake, Compared, Call
<1>4. CASE \E o \in Configuring, v \in BOOLEAN : configure(o, v)
  BY <1>4 DEF configure, Call
<1>5. CASE \E e \in BOOLEAN : setSleepWakeup(e)
  BY <1>5 DEF setSleepWakeup, Call
<1>6. CASE Compare
  BY <1>6 DEF Compare, Return
<1>7. CASE GetMode \/ EnableWakeInt \/ SetWakeFlag
  BY <1>7 DEF GetMode, EnableWakeInt, SetWakeFlag
<1>8. CASE RestoreWakeInt \/ ClearWakeFlag
  BY <1>8 DEF RestoreWakeInt, ClearWakeFlag, ClearTo
<1>9. CASE Request
  BY <1>9 DEF Request
<1>10. CASE Poll
  <2> USE <1>10 DEF Poll, PollOr, TimedOut, Return
  <2>1. pc' \in Places /\ result' \in {"OK", "FAIL"}
    OBVIOUS
  <2>2. tries' \in 0 .. MaxTries
    OBVIOUS
  <2>3. UNCHANGED <<op, setting, target, mcpMode, mode, pending, rate>>
    OBVIOUS
  <2> QED BY <2>1, <2>2, <2>3
<1>11. CASE Write
  BY <1>11 DEF Write
<1>12. CASE ConfigureRate
  BY <1>12 DEF ConfigureRate, Return
<1>13. CASE Chip
  BY <1>13 DEF Chip, TakeUpMode, BusActivity, WakeUp, Driving
<1>14. CASE UNCHANGED vars
  BY <1>14 DEF vars
<1> QED
  BY <1>1, <1>2, <1>3, <1>4, <1>5, <1>6, <1>7, <1>8, <1>9, <1>10, <1>11, <1>12, <1>13, <1>14
  DEF Next, Calls, Driver, Chip

\* The Boolean variables stay Boolean.
LEMMA FlagsOK_step ==
  ASSUME FlagsOK, [Next]_vars
  PROVE  FlagsOK'
<1> USE DEF FlagsOK, args, locals, chip, past
<1>1. CASE \E s \in Settings : begin(s)
  BY <1>1, Zenon DEF begin, Call
<1>2. CASE \E m \in Modes : setMode(m)
  BY <1>2, Zenon DEF setMode, ModeToKeep, Call
<1>3. CASE sleep \/ wake
  BY <1>3, Zenon DEF sleep, wake, Compared, Call
<1>4. CASE \E o \in Configuring, v \in BOOLEAN : configure(o, v)
  BY <1>4, Zenon DEF configure, Call
<1>5. CASE \E e \in BOOLEAN : setSleepWakeup(e)
  BY <1>5, Zenon DEF setSleepWakeup, Call
<1>6. CASE Compare
  BY <1>6, Zenon DEF Compare, Return
<1>7. CASE GetMode \/ EnableWakeInt \/ SetWakeFlag
  <2>1. CASE GetMode
    BY <2>1, Zenon DEF GetMode
  <2>2. CASE EnableWakeInt
    BY <2>2, Zenon DEF EnableWakeInt
  <2>3. CASE SetWakeFlag
    BY <2>3, Zenon DEF SetWakeFlag
  <2> QED BY <1>7, <2>1, <2>2, <2>3
<1>8. CASE RestoreWakeInt \/ ClearWakeFlag
  BY <1>8, Zenon DEF RestoreWakeInt, ClearWakeFlag, ClearTo
<1>9. CASE Request
  BY <1>9, Zenon DEF Request, Goal
<1>10. CASE Poll
  BY <1>10, Zenon DEF Poll, PollOr, TimedOut, Return, Continued, Goal
<1>11. CASE Write
  BY <1>11, Zenon DEF Write
<1>12. CASE ConfigureRate
  BY <1>12, Zenon DEF ConfigureRate, Return
<1>13. CASE TakeUpMode \/ BusActivity \/ WakeUp
  <2>1. CASE TakeUpMode
    BY <2>1, Zenon DEF TakeUpMode, Driving
  <2>2. CASE BusActivity
    BY <2>2, Zenon DEF BusActivity, Driving
  <2>3. CASE WakeUp
    BY <2>3, Zenon DEF WakeUp, Driving
  <2> QED BY <1>13, <2>1, <2>2, <2>3 DEF Chip
<1>14. CASE UNCHANGED vars
  BY <1>14, Zenon DEF vars
<1> QED
  BY <1>1, <1>2, <1>3, <1>4, <1>5, <1>6, <1>7, <1>8, <1>9, <1>10, <1>11, <1>12, <1>13, <1>14
  DEF Next, Calls, Driver, Chip

\* Each operation keeps to its target.
LEMMA OpInv_step ==
  ASSUME OpInv, [Next]_vars
  PROVE  OpInv'
<1> USE DEF OpInv, Twofold, Configuring, args, locals, chip, past
<1>1. CASE \E s \in Settings : begin(s)
  BY <1>1 DEF begin, Call
<1>2. CASE \E m \in Modes : setMode(m)
  BY <1>2 DEF setMode, ModeToKeep, Call
<1>3. CASE sleep \/ wake
  BY <1>3 DEF sleep, wake, Compared, Call
<1>4. CASE \E o \in Configuring, v \in BOOLEAN : configure(o, v)
  BY <1>4 DEF configure, Call
<1>5. CASE \E e \in BOOLEAN : setSleepWakeup(e)
  BY <1>5 DEF setSleepWakeup, Call
<1>6. CASE Compare
  BY <1>6 DEF Compare, Return
<1>7. CASE GetMode \/ EnableWakeInt \/ SetWakeFlag
  BY <1>7 DEF GetMode, EnableWakeInt, SetWakeFlag
<1>8. CASE RestoreWakeInt \/ ClearWakeFlag
  BY <1>8 DEF RestoreWakeInt, ClearWakeFlag, ClearTo
<1>9. CASE Request
  BY <1>9 DEF Request, Goal
<1>10. CASE Poll
  BY <1>10 DEF Poll, PollOr, TimedOut, Return, Continued, Goal
<1>11. CASE Write
  BY <1>11 DEF Write
<1>12. CASE ConfigureRate
  BY <1>12 DEF ConfigureRate, Return
<1>13. CASE Chip
  BY <1>13 DEF Chip, TakeUpMode, BusActivity, WakeUp, Driving
<1>14. CASE UNCHANGED vars
  BY <1>14 DEF vars
<1> QED
  BY <1>1, <1>2, <1>3, <1>4, <1>5, <1>6, <1>7, <1>8, <1>9, <1>10, <1>11, <1>12, <1>13, <1>14
  DEF Next, Calls, Driver, Chip

\* A request overwrites the one before, so only the latest can be on its way.
LEMMA PendingInv_step ==
  ASSUME OpInv, PendingInv, [Next]_vars
  PROVE  PendingInv'
<1> USE DEF PendingInv, OpInv, Settled, Goal, Twofold, Configuring, args, locals, chip, past
<1>1. CASE \E s \in Settings : begin(s)
  BY <1>1 DEF begin, Call
<1>2. CASE \E m \in Modes : setMode(m)
  BY <1>2 DEF setMode, ModeToKeep, Call
<1>3. CASE sleep \/ wake
  BY <1>3 DEF sleep, wake, Compared, Call
<1>4. CASE \E o \in Configuring, v \in BOOLEAN : configure(o, v)
  BY <1>4 DEF configure, Call
<1>5. CASE \E e \in BOOLEAN : setSleepWakeup(e)
  BY <1>5 DEF setSleepWakeup, Call
<1>6. CASE Compare
  BY <1>6 DEF Compare, Return
<1>7. CASE GetMode \/ EnableWakeInt \/ SetWakeFlag
  BY <1>7 DEF GetMode, EnableWakeInt, SetWakeFlag
<1>8. CASE RestoreWakeInt \/ ClearWakeFlag
  BY <1>8 DEF RestoreWakeInt, ClearWakeFlag, ClearTo
<1>9. CASE Request
  BY <1>9 DEF Request
<1>10. CASE Poll
  BY <1>10 DEF Poll, PollOr, TimedOut, Return, Continued
<1>11. CASE Write
  BY <1>11 DEF Write
<1>12. CASE ConfigureRate
  BY <1>12 DEF ConfigureRate, Return
<1>13. CASE Chip
  BY <1>13 DEF Chip, TakeUpMode, BusActivity, WakeUp, Driving
<1>14. CASE UNCHANGED vars
  BY <1>14 DEF vars
<1> QED
  BY <1>1, <1>2, <1>3, <1>4, <1>5, <1>6, <1>7, <1>8, <1>9, <1>10, <1>11, <1>12, <1>13, <1>14
  DEF Next, Calls, Driver, Chip

\* The driver clears the flag it set, before it asks for the mode wanted.
LEMMA FlagInv_step ==
  ASSUME FlagsOK, OpInv, PendingInv, FlagInv, [Next]_vars
  PROVE  FlagInv'
<1> USE DEF FlagInv, FlagsOK, OpInv, PendingInv, Settled, Goal, Twofold, Configuring, args,
            locals, chip, past
<1>1. CASE \E s \in Settings : begin(s)
  BY <1>1 DEF begin, Call
<1>2. CASE \E m \in Modes : setMode(m)
  BY <1>2 DEF setMode, ModeToKeep, Call
<1>3. CASE sleep \/ wake
  BY <1>3 DEF sleep, wake, Compared, Call
<1>4. CASE \E o \in Configuring, v \in BOOLEAN : configure(o, v)
  BY <1>4 DEF configure, Call
<1>5. CASE \E e \in BOOLEAN : setSleepWakeup(e)
  BY <1>5 DEF setSleepWakeup, Call
<1>6. CASE Compare
  BY <1>6 DEF Compare, Return
<1>7. CASE GetMode \/ EnableWakeInt \/ SetWakeFlag
  BY <1>7 DEF GetMode, EnableWakeInt, SetWakeFlag
<1>8. CASE RestoreWakeInt \/ ClearWakeFlag
  BY <1>8 DEF RestoreWakeInt, ClearWakeFlag, ClearTo
<1>9. CASE Request
  BY <1>9 DEF Request
<1>10. CASE Poll
  BY <1>10 DEF Poll, PollOr, TimedOut, Return, Continued
<1>11. CASE Write
  BY <1>11 DEF Write
<1>12. CASE ConfigureRate
  BY <1>12 DEF ConfigureRate, Return
<1>13. CASE Chip
  BY <1>13 DEF Chip, TakeUpMode, BusActivity, WakeUp, Driving
<1>14. CASE UNCHANGED vars
  BY <1>14 DEF vars
<1> QED
  BY <1>1, <1>2, <1>3, <1>4, <1>5, <1>6, <1>7, <1>8, <1>9, <1>10, <1>11, <1>12, <1>13, <1>14
  DEF Next, Calls, Driver, Chip

\* The wake interrupt switched on for waking is switched back.
LEMMA WakeIntInv_step ==
  ASSUME FlagsOK, OpInv, WakeIntInv, [Next]_vars
  PROVE  WakeIntInv'
<1> USE DEF WakeIntInv, FlagsOK, OpInv, Twofold, Configuring, args, locals, chip, past
<1>1. CASE \E s \in Settings : begin(s)
  BY <1>1 DEF begin, Call
<1>2. CASE \E m \in Modes : setMode(m)
  BY <1>2 DEF setMode, ModeToKeep, Call
<1>3. CASE sleep \/ wake
  BY <1>3 DEF sleep, wake, Compared, Call
<1>4. CASE \E o \in Configuring, v \in BOOLEAN : configure(o, v)
  BY <1>4 DEF configure, Call
<1>5. CASE \E e \in BOOLEAN : setSleepWakeup(e)
  BY <1>5 DEF setSleepWakeup, Call
<1>6. CASE Compare
  BY <1>6 DEF Compare, Return
<1>7. CASE GetMode \/ EnableWakeInt \/ SetWakeFlag
  BY <1>7 DEF GetMode, EnableWakeInt, SetWakeFlag
<1>8. CASE RestoreWakeInt \/ ClearWakeFlag
  BY <1>8 DEF RestoreWakeInt, ClearWakeFlag, ClearTo
<1>9. CASE Request
  BY <1>9 DEF Request, Goal
<1>10. CASE Poll
  BY <1>10 DEF Poll, PollOr, TimedOut, Return, Continued, Goal
<1>11. CASE Write
  BY <1>11 DEF Write
<1>12. CASE ConfigureRate
  BY <1>12 DEF ConfigureRate, Return
<1>13. CASE Chip
  BY <1>13 DEF Chip, TakeUpMode, BusActivity, WakeUp, Driving
<1>14. CASE UNCHANGED vars
  BY <1>14 DEF vars
<1> QED
  BY <1>1, <1>2, <1>3, <1>4, <1>5, <1>6, <1>7, <1>8, <1>9, <1>10, <1>11, <1>12, <1>13, <1>14
  DEF Next, Calls, Driver, Chip

\* The write between the two changes finds the controller in configuration mode.
LEMMA WroteInv_step ==
  ASSUME FlagsOK, OpInv, PendingInv, WroteInv, [Next]_vars
  PROVE  WroteInv'
<1> USE DEF WroteInv, FlagsOK, OpInv, PendingInv, Twofold, Configuring, args, locals, chip, past
<1>1. CASE \E s \in Settings : begin(s)
  BY <1>1 DEF begin, Call
<1>2. CASE \E m \in Modes : setMode(m)
  BY <1>2 DEF setMode, ModeToKeep, Call
<1>3. CASE sleep \/ wake
  BY <1>3 DEF sleep, wake, Compared, Call
<1>4. CASE \E o \in Configuring, v \in BOOLEAN : configure(o, v)
  BY <1>4 DEF configure, Call
<1>5. CASE \E e \in BOOLEAN : setSleepWakeup(e)
  BY <1>5 DEF setSleepWakeup, Call
<1>6. CASE Compare
  BY <1>6 DEF Compare, Return
<1>7. CASE GetMode \/ EnableWakeInt \/ SetWakeFlag
  BY <1>7 DEF GetMode, EnableWakeInt, SetWakeFlag
<1>8. CASE RestoreWakeInt \/ ClearWakeFlag
  BY <1>8 DEF RestoreWakeInt, ClearWakeFlag, ClearTo
<1>9. CASE Request
  BY <1>9 DEF Request, Goal
<1>10. CASE Poll
  BY <1>10 DEF Poll, PollOr, TimedOut, Return, Continued, Goal
<1>11. CASE Write
  BY <1>11 DEF Write
<1>12. CASE ConfigureRate
  BY <1>12 DEF ConfigureRate, Return
<1>13. CASE Chip
  BY <1>13 DEF Chip, TakeUpMode, BusActivity, WakeUp, Driving
<1>14. CASE UNCHANGED vars
  BY <1>14 DEF vars
<1> QED
  BY <1>1, <1>2, <1>3, <1>4, <1>5, <1>6, <1>7, <1>8, <1>9, <1>10, <1>11, <1>12, <1>13, <1>14
  DEF Next, Calls, Driver, Chip

\* Success is reported for a mode seen to be taken up, which no request undoes.
LEMMA ModeAsReported_step ==
  ASSUME RangesOK, RangesOK', FlagsOK, OpInv, PendingInv, FlagInv, ModeAsReported, [Next]_vars
  PROVE  ModeAsReported'
<1> USE DEF ModeAsReported, RangesOK, FlagsOK, OpInv, PendingInv, FlagInv, Settled, Done, Goal,
            Twofold, Configuring, args, locals, chip, past
<1>1. CASE \E s \in Settings : begin(s)
  BY <1>1 DEF begin, Call
<1>2. CASE \E m \in Modes : setMode(m)
  BY <1>2 DEF setMode, ModeToKeep, Call
<1>3. CASE sleep \/ wake
  BY <1>3 DEF sleep, wake, Compared, Call
<1>4. CASE \E o \in Configuring, v \in BOOLEAN : configure(o, v)
  BY <1>4 DEF configure, Call
<1>5. CASE \E e \in BOOLEAN : setSleepWakeup(e)
  BY <1>5 DEF setSleepWakeup, Call
<1>6. CASE Compare
  BY <1>6 DEF Compare, Return
<1>7. CASE GetMode \/ EnableWakeInt \/ SetWakeFlag
  BY <1>7 DEF GetMode, EnableWakeInt, SetWakeFlag
<1>8. CASE RestoreWakeInt \/ ClearWakeFlag
  BY <1>8 DEF RestoreWakeInt, ClearWakeFlag, ClearTo
<1>9. CASE Request
  BY <1>9 DEF Request
<1>10. CASE Poll
  BY <1>10 DEF Poll, PollOr, TimedOut, Return, Continued
<1>11. CASE Write
  BY <1>11 DEF Write
<1>12. CASE ConfigureRate
  BY <1>12 DEF ConfigureRate, Return
<1>13. CASE Chip
  BY <1>13 DEF Chip, TakeUpMode, BusActivity, WakeUp, Driving
<1>14. CASE UNCHANGED vars
  BY <1>14 DEF vars
<1> QED
  BY <1>1, <1>2, <1>3, <1>4, <1>5, <1>6, <1>7, <1>8, <1>9, <1>10, <1>11, <1>12, <1>13, <1>14
  DEF Next, Calls, Driver, Chip

-----------------------------------------------------------------------------
LEMMA InitIInv == Init => IInv
<1> SUFFICES ASSUME Init PROVE IInv
  OBVIOUS
<1> USE DEF Init
<1>1. RangesOK
  BY Mcp2515Assumption DEF Mcp2515Assumption, RangesOK, Places, Modes, Operations, Configuring
<1>2. FlagsOK
  BY Zenon DEF FlagsOK
<1>3. OpInv /\ PendingInv
  BY DEF OpInv, PendingInv, Settled, Twofold, Configuring
<1>4. FlagInv
  BY DEF FlagInv
<1>5. WakeIntInv
  BY DEF WakeIntInv
<1>6. WroteInv
  BY DEF WroteInv
<1>7. ModeAsReported
  BY DEF ModeAsReported, Done
<1> QED BY <1>1, <1>2, <1>3, <1>4, <1>5, <1>6, <1>7 DEF IInv

LEMMA NextIInv == IInv /\ [Next]_vars => IInv'
<1> SUFFICES ASSUME IInv, [Next]_vars PROVE IInv'
  OBVIOUS
<1>1. RangesOK' /\ FlagsOK' /\ OpInv'
  BY RangesOK_step, FlagsOK_step, OpInv_step DEF IInv
<1>2. PendingInv' /\ FlagInv' /\ WakeIntInv' /\ WroteInv'
  BY PendingInv_step, FlagInv_step, WakeIntInv_step, WroteInv_step DEF IInv
<1>3. ModeAsReported'
  BY <1>1, ModeAsReported_step DEF IInv
<1> QED BY <1>1, <1>2, <1>3 DEF IInv

LEMMA Inductive == Spec => []IInv
BY InitIInv, NextIInv, PTL DEF Spec

\* All variables keep their types.
THEOREM TypeCorrect == Spec => []TypeOK
<1>1. IInv => TypeOK
  BY DEF IInv, TypeOK, RangesOK, FlagsOK, Places
<1> QED BY <1>1, Inductive, PTL

\* An operation that reports success leaves the controller in the mode it stands
\* for, whenever the controller takes up requests, sleeps and wakes.
THEOREM ModeIsAsReported == Spec => []ModeAsReported
<1>1. IInv => ModeAsReported
  BY DEF IInv
<1> QED BY <1>1, Inductive, PTL

\* Masks, filters, pin functions and the speed have reached the controller when
\* they are reported as set.
THEOREM ConfiguredIfOk == Spec => []ConfiguredWhenOk
<1>1. IInv => ConfiguredWhenOk
  BY DEF IInv, WroteInv, ConfiguredWhenOk, Done
<1> QED BY <1>1, Inductive, PTL

\* Unless a mode request timed out the wake interrupt is as the user set it.
THEOREM WakeIntIsKept == Spec => []WakeIntKept
<1>1. IInv => WakeIntKept
  BY DEF IInv, WakeIntInv, WakeIntKept
<1> QED BY <1>1, Inductive, PTL
=============================================================================
