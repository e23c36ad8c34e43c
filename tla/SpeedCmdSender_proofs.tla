------------------------- MODULE SpeedCmdSender_proofs -------------------------
(***************************************************************************)
(* Proofs about the speed command sender: about SpeedCmdSender, which has  *)
(* no size parameters, for every interleaving and every number of cycles,  *)
(* and about CycleTimer, the clock of its real-time thread and of the      *)
(* position request sender's, for every cycle time.                        *)
(***************************************************************************)
EXTENDS SpeedCmdSender, CycleTimer, TLAPS

USE DEF fwd, rev, Directions, Signals, Threads

\* Every kind of step of Next, and what it leaves alone.
LEMMA Steps ==
  ASSUME Next
  PROVE  \/ Setup \/ (\E d \in Directions : Key(d)) \/ ReadEnds
         \/ RT \/ (\E s \in Signals : Signal(s))
         \/ (\E t \in Threads : TtyReset(t) \/ Exit(t)) \/ UNCHANGED vars
  BY DEF Next, Main, Leaving, Finished

\* Truth values and the rest of the type invariant apart: they are for
\* different provers.
FlagsOK == running \in BOOLEAN /\ tios_saved_valid \in BOOLEAN
RangesOK ==
  /\ main \in {"socket", "cbreak", "valid", "mlock", "attr", "create", "read", "join"} \cup Signals
  /\ rt \in {"none", "affinity", "gettime", "test_rev", "test_fwd", "send", "sleep"}
  /\ bail \in [Threads -> {"no", "reset", "exit"}]
  /\ handlers \subseteq Signals
  /\ tty \in {"original", "cbreak"}
  /\ dir \in Directions /\ cmd \in Directions /\ dirs \subseteq Directions
  /\ late \in 0 .. 2

LEMMA FlagsStep == FlagsOK /\ [Next]_vars => FlagsOK'
<1> SUFFICES ASSUME FlagsOK, [Next]_vars PROVE FlagsOK'
  OBVIOUS
<1> USE DEF FlagsOK
<1>1. CASE UNCHANGED <<running, ttyVars>>
  BY <1>1 DEF ttyVars
<1>2. CASE SetupFails \/ SetupStep \/ InstallHandler \/ CreateThread
  BY <1>1, <1>2 DEF SetupFails, MainFails, SetupStep, InstallHandler, CreateThread, ttyVars
<1>3. CASE tty_cbreak \/ SaveValid
  BY <1>3, Zenon DEF tty_cbreak, SaveValid
<1>4. CASE ReadEnds \/ (\E d \in Directions : Key(d)) \/ UNCHANGED vars
  BY <1>1, <1>4 DEF ReadEnds, Key, vars, ttyVars
<1>5. CASE RT
  BY <1>1, <1>5 DEF RT, RtFails, SetAffinity, BeginCycle, TestRev, TestFwd, send_step_command,
                    RtOnly, ttyVars
<1>6. CASE \E s \in Signals : Signal(s)
  BY <1>6, Zenon DEF Signal, ttyVars
<1>7. CASE \E t \in Threads : TtyReset(t) \/ Exit(t)
  BY <1>7, Zenon DEF TtyReset, Exit, ttyVars
<1> QED BY <1>2, <1>3, <1>4, <1>5, <1>6, <1>7, Steps DEF Setup

LEMMA RangesStep == RangesOK /\ [Next]_vars => RangesOK'
<1> SUFFICES ASSUME RangesOK, [Next]_vars PROVE RangesOK'
  OBVIOUS
<1> USE DEF RangesOK, ttyVars, rtVars, MainRuns, Bailout
<1>1. CASE SetupFails
  BY <1>1 DEF SetupFails, MainFails
<1>2. CASE SetupStep
  BY <1>2 DEF SetupStep, After
<1>3. CASE InstallHandler
  BY <1>3 DEF InstallHandler, After
<1>4. CASE tty_cbreak \/ SaveValid \/ CreateThread \/ ReadEnds
  BY <1>4 DEF tty_cbreak, SaveValid, CreateThread, ReadEnds
<1>5. CASE \E d \in Directions : Key(d)
  BY <1>5 DEF Key
<1>6. CASE RtFails
  BY <1>6 DEF RtFails, RtOnly
<1>7. CASE SetAffinity \/ BeginCycle \/ TestRev \/ TestFwd
  BY <1>7 DEF SetAffinity, BeginCycle, TestRev, TestFwd, RtOnly
<1>8. CASE send_step_command
  BY <1>8 DEF send_step_command, RtOnly
<1>9. CASE \E s \in Signals : Signal(s)
  BY <1>9 DEF Signal
<1>10. CASE \E t \in Threads : TtyReset(t) \/ Exit(t)
  <2> PICK t \in Threads : TtyReset(t) \/ Exit(t)
    BY <1>10
  <2>1. tty' \in {"original", "cbreak"}
    BY Zenon DEF TtyReset, Exit
  <2>2. bail' \in [Threads -> {"no", "reset", "exit"}]
    BY DEF TtyReset, Exit
  <2>3. UNCHANGED <<main, handlers, rtVars, dir>>
    BY DEF TtyReset, Exit
  <2> QED BY <2>1, <2>2, <2>3
<1>11. CASE UNCHANGED vars
  BY <1>11 DEF vars
<1> QED BY <1>1, <1>2, <1>3, <1>4, <1>5, <1>6, <1>7, <1>8, <1>9, <1>10, <1>11, Steps DEF Setup, RT

\* Every variable keeps to its range.
THEOREM TypeCorrect == Spec => []TypeOK
<1>1. Init => FlagsOK
  BY DEF Init, FlagsOK
<1>2. Init => RangesOK
  BY DEF Init, RangesOK
<1>3. FlagsOK /\ RangesOK => TypeOK
  BY DEF FlagsOK, RangesOK, TypeOK
<1> QED BY <1>1, <1>2, <1>3, FlagsStep, RangesStep, PTL DEF Spec

-----------------------------------------------------------------------------
\* What one cycle has seen of dir: until the tests are over the current value
\* is among the values seen, and the second test is reached only if the first
\* one saw something else than reverse.
DirInv ==
  /\ rt \in {"test_rev", "test_fwd"} => cmd = 0 /\ dir \in dirs
  /\ rt = "test_fwd" => dirs # {rev}
  /\ rt = "send" => cmd # 0 /\ cmd \in dirs
  /\ CycleFollowsDir

LEMMA DirStep == TypeOK /\ DirInv /\ [Next]_vars => DirInv'
<1> SUFFICES ASSUME TypeOK, DirInv, [Next]_vars PROVE DirInv'
  OBVIOUS
<1> USE DEF DirInv, CycleFollowsDir
<1>1. CASE UNCHANGED <<rtVars, dir>>
  BY <1>1 DEF rtVars
<1>2. CASE CreateThread
  BY <1>2 DEF CreateThread
<1>3. CASE \E d \in Directions : Key(d)
  BY <1>3 DEF Key, TypeOK
<1>4. CASE SetAffinity
  BY <1>4 DEF SetAffinity, RtOnly
<1>5. CASE BeginCycle
  BY <1>5 DEF BeginCycle, RtOnly
<1>6. CASE TestRev
  BY <1>6 DEF TestRev, RtOnly, TypeOK
<1>7. CASE TestFwd
  BY <1>7 DEF TestFwd, RtOnly, TypeOK
<1>8. CASE send_step_command
  BY <1>8 DEF send_step_command, RtOnly
<1>9. CASE SetupFails \/ SetupStep \/ InstallHandler \/ tty_cbreak \/ SaveValid \/ ReadEnds
  BY <1>1, <1>9 DEF SetupFails, MainFails, SetupStep, InstallHandler, tty_cbreak, SaveValid,
                    ReadEnds, rtVars
<1>10. CASE RtFails \/ (\E s \in Signals : Signal(s)) \/ (\E t \in Threads : TtyReset(t) \/ Exit(t))
  BY <1>1, <1>10 DEF RtFails, RtOnly, Signal, TtyReset, Exit, rtVars
<1>11. CASE UNCHANGED vars
  BY <1>1, <1>11 DEF vars, rtVars
<1> QED BY <1>2, <1>3, <1>4, <1>5, <1>6, <1>7, <1>8, <1>9, <1>10, <1>11, Steps DEF Setup, RT

\* The two reads of dir in a cycle never make up a command nobody selected.
THEOREM CommandsFollowDir == Spec => []CycleFollowsDir
<1>1. Init => DirInv
  BY DEF Init, DirInv, CycleFollowsDir
<1>2. DirInv => CycleFollowsDir
  BY DEF DirInv
<1> QED BY <1>1, <1>2, DirStep, TypeCorrect, PTL DEF Spec

-----------------------------------------------------------------------------
\* A command can be under way when stop is selected, but no second one.
StopInv == StopsPromptly /\ (dir = 0 /\ rt = "send" => late = 0)

LEMMA StopStep == TypeOK /\ StopInv /\ [Next]_vars => StopInv'
<1> SUFFICES ASSUME TypeOK, StopInv, [Next]_vars PROVE StopInv'
  OBVIOUS
<1> USE DEF StopInv, StopsPromptly
<1>1. CASE UNCHANGED <<rtVars, dir>>
  BY <1>1 DEF rtVars
<1>2. CASE CreateThread \/ SetAffinity \/ BeginCycle
  BY <1>2 DEF CreateThread, SetAffinity, BeginCycle, RtOnly
<1>3. CASE \E d \in Directions : Key(d)
  BY <1>3 DEF Key
<1>4. CASE TestRev \/ TestFwd
  BY <1>4 DEF TestRev, TestFwd, RtOnly
<1>5. CASE send_step_command
  BY <1>5 DEF send_step_command, RtOnly
<1>6. CASE SetupFails \/ SetupStep \/ InstallHandler \/ tty_cbreak \/ SaveValid \/ ReadEnds
  BY <1>1, <1>6 DEF SetupFails, MainFails, SetupStep, InstallHandler, tty_cbreak, SaveValid,
                    ReadEnds, rtVars
<1>7. CASE RtFails \/ (\E s \in Signals : Signal(s)) \/ (\E t \in Threads : TtyReset(t) \/ Exit(t))
  BY <1>1, <1>7 DEF RtFails, RtOnly, Signal, TtyReset, Exit, rtVars
<1>8. CASE UNCHANGED vars
  BY <1>1, <1>8 DEF vars, rtVars
<1> QED BY <1>2, <1>3, <1>4, <1>5, <1>6, <1>7, <1>8, Steps DEF Setup, RT

\* At most one step follows the selection of stop.
THEOREM StopIsPrompt == Spec => []StopsPromptly
<1>1. Init => StopInv
  BY DEF Init, StopInv, StopsPromptly
<1>2. StopInv => StopsPromptly
  BY DEF StopInv
<1> QED BY <1>1, <1>2, StopStep, TypeCorrect, PTL DEF Spec

-----------------------------------------------------------------------------
\* The terminal changes only while the main thread is alone and nobody has
\* called bailout(), and once its state is saved every signal is caught.
HandlersInv ==
  /\ main = "SIGTERM" => "SIGINT" \in handlers
  /\ main = "SIGQUIT" => {"SIGINT", "SIGTERM"} \subseteq handlers
  /\ main \notin {"socket"} \cup Signals => handlers = Signals
AloneInv ==
  /\ rt = "none" => bail["rt"] = "no"
  /\ main \notin {"read", "join"} => rt = "none"
  /\ main \in {"socket", "cbreak", "valid"} \cup Signals => ~tios_saved_valid
ResetInv == tios_saved_valid => \A t \in Threads : bail[t] = "exit" => tty = "original"
TtyInv == HandlersInv /\ AloneInv /\ ResetInv /\ SavedTtyRestored

LEMMA HandlersStep == TypeOK /\ HandlersInv /\ [Next]_vars => HandlersInv'
<1> SUFFICES ASSUME TypeOK, HandlersInv, [Next]_vars PROVE HandlersInv'
  OBVIOUS
<1> USE DEF HandlersInv
<1>1. CASE UNCHANGED <<main, handlers>>
  BY <1>1
<1>2. CASE SetupStep
  BY <1>2 DEF SetupStep, After
<1>3. CASE InstallHandler
  <2>1. main \in Signals /\ handlers' = handlers \cup {main} /\ main' = After[main]
    BY <1>3 DEF InstallHandler
  <2>2. CASE main = "SIGINT"
    <3>1. main' = "SIGTERM"
      BY <2>1, <2>2 DEF After
    <3> QED BY <2>1, <2>2, <3>1
  <2>3. CASE main = "SIGTERM"
    <3>1. main' = "SIGQUIT"
      BY <2>1, <2>3 DEF After
    <3> QED BY <2>1, <2>3, <3>1
  <2>4. CASE main = "SIGQUIT"
    <3>1. main' = "cbreak"
      BY <2>1, <2>4 DEF After
    <3>2. handlers' = Signals
      BY <2>1, <2>4 DEF TypeOK
    <3> QED BY <3>1, <3>2
  <2> QED BY <2>1, <2>2, <2>3, <2>4
<1>4. CASE tty_cbreak \/ SaveValid \/ CreateThread \/ ReadEnds
  BY <1>4 DEF tty_cbreak, SaveValid, CreateThread, ReadEnds
<1>5. CASE SetupFails \/ RT \/ UNCHANGED vars
  BY <1>1, <1>5 DEF SetupFails, MainFails, RT, RtFails, SetAffinity, BeginCycle, TestRev,
                    TestFwd, send_step_command, RtOnly, vars
<1>6. CASE (\E d \in Directions : Key(d)) \/ (\E s \in Signals : Signal(s))
             \/ (\E t \in Threads : TtyReset(t) \/ Exit(t))
  BY <1>1, <1>6 DEF Key, Signal, TtyReset, Exit
<1> QED BY <1>2, <1>3, <1>4, <1>5, <1>6, Steps DEF Setup

LEMMA AloneStep == TypeOK /\ AloneInv /\ [Next]_vars => AloneInv'
<1> SUFFICES ASSUME TypeOK, AloneInv, [Next]_vars PROVE AloneInv'
  OBVIOUS
<1> USE DEF AloneInv, TypeOK, rtVars, ttyVars, Bailout
<1>1. CASE SetupFails
  BY <1>1 DEF SetupFails, MainFails
<1>2. CASE SetupStep \/ InstallHandler
  BY <1>2 DEF SetupStep, InstallHandler, After
<1>3. CASE tty_cbreak \/ SaveValid \/ CreateThread \/ ReadEnds
  BY <1>3 DEF tty_cbreak, SaveValid, CreateThread, ReadEnds
<1>4. CASE RT
  BY <1>4 DEF RT, RtFails, SetAffinity, BeginCycle, TestRev, TestFwd, send_step_command, RtOnly
<1>5. CASE (\E d \in Directions : Key(d)) \/ UNCHANGED vars
  BY <1>5 DEF Key, vars
<1>6. CASE \E s \in Signals : Signal(s)
  <2>1. UNCHANGED <<main, rt, tios_saved_valid>>
    BY <1>6 DEF Signal
  <2>2. bail'["rt"] = bail["rt"]
    BY <1>6 DEF Signal
  <2> QED BY <2>1, <2>2
<1>7. CASE \E t \in Threads : TtyReset(t) \/ Exit(t)
  BY <1>7 DEF TtyReset, Exit
<1> QED BY <1>1, <1>2, <1>3, <1>4, <1>5, <1>6, <1>7, Steps DEF Setup

LEMMA ResetStep ==
  TypeOK /\ TtyInv /\ [Next]_vars => ResetInv' /\ SavedTtyRestored'
<1> SUFFICES ASSUME TypeOK, TtyInv, [Next]_vars PROVE ResetInv' /\ SavedTtyRestored'
  OBVIOUS
<1> USE DEF TtyInv, ResetInv, SavedTtyRestored
<1>1. CASE UNCHANGED <<running, bail, ttyVars>>
  BY <1>1 DEF ttyVars
<1>2. CASE SetupFails \/ RtFails
  BY <1>2 DEF SetupFails, MainFails, RtFails, RtRuns, RtOnly, MainRuns, Bailout, TypeOK, ttyVars
<1>3. CASE tty_cbreak
  BY <1>3 DEF tty_cbreak, AloneInv
<1>4. CASE SaveValid
  <2>1. \A t \in Threads : bail[t] = "no"
    BY <1>4 DEF SaveValid, MainRuns, AloneInv
  <2>2. running' /\ bail' = bail
    BY <1>4 DEF SaveValid, MainRuns
  <2> QED BY <2>1, <2>2
<1>5. CASE \E s \in Signals : Signal(s)
  <2> PICK s \in Signals : Signal(s)
    BY <1>5
  <2>1. CASE s \in handlers /\ Bailout("handler") /\ UNCHANGED running
    <3>1. UNCHANGED <<running, tty, tios_saved_valid>>
      BY <2>1 DEF Signal, ttyVars
    <3>2. \A t \in Threads : bail'[t] = "exit" => bail[t] = "exit"
      BY <2>1 DEF Bailout, TypeOK
    <3> QED BY <3>1, <3>2
  <2>2. CASE s \notin handlers /\ running' = FALSE /\ UNCHANGED bail
    <3>1. ~tios_saved_valid /\ UNCHANGED ttyVars
      BY <2>2 DEF Signal, HandlersInv, AloneInv
    <3> QED BY <3>1 DEF ttyVars
  <2> QED BY <2>1, <2>2 DEF Signal
<1>6. CASE \E t \in Threads : TtyReset(t)
  BY <1>6 DEF TtyReset, BailoutRuns, TypeOK
<1>7. CASE \E t \in Threads : Exit(t)
  BY <1>7 DEF Exit, ttyVars
<1>8. CASE SetupStep \/ InstallHandler \/ CreateThread \/ ReadEnds \/ (\E d \in Directions : Key(d))
  BY <1>1, <1>8 DEF SetupStep, InstallHandler, CreateThread, ReadEnds, Key
<1>9. CASE SetAffinity \/ BeginCycle \/ TestRev \/ TestFwd \/ send_step_command \/ UNCHANGED vars
  BY <1>1, <1>9 DEF SetAffinity, BeginCycle, TestRev, TestFwd, send_step_command, RtOnly, vars, ttyVars
<1> QED BY <1>2, <1>3, <1>4, <1>5, <1>6, <1>7, <1>8, <1>9, Steps DEF Setup, RT

\* However the process ends, a terminal state that was saved is restored.
THEOREM SavedTtyIsRestored == Spec => []SavedTtyRestored
<1>1. Init => TtyInv
  BY DEF Init, TtyInv, HandlersInv, AloneInv, ResetInv, SavedTtyRestored
<1>2. TypeOK /\ TtyInv /\ [Next]_vars => TtyInv'
  BY HandlersStep, AloneStep, ResetStep DEF TtyInv
<1>3. TtyInv => SavedTtyRestored
  BY DEF TtyInv
<1> QED BY <1>1, <1>2, <1>3, TypeCorrect, PTL DEF Spec
-----------------------------------------------------------------------------
(* The clock of the real-time thread, for every cycle time. *)

LEMMA DivMod ==
  ASSUME NEW d \in Nat, d > 0, NEW t \in Nat
  PROVE  /\ t \div d \in Nat /\ t % d \in 0 .. d - 1
         /\ t = (d * (t \div d)) + (t % d)
<1>1. t = (d * (t \div d)) + (t % d)
  OBVIOUS
<1>2. t \div d \in Nat /\ t % d \in 0 .. d - 1
  OBVIOUS
<1> QED BY <1>1, <1>2

\* Splitting nanoseconds into seconds and a remainder loses nothing.
LEMMA SplitNanos ==
  ASSUME NEW t \in Nat
  PROVE  /\ t \div NsPerSec \in Nat /\ t % NsPerSec \in 0 .. NsPerSec - 1
         /\ ((t \div NsPerSec) * NsPerSec) + (t % NsPerSec) = t
<1>1. NsPerSec \in Nat /\ NsPerSec > 0
  BY TimerAssumption DEF TimerAssumption
<1>2. /\ t \div NsPerSec \in Nat /\ t % NsPerSec \in 0 .. NsPerSec - 1
      /\ t = (NsPerSec * (t \div NsPerSec)) + (t % NsPerSec)
  BY <1>1, DivMod
<1>3. \A q \in Nat : q * NsPerSec = NsPerSec * q
  BY <1>1
<1> QED BY <1>1, <1>2, <1>3

\* next_cycle_start adds exactly one cycle and leaves a valid timespec.
LEMMA NextCycleStart ==
  ASSUME NEW t \in [tv_sec : Nat, tv_nsec : 0 .. NsPerSec - 1], NEW c \in Nat
  PROVE  /\ next_cycle_start(t, c) \in [tv_sec : Nat, tv_nsec : 0 .. NsPerSec - 1]
         /\ Nanos(next_cycle_start(t, c)) = Nanos(t) + c
<1> DEFINE x == t.tv_nsec + c
<1> DEFINE q == x \div NsPerSec
<1> DEFINE r == x % NsPerSec
<1>1. x \in Nat /\ t.tv_sec \in Nat /\ NsPerSec \in Nat
  BY TimerAssumption DEF TimerAssumption
<1>2. q \in Nat /\ r \in 0 .. NsPerSec - 1 /\ q * NsPerSec + r = x
  BY <1>1, SplitNanos
<1>3. next_cycle_start(t, c) = [tv_sec |-> t.tv_sec + q, tv_nsec |-> r]
  BY DEF next_cycle_start
<1> HIDE DEF q, r
<1>4. next_cycle_start(t, c) \in [tv_sec : Nat, tv_nsec : 0 .. NsPerSec - 1]
  BY <1>1, <1>2, <1>3
<1>5. Nanos(next_cycle_start(t, c)) = (t.tv_sec + q) * NsPerSec + r
  BY <1>3 DEF Nanos
<1>6. (t.tv_sec + q) * NsPerSec = t.tv_sec * NsPerSec + q * NsPerSec
  BY <1>1, <1>2
<1>7. t.tv_sec * NsPerSec \in Nat /\ q * NsPerSec \in Nat
  BY <1>1, <1>2
<1>8. Nanos(t) = t.tv_sec * NsPerSec + t.tv_nsec /\ t.tv_nsec \in Nat
  BY TimerAssumption DEF Nanos, TimerAssumption
<1> QED BY <1>2, <1>4, <1>5, <1>6, <1>7, <1>8

TimerInv == TimespecOK /\ NoDrift /\ NeverEarly /\ (pc = "gettime" => n = 0)

LEMMA InitTimerInv == TimerInit => TimerInv
<1> SUFFICES ASSUME TimerInit PROVE TimerInv
  OBVIOUS
<1>1. ts \in [tv_sec : Nat, tv_nsec : 0 .. NsPerSec - 1]
  BY SplitNanos DEF TimerInit, Timespec
<1> QED BY <1>1, TimerAssumption
        DEF TimerInit, TimerInv, TimespecOK, NoDrift, NeverEarly, TimerAssumption

LEMMA NextTimerInv == TimerInv /\ [TimerNext]_timerVars => TimerInv'
<1> SUFFICES ASSUME TimerInv, [TimerNext]_timerVars PROVE TimerInv'
  OBVIOUS
<1> USE TimerAssumption DEF TimerAssumption, TimerInv
<1>1. CASE GetStartTime
  <2>1. /\ Timespec(now) \in [tv_sec : Nat, tv_nsec : 0 .. NsPerSec - 1]
        /\ Nanos(Timespec(now)) = now
    BY SplitNanos DEF Timespec, Nanos, TimespecOK
  <2> QED BY <1>1, <2>1 DEF GetStartTime, TimespecOK, NoDrift, NeverEarly
<1>2. CASE Work
  <2>1. /\ ts' \in [tv_sec : Nat, tv_nsec : 0 .. NsPerSec - 1]
        /\ Nanos(ts') = Nanos(ts) + CycleTime
    BY <1>2, NextCycleStart DEF Work, TimespecOK
  <2>2. (n + 1) * CycleTime = n * CycleTime + CycleTime
    BY DEF TimespecOK
  <2>3. NoDrift'
    BY <1>2, <2>1, <2>2 DEF Work, TimespecOK, NoDrift
  <2> QED BY <1>2, <2>1, <2>3 DEF Work, TimespecOK, NeverEarly
<1>3. CASE WakeUp BY <1>3 DEF WakeUp, TimespecOK, NoDrift, NeverEarly
<1>4. CASE Tick BY <1>4 DEF Tick, TimespecOK, NoDrift, NeverEarly
<1>5. CASE UNCHANGED timerVars BY <1>5 DEF timerVars, TimespecOK, NoDrift, NeverEarly
<1> QED BY <1>1, <1>2, <1>3, <1>4, <1>5 DEF TimerNext, Thread, ClockEnd

\* The timespec stays one that clock_nanosleep accepts, for every cycle time.
THEOREM TimerType == TimerSpec => []TimespecOK
<1>1. TimerInv => TimespecOK BY DEF TimerInv
<1> QED BY <1>1, InitTimerInv, NextTimerInv, PTL DEF TimerSpec

\* No drift accumulates, for every cycle time and any lateness.
THEOREM TimerNoDrift == TimerSpec => []NoDrift
<1>1. TimerInv => NoDrift BY DEF TimerInv
<1> QED BY <1>1, InitTimerInv, NextTimerInv, PTL DEF TimerSpec

\* No command is sent before its cycle starts.
THEOREM TimerNeverEarly == TimerSpec => []NeverEarly
<1>1. TimerInv => NeverEarly BY DEF TimerInv
<1> QED BY <1>1, InitTimerInv, NextTimerInv, PTL DEF TimerSpec
=============================================================================
