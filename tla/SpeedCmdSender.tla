---------------------------- MODULE SpeedCmdSender ----------------------------
(***************************************************************************)
(* speedcmd-sender.c: the main thread sets the program up and then turns   *)
(* key presses into a motor direction; the real-time thread reads the      *)
(* shared direction once per cycle, without a lock, and sends a step       *)
(* command on the CAN bus.  Three signals are caught; their handler, like  *)
(* every error path of either thread, leaves through bailout().            *)
(*                                                                         *)
(* When a cycle begins is the subject of CycleTimer.  Whether write() puts *)
(* the frame on the bus makes no difference to the program.                *)
(***************************************************************************)
EXTENDS Integers

fwd == 1
rev == -1
Directions == {rev, 0, fwd}                     \* values of dir
Signals == {"SIGINT", "SIGTERM", "SIGQUIT"}
Threads == {"main", "rt", "handler"}            \* who may call bailout()

VARIABLES
  running,             \* the process exists
  main,                \* what the main thread does next
  rt,                  \* what the real-time thread does next; "none" before it exists
  bail,                \* how far each caller of bailout() is
  handlers,            \* signals whose handler is installed
  tty,                 \* terminal state: "original" or "cbreak"
  tios_saved_valid,
  dir,
  cmd,                 \* command of this cycle, 0 while there is none
  dirs,                \* history: values of dir while this cycle looked at it
  late                 \* history: commands written since dir became 0 (at most 2 counted)
vars == <<running, main, rt, bail, handlers, tty, tios_saved_valid, dir, cmd, dirs, late>>
rtVars == <<rt, cmd, dirs, late>>
ttyVars == <<tty, tios_saved_valid>>

After == [socket |-> "SIGINT", SIGINT |-> "SIGTERM", SIGTERM |-> "SIGQUIT",
          SIGQUIT |-> "cbreak", mlock |-> "attr", attr |-> "create"]

Init ==
  /\ running = TRUE
  /\ main = "socket" /\ rt = "none"
  /\ bail = [t \in Threads |-> "no"]
  /\ handlers = {}
  /\ tty = "original" /\ tios_saved_valid = FALSE
  /\ dir = 0 /\ cmd = 0 /\ dirs = {0} /\ late = 0

\* bailout(1) or bailout(0) called by t
Bailout(t) == bail' = [bail EXCEPT ![t] = "reset"]

\* The handler runs on the main thread as long as there is no other.
MainRuns ==
  /\ running /\ bail["main"] = "no"
  /\ rt = "none" => bail["handler"] = "no"

MainFails(steps) ==
  /\ MainRuns /\ main \in steps
  /\ Bailout("main")
  /\ UNCHANGED <<running, main, rt, handlers, tty, tios_saved_valid, dir, cmd, dirs, late>>

SetupFails == MainFails({"socket", "cbreak", "mlock", "attr", "create", "join"} \cup Signals)

SetupStep ==
  /\ MainRuns /\ main \in {"socket", "mlock", "attr"}
  /\ main' = After[main]
  /\ UNCHANGED <<running, bail, handlers>> /\ UNCHANGED <<rtVars, dir, ttyVars>>

InstallHandler ==
  /\ MainRuns /\ main \in Signals
  /\ handlers' = handlers \cup {main}
  /\ main' = After[main]
  /\ UNCHANGED <<running, bail>> /\ UNCHANGED <<rtVars, dir, ttyVars>>

tty_cbreak ==
  /\ MainRuns /\ main = "cbreak"
  /\ tty' = "cbreak" /\ main' = "valid"
  /\ UNCHANGED <<running, bail, handlers, tios_saved_valid>> /\ UNCHANGED <<rtVars, dir>>

SaveValid ==
  /\ MainRuns /\ main = "valid"
  /\ tios_saved_valid' = TRUE /\ main' = "mlock"
  /\ UNCHANGED <<running, bail, handlers, tty>> /\ UNCHANGED <<rtVars, dir>>

CreateThread ==
  /\ MainRuns /\ main = "create"
  /\ main' = "read" /\ rt' = "affinity"
  /\ UNCHANGED <<running, bail, handlers, ttyVars>> /\ UNCHANGED <<dir, cmd, dirs, late>>

\* 'f', 'r' and 's' select a direction; other keys change nothing.
Key(d) ==
  /\ MainRuns /\ main = "read"
  /\ dir' = d
  /\ dirs' = IF rt \in {"test_rev", "test_fwd"} THEN dirs \cup {d} ELSE dirs
  /\ late' = IF d = dir THEN late ELSE 0
  /\ UNCHANGED <<running, main, rt, bail, handlers, ttyVars, cmd>>

\* The terminal is gone: the main thread waits for a thread that never ends.
ReadEnds ==
  /\ MainRuns /\ main = "read"
  /\ main' = "join"
  /\ UNCHANGED <<running, bail, handlers, ttyVars>> /\ UNCHANGED <<rtVars, dir>>

Setup == SetupFails \/ SetupStep \/ InstallHandler \/ tty_cbreak \/ SaveValid \/ CreateThread
Main == Setup \/ (\E d \in Directions : Key(d)) \/ ReadEnds

-----------------------------------------------------------------------------
RtRuns == running /\ bail["rt"] = "no"
RtOnly == UNCHANGED <<running, main, handlers, ttyVars, dir>>

\* pthread_setaffinity_np or clock_nanosleep fails.
RtFails ==
  /\ RtRuns /\ rt \in {"affinity", "sleep"}
  /\ Bailout("rt")
  /\ UNCHANGED rtVars /\ RtOnly

SetAffinity ==
  /\ RtRuns /\ rt = "affinity"
  /\ rt' = "gettime"
  /\ UNCHANGED <<cmd, dirs, late, bail>> /\ RtOnly

\* A cycle begins: at the start time and after each sleep.
BeginCycle_hoisted ==                                              \* mutant
  /\ RtRuns /\ rt \in {"gettime", "sleep"}
  /\ rt' = IF cmd = 0 THEN "test_rev" ELSE "send"
  /\ dirs' = {dir} /\ UNCHANGED <<cmd, late, bail>> /\ RtOnly
BeginCycle ==
  /\ RtRuns /\ rt \in {"gettime", "sleep"}
  /\ rt' = "test_rev"
  /\ cmd' = 0 /\ dirs' = {dir}
  /\ UNCHANGED <<late, bail>> /\ RtOnly

\* if (dir == -1)
TestRev ==
  /\ RtRuns /\ rt = "test_rev"
  /\ \/ dir = rev /\ cmd' = rev /\ rt' = "send"
     \/ dir # rev /\ rt' = "test_fwd" /\ UNCHANGED cmd
  /\ UNCHANGED <<dirs, late, bail>> /\ RtOnly

\* else if (dir == 1): a second read of dir
TestFwd_else ==                                                    \* mutant
  /\ RtRuns /\ rt = "test_fwd" /\ cmd' = fwd /\ rt' = "send"
  /\ UNCHANGED <<dirs, late, bail>> /\ RtOnly
TestFwd ==
  /\ RtRuns /\ rt = "test_fwd"
  /\ \/ dir = fwd /\ cmd' = fwd /\ rt' = "send"
     \/ dir # fwd /\ rt' = "sleep" /\ UNCHANGED cmd
  /\ UNCHANGED <<dirs, late, bail>> /\ RtOnly

send_step_command ==
  /\ RtRuns /\ rt = "send"
  /\ rt' = "sleep"
  /\ late' = IF dir = 0 /\ late < 2 THEN late + 1 ELSE late
  /\ UNCHANGED <<cmd, dirs, bail>> /\ RtOnly

RT == RtFails \/ SetAffinity \/ BeginCycle \/ TestRev \/ TestFwd \/ send_step_command

-----------------------------------------------------------------------------
\* A signal runs its handler, or ends the process when there is none yet.
Signal(s) ==
  /\ running /\ bail["handler"] = "no"
  /\ \/ s \in handlers /\ Bailout("handler") /\ UNCHANGED running
     \/ s \notin handlers /\ running' = FALSE /\ UNCHANGED bail
  /\ UNCHANGED <<main, rt, handlers, ttyVars, dir, cmd, dirs, late>>

\* A thread that has called bailout() waits while the handler interrupts it.
BailoutRuns(t) ==
  /\ running
  /\ t = "main" /\ rt = "none" => bail["handler"] = "no"

TtyReset_skip(t) ==                                                \* mutant
  /\ BailoutRuns(t) /\ bail[t] = "reset" /\ bail' = [bail EXCEPT ![t] = "exit"]
  /\ UNCHANGED <<running, main, handlers, tty, tios_saved_valid, rtVars, dir>>
TtyReset(t) ==
  /\ BailoutRuns(t) /\ bail[t] = "reset"
  /\ tty' = IF tios_saved_valid THEN "original" ELSE tty
  /\ bail' = [bail EXCEPT ![t] = "exit"]
  /\ UNCHANGED <<running, main, handlers, tios_saved_valid>> /\ UNCHANGED <<rtVars, dir>>

Exit(t) ==
  /\ BailoutRuns(t) /\ bail[t] = "exit"
  /\ running' = FALSE
  /\ UNCHANGED <<main, bail, handlers, ttyVars>> /\ UNCHANGED <<rtVars, dir>>

Leaving == \E t \in Threads : TtyReset(t) \/ Exit(t)

Finished == ~running /\ UNCHANGED vars

Next == Main \/ RT \/ (\E s \in Signals : Signal(s)) \/ Leaving \/ Finished
Spec == Init /\ [][Next]_vars /\ WF_vars(RT) /\ WF_vars(Leaving)

-----------------------------------------------------------------------------
TypeOK ==
  /\ running \in BOOLEAN /\ tios_saved_valid \in BOOLEAN
  /\ main \in {"socket", "cbreak", "valid", "mlock", "attr", "create", "read", "join"} \cup Signals
  /\ rt \in {"none", "affinity", "gettime", "test_rev", "test_fwd", "send", "sleep"}
  /\ bail \in [Threads -> {"no", "reset", "exit"}]
  /\ handlers \subseteq Signals
  /\ tty \in {"original", "cbreak"}
  /\ dir \in Directions /\ cmd \in Directions /\ dirs \subseteq Directions
  /\ late \in 0 .. 2

\* The two unsynchronised reads of dir (:182, :184) never mix two selections
\* into a command nobody selected: a command sent is a direction that was
\* selected in this very cycle, and a cycle with one selection follows it.
CycleFollowsDir ==
  rt = "sleep" => /\ cmd # 0 => cmd \in dirs
                  /\ \A d \in Directions : dirs = {d} => cmd = d

\* After 's' the motor makes at most the one step whose command was already
\* chosen: dir is read afresh in every cycle.
StopsPromptly == dir = 0 => late <= 1

\* Whichever thread leaves, and whatever the others are doing at that moment,
\* a terminal state that was saved is restored before the process ends.
SavedTtyRestored == ~running /\ tios_saved_valid => tty = "original"

\* While the user leaves the direction alone, the real-time thread settles on
\* it: it keeps sending that command and no other.
SelectedDirectionIsSent == \A d \in Directions :
  <>[](running /\ rt # "none" /\ dir = d)
    => []<>(rt = "sleep" /\ cmd = d) /\ <>[](rt = "sleep" => cmd = d)
=============================================================================
