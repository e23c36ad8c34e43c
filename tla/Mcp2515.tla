-------------------------------- MODULE Mcp2515 --------------------------------
(***************************************************************************)
(* The operating modes of the CAN controller as the driver MCP_CAN         *)
(* (mcp_can.cpp) changes them: initialisation, masks and filters, sleeping *)
(* and waking up.  One operation runs at a time; each of its accesses to   *)
(* the controller is a step.                                               *)
(*                                                                         *)
(* The controller is external.  It takes up a requested mode at a time of  *)
(* its own, possibly after the driver gave up; while asleep it notices bus *)
(* activity, and with the wake interrupt enabled it then leaves sleep for  *)
(* listen-only mode.                                                       *)
(***************************************************************************)
EXTENDS Integers

CONSTANTS
  Settings,            \* <<speed, clock>> pairs begin() is called with
  MaxTries,            \* polls of requestNewMode before its 200 ms are over
  None                 \* no setting, no pending request

ASSUME Mcp2515Assumption ==
  MaxTries \in Nat \ {0} /\ Settings \subseteq (1 .. 18) \X {"16MHz", "8MHz"}

Modes == {"normal", "sleep", "listenonly", "config"}
Configuring == {"init_Mask", "init_Filt", "mcpPinMode"}
Operations == {"begin", "setMode", "sleep", "wake", "setSleepWakeup"} \cup Configuring

\* The speeds (CAN_5KBPS = 1 .. CAN_1000KBPS = 18) configRate knows for a clock.
Supported(s) == s[2] = "16MHz" \/ s[1] \notin {4, 6, 10, 11, 17}

VARIABLES
  pc,                  \* next access of the current operation, or "idle"
  op, result,          \* the current or last operation, and what it returned
  setting, valid,      \* its arguments: of begin; whether num or mode is valid
  second,              \* begin and the configuring operations set two modes
  target,              \* newmode of setCANCTRL_Mode
  waking,              \* it is at its request for listen-only mode
  wakeIntEnabled, tries,
  mcpMode,
  ready,               \* begin() has returned CAN_OK
  mode, pending,       \* of the controller: CANSTAT and a request in CANCTRL
  wakie, wakif,        \* WAKIE in CANINTE and WAKIF in CANINTF
  rate,                \* the setting in CNF1 .. CNF3
  asked,               \* history: wake interrupt as begin or setSleepWakeup left it
  wrote,               \* history: the configuring operation's write took effect
  failed,              \* history: a mode request timed out since begin
  activity             \* history: bus activity since the last request to sleep
vars == <<pc, op, result, setting, valid, second, target, waking, wakeIntEnabled, tries,
          mcpMode, ready, mode, pending, wakie, wakif, rate, asked, wrote, failed, activity>>
locals == <<waking, wakeIntEnabled, tries>>
args == <<op, setting, valid>>
chip == <<mode, pending, wakie, wakif, rate>>
past == <<asked, wrote, failed, activity>>

\* No operation yet, which looks like one that failed.  mcpMode is a member of a
\* global object: zero, which is MODE_NORMAL.
Init ==
  /\ pc = "idle" /\ op = "setMode" /\ result = "FAIL"
  /\ setting = None /\ valid = TRUE /\ second = FALSE
  /\ target = "normal" /\ waking = FALSE /\ wakeIntEnabled = FALSE /\ tries = 0
  /\ mcpMode = "normal" /\ ready = FALSE
  /\ mode \in Modes /\ pending = None /\ wakie \in BOOLEAN /\ wakif \in BOOLEAN /\ rate = None
  /\ asked = wakie /\ wrote = FALSE /\ failed = FALSE /\ activity = TRUE

-----------------------------------------------------------------------------
(* Calls *)

Call(o) == pc = "idle" /\ op' = o /\ second' = FALSE

\* begin: mcp2515_reset, then configuration mode; repeated until it succeeds.
begin(s) ==
  /\ Call("begin") /\ ~ready
  /\ setting' = s /\ target' = "config" /\ pc' = "getmode"
  /\ mode' = "config" /\ pending' = None /\ wakie' = FALSE /\ wakif' = FALSE /\ rate' = None
  /\ asked' = FALSE /\ failed' = FALSE
  /\ UNCHANGED <<result, valid, locals, mcpMode, ready, wrote, activity>>

ModeToKeep(m) == IF m = "sleep" THEN mcpMode ELSE m
setMode(m) ==
  /\ Call("setMode") /\ ready
  /\ mcpMode' = ModeToKeep(m)
  /\ target' = m /\ pc' = "getmode"
  /\ UNCHANGED <<result, setting, valid, locals, ready, chip, past>>

\* sleep() and wake() first look whether the controller is there already.
Compared(o, m) ==
  /\ Call(o) /\ ready
  /\ target' = m /\ pc' = "compare"
  /\ UNCHANGED <<result, setting, valid, locals, mcpMode, ready, chip, past>>
sleep == Compared("sleep", "sleep")
wake == Compared("wake", mcpMode)

\* init_Mask, init_Filt, and mcpPinMode for the TXnRTS pins.
configure(o, v) ==
  /\ Call(o) /\ ready
  /\ valid' = v /\ wrote' = FALSE
  /\ target' = "config" /\ pc' = "getmode"
  /\ UNCHANGED <<result, setting, locals, mcpMode, ready, chip, asked, failed, activity>>

setSleepWakeup(enable) ==
  /\ Call("setSleepWakeup") /\ ready
  /\ wakie' = enable /\ asked' = enable /\ result' = "OK"
  /\ UNCHANGED <<pc, setting, valid, target, locals, mcpMode, ready, mode, pending, wakif, rate,
                 wrote, failed, activity>>

-----------------------------------------------------------------------------
Return(r) ==
  /\ pc' = "idle" /\ result' = r
  /\ ready' = (ready \/ (op = "begin" /\ r = "OK"))

Compare ==
  /\ pc = "compare"
  /\ IF mode = target THEN Return("OK") ELSE pc' = "getmode" /\ UNCHANGED <<result, ready>>
  /\ UNCHANGED <<args, second, target, locals, mcpMode, chip, past>>

(* mcp2515_setCANCTRL_Mode *)

GetMode ==
  /\ pc = "getmode"
  /\ pc' = IF mode = "sleep" /\ target # "sleep" THEN "enable" ELSE "clear"
  /\ UNCHANGED <<args, result, ready, second, target, locals, mcpMode, chip, past>>

EnableWakeInt ==
  /\ pc = "enable"
  /\ wakeIntEnabled' = wakie /\ wakie' = TRUE
  /\ pc' = "flag"
  /\ UNCHANGED <<args, result, ready, second, target, waking, tries, mcpMode,
                 mode, pending, wakif, rate, past>>

SetWakeFlag ==
  /\ pc = "flag"
  /\ wakif' = TRUE
  /\ waking' = TRUE /\ tries' = 0 /\ pc' = "request"
  /\ UNCHANGED <<args, result, ready, second, target, wakeIntEnabled, mcpMode,
                 mode, pending, wakie, rate, past>>

RestoreWakeInt_not ==                                               \* mutant
  /\ pc = "restore" /\ pc' = "clear"
  /\ UNCHANGED <<args, result, ready, second, target, locals, mcpMode, chip, past>>
RestoreWakeInt ==
  /\ pc = "restore"
  /\ wakie' = wakeIntEnabled
  /\ pc' = "clear"
  /\ UNCHANGED <<args, result, ready, second, target, locals, mcpMode,
                 mode, pending, wakif, rate, past>>

ClearTo(flag) ==
  /\ pc = "clear"
  /\ wakif' = flag
  /\ activity' = (activity /\ target # "sleep")
  /\ waking' = FALSE /\ tries' = 0 /\ pc' = "request"
  /\ UNCHANGED <<args, result, ready, second, target, wakeIntEnabled, mcpMode,
                 mode, pending, wakie, rate, asked, wrote, failed>>
ClearWakeFlag_not == ClearTo(wakif)                                 \* mutant
ClearWakeFlag == ClearTo(FALSE)

(* mcp2515_requestNewMode *)

Goal == IF waking THEN "listenonly" ELSE target

Request ==
  /\ pc = "request"
  /\ pending' = Goal /\ pc' = "poll"
  /\ UNCHANGED <<args, result, ready, second, target, locals, mcpMode, mode, wakie, wakif, rate, past>>

Continued == waking \/ (op \in Configuring \cup {"begin"} /\ ~second)

\* What happens when the last poll did not find the mode.
TimedOut == Return("FAIL") /\ failed' = TRUE

PollOr(limit, expired) ==
  /\ pc = "poll"
  /\ tries' = IF tries = MaxTries THEN tries ELSE tries + 1
  /\ \/ /\ mode = Goal /\ Continued
        /\ pc' = IF waking THEN "restore" ELSE "write"
        /\ UNCHANGED <<result, ready, failed>>
     \/ /\ mode = Goal /\ ~Continued
        /\ Return(IF op = "mcpPinMode" /\ ~valid THEN "FAIL" ELSE "OK")
        /\ UNCHANGED failed
     \/ /\ mode # Goal /\ tries' < limit
        /\ pc' = "request" /\ UNCHANGED <<result, ready, failed>>
     \/ /\ mode # Goal /\ tries' >= limit /\ expired
  /\ UNCHANGED <<args, second, target, waking, wakeIntEnabled, mcpMode, chip, asked, wrote, activity>>
Poll_unchecked ==                                                   \* mutant
  PollOr(MaxTries, IF Continued /\ ~waking
                   THEN pc' = "write" /\ UNCHANGED <<result, ready, failed>> ELSE TimedOut)
Poll == PollOr(MaxTries, TimedOut)

-----------------------------------------------------------------------------
(* Between the two mode changes.  The controller ignores these writes      *)
(* outside configuration mode.                                             *)

Write ==
  /\ pc = "write" /\ op \in Configuring
  /\ wrote' = (valid /\ mode = "config")
  /\ target' = mcpMode /\ second' = TRUE /\ pc' = "getmode"
  /\ UNCHANGED <<args, result, ready, locals, mcpMode, chip, asked, failed, activity>>

\* configRate; the rest of mcp2515_init happens only if it succeeds.
ConfigureRate ==
  /\ pc = "write" /\ op = "begin"
  /\ \/ /\ ~Supported(setting)
        /\ Return("OK")
        /\ UNCHANGED <<rate, wakie, mcpMode, target, second>>
     \/ /\ Supported(setting)
        /\ rate' = IF mode = "config" THEN setting ELSE rate
        /\ wakie' = FALSE
        /\ mcpMode' = "normal" /\ target' = "normal"
        /\ second' = TRUE /\ pc' = "getmode"
        /\ UNCHANGED <<result, ready>>
  /\ UNCHANGED <<args, locals, mode, pending, wakif, past>>

Driver == Compare \/ GetMode \/ EnableWakeInt \/ SetWakeFlag \/ RestoreWakeInt \/ ClearWakeFlag
            \/ Request \/ Poll \/ Write \/ ConfigureRate

Calls ==
  \/ \E s \in Settings : begin(s)
  \/ \E m \in Modes : setMode(m)
  \/ sleep \/ wake
  \/ \E o \in Configuring, v \in BOOLEAN : configure(o, v)
  \/ \E e \in BOOLEAN : setSleepWakeup(e)

-----------------------------------------------------------------------------
(* The controller *)

Driving == UNCHANGED <<pc, args, result, ready, second, target, locals, mcpMode, asked, wrote, failed>>

\* Asleep it takes up a request only after its wake flag was set.
TakeUpMode ==
  /\ pending # None /\ (mode = "sleep" => wakif)
  /\ mode' = pending /\ pending' = None
  /\ Driving /\ UNCHANGED <<wakie, wakif, rate, activity>>

BusActivity ==
  /\ mode = "sleep"
  /\ wakif' = TRUE /\ activity' = TRUE
  /\ Driving /\ UNCHANGED <<mode, pending, wakie, rate>>

WakeUp ==
  /\ mode = "sleep" /\ wakif /\ wakie
  /\ mode' = "listenonly" /\ pending' = None
  /\ Driving /\ UNCHANGED <<wakie, wakif, rate, activity>>

Next == Calls \/ Driver \/ TakeUpMode \/ BusActivity \/ WakeUp
Spec == Init /\ [][Next]_vars

-----------------------------------------------------------------------------
TypeOK ==
  /\ pc \in {"idle", "compare", "getmode", "enable", "flag", "restore", "clear", "request",
             "poll", "write"}
  /\ op \in Operations /\ result \in {"OK", "FAIL"}
  /\ setting \in Settings \cup {None} /\ valid \in BOOLEAN /\ second \in BOOLEAN
  /\ target \in Modes /\ waking \in BOOLEAN /\ wakeIntEnabled \in BOOLEAN
  /\ tries \in 0 .. MaxTries
  /\ mcpMode \in Modes \ {"sleep"} /\ ready \in BOOLEAN
  /\ mode \in Modes /\ pending \in Modes \cup {None}
  /\ wakie \in BOOLEAN /\ wakif \in BOOLEAN /\ rate \in Settings \cup {None}
  /\ asked \in BOOLEAN /\ wrote \in BOOLEAN /\ failed \in BOOLEAN /\ activity \in BOOLEAN

Done(o) == pc = "idle" /\ op = o /\ result = "OK"

\* An operation that reports success leaves the controller in the mode it
\* stands for, also when the controller slept, woke up by itself or took up an
\* older request meanwhile: the mode set last after a configuration, sleep
\* until there is bus activity.  sleep() and wake() can tell only as long as
\* no earlier request timed out, because they trust the mode they read.
ModeAsReported ==
  /\ \A o \in Configuring : Done(o) => mode = mcpMode
  /\ Done("setMode") => mode = target \/ (target = "sleep" /\ activity)
  /\ Done("sleep") /\ ~failed => mode = "sleep" \/ activity
  /\ Done("wake") /\ ~failed => mode = mcpMode

\* Masks, filters and pin functions that were reported as set have reached the
\* controller, which ignores them outside configuration mode, and so has the
\* speed, if it is one that the table of the clock contains.
ConfiguredWhenOk ==
  /\ \A o \in Configuring : Done(o) /\ valid => wrote
  /\ Done("begin") /\ Supported(setting) => rate = setting

\* Waking the controller by hand leaves the wake interrupt as the user set it,
\* as long as no mode request timed out.
WakeIntKept == pc = "idle" /\ ~failed => wakie = asked
=============================================================================
