------------------------------ MODULE CycleTimer ------------------------------
(***************************************************************************)
(* The clock of the real-time threads of speedcmd-sender.c and             *)
(* positionreq-sender.c: absolute sleeping with clock_nanosleep, the next  *)
(* wake-up time kept as a struct timespec and advanced by                  *)
(* next_cycle_start.  Both programs contain the same code.                 *)
(*                                                                         *)
(* Time is the monotonic clock in nanoseconds.  A wake-up may be           *)
(* arbitrarily late and a cycle's work may take longer than a cycle.       *)
(***************************************************************************)
EXTENDS Integers

CONSTANTS
  NsPerSec,            \* 1000000000
  CycleTime,           \* cycle_time_ns; 0 is accepted by parse_cmdline_args
  MaxTime              \* bound on the clock, for model checking

ASSUME TimerAssumption ==
  NsPerSec \in Nat \ {0} /\ CycleTime \in Nat /\ MaxTime \in Nat

VARIABLES
  pc,                  \* "gettime", then "work" and "sleep" in turn
  now,                 \* CLOCK_MONOTONIC
  ts,                  \* [tv_sec, tv_nsec]
  t_start, n           \* history: first cycle's start, calls of next_cycle_start
timerVars == <<pc, now, ts, t_start, n>>

Timespec(t) == [tv_sec |-> t \div NsPerSec, tv_nsec |-> t % NsPerSec]
Nanos(t) == t.tv_sec * NsPerSec + t.tv_nsec

next_cycle_start_once(t, cycle) ==                                 \* mutant
  IF t.tv_nsec + cycle >= NsPerSec
  THEN [tv_sec |-> t.tv_sec + 1, tv_nsec |-> t.tv_nsec + cycle - NsPerSec]
  ELSE [tv_sec |-> t.tv_sec, tv_nsec |-> t.tv_nsec + cycle]
next_cycle_start_carry(t, cycle) ==                                \* mutant
  [tv_sec |-> t.tv_sec + cycle \div NsPerSec,
   tv_nsec |-> (t.tv_nsec + cycle) % NsPerSec]
next_cycle_start(t, cycle) ==
  LET t_ns == t.tv_nsec + cycle
  IN [tv_sec |-> t.tv_sec + t_ns \div NsPerSec, tv_nsec |-> t_ns % NsPerSec]

TimerInit ==
  /\ pc = "gettime"
  /\ now \in 0 .. MaxTime
  /\ ts = Timespec(0) /\ t_start = 0 /\ n = 0

GetStartTime ==
  /\ pc = "gettime"
  /\ ts' = Timespec(now) /\ t_start' = now
  /\ pc' = "work"
  /\ UNCHANGED <<now, n>>

\* The cycle's command is sent, then the start of the next cycle computed.
Work ==
  /\ pc = "work"
  /\ ts' = next_cycle_start(ts, CycleTime)
  /\ n' = n + 1
  /\ pc' = "sleep"
  /\ UNCHANGED <<now, t_start>>

\* clock_nanosleep with TIMER_ABSTIME returns at once when ts has passed.
WakeUp_relative ==                                                 \* mutant
  /\ pc = "sleep" /\ now >= Nanos(ts) - CycleTime
  /\ pc' = "work" /\ UNCHANGED <<now, ts, t_start, n>>
WakeUp_exact ==                                                    \* mutant
  pc = "sleep" /\ now = Nanos(ts) /\ pc' = "work" /\ UNCHANGED <<now, ts, t_start, n>>
WakeUp ==
  /\ pc = "sleep"
  /\ now >= Nanos(ts)
  /\ pc' = "work"
  /\ UNCHANGED <<now, ts, t_start, n>>

Tick ==
  /\ now < MaxTime
  /\ now' = now + 1
  /\ UNCHANGED <<pc, ts, t_start, n>>

\* The end of the modelled time.
ClockEnd == now = MaxTime /\ pc = "sleep" /\ UNCHANGED timerVars

Thread == GetStartTime \/ Work \/ WakeUp
TimerNext == Thread \/ Tick \/ ClockEnd
TimerSpec == TimerInit /\ [][TimerNext]_timerVars /\ WF_timerVars(Thread) /\ WF_timerVars(Tick)

-----------------------------------------------------------------------------
\* The timespec is always one that clock_nanosleep accepts: with tv_nsec out of
\* range the call fails and the program bails out.
TimespecOK ==
  /\ pc \in {"gettime", "work", "sleep"}
  /\ now \in Nat /\ t_start \in Nat /\ n \in Nat
  /\ ts \in [tv_sec : Nat, tv_nsec : 0 .. NsPerSec - 1]

\* "Thread will be scheduled at times t_start + n*cycle_time"
\* (speedcmd-sender.c:176): no error accumulates however late the thread wakes.
NoDrift == pc # "gettime" => Nanos(ts) = t_start + n * CycleTime

\* The command of cycle n is never sent before its time, whatever the carry
\* between nanoseconds and seconds.
NeverEarly == pc = "work" => now >= t_start + n * CycleTime

\* A thread that was late works through the missed cycles without sleeping
\* until it is on time again.
CatchesUp == \A k \in 1 .. MaxTime :
  (pc # "gettime" /\ now = MaxTime /\ t_start + k * CycleTime <= MaxTime) ~> n >= k
=============================================================================
