# TLA+ project for the TSN/SDN exercises repository

The repository collects teaching programs on networked real-time systems. Five
groups of them keep state and run concurrently with something else: an AF_XDP
packet receiver, an XDP packet counter, a remote-controlled stepper motor on a
CAN bus (two Raspberry Pi programs and the motor's firmware), the CAN controller
driver that firmware uses, and the sketches of that driver that receive by
interrupt and sleep. This directory specifies them in TLA+, checks small
instances with TLC and proves invariants for all instances with TLAPS.

Check a run with `tlc -config <cfg> <module>.tla`, a proof with
`tlapm <module>_proofs.tla`. `PROJECT.json` maps every definition to the lines
it stands for. A definition whose name is another definition's name with a
suffix, marked `mutant`, is a plausible bug: the property named for it in
`PROJECT.json` must fail when it takes the original's place.

## Inventory

Paths below `src/`; A5 is `assignments/assignment5`, XSK is `xdp/xdp-04-xsk/src`.

| Component | State | Operations | Interacts with | What makes it correct |
|---|---|---|---|---|
| AF_XDP receiver, `XSK/xdp-xsk-user.c` | free list of packet buffers, fill and RX rings, `do_exit`, the attached program | setup, receive loop, replenish, release, SIGINT | kernel through two rings, signal handler | no frame lost or owned twice, only valid frames lent, never asleep without a lent frame, detached at exit, Ctrl-C ends it |
| its XDP program, `XSK/xdp-xsk-bpf.c` | none | redirect a packet of a queue | receiver's socket map | part of the kernel's side above |
| speed command sender, `A5/src-rpi/speedcmd-sender.c`, `tty.c` | `dir`, terminal state, thread | setup, key loop, cycle, signals, `bailout` | main thread, real-time thread and handler share `dir` and the terminal; CAN socket | a cycle sends what was selected, stop is prompt, terminal restored |
| cycle timer (in both senders) | `ts`, the clock | `next_cycle_start`, absolute sleep | clock | no drift, never early, catches up |
| position request sender, `A5/src-rpi/positionreq-sender.c` | thread, sockets | request per cycle, receive loop | motor node over CAN | requests on time, prints only positions |
| CAN socket setup, `A5/src-rpi/socketcan.c` | descriptor | create and bind | senders | error reported |
| motor firmware, `A5/src-arduino/stepper_can` | `stepper_position`, the motor | poll, process, step, answer | driver, bus | position follows the motor, each frame once, no answer lost unreported |
| MCP_CAN driver, `A5/arduino-libraries/CAN_BUS_Shield` | `mcpMode`, controller registers and buffers | begin, modes, sleep, masks, send, receive | firmware by calls, MCP2515 over SPI | what a call reports is what the controller does |
| packet counter, `xdp/xdp-02-drop_and_count` | statistics entries with locks, total, `do_exit`, attached program | count a packet, read and print, SIGINT | CPUs and user space share the maps | no packet uncounted, entries read whole, printed lines fit together, ends on Ctrl-C |
| interrupt-driven receiver, `A5/arduino-libraries/CAN_BUS_Shield/examples/receive_sleep` | `flagRecv`, sleep of microcontroller and controller, transceiver pin | setup, interrupt handler, reading loop, sleeping and waking | driver by calls, INT pin, bus | no wake-up lost, an awake node is on the bus |
| XDP pass, `xdp/xdp-01-pass` | none | pass | | nothing to check |
| assignment 1 client and server | none yet | argument parsing (the rest is TODO for students) | | |
| other library examples, assignments 2 to 4, slides, hardware, scripts | | | | text or demonstrations |

What is hard here: the kernel and the CAN controller act between any two
statements; signal and interrupt handlers run between and inside the calls that
are to be undone or waited for; `dir` is read twice without a lock; sends and
mode changes have time-outs after which the request still takes effect; indices
and flag registers are copied and used later; answers are computed while the
motor turns and may wait in a transmit buffer for long.
`PROJECT.json` lists these as hazards with their lines.

## Modules

| Module | Models | Proofs |
|---|---|---|
| `XskReceiver` | the AF_XDP receiver, its handler and the kernel's side of the rings | `XskReceiver_proofs` |
| `FrameOwnership` | abstract: a frame goes round application, kernel, RX | refinement proved, its liveness checked |
| `DropAndCount` | the XDP program on several CPUs and the program that prints its counters | `DropAndCount_proofs` |
| `AtomicStats` | abstract: entries change and are copied in one step | refinement proved |
| `SpeedCmdSender` | main thread, real-time thread, signals, `bailout` | `SpeedCmdSender_proofs` |
| `CycleTimer` | absolute cycle times as `struct timespec` | in `SpeedCmdSender_proofs` |
| `PositionReqSender` | both threads, requests, filter and decoding of answers | in `CanMotorSystem_proofs` |
| `StepperNode`, `StepperNodeMC` | firmware with the driver's send and receive paths | `StepperNode_proofs` |
| `CanMotorSystem` | composes `PositionReqSender`, `StepperNode` and the bus | `CanMotorSystem_proofs` |
| `MotorService` | abstract: what the motor promises its users | refinement proved |
| `Mcp2515`, `Mcp2515MC` | the driver's modes, initialisation, configuration | `Mcp2515_proofs` |
| `InterruptReceiver` | the sketch `receive_sleep` on top of `Mcp2515` | `InterruptReceiver_proofs` |
| `McpBuffers`, `McpBuffersMC` | transmit buffers used from two contexts, encoding of identifiers | `McpBuffers_proofs` |

`CanMotorSystem` extends `StepperNode`, instantiates `PositionReqSender` and
conjoins their actions with those of the bus; `InterruptReceiver` instantiates
`Mcp2515`. The type invariants are theorems; TLC runs `SystemTypeOK`
(`CanMotorSystem`, it includes that the displayed position is one) and
`TimespecOK` (`CycleTimer`, it includes that the timespec is normalised).

### XskReceiver

`pc` walks through `main`, the receive loop and `process_pkts`; each libbpf call
is a step, since the kernel may act between any two. A frame address is a
number. `umem_frame_addr` and `umem_frame_free` are the pool. The fill ring is
the sequence `fq` plus `fq_stale`, the entries the kernel has consumed but the
program's cached index does not show; the RX ring is `rx` with `rx_seen`, how
many entries the cached index covers. The kernel receives into the oldest fill
entry, may hold up to `KernelHold` frames and skips invalid addresses. `SigInt`
is possible everywhere and interrupts a blocked `poll`.

* `xsk_ample`: 5 frames, rings of 2, batches of 2, one frame held. One frame
  more than the rings and the kernel can hold. `OneOwner`, `FillEntriesAreFrames`,
  `NeverStarved`, `DetachedAtExit`, `ReplenishFills`, and the refinement
  `FramesGoRound`, which includes that every received packet is processed. Rings
  of 2 show full, empty and partly released rings, stale indices of 0 to 2 and
  two batches in a row.
* `xsk_scarce`: 4 frames, the code's proportion (frames = both rings), on a link
  with traffic. Invalid addresses do get lent, but no frame is lost, the receiver
  goes on (`FramesGoRound`), and a Ctrl-C ends it (`CtrlCExits`).
* `xsk_code_sizes` (violation): that same instance shows `FillEntriesAreFrames`
  false; the free list is shorter than the free space and the loop of
  `replenish_fill_ring` does not look.

Without traffic `CtrlCExits` does not hold, and no run claims it: a Ctrl-C
between the test of `do_exit` (:296) and `poll` waits for the next packet.

Fairness: `WF(Thread)`, the process is scheduled. None for packets and signals,
except in `TrafficSpec`, which assumes a link with traffic.

### DropAndCount

Each CPU walks through `xdp_prog_main`: lock the entry of the packet's address,
load, add, store and stamp it, unlock, add to the total. The steps of
`value->dropped++` are separate. The user program reads the total, asks for the
first key, copies its entry field by field under the lock (the kernel does so
for `BPF_F_LOCK`), prints, asks for the next key, and sleeps; `SigInt` may come
anywhere. `keys` is what was put into the per-MAC map from outside, since
neither program creates entries.

* `drop_count`: two CPUs, two addresses, three packets, any set of keys and
  either hash order. Two CPUs and user space compete for one lock, two packets
  of one address are under way at a time, and a third shows a stale copy.
  `TotalsAgree` (the total equals the packets dropped, and an entry is ahead by
  those between the two counters), `PrintedTogether`, the refinement
  `StatsAreAtomic` to `AtomicStats`, and `PacketsGetVerdict`.
* `drop_count_ctrlc` (violation of `CtrlCExits`): the loop over the keys asks
  for the key after `NULL` again, so that with one entry in the map it never
  ends and the test of `do_exit` is not reached, though the comment says the
  program polls "until user terminates program".

Fairness: `WF` of the user program and of each CPU, which run, and `SF` for the
steps that take a lock, because the kernel's spin locks are queued. Without the
latter the user program, which copies without a pause, could starve a CPU.

Left out because their outcome is the kernel's or libbpf's: the maps'
`__type(..., sizeof(...))` declares the type of a size instead of the structure
stored, and the looked-up entry is used without the test for `NULL` a verifier
asks for. `t_lastdrop` is time since boot, though its comment says UNIX epoch.

### SpeedCmdSender

`main`, `rt` and `bail[t]` are program counters of the two threads and of each
caller of `bailout()`; until the real-time thread exists the handler suspends
the main thread, later the kernel may deliver the signal to either thread and
the model lets the others run on, which covers both. The two reads of `dir` are
separate steps. A second caller of `bailout()` may come at any time; a nested
`exit()` ends the process.

* `speed_cmd`: complete, no bounds. The variable `late` counts to 2, one more
  than allowed. Liveness (`SelectedDirectionIsSent`) is under the assumption,
  in the property, that the user leaves a direction selected.

`SavedTtyRestored` is about a terminal whose state is saved. A signal between
the `tcsetattr` of `tty_cbreak` and `tios_saved_valid = true` leaves the terminal
in cbreak mode; the model has this behaviour, and no run claims the contrary.

Fairness: `WF(RT)` (a SCHED_FIFO thread runs) and `WF(Leaving)`; none for keys,
signals and setup.

### CycleTimer

One clock in nanoseconds; the thread may be late by any amount, so cycles may
be overrun. `cycle_timer` uses seconds of 4 ns and cycles of 9 ns, so that a
cycle spans more than two seconds and every phase of the carry occurs within 40 ns.
Fairness: `WF(Tick)` and `WF(Thread)`, for `CatchesUp`.

### StepperNode

`pc` follows `loop()`, `process_can_msg` and `sendMsg`; each SPI access is a
step. `rxb` and `txb` are the controller's buffers; frames arrive and answers
leave between any two steps, or never. `busy` is what the last poll of
`sendMsg` saw. `motor` is where the motor is, `stepper_position` what the code
counts. The controller's rollover and its transmit order (highest buffer first)
are from its use by the driver's initialisation.

* `stepper_node`: a turn of 3 positions (both wraps occur), a time-out after 2
  polls, 5 frames of 5 kinds (two near misses); 5 frames give three answers
  pending with two more frames waiting, so that `sendMsg` finds all buffers busy
  in both loops. `PositionTracksMotor`, `HandledOnce`, `AnswersAccountedFor`,
  `OkMeansSent`, `FramesAreProcessed`.

`OkMeansSent` is one direction only: when the frame leaves just before the last
poll, `sendMsg` reports a time-out though it found the buffer free.

Fairness: `WF(App)`, a polling loop; none for the bus, so
`FramesAreProcessed` holds on a bus blocked for ever.

### PositionReqSender and CanMotorSystem

`PositionReqSender` has the setup with its error paths, the real-time thread
that writes a request per cycle, and the main thread that reads frames, keeps
those that are an answer (identifier, no RTR bit, two bytes) and decodes them.
`CanMotorSystem` joins it to the firmware: every frame reaches the motor's
controller and, unless it is its own, the program's socket; another node may ask
too; step orders come from the speed command sender, reduced to its frames.
`open[q]` is a history variable, the positions the motor had since request `q`.

* `can_motor`: two requests (of the program or of another node), one step order,
  a turn of 4 positions in bytes of base 2, so that a position needs both bytes.
  Two requests give two answers under way, either of them late, and the order
  turns the motor between the two. `KeepsPromises` is the refinement to
  `MotorService`: no step is made twice or without an order, and a displayed
  position is one the motor had since the request it answers. `AnsweredOnce` says
  that two answers under way never answer one request, `QueriesEnd` that a
  request is answered or lost at a known place.

Fairness: the programs run, and the bus is not blocked for ever.

### Mcp2515

One driver call at a time, each SPI access a step; `pending` is a mode request
the controller has not taken up. The controller may take it up at any time,
also after the 200 ms (here `MaxTries` polls) are over; asleep it needs its wake
flag. Bus activity sets the flag, with the interrupt enabled it wakes the
controller to listen-only mode.

* `mcp2515`: two polls per request, any sequence of calls, three pairs of speed
  and clock of which the table of one clock lacks one. `ModeAsReported`,
  `ConfiguredWhenOk`, `WakeIntKept`. No fairness is needed for these; that a call
  runs to its end is assumed in `InterruptReceiver`.

Three things the driver does that a caller may not expect are in the model, and
the properties are stated around them. `begin()` of a speed that the clock's
table lacks returns `CAN_OK` with no speed set (`mcp2515_init` returns the result
of the step before). The early return of `mcp2515_setCANCTRL_Mode`, when the
wake-up times out, leaves the wake interrupt on. `sleep()` and `wake()` look at
the mode only, not at a request still pending from a call that timed out.

### InterruptReceiver

The sketch is `lp`, the driver's operations are `Mcp2515`'s actions, and both
interleave with frames, the controller's mode changes and the interrupt handler.
The INT pin is low while a receive buffer is full or the enabled wake flag is
set; the microcontroller notices falling edges only (`Latch`). `receive_interrupt`
is the same loop without the branch that sleeps.

* `int_receive`: two polls per request; both receive buffers, any number of
  frames, sleeps and wake-ups. `NoWakeUpLost`, `AwakeOnBus`, `ReadingGoesOn`, and
  `WakesOnMessage`, the promise of the sketch's header.

The properties exclude two cases by name, in which the code does lose the edge:
`early`, INT was low already when the handler was attached after `begin()`; and
`failed`, a mode request timed out and is carried out later (the sketch does not
look at the result of `sleep()`). `set_mask_filter_recv` reads one frame per
interrupt; `ReadingGoesOn` is false of that loop (it is the mutant), and the
sketch's header restricts it to slow traffic. `ReadingGoesOn` does not say which
frame is read: on a saturated bus buffer 1 is never reached.

Fairness: the microcontroller runs and serves its interrupts; none for the
controller, the bus and `sleep`.

### McpBuffers

The main program calls `trySendMsgBuf`, which looks for a free buffer and loads
it some accesses later; between any two of these an interrupt routine may run
that sends a stream through the last buffer, as the driver's comments describe
it. The callers are external: the last buffer is reserved (`nTxBuf > 0`), the
stream's first message goes through `trySendMsgBuf(..., getLastTxBuffer())`, and
the routine runs as long as INT is low. A buffer holds the registers, that is the
identifier as `mcp2515_id_to_buf` splits it, and `Decoded` is what
`mcp2515_read_canMsg` makes of them at another node.

* `mcp_buffers`: one reserved buffer, five messages of both kinds of frame with
  identifiers that use every register. Five messages fill the two other buffers
  and keep a stream of three going. `FlagMeansFree`, `NothingOverwritten`,
  `OnlyWhatWasAsked`, `StreamEnds`.

Fairness: both contexts run, and the controller transmits what is pending. With
`reserveTxBuffers()` left at its default of 0 the main program takes the last
buffer too and messages are overwritten (the mutant of `NothingOverwritten`).

## What is proved

Each theorem holds for every value of the constants, under the assumptions
named `...Assumption` of its module. Where the invariant of a run is not
inductive, the proof module defines the strengthening.

* `XskReceiver_proofs`. `TypeInv` (types, plus what each `pc` says of the
  counters) gives `TypeCorrect`, `ReserveNeverSpins` and `FillsWhatFits`.
  `CountInv` counts: free frames, fill entries, held frames and unprocessed RX
  entries sum to `NumFrames`. With `NumFrames >= FillSize + RxSize + KernelHold`
  the free list then always covers the free fill slots: `OnlyFramesAreLent`,
  `KernelNeverStarved`. The code's sizes do not meet this assumption;
  `xsk_code_sizes` shows what happens then.

  The others hold for all sizes, with or without invalid addresses in the fill
  ring. `FramesHaveOneOwner`: `OneOwner` says that the map from the places a
  frame can be at to the frames is a bijection. Each step moves one place, some
  places, or none (`OneMoves`, `NoneMoves`), and a lemma about such moves keeps
  the bijection; counting is not needed. It is inductive together with `PhaseInv`
  (what the phases of `main` imply about free list and batch). From it
  `AssertionHolds`: a frame in the RX ring is not in the free list, so the list
  has room for it. `OwnershipIsKept`: the same moves, read as changes of the
  owner, are steps of `FrameOwnership`. `AlwaysDetached` needs the control only.
* `SpeedCmdSender_proofs`. For `CycleTimer`, `NextCycleStart`: the function adds
  the cycle time to the time the timespec stands for and keeps it normalised;
  with it `TimerType`, `TimerNoDrift` and `TimerNeverEarly`. For the sender, `CommandsFollowDir` needs that `dirs` holds what
  `dir` was since the cycle began and that the first test failed for the
  direction it looked at; `StopIsPrompt` that `late` is 0 until a chosen
  command can be outstanding; `SavedTtyIsRestored` that the real-time thread
  exists only after the terminal was saved and handlers only before it changes.
* `StepperNode_proofs`. `NodeInv` (types and which buffer is meant where)
  underlies `PositionIsMotor`, `NoAnswerOverwritten` (counting pending buffers),
  `OkIsSent` and `FramesHandledOnce` (a frame's number occurs in one place).
* `CanMotorSystem_proofs`, for any number of positions, requests, orders and
  polls. Every step of the system is one of the node or leaves it alone
  (`SystemIsNode`), so that it implements `StepperNode` (`NodeBehaves`) and the
  invariants above hold in it (`NodeInSystem`). `CarryInv` follows the requests:
  each is at one of five places (the program's queue, a receive buffer, in work,
  a transmit buffer, the socket: `OnePlace`), is open while it is there, and has
  the motor's position among its own (`OpenInv`); an answer in a buffer or in
  the socket is one of those positions (`TxTimely`, `RxTimely`), which needs that
  the firmware answers between pulses, when its count is the motor's position
  (`MotorInv`), and that a position survives its two bytes
  (`DecodedIsPosition`). From `CarryInv` follow `SystemTypeCorrect`,
  `RequestsAnsweredOnce`, and the step simulation `PromisesAreKept`, in which the
  orders not yet made are counted where they are: written, buffered, at hand.
* `DropAndCount_proofs`, for any number of CPUs and addresses. `LockInv` says
  that whoever is between lock and unlock holds the lock, and what it loaded is
  still there. It gives `TotalsCorrect` (a cardinality, which changes by one),
  `PrintsFitTogether`, and `Atomicity`: every step of `DropAndCount` is one of
  `AtomicStats` or changes nothing visible. `AlwaysDetached` needs no more than
  the user program's control.
* `Mcp2515_proofs`, for every set of settings and number of polls. `PendingInv`
  says where an older request may still be on its way, `FlagInv` where the wake
  flag comes from, `WakeIntInv` where the user's wake interrupt is kept while the
  driver changes it, `WroteInv` what happened between the two mode changes.
* `InterruptReceiver_proofs`. The invariant follows the controller through the
  sketch (`BeginInv`, `AwakeInv`, `SleepInv`, `StoppedInv`, `WakeInv`): which mode,
  request and wake flag are possible at each place, as long as no request timed
  out. `NoneLost` needs it at one step only, the end of the reading loop, where
  nothing but a full buffer may hold INT low; `OnBus` is `AwakeInv`.
  `DriverIsUsedAsSpecified`: the composition implements `Mcp2515`, and by the
  proofs about it (`INSTANCE Mcp2515_proofs`) `ReportsAreTrue`: the driver's
  invariants hold for the sketch.
* `McpBuffers_proofs`. `DecodedIsEncoded`: identifiers of 11 and of 29 bits, kind
  of frame and length survive the registers, for every value. From it, and from
  invariants that say which context owns which buffer at each access,
  `FlagsMeanFree`, `NoneOverwritten` and `AskedIsSent`, for every number of
  reserved buffers but 0 and every sequence of messages.

## Only model-checked, and not modelled

TLC alone checks liveness, which is beyond the prover: `CtrlCExits`, `CatchesUp`,
`SelectedDirectionIsSent`, `FramesAreProcessed`, `PacketsGetVerdict`, `QueriesEnd`,
`ReadingGoesOn`, `WakesOnMessage`, `StreamEnds`, and of `FramesGoRound` the fairness
of `FrameOwnership` (that every received packet is processed). All invariants and
action properties that a run checks, and the steps of all three refinements, are
theorems.

Left out: packet contents, printing, the command line, memory locking except as
a step that can fail, pin timing, the data of CAN frames but for positions, the
receiver's filter for duplicates, `mcpDigitalRead`, `checkError` and the driver's
getters. `printf` and `exit` inside the signal handler are undefined when they
interrupt themselves; the model lets them end the process. `read()` ending the
key loop leaves the main thread waiting for a thread that never ends; `ReadEnds`
has it, no property is about it. A cycle time of 0 (text that is no number) is
allowed by `CycleTimer`. `init_Mask` and `init_Filt` with an invalid number
write nothing and report success; the model has this too. The other examples of
the library are demonstrations of calls modelled here; assignment 1 has no
networking code yet; the other assignments are text.

## Plan

1. Done: all modules above with their runs, and the proofs above, which state
   every safety property of the runs.
2. Proofs beyond the runs' properties: what `sendMsg` reports to the motor firmware
   in the composed system, and the number of steps made against those ordered.
3. The buffer-full pins as outputs, and the extended features of `mcp2515`'s
   receive side (filters deciding which frame is accepted), if a program of the
   repository comes to use them.
