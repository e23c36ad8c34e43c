----------------------------- MODULE XskReceiver -----------------------------
(***************************************************************************)
(* The AF_XDP receiver of xdp-04-xsk (xdp-xsk-user.c): a single thread,    *)
(* its SIGINT handler and the kernel side of the socket.                   *)
(*                                                                         *)
(* A pool of NumFrames packet buffers (the UMEM) circulates between the    *)
(* program's free list, the fill ring (program to kernel), the kernel and  *)
(* the RX ring (kernel to program).  A frame address i * FRAME_SIZE is the *)
(* number i.  libbpf's ring operations and the kernel are not part of the  *)
(* repository; they are modelled from how the program uses them.           *)
(***************************************************************************)
EXTENDS Integers, Sequences, FiniteSets

CONSTANTS
  NumFrames,           \* NUM_FRAMES
  FillSize,            \* XSK_RING_PROD__DEFAULT_NUM_DESCS
  RxSize,              \* XSK_RING_CONS__DEFAULT_NUM_DESCS
  RxBatch,             \* RX_BATCH_SIZE
  KernelHold,          \* frames the kernel may keep between the two rings
  INVALID_UMEM_FRAME

Frames == 0 .. NumFrames - 1

ASSUME SizesAssumption ==
  /\ NumFrames \in Nat \ {0} /\ FillSize \in Nat \ {0} /\ RxSize \in Nat \ {0}
  /\ RxBatch \in Nat \ {0} /\ KernelHold \in Nat
ASSUME InvalidAssumption == INVALID_UMEM_FRAME \notin Frames

VARIABLES
  pc,                  \* where the thread is
  handler,             \* sigint_handler is installed
  do_exit,
  attached,            \* the XDP program is attached to the interface
  umem_frame_addr,     \* the free list is its first umem_frame_free entries
  umem_frame_free,
  fq,                  \* addresses submitted to the fill ring, oldest first
  fq_stale,            \* entries the kernel consumed since cached_cons was read
  held,                \* frames the kernel took from fq and has not delivered
  rx,                  \* RX descriptors not yet released, oldest first
  rx_seen,             \* how many of them cached_prod covers
  nframes_free,        \* replenish_fill_ring's local
  rcvd,                \* process_pkts's local
  done                 \* its loop index i

ring == <<fq, fq_stale, held, rx, rx_seen>>
pool == <<umem_frame_addr, umem_frame_free>>
batch == <<nframes_free, rcvd, done>>
life == <<handler, do_exit, attached>>
vars == <<pc, life, pool, ring, batch>>

SetupPhases == {"signal", "ifindex", "attach", "findmap", "memalign", "umem", "socket"}
BatchPhases == {"peek", "nbfree", "reserve", "fill", "process", "release"}
RunPhases == {"check", "enter", "poll", "detach"} \cup BatchPhases
EndPhases == {"exited", "killed", "aborted"}

Smaller(a, b) == IF a < b THEN a ELSE b
Elements(s) == {s[i] : i \in 1 .. Len(s)}

-----------------------------------------------------------------------------
(* The frame pool. *)

\* n calls of xsk_alloc_umem_frame on a free list of `free' entries: frames
\* leave at the tail, an empty list yields INVALID_UMEM_FRAME.
Allocated(addr, free, n) ==
  [k \in 1 .. n |-> IF k <= free THEN addr[free - k + 1] ELSE INVALID_UMEM_FRAME]
FreeAfter_leak(free, n) == IF n < free THEN free - n - 1 ELSE 0    \* mutant
FreeAfter(free, n) == IF n <= free THEN free - n ELSE 0
AddrAfter(addr, free, n) ==
  [i \in 1 .. NumFrames |->
     IF FreeAfter(free, n) < i /\ i <= free THEN INVALID_UMEM_FRAME ELSE addr[i]]

\* xsk_free_umem_frame past its assertion: the frame goes to the tail.
Returned_overwrite(addr, free, frame) ==                           \* mutant
  [addr EXCEPT ![IF free = 0 THEN 1 ELSE free] = frame]
Returned(addr, free, frame) == [addr EXCEPT ![free + 1] = frame]

\* The slots of the fill ring that are free by the consumer index the program
\* last read: cached_cons - cached_prod.
CachedFree == FillSize - Len(fq) - fq_stale

\* xsk_prod_nb_free: the kernel's consumer index is read again only when the
\* cached one does not show nb free slots.
NbFreeRefreshes(nb) == CachedFree < nb

-----------------------------------------------------------------------------
Init ==
  /\ pc = "signal"
  /\ handler = FALSE /\ do_exit = FALSE /\ attached = FALSE
  /\ umem_frame_addr = [i \in 1 .. NumFrames |-> 0]
  /\ umem_frame_free = 0
  /\ fq = << >> /\ fq_stale = 0 /\ held = << >> /\ rx = << >> /\ rx_seen = 0
  /\ nframes_free = 0 /\ rcvd = 0 /\ done = 0

(* main, up to the receive loop: any call may fail, later failures detach. *)

InstallHandler ==
  /\ pc = "signal"
  /\ \/ pc' = "ifindex" /\ handler' = TRUE
     \/ pc' = "exited" /\ UNCHANGED handler
  /\ UNCHANGED <<do_exit, attached, pool, ring, batch>>

FindInterface ==
  /\ pc = "ifindex"
  /\ pc' \in {"attach", "exited"}
  /\ UNCHANGED <<life, pool, ring, batch>>

LoadAndAttach ==
  /\ pc = "attach"
  /\ \/ pc' = "findmap" /\ attached' = TRUE
     \/ pc' = "exited" /\ UNCHANGED attached
  /\ UNCHANGED <<handler, do_exit, pool, ring, batch>>

\* get_map_fd, posix_memalign and configure_xsk_umem: on failure main detaches
\* the program and exits.
Acquire_no_detach(here, next) ==                                   \* mutant
  /\ pc = here
  /\ pc' \in {next, "exited"}
  /\ UNCHANGED <<life, pool, ring, batch>>
Acquire(here, next) ==
  /\ pc = here
  /\ \/ pc' = next /\ UNCHANGED attached
     \/ pc' = "exited" /\ attached' = FALSE
  /\ UNCHANGED <<handler, do_exit, pool, ring, batch>>

FindMap == Acquire("findmap", "memalign")
AllocBuffer == Acquire("memalign", "umem")
ConfigureUmem == Acquire("umem", "socket")

\* xsk_configure_socket: partition the UMEM, then fill the whole fill ring.
ConfigureSocket ==
  /\ pc = "socket"
  /\ \/ /\ pc' = "check"
        /\ LET all == [i \in 1 .. NumFrames |-> i - 1]
           IN /\ umem_frame_addr' = AddrAfter(all, NumFrames, FillSize)
              /\ umem_frame_free' = FreeAfter(NumFrames, FillSize)
              /\ fq' = Allocated(all, NumFrames, FillSize)
        /\ UNCHANGED attached
     \/ pc' = "exited" /\ attached' = FALSE /\ UNCHANGED <<pool, fq>>
  /\ UNCHANGED <<handler, do_exit, fq_stale, held, rx, rx_seen, batch>>

(* receive_and_process_pkts *)

CheckExit_hoisted ==                                               \* mutant
  pc = "check" /\ pc' = "enter" /\ UNCHANGED <<life, pool, ring, batch>>
CheckExit ==
  /\ pc = "check"
  /\ pc' = IF do_exit THEN "detach" ELSE "enter"
  /\ UNCHANGED <<life, pool, ring, batch>>

\* The call of poll: from here on a signal interrupts it.
EnterPoll ==
  /\ pc = "enter"
  /\ pc' = "poll"
  /\ UNCHANGED <<life, pool, ring, batch>>

PollReturns ==
  /\ pc = "poll"
  /\ rx # << >>
  /\ pc' = "peek"
  /\ UNCHANGED <<life, pool, ring, batch>>

(* process_pkts *)

\* xsk_ring_cons__peek: the producer index is read again only when no entry is
\* known from the last time.
Peek ==
  /\ pc = "peek"
  /\ rx_seen' = IF rx_seen = 0 THEN Len(rx) ELSE rx_seen
  /\ rcvd' = Smaller(rx_seen', RxBatch)
  /\ done' = 0
  /\ pc' = IF rcvd' = 0 THEN "check" ELSE "nbfree"
  /\ UNCHANGED <<life, pool, fq, fq_stale, held, rx, nframes_free>>

\* replenish_fill_ring, first statement.
Replenish(want) ==
  /\ pc = "nbfree"
  /\ fq_stale' = IF NbFreeRefreshes(umem_frame_free) THEN 0 ELSE fq_stale
  /\ nframes_free' = want
  /\ pc' = IF nframes_free' > 0 THEN "reserve" ELSE "process"
  /\ UNCHANGED <<life, pool, fq, held, rx, rx_seen, rcvd, done>>
NbFree_batch == Replenish(Smaller(FillSize - Len(fq) - fq_stale', rcvd)) \* mutant
NbFree_skip == Replenish(0)                                        \* mutant
NbFree == Replenish(FillSize - Len(fq) - fq_stale')

\* One turn of the do-while: xsk_ring_prod__reserve gives all nframes_free
\* slots or none.
Reserve ==
  /\ pc = "reserve"
  /\ fq_stale' = IF NbFreeRefreshes(nframes_free) THEN 0 ELSE fq_stale
  /\ pc' = IF FillSize - Len(fq) - fq_stale' >= nframes_free THEN "fill" ELSE "reserve"
  /\ UNCHANGED <<life, pool, fq, held, rx, rx_seen, batch>>

\* The for loop over the reserved slots and the submit.
FillAndSubmit ==
  /\ pc = "fill"
  /\ fq' = fq \o Allocated(umem_frame_addr, umem_frame_free, nframes_free)
  /\ umem_frame_addr' = AddrAfter(umem_frame_addr, umem_frame_free, nframes_free)
  /\ umem_frame_free' = FreeAfter(umem_frame_free, nframes_free)
  /\ pc' = "process"
  /\ UNCHANGED <<life, fq_stale, held, rx, rx_seen, batch>>

\* One turn of the for loop: process_pkt, then xsk_free_umem_frame with its
\* assertion.
ProcessPacket ==
  /\ pc = "process"
  /\ done < rcvd
  /\ IF umem_frame_free < NumFrames
     THEN /\ umem_frame_addr' = Returned(umem_frame_addr, umem_frame_free, rx[done + 1])
          /\ umem_frame_free' = umem_frame_free + 1
          /\ done' = done + 1
          /\ pc' = IF done' = rcvd THEN "release" ELSE "process"
     ELSE pc' = "aborted" /\ UNCHANGED <<pool, done>>
  /\ UNCHANGED <<life, ring, nframes_free, rcvd>>

ReleaseEntries(n, seen) ==
  /\ pc = "release"
  /\ rx' = SubSeq(rx, n + 1, Len(rx))
  /\ rx_seen' = seen
  /\ rcvd' = 0 /\ done' = 0
  /\ pc' = "check"
  /\ UNCHANGED <<life, pool, fq, fq_stale, held, nframes_free>>
Release_all == ReleaseEntries(Len(rx), 0)                          \* mutant
Release == ReleaseEntries(rcvd, rx_seen - rcvd)

\* The end of main.
Detach ==
  /\ pc = "detach"
  /\ attached' = FALSE
  /\ pc' = "exited"
  /\ UNCHANGED <<handler, do_exit, pool, ring, batch>>

-----------------------------------------------------------------------------
\* Ctrl-C: the default action until the handler is installed, then
\* sigint_handler; a blocked poll fails with EINTR and the loop continues.
SigInt ==
  /\ pc \notin EndPhases
  /\ IF handler
     THEN /\ do_exit' = TRUE
          /\ pc' = IF pc = "poll" THEN "check" ELSE pc
     ELSE pc' = "killed" /\ UNCHANGED do_exit
  /\ UNCHANGED <<handler, attached, pool, ring, batch>>

(* The kernel, while the socket exists. *)

NextFrame == pc \in RunPhases /\ fq # << >> /\ Head(fq) # INVALID_UMEM_FRAME
ConsumeFill == fq' = Tail(fq) /\ fq_stale' = fq_stale + 1

\* A packet redirected to the socket is written to the oldest fill entry.
KernelReceive ==
  /\ NextFrame /\ Len(rx) < RxSize
  /\ ConsumeFill
  /\ rx' = Append(rx, Head(fq))
  /\ UNCHANGED <<pc, life, pool, held, rx_seen, batch>>

\* The kernel took the frame but could not deliver it yet (RX ring full, or a
\* driver that prefetches buffers).
KernelHoldFrame ==
  /\ NextFrame /\ Len(held) < KernelHold
  /\ ConsumeFill
  /\ held' = Append(held, Head(fq))
  /\ UNCHANGED <<pc, life, pool, rx, rx_seen, batch>>

KernelDeliverHeld ==
  /\ pc \in RunPhases /\ held # << >> /\ Len(rx) < RxSize
  /\ rx' = Append(rx, Head(held))
  /\ held' = Tail(held)
  /\ UNCHANGED <<pc, life, pool, fq, fq_stale, rx_seen, batch>>

\* An address outside the UMEM is consumed and dropped.
KernelSkipInvalid ==
  /\ pc \in RunPhases /\ fq # << >> /\ Head(fq) = INVALID_UMEM_FRAME
  /\ ConsumeFill
  /\ UNCHANGED <<pc, life, pool, held, rx, rx_seen, batch>>

Terminated == pc \in EndPhases /\ UNCHANGED vars

Setup ==
  \/ InstallHandler \/ FindInterface \/ LoadAndAttach \/ FindMap
  \/ AllocBuffer \/ ConfigureUmem \/ ConfigureSocket
Thread ==
  \/ Setup \/ CheckExit \/ EnterPoll \/ PollReturns \/ Peek \/ NbFree \/ Reserve
  \/ FillAndSubmit \/ ProcessPacket \/ Release \/ Detach
Delivery == KernelReceive \/ KernelDeliverHeld
Kernel == Delivery \/ KernelHoldFrame \/ KernelSkipInvalid

Next == Thread \/ SigInt \/ Kernel \/ Terminated

\* The thread is scheduled; packets and signals come when they come.
Spec == Init /\ [][Next]_vars /\ WF_vars(Thread)

\* The same on a link that carries traffic as long as there are frames for it.
TrafficSpec == Spec /\ WF_vars(Delivery) /\ WF_vars(KernelSkipInvalid)

-----------------------------------------------------------------------------
\* Every variable has its type and every index stays inside its ring: fq and
\* its unread slots fit the fill ring, rx the RX ring, and the counters of
\* process_pkts lie within the entries the program may read.
TypeOK ==
  /\ pc \in SetupPhases \cup RunPhases \cup EndPhases
  /\ handler \in BOOLEAN /\ do_exit \in BOOLEAN /\ attached \in BOOLEAN
  /\ umem_frame_addr \in [1 .. NumFrames -> Frames \cup {INVALID_UMEM_FRAME}]
  /\ umem_frame_free \in 0 .. NumFrames
  /\ fq \in Seq(Frames \cup {INVALID_UMEM_FRAME})
  /\ fq_stale \in Nat /\ Len(fq) + fq_stale <= FillSize
  /\ held \in Seq(Frames) /\ Len(held) <= KernelHold
  /\ rx \in Seq(Frames) /\ Len(rx) <= RxSize
  /\ rx_seen \in 0 .. Len(rx) /\ rcvd \in 0 .. rx_seen /\ done \in 0 .. rcvd
  /\ nframes_free \in 0 .. FillSize

IsFrame(a) == a # INVALID_UMEM_FRAME

\* Where frames are: in the free list, in the fill ring, with the kernel, in the
\* RX entries not yet processed.
Places ==
  ({"free"} \X (1 .. umem_frame_free)) \cup ({"fq"} \X {i \in 1 .. Len(fq) : IsFrame(fq[i])})
    \cup ({"held"} \X (1 .. Len(held))) \cup ({"rx"} \X (done + 1 .. Len(rx)))
At(p) ==
  IF p[1] = "free" THEN umem_frame_addr[p[2]] ELSE IF p[1] = "fq" THEN fq[p[2]]
  ELSE IF p[1] = "held" THEN held[p[2]] ELSE rx[p[2]]

\* No frame is lost and none is owned twice: once the pool exists, the free
\* list, the fill ring, the kernel and the unprocessed RX entries together
\* hold every frame exactly once, whatever the kernel does during a batch.
OneOwner ==
  pc \in RunPhases =>
    /\ {At(p) : p \in Places} = Frames
    /\ \A p, q \in Places : At(p) = At(q) => p = q

\* What replenish_fill_ring puts into the fill ring are addresses of frames,
\* never the INVALID_UMEM_FRAME of an exhausted free list (:204, :208).
FillEntriesAreFrames == INVALID_UMEM_FRAME \notin Elements(fq)

\* The assertion of xsk_free_umem_frame (:133) never fails.
NoAbort == pc # "aborted"

\* "We should be able to reserve nframes_free frames" (:209): between
\* xsk_prod_nb_free and the loop on xsk_ring_prod__reserve no slot gets lost,
\* so the loop does not spin.
ReserveSucceeds == pc = "reserve" => CachedFree >= nframes_free

\* The receiver never blocks in poll without having lent the kernel a frame in
\* which the packet that would wake it can arrive.
NeverStarved ==
  pc = "poll" /\ rx = << >> => \E i \in 1 .. Len(fq \o held) : IsFrame((fq \o held)[i])

\* "Replenish fill ring with as many frames as fit" (:204): when the packets
\* of a batch get processed, every slot the program knows to be free has been
\* filled, or there was no free frame left.
ReplenishFills ==
  [][(pc = "nbfree" \/ pc = "fill") /\ pc' = "process" =>
       CachedFree' = 0 \/ umem_frame_free' = 0]_vars

\* Every way out of main after the program was attached detaches it again.
DetachedAtExit == pc = "exited" => ~attached

\* The receiver implements FrameOwnership: frames go round in one direction,
\* one packet at a time, and every received packet is processed and its frame
\* returned to the pool unless the program ends.
Owner(f) ==
  LET where == {p[1] : p \in {q \in Places : At(q) = f}}
  IN IF where \cap {"fq", "held"} # {} THEN "kernel"
     ELSE IF "rx" \in where THEN "rx"
     ELSE IF "free" \in where \/ Places = {} THEN "app" ELSE "lost"
Ownership == INSTANCE FrameOwnership WITH
  Frames <- Frames,
  owner <- [f \in Frames |-> Owner(f)],
  open <- pc \notin EndPhases
FramesGoRound == Ownership!Spec

\* "Catch SIGINT when user exits applications (Ctrl-C)" (:346): once Ctrl-C was
\* pressed the program ends.
CtrlCExits == do_exit ~> pc \in EndPhases
=============================================================================
