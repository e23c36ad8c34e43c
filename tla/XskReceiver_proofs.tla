-------------------------- MODULE XskReceiver_proofs --------------------------
(***************************************************************************)
(* Proofs about XskReceiver for every number of frames, every ring size    *)
(* and every batch size.                                                   *)
(***************************************************************************)
EXTENDS XskReceiver, SequenceTheorems, FiniteSetTheorems, TLAPS

Addresses == Frames \cup {INVALID_UMEM_FRAME}

\* Before the socket exists its rings are empty.
RingsUnused ==
  pc \in SetupPhases =>
    fq = << >> /\ fq_stale = 0 /\ held = << >> /\ rx = << >> /\ rx_seen = 0
    /\ rcvd = 0 /\ done = 0

\* The slots counted by xsk_prod_nb_free are those that get filled: the kernel
\* only ever turns entries into stale slots.
SlotsKept == pc \in {"reserve", "fill"} => nframes_free = CachedFree

TypeInv == TypeOK /\ RingsUnused /\ SlotsKept

-----------------------------------------------------------------------------
\* What a run of xsk_alloc_umem_frame yields: n addresses, all of them frames
\* as long as the free list has n frames.
LEMMA AllocatedType ==
  ASSUME NEW addr \in [1 .. NumFrames -> Addresses], NEW free \in 0 .. NumFrames,
         NEW n \in Nat
  PROVE  /\ Allocated(addr, free, n) \in Seq(Addresses)
         /\ Len(Allocated(addr, free, n)) = n
         /\ FreeAfter(free, n) \in 0 .. NumFrames
         /\ AddrAfter(addr, free, n) \in [1 .. NumFrames -> Addresses]
<1> USE SizesAssumption DEF SizesAssumption
<1>1. \A k \in 1 .. n : (IF k <= free THEN addr[free - k + 1] ELSE INVALID_UMEM_FRAME) \in Addresses
  BY DEF Addresses
<1>2. Allocated(addr, free, n) \in [1 .. n -> Addresses]
  BY <1>1 DEF Allocated
<1>3. Allocated(addr, free, n) \in Seq(Addresses) /\ Len(Allocated(addr, free, n)) = n
  BY <1>2
<1>4. FreeAfter(free, n) \in 0 .. NumFrames
  BY DEF FreeAfter
<1>5. AddrAfter(addr, free, n) \in [1 .. NumFrames -> Addresses]
  BY DEF AddrAfter, Addresses
<1> QED BY <1>3, <1>4, <1>5

LEMMA InitTypeInv == Init => TypeInv
<1> SUFFICES ASSUME Init PROVE TypeInv
  OBVIOUS
<1> USE SizesAssumption DEF SizesAssumption, Init
<1>1. 0 \in Frames
  BY DEF Frames
<1>2. umem_frame_addr \in [1 .. NumFrames -> Addresses]
  BY <1>1 DEF Addresses
<1>3. fq \in Seq(Addresses) /\ held \in Seq(Frames) /\ rx \in Seq(Frames)
      /\ Len(fq) = 0 /\ Len(held) = 0 /\ Len(rx) = 0
  BY EmptySeq
<1>4. TypeOK
  <2>0. handler \in BOOLEAN /\ do_exit \in BOOLEAN /\ attached \in BOOLEAN
    BY Zenon
  <2>1. /\ pc \in SetupPhases
        /\ umem_frame_free \in 0 .. NumFrames /\ nframes_free \in 0 .. FillSize
        /\ fq_stale \in Nat /\ rx_seen = 0 /\ rcvd = 0 /\ done = 0
        /\ fq_stale <= FillSize /\ 0 <= KernelHold /\ 0 <= RxSize
    BY DEF SetupPhases
  <2>2. /\ Len(fq) + fq_stale <= FillSize /\ Len(held) <= KernelHold /\ Len(rx) <= RxSize
        /\ rx_seen \in 0 .. Len(rx) /\ rcvd \in 0 .. rx_seen /\ done \in 0 .. rcvd
    BY <1>3, <2>1
  <2> HIDE DEF Init
  <2> QED BY <1>2, <1>3, <2>0, <2>1, <2>2 DEF TypeOK, Addresses
<1>5. RingsUnused /\ SlotsKept
  BY DEF RingsUnused, SlotsKept
<1> QED BY <1>4, <1>5 DEF TypeInv

-----------------------------------------------------------------------------
\* The steps of the thread, of the signal handler and of the kernel keep TypeInv.

LEMMA SetupTypeInv == TypeInv /\ Setup => TypeInv'
<1> SUFFICES ASSUME TypeInv, Setup PROVE TypeInv'
  OBVIOUS
<1> USE SizesAssumption DEF SizesAssumption
<1> USE DEF TypeInv, TypeOK, RingsUnused, SlotsKept, SetupPhases, RunPhases, BatchPhases,
            EndPhases, CachedFree, life, pool, ring, batch
<1>1. CASE InstallHandler BY <1>1 DEF InstallHandler
<1>2. CASE FindInterface BY <1>2 DEF FindInterface
<1>3. CASE LoadAndAttach BY <1>3 DEF LoadAndAttach
<1>4. CASE FindMap BY <1>4 DEF FindMap, Acquire
<1>5. CASE AllocBuffer BY <1>5 DEF AllocBuffer, Acquire
<1>6. CASE ConfigureUmem BY <1>6 DEF ConfigureUmem, Acquire
<1>7. CASE ConfigureSocket
  <2> DEFINE all == [i \in 1 .. NumFrames |-> i - 1]
  <2>1. all \in [1 .. NumFrames -> Addresses]
    BY DEF Addresses, Frames
  <2> HIDE DEF all
  <2>0. NumFrames \in 0 .. NumFrames /\ FillSize \in Nat
    BY DEF SizesAssumption
  <2>2. /\ Allocated(all, NumFrames, FillSize) \in Seq(Addresses)
        /\ Len(Allocated(all, NumFrames, FillSize)) = FillSize
        /\ FreeAfter(NumFrames, FillSize) \in 0 .. NumFrames
        /\ AddrAfter(all, NumFrames, FillSize) \in [1 .. NumFrames -> Addresses]
    BY <2>1, <2>0, AllocatedType
  <2>3. CASE pc' = "check"
    BY <1>7, <2>2, <2>3, <2>0 DEF ConfigureSocket, all, Addresses
  <2>4. CASE pc' = "exited"
    BY <1>7, <2>4 DEF ConfigureSocket
  <2> QED BY <1>7, <2>3, <2>4 DEF ConfigureSocket
<1> QED BY <1>1, <1>2, <1>3, <1>4, <1>5, <1>6, <1>7 DEF Setup

LEMMA ThreadTypeInv == TypeInv /\ Thread => TypeInv'
<1> SUFFICES ASSUME TypeInv, Thread PROVE TypeInv'
  OBVIOUS
<1> USE SizesAssumption DEF SizesAssumption
<1> USE DEF TypeInv, TypeOK, RingsUnused, SlotsKept, SetupPhases, RunPhases, BatchPhases,
            EndPhases, CachedFree, life, pool, ring, batch
<1>1. CASE Setup BY <1>1, SetupTypeInv
<1>2. CASE CheckExit BY <1>2 DEF CheckExit
<1>3. CASE EnterPoll BY <1>3 DEF EnterPoll
<1>4. CASE PollReturns BY <1>4 DEF PollReturns
<1>5. CASE Peek BY <1>5 DEF Peek, Smaller
<1>6. CASE NbFree BY <1>6 DEF NbFree, Replenish, NbFreeRefreshes
<1>7. CASE Reserve BY <1>7 DEF Reserve, NbFreeRefreshes
<1>8. CASE FillAndSubmit
  <2> DEFINE new == Allocated(umem_frame_addr, umem_frame_free, nframes_free)
  <2>1. /\ new \in Seq(Addresses) /\ Len(new) = nframes_free
        /\ FreeAfter(umem_frame_free, nframes_free) \in 0 .. NumFrames
        /\ AddrAfter(umem_frame_addr, umem_frame_free, nframes_free)
             \in [1 .. NumFrames -> Addresses]
    <3>1. /\ umem_frame_addr \in [1 .. NumFrames -> Addresses]
          /\ umem_frame_free \in 0 .. NumFrames /\ nframes_free \in Nat
      BY DEF Addresses
    <3> HIDE DEF TypeInv, TypeOK, RingsUnused, SlotsKept
    <3> QED BY <3>1, AllocatedType
  <2> HIDE DEF new
  <2>2. fq \o new \in Seq(Addresses) /\ Len(fq \o new) = Len(fq) + nframes_free
    <3>1. fq \in Seq(Addresses) /\ new \in Seq(Addresses) /\ Len(new) = nframes_free
      BY <2>1 DEF Addresses
    <3> HIDE DEF TypeInv, TypeOK, RingsUnused, SlotsKept
    <3> QED BY <3>1, ConcatProperties
  <2>3. /\ fq' \in Seq(Addresses) /\ Len(fq') = Len(fq) + nframes_free
        /\ umem_frame_free' \in 0 .. NumFrames
        /\ umem_frame_addr' \in [1 .. NumFrames -> Addresses]
    <3> HIDE DEF TypeInv, TypeOK, RingsUnused, SlotsKept
    <3> QED BY <1>8, <2>1, <2>2 DEF FillAndSubmit, new
  <2>4. Len(fq') + fq_stale' <= FillSize
    <3>1. Len(fq) \in Nat
      BY LenProperties
    <3> QED BY <1>8, <2>3, <3>1 DEF FillAndSubmit
  <2> QED BY <1>8, <2>3, <2>4 DEF FillAndSubmit, Addresses
<1>9. CASE ProcessPacket
  <2>1. done + 1 \in 1 .. Len(rx) /\ rx[done + 1] \in Frames
    BY <1>9, ElementOfSeq DEF ProcessPacket
  <2>2. CASE umem_frame_free < NumFrames
    <3>1. umem_frame_addr' \in [1 .. NumFrames -> Frames \cup {INVALID_UMEM_FRAME}]
      BY <1>9, <2>1, <2>2 DEF ProcessPacket, Returned
    <3>2. /\ umem_frame_free' \in 0 .. NumFrames /\ done' \in 0 .. rcvd'
          /\ pc' \in {"process", "release"}
      BY <1>9, <2>1, <2>2 DEF ProcessPacket
    <3> QED BY <1>9, <3>1, <3>2 DEF ProcessPacket
  <2>3. CASE ~(umem_frame_free < NumFrames)
    BY <1>9, <2>3 DEF ProcessPacket
  <2> QED BY <2>2, <2>3
<1>10. CASE Release
  <2>1. /\ SubSeq(rx, rcvd + 1, Len(rx)) \in Seq(Frames)
        /\ Len(SubSeq(rx, rcvd + 1, Len(rx))) = Len(rx) - rcvd
    <3>1. rcvd \in Nat /\ Len(rx) \in Nat /\ rcvd <= Len(rx)
      BY LenProperties
    <3>2. \A i \in rcvd + 1 .. Len(rx) : rx[i] \in Frames
      BY <3>1, ElementOfSeq
    <3> HIDE DEF TypeInv, TypeOK, RingsUnused, SlotsKept
    <3> QED BY <3>1, <3>2, SubSeqProperties
  <2> QED BY <1>10, <2>1 DEF Release, ReleaseEntries
<1>11. CASE Detach BY <1>11 DEF Detach
<1> QED BY <1>1, <1>2, <1>3, <1>4, <1>5, <1>6, <1>7, <1>8, <1>9, <1>10, <1>11 DEF Thread

LEMMA KernelTypeInv == TypeInv /\ Kernel => TypeInv'
<1> SUFFICES ASSUME TypeInv, Kernel PROVE TypeInv'
  OBVIOUS
<1> USE SizesAssumption DEF SizesAssumption
<1>0. ASSUME fq # << >>, ConsumeFill, UNCHANGED <<pc, nframes_free>> PROVE SlotsKept'
  <2>1. Len(fq) \in Nat /\ Len(Tail(fq)) = Len(fq) - 1 /\ fq_stale \in Nat
    BY <1>0, HeadTailProperties, LenProperties DEF TypeInv, TypeOK
  <2>2. CachedFree' = CachedFree
    BY <1>0, <2>1 DEF ConsumeFill, CachedFree
  <2> QED BY <1>0, <2>2 DEF TypeInv, SlotsKept
<1> USE DEF TypeInv, TypeOK, RingsUnused, SetupPhases, RunPhases, BatchPhases,
            EndPhases, life, pool, batch
<1>1. ASSUME fq # << >>
      PROVE  /\ Head(fq) \in Addresses /\ Tail(fq) \in Seq(Addresses)
             /\ Len(Tail(fq)) = Len(fq) - 1 /\ Len(fq) \in Nat
  BY <1>1, HeadTailProperties, LenProperties DEF Addresses
<1>2. ASSUME held # << >>
      PROVE  /\ Head(held) \in Frames /\ Tail(held) \in Seq(Frames)
             /\ Len(Tail(held)) = Len(held) - 1 /\ Len(held) \in Nat
  BY <1>2, HeadTailProperties, LenProperties
<1>3. \A f \in Frames : /\ Append(rx, f) \in Seq(Frames) /\ Len(Append(rx, f)) = Len(rx) + 1
                        /\ Append(held, f) \in Seq(Frames) /\ Len(Append(held, f)) = Len(held) + 1
  BY AppendProperties
<1>4. CASE KernelReceive
  <2>1. SlotsKept' BY <1>0, <1>4 DEF KernelReceive, NextFrame
  <2>2. TypeOK' /\ RingsUnused'
    BY <1>1, <1>3, <1>4 DEF KernelReceive, NextFrame, ConsumeFill, Addresses
  <2> QED BY <2>1, <2>2
<1>5. CASE KernelHoldFrame
  <2>1. SlotsKept' BY <1>0, <1>5 DEF KernelHoldFrame, NextFrame
  <2>2. TypeOK' /\ RingsUnused'
    BY <1>1, <1>3, <1>5 DEF KernelHoldFrame, NextFrame, ConsumeFill, Addresses
  <2> QED BY <2>1, <2>2
<1>6. CASE KernelDeliverHeld
  BY <1>2, <1>3, <1>6 DEF KernelDeliverHeld, SlotsKept, CachedFree
<1>7. CASE KernelSkipInvalid
  <2>1. SlotsKept' BY <1>0, <1>7 DEF KernelSkipInvalid
  <2>2. TypeOK' /\ RingsUnused'
    BY <1>1, <1>7 DEF KernelSkipInvalid, ConsumeFill, Addresses
  <2> QED BY <2>1, <2>2
<1> QED BY <1>4, <1>5, <1>6, <1>7 DEF Kernel, Delivery

LEMMA NextTypeInv == TypeInv /\ [Next]_vars => TypeInv'
<1> SUFFICES ASSUME TypeInv, [Next]_vars PROVE TypeInv'
  OBVIOUS
<1> USE DEF TypeInv, TypeOK, RingsUnused, SlotsKept, SetupPhases, RunPhases, BatchPhases,
            EndPhases, CachedFree, life, pool, ring, batch
<1>1. CASE Thread BY <1>1, ThreadTypeInv
<1>2. CASE SigInt BY <1>2 DEF SigInt
<1>3. CASE Kernel BY <1>3, KernelTypeInv
<1>4. CASE UNCHANGED vars BY <1>4 DEF vars
<1> QED BY <1>1, <1>2, <1>3, <1>4 DEF Next, Terminated

\* The rings, the free list and the indices of process_pkts stay in their
\* bounds, whatever the sizes and however kernel, thread and Ctrl-C interleave.
THEOREM TypeCorrect == Spec => []TypeOK
<1>1. TypeInv => TypeOK BY DEF TypeInv
<1> QED BY <1>1, InitTypeInv, NextTypeInv, PTL DEF Spec

\* The loop on xsk_ring_prod__reserve in replenish_fill_ring (:211-213) succeeds
\* in its first turn for every ring size: the kernel cannot take back a slot
\* that xsk_prod_nb_free counted.
THEOREM ReserveNeverSpins == Spec => []ReserveSucceeds
<1>1. TypeInv => ReserveSucceeds
  BY DEF TypeInv, SlotsKept, ReserveSucceeds, CachedFree, TypeOK
<1> QED BY <1>1, InitTypeInv, NextTypeInv, PTL DEF Spec

-----------------------------------------------------------------------------
\* Enough frames for both rings and for what the kernel keeps in between.
\* NUM_FRAMES = 4096 with two rings of 2048 entries meets it only if the kernel
\* keeps none.
Ample == NumFrames >= FillSize + RxSize + KernelHold

\* The frames add up: the free list, the fill ring, the kernel and the RX
\* entries not yet processed hold NumFrames addresses, all of them frames, and
\* the free list covers the slots that are about to be filled.
PoolInv ==
  /\ fq \in Seq(Frames)
  /\ pc \in RunPhases => umem_frame_free + Len(fq) + Len(held) + Len(rx) - done = NumFrames
  /\ pc \in RunPhases => \A i \in 1 .. umem_frame_free : umem_frame_addr[i] \in Frames
  /\ pc \in {"reserve", "fill"} => nframes_free <= umem_frame_free
  /\ pc \in RunPhases /\ pc \notin {"process", "release"} => done = 0
  /\ pc = "release" => done = rcvd
  /\ pc # "aborted"

\* FillSize frames are on their way through the kernel, apart from the batch
\* that is being processed and the slots that are about to be filled.
LentInv ==
  /\ pc \in {"check", "enter", "poll", "peek", "nbfree"} =>
       Len(fq) + Len(held) + Len(rx) >= FillSize
  /\ pc \in {"reserve", "fill"} =>
       Len(fq) + Len(held) + Len(rx) - rcvd + nframes_free >= FillSize
  /\ pc \in {"process", "release"} =>
       Len(fq) + Len(held) + Len(rx) - rcvd >= FillSize

CountInv == TypeInv /\ PoolInv /\ LentInv

LEMMA Lengths ==
  TypeOK => /\ Len(fq) \in Nat /\ Len(held) \in Nat /\ Len(rx) \in Nat
            /\ umem_frame_free \in Nat /\ nframes_free \in Nat /\ fq_stale \in Nat
            /\ rcvd \in Nat /\ done \in Nat /\ rx_seen \in Nat
            /\ Len(fq) + fq_stale <= FillSize
            /\ Len(held) <= KernelHold /\ Len(rx) <= RxSize
            /\ rx_seen <= Len(rx) /\ rcvd <= rx_seen /\ done <= rcvd
BY LenProperties, SizesAssumption DEF TypeOK, SizesAssumption

LEMMA Contents ==
  TypeOK => /\ \A i \in 1 .. Len(rx) : rx[i] \in Frames
            /\ umem_frame_addr \in [1 .. NumFrames -> Addresses]
            /\ umem_frame_free \in 0 .. NumFrames
BY ElementOfSeq DEF TypeOK, Addresses

\* As long as the free list has n frames, xsk_alloc_umem_frame yields frames and
\* leaves the rest of the list as it is.
LEMMA AllocatedFrames ==
  ASSUME NEW addr \in [1 .. NumFrames -> Addresses], NEW free \in 0 .. NumFrames,
         \A i \in 1 .. free : addr[i] \in Frames,
         NEW n \in Nat, n <= free
  PROVE  /\ Allocated(addr, free, n) \in Seq(Frames)
         /\ FreeAfter(free, n) = free - n
         /\ \A i \in 1 .. free - n : AddrAfter(addr, free, n)[i] \in Frames
<1> USE SizesAssumption DEF SizesAssumption
<1>1. \A k \in 1 .. n : free - k + 1 \in 1 .. free
  OBVIOUS
<1>2. Allocated(addr, free, n) \in [1 .. n -> Frames]
  BY <1>1 DEF Allocated
<1>3. Allocated(addr, free, n) \in Seq(Frames)
  BY <1>2
<1>4. FreeAfter(free, n) = free - n
  BY DEF FreeAfter
<1>5. \A i \in 1 .. free - n : AddrAfter(addr, free, n)[i] \in Frames
  BY <1>4 DEF AddrAfter
<1> QED BY <1>3, <1>4, <1>5


LEMMA InitCountInv == Init => CountInv
<1> SUFFICES ASSUME Init PROVE CountInv
  OBVIOUS
<1>1. TypeInv
  BY InitTypeInv
<1>2. fq \in Seq(Frames)
  BY EmptySeq DEF Init
<1>3. pc = "signal" /\ done = 0
  BY DEF Init
<1>4. pc \notin RunPhases
  BY <1>3 DEF RunPhases, BatchPhases
<1> QED BY <1>1, <1>2, <1>3, <1>4 DEF CountInv, PoolInv, LentInv

LEMMA SetupCountInv ==
  Ample /\ CountInv /\ Setup => PoolInv' /\ LentInv'
<1> SUFFICES ASSUME Ample, CountInv, Setup PROVE PoolInv' /\ LentInv'
  OBVIOUS
<1> USE SizesAssumption DEF SizesAssumption
<1>1. ASSUME UNCHANGED <<fq, done>>, pc' \in SetupPhases \cup {"exited"}
      PROVE PoolInv' /\ LentInv'
  <2>1. done = 0 /\ fq \in Seq(Frames)
    BY DEF CountInv, PoolInv, TypeInv, RingsUnused, Setup, InstallHandler, FindInterface,
           LoadAndAttach, FindMap, AllocBuffer, ConfigureUmem, ConfigureSocket, Acquire,
           SetupPhases
  <2>2. /\ pc' \notin RunPhases /\ pc' # "aborted"
        /\ pc' \notin {"check", "enter", "poll", "peek", "nbfree", "reserve", "fill",
                       "process", "release"}
    BY <1>1 DEF SetupPhases, RunPhases, BatchPhases
  <2> QED BY <1>1, <2>1, <2>2 DEF PoolInv, LentInv
<1>2. ASSUME ConfigureSocket, pc' = "check" PROVE PoolInv' /\ LentInv'
  <2> DEFINE all == [i \in 1 .. NumFrames |-> i - 1]
  <2>1. /\ all \in [1 .. NumFrames -> Addresses]
        /\ \A i \in 1 .. NumFrames : all[i] \in Frames
    BY DEF Addresses, Frames
  <2>2. FillSize \in Nat /\ FillSize <= NumFrames /\ NumFrames \in 0 .. NumFrames
    BY DEF Ample
  <2> HIDE DEF all
  <2>3. /\ Allocated(all, NumFrames, FillSize) \in Seq(Frames)
        /\ Len(Allocated(all, NumFrames, FillSize)) = FillSize
        /\ FreeAfter(NumFrames, FillSize) = NumFrames - FillSize
        /\ \A i \in 1 .. NumFrames - FillSize :
              AddrAfter(all, NumFrames, FillSize)[i] \in Frames
    BY <2>1, <2>2, AllocatedFrames, AllocatedType
  <2>4. /\ fq' \in Seq(Frames) /\ Len(fq') = FillSize
        /\ umem_frame_free' = NumFrames - FillSize
        /\ \A i \in 1 .. umem_frame_free' : umem_frame_addr'[i] \in Frames
        /\ UNCHANGED <<held, rx, rcvd, done>>
    BY <1>2, <2>3 DEF ConfigureSocket, all, batch
  <2>5. Len(held') = 0 /\ Len(rx') = 0 /\ done' = 0
    BY <1>2, <2>4, EmptySeq DEF ConfigureSocket, CountInv, TypeInv, RingsUnused, SetupPhases
  <2>6. umem_frame_free' + Len(fq') + Len(held') + Len(rx') - done' = NumFrames
    BY <2>2, <2>4, <2>5
  <2>7. Len(fq') + Len(held') + Len(rx') >= FillSize
    BY <2>2, <2>4, <2>5
  <2> QED BY <1>2, <2>4, <2>5, <2>6, <2>7 DEF PoolInv, LentInv
<1>3. \/ UNCHANGED <<fq, done>> /\ pc' \in SetupPhases \cup {"exited"}
      \/ ConfigureSocket /\ pc' = "check"
  BY DEF Setup, InstallHandler, FindInterface, LoadAndAttach, FindMap, AllocBuffer,
         ConfigureUmem, ConfigureSocket, Acquire, SetupPhases, ring, batch
<1> QED BY <1>1, <1>2, <1>3

\* Steps that leave frames and batch alone and stay outside the batch.
Idle ==
  /\ UNCHANGED <<pool, ring, batch>>
  /\ \/ pc \in {"check", "enter", "poll"} /\ pc' \in {"check", "enter", "poll", "peek"}
     \/ pc' \in {"detach", "exited"} /\ pc \in {"check", "detach"}
     \/ pc' = pc
     \/ pc' = "killed"

LEMMA IdleCountInv ==
  CountInv /\ Idle => PoolInv' /\ LentInv'
<1> SUFFICES ASSUME CountInv, Idle PROVE PoolInv' /\ LentInv'
  OBVIOUS
<1> USE DEF Idle
<1>1. PoolInv'
  <2>1. pc' \in RunPhases => pc \in RunPhases /\ (done = 0 \/ pc' = pc)
    BY DEF CountInv, PoolInv, RunPhases, BatchPhases
  <2>2. pc' # "aborted" /\ (pc' = "release" => pc' = pc)
        /\ (pc' \in {"reserve", "fill"} => pc' = pc)
    BY DEF CountInv, PoolInv
  <2> QED BY <2>1, <2>2 DEF CountInv, PoolInv, pool, ring, batch
<1>2. LentInv'
  BY DEF CountInv, LentInv, ring, batch
<1> QED BY <1>1, <1>2


Batch == Peek \/ NbFree \/ Reserve \/ FillAndSubmit \/ ProcessPacket \/ Release

LEMMA BatchCountInv ==
  Ample /\ CountInv /\ TypeInv' /\ Batch => PoolInv' /\ LentInv'
<1> SUFFICES ASSUME Ample, CountInv, TypeInv', Batch PROVE PoolInv' /\ LentInv'
  OBVIOUS
<1> USE SizesAssumption DEF SizesAssumption
<1>0. TypeOK /\ TypeOK'
  BY DEF CountInv, TypeInv
<1>1. /\ Len(fq) \in Nat /\ Len(held) \in Nat /\ Len(rx) \in Nat
      /\ umem_frame_free \in Nat /\ nframes_free \in Nat /\ fq_stale \in Nat
      /\ rcvd \in Nat /\ done \in Nat /\ rx_seen \in Nat
      /\ Len(fq) + fq_stale <= FillSize
      /\ Len(held) <= KernelHold /\ Len(rx) <= RxSize
      /\ rx_seen <= Len(rx) /\ rcvd <= rx_seen /\ done <= rcvd
  BY <1>0, Lengths
<1>2. rcvd' \in Nat /\ rcvd' <= Len(rx')  /\ nframes_free' \in Nat
  BY <1>0, Lengths DEF TypeOK
<1>3. ASSUME pc \in RunPhases
      PROVE  /\ umem_frame_free + Len(fq) + Len(held) + Len(rx) - done = NumFrames
             /\ \A i \in 1 .. umem_frame_free : umem_frame_addr[i] \in Frames
             /\ fq \in Seq(Frames) /\ pc # "aborted"
  BY <1>3 DEF CountInv, PoolInv
<1>10. /\ \A i \in 1 .. Len(rx) : rx[i] \in Frames
      /\ umem_frame_addr \in [1 .. NumFrames -> Addresses]
      /\ umem_frame_free \in 0 .. NumFrames
  BY <1>0, Contents
<1> USE DEF RunPhases, BatchPhases
<1>4. CASE Peek
  <2>1. pc = "peek" /\ pc' \in {"check", "nbfree"} /\ done' = 0 /\ done = 0
        /\ UNCHANGED <<umem_frame_addr, umem_frame_free, fq, held, rx>>
    BY <1>4 DEF Peek, pool, CountInv, PoolInv
  <2> QED BY <2>1, <1>3 DEF CountInv, PoolInv, LentInv
<1>5. CASE NbFree
  <2>1. pc = "nbfree" /\ pc' \in {"reserve", "process"} /\ done = 0 /\ rcvd' = rcvd
        /\ UNCHANGED <<umem_frame_addr, umem_frame_free, fq, held, rx, done>>
        /\ (pc' = "process" <=> ~(nframes_free' > 0))
    BY <1>5 DEF NbFree, Replenish, pool, CountInv, PoolInv
  <2>2. nframes_free' = FillSize - Len(fq) - fq_stale' /\ fq_stale' \in {0, fq_stale}
        /\ (fq_stale' = 0 \/ FillSize - Len(fq) - fq_stale >= umem_frame_free)
    BY <1>5, <1>1 DEF NbFree, Replenish, NbFreeRefreshes, CachedFree
  <2>3. umem_frame_free = NumFrames - Len(fq) - Len(held) - Len(rx)
    BY <2>1, <1>1, <1>3
  <2>4. nframes_free' <= umem_frame_free
    BY <2>2, <2>3, <1>1 DEF Ample
  <2>5. Len(fq) + Len(held) + Len(rx) - rcvd + nframes_free' >= FillSize
    BY <2>2, <2>3, <1>1 DEF Ample
  <2>6. PoolInv'
    BY <2>1, <2>4, <1>3 DEF PoolInv
  <2>7. LentInv'
    BY <2>1, <2>5, <1>1, <1>2 DEF LentInv
  <2> QED BY <2>6, <2>7
<1>6. CASE Reserve
  <2>1. pc = "reserve" /\ pc' \in {"reserve", "fill"}
        /\ UNCHANGED <<umem_frame_addr, umem_frame_free, fq, held, rx, done, rcvd, nframes_free>>
    BY <1>6 DEF Reserve, pool, batch
  <2> QED BY <2>1, <1>3 DEF CountInv, PoolInv, LentInv
<1>7. CASE FillAndSubmit
  <2> DEFINE new == Allocated(umem_frame_addr, umem_frame_free, nframes_free)
  <2>1. pc = "fill" /\ pc' = "process" /\ done = 0 /\ nframes_free <= umem_frame_free
        /\ UNCHANGED <<held, rx, done, rcvd>>
    BY <1>7 DEF FillAndSubmit, batch, CountInv, PoolInv
  <2>3. /\ new \in Seq(Frames) /\ Len(new) = nframes_free
        /\ FreeAfter(umem_frame_free, nframes_free) = umem_frame_free - nframes_free
        /\ \A i \in 1 .. umem_frame_free - nframes_free :
              AddrAfter(umem_frame_addr, umem_frame_free, nframes_free)[i] \in Frames
    BY <2>1, <1>10, <1>1, <1>3, AllocatedFrames, AllocatedType
  <2>4. fq' = fq \o new /\ umem_frame_free' = umem_frame_free - nframes_free
        /\ umem_frame_addr' = AddrAfter(umem_frame_addr, umem_frame_free, nframes_free)
    BY <1>7, <2>3 DEF FillAndSubmit
  <2> HIDE DEF new
  <2>5. fq' \in Seq(Frames) /\ Len(fq') = Len(fq) + nframes_free
    BY <2>1, <2>3, <2>4, <1>3, ConcatProperties
  <2>6. PoolInv'
    <3>1. umem_frame_free' + Len(fq') + Len(held') + Len(rx') - done' = NumFrames
      <4>1. umem_frame_free + Len(fq) + Len(held) + Len(rx) - done = NumFrames
        BY <2>1, <1>3
      <4>2. Len(held') = Len(held) /\ Len(rx') = Len(rx) /\ done' = done
        BY <2>1
      <4>3. umem_frame_free' = umem_frame_free - nframes_free
            /\ Len(fq') = Len(fq) + nframes_free
        BY <2>4, <2>5
      <4> QED BY <4>1, <4>2, <4>3, <1>1
    <3>2. \A i \in 1 .. umem_frame_free' : umem_frame_addr'[i] \in Frames
      BY <2>3, <2>4
    <3> QED BY <2>1, <2>5, <3>1, <3>2 DEF PoolInv
  <2>7. LentInv'
    BY <2>1, <2>5, <1>1 DEF LentInv, CountInv
  <2> QED BY <2>6, <2>7
<1>8. CASE ProcessPacket
  <2>1. pc = "process" /\ done < rcvd /\ UNCHANGED <<fq, held, rx, rcvd>>
    BY <1>8 DEF ProcessPacket, ring
  <2>2. umem_frame_free < NumFrames
    BY <2>1, <1>1, <1>3
  <2>3. /\ umem_frame_free' = umem_frame_free + 1 /\ done' = done + 1
        /\ pc' \in {"process", "release"} /\ (pc' = "release" => done' = rcvd)
        /\ umem_frame_addr' = [umem_frame_addr EXCEPT ![umem_frame_free + 1] = rx[done + 1]]
    BY <1>8, <2>2 DEF ProcessPacket, Returned
  <2>4. rx[done + 1] \in Frames
    BY <1>10, <1>1, <2>1
  <2>5. \A i \in 1 .. umem_frame_free' : umem_frame_addr'[i] \in Frames
    BY <1>10, <1>1, <1>3, <2>1, <2>2, <2>3, <2>4
  <2>6. PoolInv'
    BY <2>1, <2>3, <2>5, <1>1, <1>3 DEF PoolInv
  <2>7. LentInv'
    BY <2>1, <2>3, <1>1 DEF LentInv, CountInv
  <2> QED BY <2>6, <2>7
<1>9. CASE Release
  <2>1. /\ pc = "release" /\ pc' = "check" /\ done = rcvd /\ done' = 0 /\ rcvd' = 0
        /\ rx' = SubSeq(rx, rcvd + 1, Len(rx))
        /\ UNCHANGED <<umem_frame_addr, umem_frame_free, fq, held>>
    BY <1>9 DEF Release, ReleaseEntries, pool, CountInv, PoolInv
  <2>2. Len(rx') = Len(rx) - rcvd
    <3>1. \A i \in rcvd + 1 .. Len(rx) : rx[i] \in Frames
      BY <1>10, <1>1
    <3> QED BY <2>1, <3>1, <1>1, SubSeqProperties
  <2>3. PoolInv'
    <3>1. umem_frame_free' + Len(fq') + Len(held') + Len(rx') - done' = NumFrames
      <4>1. umem_frame_free + Len(fq) + Len(held) + Len(rx) - done = NumFrames
        BY <2>1, <1>3
      <4>2. Len(held') = Len(held) /\ Len(fq') = Len(fq) /\ done' = 0 /\ done = rcvd
            /\ umem_frame_free' = umem_frame_free
        BY <2>1
      <4> QED BY <2>2, <4>1, <4>2, <1>1
    <3> QED BY <2>1, <3>1, <1>3 DEF PoolInv
  <2>4. LentInv'
    BY <2>1, <2>2, <1>1 DEF LentInv, CountInv
  <2> QED BY <2>3, <2>4
<1> QED BY <1>4, <1>5, <1>6, <1>7, <1>8, <1>9 DEF Batch


\* The kernel moves frames from the fill ring to the RX ring, perhaps keeping
\* some on the way: the sums stay the same.
LEMMA KernelCountInv ==
  CountInv /\ Kernel => PoolInv' /\ LentInv'
<1> SUFFICES ASSUME CountInv, Kernel PROVE PoolInv' /\ LentInv'
  OBVIOUS
<1>0. TypeOK
  BY DEF CountInv, TypeInv
<1>1. /\ Len(fq) \in Nat /\ Len(held) \in Nat /\ Len(rx) \in Nat
      /\ umem_frame_free \in Nat /\ rcvd \in Nat /\ done \in Nat /\ nframes_free \in Nat
  BY <1>0, Lengths
<1>2. pc \in RunPhases /\ fq \in Seq(Frames) /\ held \in Seq(Frames) /\ rx \in Seq(Frames)
  BY <1>0 DEF TypeOK, CountInv, PoolInv, Kernel, Delivery, KernelReceive, KernelHoldFrame,
              KernelDeliverHeld, KernelSkipInvalid, NextFrame
<1>3. umem_frame_free + Len(fq) + Len(held) + Len(rx) - done = NumFrames
  BY <1>2 DEF CountInv, PoolInv
<1>4. ~KernelSkipInvalid
  BY <1>2, HeadTailProperties, InvalidAssumption DEF InvalidAssumption, KernelSkipInvalid
<1>5. /\ fq' \in Seq(Frames)
      /\ Len(fq') + Len(held') + Len(rx') = Len(fq) + Len(held) + Len(rx)
      /\ Len(fq') \in Nat /\ Len(held') \in Nat /\ Len(rx') \in Nat
  <2>1. CASE KernelReceive
    BY <2>1, <1>1, <1>2, HeadTailProperties, AppendProperties
       DEF KernelReceive, NextFrame, ConsumeFill
  <2>2. CASE KernelHoldFrame
    BY <2>2, <1>1, <1>2, HeadTailProperties, AppendProperties
       DEF KernelHoldFrame, NextFrame, ConsumeFill
  <2>3. CASE KernelDeliverHeld
    BY <2>3, <1>1, <1>2, HeadTailProperties, AppendProperties DEF KernelDeliverHeld
  <2> QED BY <1>4, <2>1, <2>2, <2>3 DEF Kernel, Delivery
<1>6. UNCHANGED <<pc, pool, batch>>
  BY DEF Kernel, Delivery, KernelReceive, KernelHoldFrame, KernelDeliverHeld,
         KernelSkipInvalid
<1>7. PoolInv'
  <2>1. umem_frame_free' + Len(fq') + Len(held') + Len(rx') - done' = NumFrames
    BY <1>1, <1>3, <1>5, <1>6 DEF pool, batch
  <2> QED BY <2>1, <1>5, <1>6 DEF CountInv, PoolInv, pool, batch
<1>8. LentInv'
  BY <1>1, <1>5, <1>6 DEF CountInv, LentInv, batch
<1> QED BY <1>7, <1>8

LEMMA NextCountInv ==
  ASSUME Ample PROVE CountInv /\ [Next]_vars => CountInv'
<1> SUFFICES ASSUME CountInv, [Next]_vars PROVE CountInv'
  OBVIOUS
<1>1. TypeInv'
  BY NextTypeInv DEF CountInv
<1> SUFFICES PoolInv' /\ LentInv'
  BY <1>1 DEF CountInv
<1>2. CASE Setup
  BY <1>2, SetupCountInv
<1>3. CASE CheckExit \/ EnterPoll \/ PollReturns \/ Detach \/ SigInt \/ UNCHANGED vars
  <2>1. Idle
    BY <1>3 DEF Idle, CheckExit, EnterPoll, PollReturns, Detach, SigInt, vars, pool, ring, batch
  <2> QED BY <2>1, IdleCountInv
<1>4. CASE Batch
  BY <1>1, <1>4, BatchCountInv
<1>5. CASE Kernel
  BY <1>5, KernelCountInv
<1> QED BY <1>2, <1>3, <1>4, <1>5 DEF Next, Thread, Terminated, Batch

\* With enough frames for both rings and the kernel, replenish_fill_ring never
\* publishes INVALID_UMEM_FRAME.
THEOREM OnlyFramesAreLent ==
  ASSUME Ample PROVE Spec => []FillEntriesAreFrames
<1>1. CountInv => FillEntriesAreFrames
  <2> SUFFICES ASSUME CountInv PROVE INVALID_UMEM_FRAME \notin Elements(fq)
    BY DEF FillEntriesAreFrames
  <2>1. \A i \in 1 .. Len(fq) : fq[i] \in Frames
    BY ElementOfSeq DEF CountInv, PoolInv
  <2> QED BY <2>1, InvalidAssumption DEF InvalidAssumption, Elements
<1> QED BY <1>1, InitCountInv, NextCountInv, PTL DEF Spec

\* With enough frames the receiver never blocks in poll without a frame in
\* which the next packet can arrive.
THEOREM KernelNeverStarved ==
  ASSUME Ample PROVE Spec => []NeverStarved
<1>1. CountInv => NeverStarved
  <2> SUFFICES ASSUME CountInv, pc = "poll", rx = << >>
               PROVE \E i \in 1 .. Len(fq \o held) : IsFrame((fq \o held)[i])
    BY DEF NeverStarved
  <2>1. fq \in Seq(Frames) /\ held \in Seq(Frames) /\ Len(rx) = 0
    BY EmptySeq DEF CountInv, PoolInv, TypeInv, TypeOK
  <2>2. Len(fq) \in Nat /\ Len(held) \in Nat /\ Len(fq) + Len(held) >= 1
    BY <2>1, LenProperties, SizesAssumption DEF CountInv, LentInv, SizesAssumption
  <2>3. fq \o held \in Seq(Frames) /\ Len(fq \o held) = Len(fq) + Len(held)
    BY <2>1, ConcatProperties
  <2>4. (fq \o held)[1] \in Frames /\ 1 \in 1 .. Len(fq \o held)
    BY <2>2, <2>3, ElementOfSeq
  <2> QED BY <2>4, InvalidAssumption DEF InvalidAssumption, IsFrame
<1> QED BY <1>1, InitCountInv, NextCountInv, PTL DEF Spec

\* Every slot of the fill ring that the program knows to be free has been
\* filled when it processes the packets, for every ring size.
THEOREM FillsWhatFits == Spec => ReplenishFills
<1>1. TypeInv /\ [Next]_vars =>
        [(pc = "nbfree" \/ pc = "fill") /\ pc' = "process" =>
           CachedFree' = 0 \/ umem_frame_free' = 0]_vars
  <2> SUFFICES ASSUME TypeInv, [Next]_vars, pc = "nbfree" \/ pc = "fill", pc' = "process"
               PROVE CachedFree' = 0
    OBVIOUS
  <2>0. /\ Len(fq) \in Nat /\ fq_stale \in Nat /\ Len(fq) + fq_stale <= FillSize
        /\ FillSize \in Nat
    BY Lengths, SizesAssumption DEF TypeInv, SizesAssumption
  <2>1. NbFree \/ FillAndSubmit
    BY DEF Next, Thread, Setup, InstallHandler, FindInterface, LoadAndAttach, FindMap,
           AllocBuffer, ConfigureUmem, Acquire, ConfigureSocket, CheckExit, EnterPoll,
           PollReturns, Peek, Reserve, ProcessPacket, Release, ReleaseEntries, Detach,
           SigInt, Kernel, Delivery, KernelReceive, KernelHoldFrame, KernelDeliverHeld,
           KernelSkipInvalid, Terminated, vars, EndPhases
  <2>2. CASE NbFree
    <3>1. /\ fq_stale' \in {0, fq_stale} /\ nframes_free' = FillSize - Len(fq) - fq_stale'
          /\ fq' = fq /\ ~(nframes_free' > 0)
      BY <2>2 DEF NbFree, Replenish
    <3> QED BY <2>0, <3>1 DEF CachedFree
  <2>3. CASE FillAndSubmit
    <3> DEFINE new == Allocated(umem_frame_addr, umem_frame_free, nframes_free)
    <3>1. /\ nframes_free = FillSize - Len(fq) - fq_stale /\ nframes_free \in Nat
          /\ fq' = fq \o new /\ fq_stale' = fq_stale
      BY <2>3, Lengths DEF FillAndSubmit, TypeInv, SlotsKept, CachedFree
    <3>2. new \in Seq(Addresses) /\ Len(new) = nframes_free /\ fq \in Seq(Addresses)
      BY <3>1, Contents, AllocatedType DEF TypeInv, TypeOK, Addresses
    <3> HIDE DEF new
    <3>3. Len(fq') = Len(fq) + nframes_free
      BY <3>1, <3>2, ConcatProperties
    <3> QED BY <2>0, <3>1, <3>3 DEF CachedFree
  <2> QED BY <2>1, <2>2, <2>3
<1> QED BY <1>1, InitTypeInv, NextTypeInv, PTL DEF Spec, ReplenishFills

\* No way out of main leaves the XDP program attached to the interface.
THEOREM AlwaysDetached == Spec => []DetachedAtExit
<1> DEFINE Inv == /\ pc \in {"signal", "ifindex", "attach", "exited"} => ~attached
<1>1. Init => Inv
  BY DEF Init
<1>2. Inv /\ [Next]_vars => Inv'
  BY DEF Next, Thread, Setup, InstallHandler, FindInterface, LoadAndAttach, FindMap,
         AllocBuffer, ConfigureUmem, Acquire, ConfigureSocket, CheckExit, EnterPoll,
         PollReturns, Peek, NbFree, Replenish, Reserve, FillAndSubmit, ProcessPacket,
         Release, ReleaseEntries, Detach, SigInt, Kernel, Delivery, KernelReceive,
         KernelHoldFrame, KernelDeliverHeld, KernelSkipInvalid, Terminated, vars, life
<1>3. Inv => DetachedAtExit
  BY DEF DetachedAtExit
<1> QED BY <1>1, <1>2, <1>3, PTL DEF Spec

-----------------------------------------------------------------------------
(* Who has the frames. *)

\* C tells which frame is at each of the places P: every frame is at one of them.
OneEach(P, C) ==
  /\ {C[p] : p \in P} = Frames
  /\ \A p, q \in P : C[p] = C[q] => p = q

\* The places q of D are the places m[q] of C, one by one, with the same
\* contents; k is the inverse of m.
Moved(P, C, Q, D, m, k) ==
  /\ \A q \in Q : m[q] \in P /\ D[q] = C[m[q]] /\ k[m[q]] = q
  /\ \A p \in P : k[p] \in Q /\ m[k[p]] = p

LEMMA Rearranged ==
  ASSUME NEW P, NEW C, NEW Q, NEW D, NEW m, NEW k,
         OneEach(P, C), Moved(P, C, Q, D, m, k)
  PROVE  OneEach(Q, D)
<1> USE DEF OneEach, Moved
<1>1. \A q \in Q : D[q] \in Frames
  OBVIOUS
<1>2. \A f \in Frames : \E q \in Q : D[q] = f
  <2>1. TAKE f \in Frames
  <2>2. PICK p \in P : C[p] = f
    OBVIOUS
  <2>3. k[p] \in Q /\ D[k[p]] = f
    BY <2>2
  <2> QED BY <2>3
<1>3. ASSUME NEW p \in Q, NEW q \in Q, D[p] = D[q] PROVE p = q
  <2>1. m[p] = m[q]
    BY <1>3
  <2> QED BY <2>1
<1> QED BY <1>1, <1>2, <1>3

Holding == [p \in Places |-> At(p)]

\* Entries of one kind of place: indices of a sequence s that hold frames.
Entries(kind, s, is) == {kind} \X {i \in is : IsFrame(s[i])}

\* The place `old' becomes the place `new', the others keep their kind.
OneMoves(P, C, Q, D, old, new) ==
  \E m, k : /\ Moved(P, C, Q, D, m, k)
            /\ \A q \in Q : IF q = new THEN m[q] = old ELSE m[q][1] = q[1]

\* All places keep their kind.
NoneMoves(P, C, Q, D) ==
  \E m, k : Moved(P, C, Q, D, m, k) /\ \A q \in Q : m[q][1] = q[1]

\* Some places of the free list become places of the fill ring, the others keep
\* their kind.
SomeLent(P, C, Q, D) ==
  \E m, k : /\ Moved(P, C, Q, D, m, k)
            /\ \A q \in Q : m[q][1] = q[1] \/ (m[q][1] = "free" /\ q[1] = "fq")

\* The head of a queue s goes to the end of a queue t (of which the entries from
\* `low' on count), all other places R stay.
HeadMoved(S, T, s, t, s2, t2, R, C, D, n, l, low, P, Q) ==
  /\ S # T
  /\ n \in Nat
  /\ l \in Nat
  /\ low \in Nat
  /\ low <= l + 1
  /\ n > 0
  /\ \A i \in 1 .. n - 1 : s2[i] = s[i + 1]
  /\ \A i \in low .. l : t2[i] = t[i]
  /\ t2[l + 1] = s[1]
  /\ IsFrame(s[1])
  /\ \A p \in R : p[1] # S /\ p[1] # T
  /\ \A i \in 1 .. n : IsFrame(s[i]) => C[<<S, i>>] = s[i]
  /\ \A i \in 1 .. n - 1 : IsFrame(s2[i]) => D[<<S, i>>] = s2[i]
  /\ \A i \in low .. l : IsFrame(t[i]) => C[<<T, i>>] = t[i]
  /\ \A i \in low .. l + 1 : IsFrame(t2[i]) => D[<<T, i>>] = t2[i]
  /\ \A p \in R : D[p] = C[p]
  /\ P = Entries(S, s, 1 .. n) \cup Entries(T, t, low .. l) \cup R
  /\ Q = Entries(S, s2, 1 .. n - 1) \cup Entries(T, t2, low .. l + 1) \cup R

LEMMA HeadMoves ==
  ASSUME NEW S, NEW T, NEW s, NEW t, NEW s2, NEW t2, NEW R, NEW C, NEW D, NEW n, NEW l, NEW low, NEW P, NEW Q,
         HeadMoved(S, T, s, t, s2, t2, R, C, D, n, l, low, P, Q)
  PROVE  OneMoves(P, C, Q, D, <<S, 1>>, <<T, l + 1>>)
<1> USE DEF HeadMoved
<1> DEFINE m == [q \in Q |-> IF q = <<T, l + 1>> THEN <<S, 1>>
                             ELSE IF q[1] = S THEN <<S, q[2] + 1>> ELSE q]
           k == [p \in P |-> IF p = <<S, 1>> THEN <<T, l + 1>>
                             ELSE IF p[1] = S THEN <<S, p[2] - 1>> ELSE p]
           Good(q) == /\ m[q] \in P /\ D[q] = C[m[q]] /\ k[m[q]] = q
                      /\ IF q = <<T, l + 1>> THEN m[q] = <<S, 1>> ELSE m[q][1] = q[1]
           Back(p) == k[p] \in Q /\ m[k[p]] = p
<1>1. ASSUME NEW i \in 1 .. n - 1, IsFrame(s2[i]) PROVE Good(<<S, i>>)
  <2>1. i + 1 \in 1 .. n /\ i + 1 # 1 /\ (i + 1) - 1 = i /\ IsFrame(s[i + 1])
    BY <1>1
  <2>2. <<S, i>> \in Q /\ <<S, i + 1>> \in P
    BY <1>1, <2>1 DEF Entries
  <2>3. m[<<S, i>>] = <<S, i + 1>> /\ k[<<S, i + 1>>] = <<S, i>>
    BY <2>1, <2>2
  <2> QED BY <1>1, <2>1, <2>2, <2>3
<1>2. ASSUME NEW i \in low .. l, IsFrame(t2[i]) PROVE Good(<<T, i>>)
  <2>1. i # l + 1 /\ i \in low .. l + 1 /\ IsFrame(t[i])
    BY <1>2
  <2>2. <<T, i>> \in Q /\ <<T, i>> \in P
    BY <1>2, <2>1 DEF Entries
  <2>3. m[<<T, i>>] = <<T, i>> /\ k[<<T, i>>] = <<T, i>>
    BY <2>1, <2>2
  <2> QED BY <1>2, <2>1, <2>2, <2>3
<1>3. Good(<<T, l + 1>>) /\ Back(<<S, 1>>)
  <2>1. <<T, l + 1>> \in Q /\ <<S, 1>> \in P
    BY DEF Entries
  <2>2. m[<<T, l + 1>>] = <<S, 1>> /\ k[<<S, 1>>] = <<T, l + 1>>
    BY <2>1
  <2>3. D[<<T, l + 1>>] = t2[l + 1] /\ C[<<S, 1>>] = s[1]
    OBVIOUS
  <2> QED BY <2>1, <2>2, <2>3
<1>4. ASSUME NEW q \in R PROVE Good(q) /\ Back(q)
  <2>1. q \in Q /\ q \in P /\ m[q] = q /\ k[q] = q
    OBVIOUS
  <2> QED BY <2>1
<1>5. ASSUME NEW i \in 1 .. n, i # 1, IsFrame(s[i]) PROVE Back(<<S, i>>)
  <2>1. i - 1 \in 1 .. n - 1 /\ (i - 1) + 1 = i /\ IsFrame(s2[i - 1])
    BY <1>5
  <2>2. <<S, i>> \in P /\ <<S, i - 1>> \in Q
    BY <1>5, <2>1 DEF Entries
  <2>3. k[<<S, i>>] = <<S, i - 1>> /\ m[<<S, i - 1>>] = <<S, i>>
    BY <1>5, <2>1, <2>2
  <2> QED BY <2>2, <2>3
<1>6. ASSUME NEW i \in low .. l, IsFrame(t[i]) PROVE Back(<<T, i>>)
  <2>1. i # l + 1 /\ i \in low .. l + 1 /\ IsFrame(t2[i])
    BY <1>6
  <2>2. <<T, i>> \in Q /\ <<T, i>> \in P
    BY <1>6, <2>1 DEF Entries
  <2> QED BY <2>1, <2>2
<1> HIDE DEF m, k, Good, Back
<1>7. ASSUME NEW q \in Q PROVE Good(q)
  <2>1. \/ \E i \in 1 .. n - 1 : q = <<S, i>> /\ IsFrame(s2[i])
        \/ \E i \in low .. l : q = <<T, i>> /\ IsFrame(t2[i])
        \/ q = <<T, l + 1>> \/ q \in R
    BY DEF Entries
  <2> QED BY <1>1, <1>2, <1>3, <1>4, <2>1
<1>8. ASSUME NEW p \in P PROVE Back(p)
  <2>1. \/ \E i \in 1 .. n : p = <<S, i>> /\ IsFrame(s[i])
        \/ \E i \in low .. l : p = <<T, i>> /\ IsFrame(t[i])
        \/ p \in R
    BY DEF Entries
  <2> QED BY <1>3, <1>4, <1>5, <1>6, <2>1
<1>9. Moved(P, C, Q, D, m, k)
  BY <1>7, <1>8 DEF Moved, Good, Back
<1> QED BY <1>7, <1>9 DEF Good, OneMoves

\* A queue s is renumbered when its first d entries, which hold nothing that
\* counts, are removed.
Shifted(S, s, s2, R, C, D, n, d, P, Q) ==
  /\ n \in Nat
  /\ d \in 0 .. n
  /\ \A i \in 1 .. n - d : s2[i] = s[i + d]
  /\ \A p \in R : p[1] # S
  /\ \A i \in d + 1 .. n : IsFrame(s[i]) => C[<<S, i>>] = s[i]
  /\ \A i \in 1 .. n - d : IsFrame(s2[i]) => D[<<S, i>>] = s2[i]
  /\ \A p \in R : D[p] = C[p]
  /\ P = Entries(S, s, d + 1 .. n) \cup R
  /\ Q = Entries(S, s2, 1 .. n - d) \cup R

LEMMA ShiftMoves ==
  ASSUME NEW S, NEW s, NEW s2, NEW R, NEW C, NEW D, NEW n, NEW d, NEW P, NEW Q,
         Shifted(S, s, s2, R, C, D, n, d, P, Q)
  PROVE  NoneMoves(P, C, Q, D)
<1> USE DEF Shifted
<1> DEFINE m == [q \in Q |-> IF q[1] = S THEN <<S, q[2] + d>> ELSE q]
           k == [p \in P |-> IF p[1] = S THEN <<S, p[2] - d>> ELSE p]
           Good(q) == m[q] \in P /\ D[q] = C[m[q]] /\ k[m[q]] = q /\ m[q][1] = q[1]
           Back(p) == k[p] \in Q /\ m[k[p]] = p
<1>1. ASSUME NEW i \in 1 .. n - d, IsFrame(s2[i]) PROVE Good(<<S, i>>)
  <2>1. i + d \in d + 1 .. n /\ (i + d) - d = i /\ IsFrame(s[i + d])
    BY <1>1
  <2>2. <<S, i>> \in Q /\ <<S, i + d>> \in P
    BY <1>1, <2>1 DEF Entries
  <2>3. m[<<S, i>>] = <<S, i + d>> /\ k[<<S, i + d>>] = <<S, i>>
    BY <2>1, <2>2
  <2> QED BY <1>1, <2>1, <2>2, <2>3
<1>2. ASSUME NEW i \in d + 1 .. n, IsFrame(s[i]) PROVE Back(<<S, i>>)
  <2>1. i - d \in 1 .. n - d /\ (i - d) + d = i /\ IsFrame(s2[i - d])
    BY <1>2
  <2>2. <<S, i>> \in P /\ <<S, i - d>> \in Q
    BY <1>2, <2>1 DEF Entries
  <2>3. k[<<S, i>>] = <<S, i - d>> /\ m[<<S, i - d>>] = <<S, i>>
    BY <1>2, <2>1, <2>2
  <2> QED BY <2>2, <2>3
<1>3. ASSUME NEW q \in R PROVE Good(q) /\ Back(q)
  <2>1. q \in Q /\ q \in P /\ m[q] = q /\ k[q] = q
    OBVIOUS
  <2> QED BY <2>1
<1> HIDE DEF m, k, Good, Back
<1>4. ASSUME NEW q \in Q PROVE Good(q)
  <2>1. (\E i \in 1 .. n - d : q = <<S, i>> /\ IsFrame(s2[i])) \/ q \in R
    BY DEF Entries
  <2> QED BY <1>1, <1>3, <2>1
<1>5. ASSUME NEW p \in P PROVE Back(p)
  <2>1. (\E i \in d + 1 .. n : p = <<S, i>> /\ IsFrame(s[i])) \/ p \in R
    BY DEF Entries
  <2> QED BY <1>2, <1>3, <2>1
<1>6. Moved(P, C, Q, D, m, k)
  BY <1>4, <1>5 DEF Moved, Good, Back
<1> QED BY <1>4, <1>6 DEF Good, NoneMoves

LEMMA FreeAfterIs ==
  ASSUME NEW free \in Nat, NEW n \in Nat
  PROVE  /\ FreeAfter(free, n) \in 0 .. free
         /\ FreeAfter(free, n) = free - n \/ (FreeAfter(free, n) = 0 /\ n > free)
BY DEF FreeAfter

\* n calls of xsk_alloc_umem_frame put the last frames of the free list, the
\* last one first, at the end of the fill ring s.
Filled(addr, free, n, s, s2, l, R, C, D, P, Q) ==
  /\ addr \in [1 .. NumFrames -> Addresses]
  /\ free \in 0 .. NumFrames
  /\ n \in Nat
  /\ l \in Nat
  /\ \A i \in 1 .. l : s2[i] = s[i]
  /\ \A i \in 1 .. n : s2[l + i] = Allocated(addr, free, n)[i]
  /\ \A p \in R : p[1] # "free" /\ p[1] # "fq"
  /\ \A i \in 1 .. free : IsFrame(addr[i]) /\ C[<<"free", i>>] = addr[i]
  /\ \A i \in 1 .. FreeAfter(free, n) : D[<<"free", i>>] = AddrAfter(addr, free, n)[i]
  /\ \A i \in 1 .. l : IsFrame(s[i]) => C[<<"fq", i>>] = s[i]
  /\ \A i \in 1 .. l + n : IsFrame(s2[i]) => D[<<"fq", i>>] = s2[i]
  /\ \A p \in R : D[p] = C[p]
  /\ P = Entries("free", addr, 1 .. free) \cup Entries("fq", s, 1 .. l) \cup R
  /\ Q = Entries("free", AddrAfter(addr, free, n), 1 .. FreeAfter(free, n)) \cup Entries("fq", s2, 1 .. l + n) \cup R

LEMMA FillMoves ==
  ASSUME NEW addr, NEW free, NEW n, NEW s, NEW s2, NEW l, NEW R, NEW C, NEW D, NEW P, NEW Q,
         Filled(addr, free, n, s, s2, l, R, C, D, P, Q)
  PROVE  SomeLent(P, C, Q, D)
<1> USE DEF Filled
<1> USE SizesAssumption DEF SizesAssumption
<1> DEFINE rest == FreeAfter(free, n)
           addr2 == AddrAfter(addr, free, n)
           m == [q \in Q |-> IF q[1] = "fq" /\ q[2] > l THEN <<"free", free + l + 1 - q[2]>> ELSE q]
           k == [p \in P |-> IF p[1] = "free" /\ p[2] > rest THEN <<"fq", free + l + 1 - p[2]>> ELSE p]
           Good(q) == /\ m[q] \in P /\ D[q] = C[m[q]] /\ k[m[q]] = q
                      /\ m[q][1] = q[1] \/ (m[q][1] = "free" /\ q[1] = "fq")
           Back(p) == k[p] \in Q /\ m[k[p]] = p
<1>1. /\ rest \in 0 .. free /\ (rest = free - n \/ (rest = 0 /\ n > free))
      /\ \A i \in 1 .. rest : addr2[i] = addr[i]
  <2>1. rest \in 0 .. free /\ (rest = free - n \/ (rest = 0 /\ n > free))
    <3>1. free \in Nat
      OBVIOUS
    <3> QED BY <3>1, FreeAfterIs
  <2>2. \A i \in 1 .. rest : i \in 1 .. NumFrames /\ ~(rest < i)
    BY <2>1
  <2>3. addr2 = [i \in 1 .. NumFrames |->
                   IF rest < i /\ i <= free THEN INVALID_UMEM_FRAME ELSE addr[i]]
    BY DEF AddrAfter
  <2> QED BY <2>1, <2>2, <2>3
<1>2. \A i \in 1 .. n : s2[l + i] = IF i <= free THEN addr[free - i + 1] ELSE INVALID_UMEM_FRAME
  BY DEF Allocated
<1>10. /\ \A i \in 1 .. rest : D[<<"free", i>>] = addr2[i]
       /\ P = Entries("free", addr, 1 .. free) \cup Entries("fq", s, 1 .. l) \cup R
       /\ Q = Entries("free", addr2, 1 .. rest) \cup Entries("fq", s2, 1 .. l + n) \cup R
  OBVIOUS
<1> HIDE DEF rest, addr2
<1>3. ASSUME NEW i \in 1 .. rest PROVE Good(<<"free", i>>) /\ Back(<<"free", i>>)
  <2>1. i \in 1 .. free /\ IsFrame(addr2[i]) /\ IsFrame(addr[i]) /\ addr2[i] = addr[i] /\ ~(i > rest)
    <3>1. i \in 1 .. free /\ ~(i > rest) /\ addr2[i] = addr[i]
      BY <1>1
    <3>2. IsFrame(addr[i])
      BY <3>1
    <3> QED BY <3>1, <3>2
  <2>2. <<"free", i>> \in Q /\ <<"free", i>> \in P
    BY <1>10, <2>1 DEF Entries
  <2>3. m[<<"free", i>>] = <<"free", i>> /\ k[<<"free", i>>] = <<"free", i>>
    BY <2>1, <2>2
  <2>4. D[<<"free", i>>] = C[<<"free", i>>]
    BY <1>10, <2>1
  <2> HIDE DEF m, k
  <2>5. <<"free", i>>[1] = "free"
    OBVIOUS
  <2> QED BY <2>2, <2>3, <2>4, <2>5
<1>4. ASSUME NEW i \in 1 .. l, IsFrame(s[i]) PROVE Good(<<"fq", i>>) /\ Back(<<"fq", i>>)
  <2>1. ~(i > l) /\ i \in 1 .. l + n /\ IsFrame(s2[i]) /\ s2[i] = s[i]
    BY <1>4
  <2>2. <<"fq", i>> \in Q /\ <<"fq", i>> \in P
    BY <1>4, <1>10, <2>1 DEF Entries
  <2>3. m[<<"fq", i>>] = <<"fq", i>> /\ k[<<"fq", i>>] = <<"fq", i>>
    BY <2>1, <2>2
  <2> QED BY <1>4, <2>1, <2>2, <2>3
<1>5. ASSUME NEW i \in rest + 1 .. free
      PROVE Good(<<"fq", free + l + 1 - i>>) /\ Back(<<"free", i>>)
  <2> DEFINE j == free + l + 1 - i
  <2>1. /\ j \in 1 .. l + n /\ j > l /\ i > rest /\ i \in 1 .. free
        /\ free + l + 1 - j = i
    BY <1>1
  <2>2. j - l \in 1 .. n /\ j - l <= free /\ free - (j - l) + 1 = i /\ l + (j - l) = j
    BY <2>1
  <2> HIDE DEF j
  <2>3. s2[j] = addr[i] /\ IsFrame(addr[i]) /\ IsFrame(s2[j])
    <3>1. s2[l + (j - l)] = addr[free - (j - l) + 1]
      BY <1>2, <2>2
    <3> QED BY <3>1, <2>1, <2>2
  <2>4. <<"fq", j>> \in Q /\ <<"free", i>> \in P
    BY <1>10, <2>1, <2>3 DEF Entries
  <2>5. m[<<"fq", j>>] = <<"free", i>> /\ k[<<"free", i>>] = <<"fq", j>>
    <3>1. ~(<<"free", i>>[1] = "fq") /\ <<"free", i>>[2] = i /\ <<"fq", j>>[2] = j
      OBVIOUS
    <3> QED BY <2>1, <2>4, <3>1
  <2>6. Good(<<"fq", j>>) /\ Back(<<"free", i>>)
    BY <2>1, <2>3, <2>4, <2>5
  <2> QED BY <2>6 DEF j
<1>6. ASSUME NEW q \in R PROVE Good(q) /\ Back(q)
  <2>1. q \in Q /\ q \in P /\ m[q] = q /\ k[q] = q
    BY <1>10
  <2>2. D[q] = C[q]
    OBVIOUS
  <2>3. /\ m[q] \in P /\ D[q] = C[m[q]] /\ k[m[q]] = q
        /\ m[q][1] = q[1] \/ (m[q][1] = "free" /\ q[1] = "fq")
    <3> HIDE DEF m, k
    <3> QED BY <2>1, <2>2
  <2>4. k[q] \in Q /\ m[k[q]] = q
    <3> HIDE DEF m, k
    <3> QED BY <2>1
  <2> QED BY <2>3, <2>4
<1> HIDE DEF m, k, Good, Back
<1>7. ASSUME NEW q \in Q PROVE Good(q)
  <2>1. \/ \E i \in 1 .. rest : q = <<"free", i>>
        \/ \E i \in 1 .. l + n : q = <<"fq", i>> /\ IsFrame(s2[i])
        \/ q \in R
    BY <1>10 DEF Entries
  <2>2. ASSUME NEW i \in 1 .. l + n, q = <<"fq", i>>, IsFrame(s2[i]) PROVE Good(q)
    <3>1. CASE i <= l
      BY <3>1, <2>2, <1>4
    <3>2. CASE i > l
      <4>1. i - l \in 1 .. n /\ l + (i - l) = i
        BY <3>2
      <4>2. i - l <= free
        BY <4>1, <2>2, <1>2 DEF IsFrame
      <4>3. free + l + 1 - i \in rest + 1 .. free
        BY <4>1, <4>2, <1>1
      <4>4. free + l + 1 - (free + l + 1 - i) = i
        OBVIOUS
      <4> QED BY <4>3, <4>4, <2>2, <1>5
    <3> QED BY <3>1, <3>2
  <2> QED BY <1>3, <1>6, <2>1, <2>2
<1>8. ASSUME NEW p \in P PROVE Back(p)
  <2>1. \/ \E i \in 1 .. rest : p = <<"free", i>>
        \/ \E i \in rest + 1 .. free : p = <<"free", i>>
        \/ \E i \in 1 .. l : p = <<"fq", i>> /\ IsFrame(s[i])
        \/ p \in R
    BY <1>1, <1>10 DEF Entries
  <2> QED BY <1>3, <1>4, <1>5, <1>6, <2>1
<1>9. Moved(P, C, Q, D, m, k)
  BY <1>7, <1>8 DEF Moved, Good, Back
<1> QED BY <1>7, <1>9 DEF Good, SomeLent

\* xsk_free_umem_frame puts the frame of the oldest unprocessed RX entry d at the
\* end of the free list.
GivenBack(addr, addr2, free, r, d, l, R, C, D, P, Q) ==
  /\ free \in Nat
  /\ d \in Nat
  /\ l \in Nat
  /\ d <= l
  /\ \A i \in 1 .. free : addr2[i] = addr[i]
  /\ addr2[free + 1] = r[d]
  /\ IsFrame(r[d])
  /\ \A p \in R : p[1] # "free" /\ p[1] # "rx"
  /\ \A i \in 1 .. free : C[<<"free", i>>] = addr[i]
  /\ \A i \in 1 .. free + 1 : D[<<"free", i>>] = addr2[i]
  /\ \A i \in d .. l : C[<<"rx", i>>] = r[i]
  /\ \A i \in d + 1 .. l : D[<<"rx", i>>] = r[i]
  /\ \A p \in R : D[p] = C[p]
  /\ P = Entries("free", addr, 1 .. free) \cup Entries("rx", r, d .. l) \cup R
  /\ Q = Entries("free", addr2, 1 .. free + 1) \cup Entries("rx", r, d + 1 .. l) \cup R

LEMMA ReturnMoves ==
  ASSUME NEW addr, NEW addr2, NEW free, NEW r, NEW d, NEW l, NEW R, NEW C, NEW D, NEW P, NEW Q,
         GivenBack(addr, addr2, free, r, d, l, R, C, D, P, Q)
  PROVE  OneMoves(P, C, Q, D, <<"rx", d>>, <<"free", free + 1>>)
<1> USE DEF GivenBack
<1> DEFINE m == [q \in Q |-> IF q = <<"free", free + 1>> THEN <<"rx", d>> ELSE q]
           k == [p \in P |-> IF p = <<"rx", d>> THEN <<"free", free + 1>> ELSE p]
           Good(q) == /\ m[q] \in P /\ D[q] = C[m[q]] /\ k[m[q]] = q
                      /\ IF q = <<"free", free + 1>> THEN m[q] = <<"rx", d>> ELSE m[q][1] = q[1]
           Back(p) == k[p] \in Q /\ m[k[p]] = p
<1>1. ASSUME NEW i \in 1 .. free, IsFrame(addr[i])
      PROVE Good(<<"free", i>>) /\ Back(<<"free", i>>)
  <2>1. i # free + 1 /\ i \in 1 .. free + 1 /\ IsFrame(addr2[i])
    BY <1>1
  <2>2. <<"free", i>> \in Q /\ <<"free", i>> \in P
    BY <1>1, <2>1 DEF Entries
  <2>3. m[<<"free", i>>] = <<"free", i>> /\ k[<<"free", i>>] = <<"free", i>>
    BY <2>1, <2>2
  <2> QED BY <1>1, <2>1, <2>2, <2>3
<1>2. ASSUME NEW i \in d + 1 .. l, IsFrame(r[i])
      PROVE Good(<<"rx", i>>) /\ Back(<<"rx", i>>)
  <2>1. i # d /\ i \in d .. l
    OBVIOUS
  <2>2. <<"rx", i>> \in Q /\ <<"rx", i>> \in P
    BY <1>2, <2>1 DEF Entries
  <2>3. m[<<"rx", i>>] = <<"rx", i>> /\ k[<<"rx", i>>] = <<"rx", i>>
    BY <2>1, <2>2
  <2> QED BY <1>2, <2>1, <2>2, <2>3
<1>3. Good(<<"free", free + 1>>) /\ Back(<<"rx", d>>)
  <2>1. <<"free", free + 1>> \in Q /\ <<"rx", d>> \in P
    BY DEF Entries
  <2>2. m[<<"free", free + 1>>] = <<"rx", d>> /\ k[<<"rx", d>>] = <<"free", free + 1>>
    BY <2>1
  <2>3. D[<<"free", free + 1>>] = addr2[free + 1] /\ C[<<"rx", d>>] = r[d]
    OBVIOUS
  <2> QED BY <2>1, <2>2, <2>3
<1>4. ASSUME NEW q \in R PROVE Good(q) /\ Back(q)
  <2>1. q \in Q /\ q \in P /\ m[q] = q /\ k[q] = q
    OBVIOUS
  <2> QED BY <2>1
<1> HIDE DEF m, k, Good, Back
<1>5. ASSUME NEW q \in Q PROVE Good(q)
  <2>1. \/ \E i \in 1 .. free : q = <<"free", i>> /\ IsFrame(addr[i])
        \/ q = <<"free", free + 1>>
        \/ \E i \in d + 1 .. l : q = <<"rx", i>> /\ IsFrame(r[i])
        \/ q \in R
    BY DEF Entries
  <2> QED BY <1>1, <1>2, <1>3, <1>4, <2>1
<1>6. ASSUME NEW p \in P PROVE Back(p)
  <2>1. \/ \E i \in 1 .. free : p = <<"free", i>> /\ IsFrame(addr[i])
        \/ p = <<"rx", d>>
        \/ \E i \in d + 1 .. l : p = <<"rx", i>> /\ IsFrame(r[i])
        \/ p \in R
    BY DEF Entries
  <2> QED BY <1>1, <1>2, <1>3, <1>4, <2>1
<1>7. Moved(P, C, Q, D, m, k)
  BY <1>5, <1>6 DEF Moved, Good, Back
<1> QED BY <1>5, <1>7 DEF Good, OneMoves

\* All entries of the free list are frames.
FreeFrames == \A i \in 1 .. umem_frame_free : umem_frame_addr[i] \in Frames

AllEntries ==
  Entries("free", umem_frame_addr, 1 .. umem_frame_free) \cup Entries("fq", fq, 1 .. Len(fq))
    \cup Entries("held", held, 1 .. Len(held)) \cup Entries("rx", rx, done + 1 .. Len(rx))
Layout ==
  /\ Places = AllEntries
  /\ \A i \in 1 .. umem_frame_free :
       IsFrame(umem_frame_addr[i]) /\ Holding[<<"free", i>>] = umem_frame_addr[i]
  /\ \A i \in 1 .. Len(fq) : IsFrame(fq[i]) => Holding[<<"fq", i>>] = fq[i]
  /\ \A i \in 1 .. Len(held) : IsFrame(held[i]) /\ Holding[<<"held", i>>] = held[i]
  /\ \A i \in done + 1 .. Len(rx) : IsFrame(rx[i]) /\ Holding[<<"rx", i>>] = rx[i]

LEMMA LaidOut == TypeOK /\ FreeFrames => Layout
<1> SUFFICES ASSUME TypeOK, FreeFrames PROVE Layout
  OBVIOUS
<1>1. done \in Nat /\ Len(rx) \in Nat
  BY Lengths
<1>2. /\ \A i \in 1 .. umem_frame_free : IsFrame(umem_frame_addr[i])
      /\ \A i \in 1 .. Len(held) : IsFrame(held[i])
      /\ \A i \in done + 1 .. Len(rx) : i \in 1 .. Len(rx) /\ IsFrame(rx[i])
  BY <1>1, ElementOfSeq, InvalidAssumption DEF TypeOK, FreeFrames, IsFrame, InvalidAssumption
<1>3. Places = AllEntries
  BY <1>2 DEF Places, AllEntries, Entries
<1>4. /\ \A i \in 1 .. umem_frame_free : <<"free", i>> \in Places
      /\ \A i \in 1 .. Len(fq) : IsFrame(fq[i]) => <<"fq", i>> \in Places
      /\ \A i \in 1 .. Len(held) : <<"held", i>> \in Places
      /\ \A i \in done + 1 .. Len(rx) : <<"rx", i>> \in Places
  BY DEF Places
<1>5. \A i : /\ At(<<"free", i>>) = umem_frame_addr[i] /\ At(<<"fq", i>>) = fq[i]
             /\ At(<<"held", i>>) = held[i] /\ At(<<"rx", i>>) = rx[i]
  BY DEF At
<1> QED BY <1>2, <1>3, <1>4, <1>5 DEF Layout, Holding

LEMMA LaidOutNext == TypeOK' /\ FreeFrames' => Layout'
BY LaidOut, PTL

\* Who owns the frames at a kind of place.
Party(kind) == IF kind \in {"fq", "held"} THEN "kernel" ELSE IF kind = "rx" THEN "rx" ELSE "app"

OneHolder == OneEach(Places, Holding)
Owners == \A p \in Places : Owner(Holding[p]) = Party(p[1])

LEMMA OwnerAt == OneHolder => Owners
<1> SUFFICES ASSUME OneHolder, NEW p \in Places PROVE Owner(Holding[p]) = Party(p[1])
  BY DEF Owners
<1> DEFINE where == {q[1] : q \in {r \in Places : At(r) = Holding[p]}}
<1>1. where = {p[1]}
  BY DEF OneHolder, OneEach, Holding
<1>2. p[1] \in {"free", "fq", "held", "rx"}
  BY DEF Places
<1>3. Owner(Holding[p]) = IF where \cap {"fq", "held"} # {} THEN "kernel"
                          ELSE IF "rx" \in where THEN "rx"
                          ELSE IF "free" \in where \/ Places = {} THEN "app" ELSE "lost"
  BY DEF Owner
<1> HIDE DEF where
<1> QED BY <1>1, <1>2, <1>3 DEF Party

LEMMA OwnerAtNext == OneHolder' => Owners'
BY OwnerAt, PTL

\* A step that moves frames keeps one holder for each, and a frame changes hands
\* when the kinds of its two places tell so.
LEMMA FrameMoves ==
  ASSUME OneHolder, NEW m, NEW k, Moved(Places, Holding, Places', Holding', m, k)
  PROVE  /\ OneHolder'
         /\ \A f \in Frames : \E q \in Places' :
              /\ f = Holding'[q] /\ Owner(f)' = Party(q[1]) /\ Owner(f) = Party(m[q][1])
              /\ m[q] \in Places /\ f = Holding[m[q]]
<1>1. OneHolder'
  BY Rearranged DEF OneHolder
<1>2. Owners /\ Owners'
  BY <1>1, OwnerAt, OwnerAtNext
<1>3. ASSUME NEW f \in Frames
      PROVE \E q \in Places' :
              /\ f = Holding'[q] /\ Owner(f)' = Party(q[1]) /\ Owner(f) = Party(m[q][1])
              /\ m[q] \in Places /\ f = Holding[m[q]]
  <2>1. PICK q \in Places' : f = Holding'[q]
    BY <1>1 DEF OneHolder, OneEach
  <2>2. m[q] \in Places /\ f = Holding[m[q]]
    BY <2>1 DEF Moved
  <2>3. Owner(f) = Party(m[q][1])
    BY <1>2, <2>2 DEF Owners
  <2>4. Owner(f)' = Party(q[1])
    BY <1>2, <2>1 DEF Owners
  <2> QED BY <2>1, <2>2, <2>3, <2>4
<1> QED BY <1>1, <1>3

LEMMA ReceiveMoves ==
  ASSUME TypeOK, TypeOK', FreeFrames, KernelReceive
  PROVE  OneMoves(Places, Holding, Places', Holding', <<"fq", 1>>, <<"rx", Len(rx) + 1>>)
<1> USE DEF KernelReceive, NextFrame, ConsumeFill
<1>1. /\ Len(fq) \in Nat /\ Len(rx) \in Nat /\ done \in Nat /\ done <= Len(rx)
  BY Lengths
<1>2. /\ Head(fq) = fq[1] /\ Len(fq) > 0 /\ Len(fq') = Len(fq) - 1
      /\ \A i \in 1 .. Len(fq) - 1 : fq'[i] = fq[i + 1]
  BY HeadTailProperties, EmptySeq DEF TypeOK
<1>3. Head(fq) \in Frames
  BY HeadTailProperties DEF TypeOK
<1>4. /\ Len(rx') = Len(rx) + 1 /\ \A i \in 1 .. Len(rx) : rx'[i] = rx[i]
      /\ rx'[Len(rx) + 1] = fq[1] /\ IsFrame(fq[1])
  BY <1>2, <1>3, AppendProperties, InvalidAssumption DEF TypeOK, IsFrame, InvalidAssumption
<1>5. UNCHANGED <<umem_frame_addr, umem_frame_free, held, done>>
  BY DEF pool, batch
<1>6. Layout /\ Layout'
  BY <1>5, LaidOut, LaidOutNext DEF FreeFrames
<1> DEFINE R == Entries("free", umem_frame_addr, 1 .. umem_frame_free) \cup Entries("held", held, 1 .. Len(held))
<1>7. /\ Places = Entries("fq", fq, 1 .. Len(fq)) \cup Entries("rx", rx, done + 1 .. Len(rx)) \cup R
      /\ Places' = Entries("fq", fq', 1 .. Len(fq) - 1)
                     \cup Entries("rx", rx', done + 1 .. Len(rx) + 1) \cup R
  BY <1>2, <1>4, <1>5, <1>6 DEF Layout, AllEntries
<1>8. \A p \in R : p[1] # "fq" /\ p[1] # "rx" /\ Holding'[p] = Holding[p]
  BY <1>5, <1>6 DEF Layout, Entries
<1>9. /\ \A i \in 1 .. Len(fq) : IsFrame(fq[i]) => Holding[<<"fq", i>>] = fq[i]
      /\ \A i \in 1 .. Len(fq) - 1 : IsFrame(fq'[i]) => Holding'[<<"fq", i>>] = fq'[i]
      /\ \A i \in done + 1 .. Len(rx) : IsFrame(rx[i]) => Holding[<<"rx", i>>] = rx[i]
      /\ \A i \in done + 1 .. Len(rx) + 1 : IsFrame(rx'[i]) => Holding'[<<"rx", i>>] = rx'[i]
  BY <1>2, <1>4, <1>5, <1>6 DEF Layout
<1>10. done + 1 \in Nat /\ done + 1 <= Len(rx) + 1 /\ \A i \in done + 1 .. Len(rx) : rx'[i] = rx[i]
  BY <1>1, <1>4
<1>11. "fq" # "rx"
  OBVIOUS
<1> HIDE DEF R, KernelReceive, NextFrame, ConsumeFill
<1>12. HeadMoved("fq", "rx", fq, rx, fq', rx', R, Holding, Holding', Len(fq), Len(rx), done + 1,
                 Places, Places')
  BY <1>1, <1>2, <1>4, <1>7, <1>8, <1>9, <1>10, <1>11 DEF HeadMoved
<1> QED BY <1>12, HeadMoves

LEMMA HoldMoves ==
  ASSUME TypeOK, TypeOK', FreeFrames, KernelHoldFrame
  PROVE  OneMoves(Places, Holding, Places', Holding', <<"fq", 1>>, <<"held", Len(held) + 1>>)
<1> USE DEF KernelHoldFrame, NextFrame, ConsumeFill
<1>1. /\ Len(fq) \in Nat /\ Len(held) \in Nat /\ done \in Nat /\ done <= Len(rx)
  BY Lengths
<1>2. /\ Head(fq) = fq[1] /\ Len(fq) > 0 /\ Len(fq') = Len(fq) - 1
      /\ \A i \in 1 .. Len(fq) - 1 : fq'[i] = fq[i + 1]
  BY HeadTailProperties, EmptySeq DEF TypeOK
<1>3. Head(fq) \in Frames
  BY HeadTailProperties DEF TypeOK
<1>4. /\ Len(held') = Len(held) + 1 /\ \A i \in 1 .. Len(held) : held'[i] = held[i]
      /\ held'[Len(held) + 1] = fq[1] /\ IsFrame(fq[1])
  BY <1>2, <1>3, AppendProperties, InvalidAssumption DEF TypeOK, IsFrame, InvalidAssumption
<1>5. UNCHANGED <<umem_frame_addr, umem_frame_free, rx, done>>
  BY DEF pool, batch
<1>6. Layout /\ Layout'
  BY <1>5, LaidOut, LaidOutNext DEF FreeFrames
<1> DEFINE R == Entries("free", umem_frame_addr, 1 .. umem_frame_free) \cup Entries("rx", rx, done + 1 .. Len(rx))
<1>7. /\ Places = Entries("fq", fq, 1 .. Len(fq)) \cup Entries("held", held, 1 .. Len(held)) \cup R
      /\ Places' = Entries("fq", fq', 1 .. Len(fq) - 1)
                     \cup Entries("held", held', 1 .. Len(held) + 1) \cup R
  BY <1>2, <1>4, <1>5, <1>6 DEF Layout, AllEntries
<1>8. \A p \in R : p[1] # "fq" /\ p[1] # "held" /\ Holding'[p] = Holding[p]
  BY <1>5, <1>6 DEF Layout, Entries
<1>9. /\ \A i \in 1 .. Len(fq) : IsFrame(fq[i]) => Holding[<<"fq", i>>] = fq[i]
      /\ \A i \in 1 .. Len(fq) - 1 : IsFrame(fq'[i]) => Holding'[<<"fq", i>>] = fq'[i]
      /\ \A i \in 1 .. Len(held) : IsFrame(held[i]) => Holding[<<"held", i>>] = held[i]
      /\ \A i \in 1 .. Len(held) + 1 : IsFrame(held'[i]) => Holding'[<<"held", i>>] = held'[i]
  BY <1>2, <1>4, <1>5, <1>6 DEF Layout
<1>10. 1 \in Nat /\ 1 <= Len(held) + 1 /\ \A i \in 1 .. Len(held) : held'[i] = held[i]
  BY <1>1, <1>4
<1>11. "fq" # "held"
  OBVIOUS
<1> HIDE DEF R, KernelHoldFrame, NextFrame, ConsumeFill
<1>12. HeadMoved("fq", "held", fq, held, fq', held', R, Holding, Holding', Len(fq), Len(held), 1,
                 Places, Places')
  BY <1>1, <1>2, <1>4, <1>7, <1>8, <1>9, <1>10, <1>11 DEF HeadMoved
<1> QED BY <1>12, HeadMoves

LEMMA DeliverMoves ==
  ASSUME TypeOK, TypeOK', FreeFrames, KernelDeliverHeld
  PROVE  OneMoves(Places, Holding, Places', Holding', <<"held", 1>>, <<"rx", Len(rx) + 1>>)
<1> USE DEF KernelDeliverHeld, NextFrame, ConsumeFill
<1>1. /\ Len(held) \in Nat /\ Len(rx) \in Nat /\ done \in Nat /\ done <= Len(rx)
  BY Lengths
<1>2. /\ Head(held) = held[1] /\ Len(held) > 0 /\ Len(held') = Len(held) - 1
      /\ \A i \in 1 .. Len(held) - 1 : held'[i] = held[i + 1]
  BY HeadTailProperties, EmptySeq DEF TypeOK
<1>3. Head(held) \in Frames
  BY HeadTailProperties DEF TypeOK
<1>4. /\ Len(rx') = Len(rx) + 1 /\ \A i \in 1 .. Len(rx) : rx'[i] = rx[i]
      /\ rx'[Len(rx) + 1] = held[1] /\ IsFrame(held[1])
  BY <1>2, <1>3, AppendProperties, InvalidAssumption DEF TypeOK, IsFrame, InvalidAssumption
<1>5. UNCHANGED <<umem_frame_addr, umem_frame_free, fq, done>>
  BY DEF pool, batch
<1>6. Layout /\ Layout'
  BY <1>5, LaidOut, LaidOutNext DEF FreeFrames
<1> DEFINE R == Entries("free", umem_frame_addr, 1 .. umem_frame_free) \cup Entries("fq", fq, 1 .. Len(fq))
<1>7. /\ Places = Entries("held", held, 1 .. Len(held)) \cup Entries("rx", rx, done + 1 .. Len(rx)) \cup R
      /\ Places' = Entries("held", held', 1 .. Len(held) - 1)
                     \cup Entries("rx", rx', done + 1 .. Len(rx) + 1) \cup R
  BY <1>2, <1>4, <1>5, <1>6 DEF Layout, AllEntries
<1>8. \A p \in R : p[1] # "held" /\ p[1] # "rx" /\ Holding'[p] = Holding[p]
  BY <1>5, <1>6 DEF Layout, Entries
<1>9. /\ \A i \in 1 .. Len(held) : IsFrame(held[i]) => Holding[<<"held", i>>] = held[i]
      /\ \A i \in 1 .. Len(held) - 1 : IsFrame(held'[i]) => Holding'[<<"held", i>>] = held'[i]
      /\ \A i \in done + 1 .. Len(rx) : IsFrame(rx[i]) => Holding[<<"rx", i>>] = rx[i]
      /\ \A i \in done + 1 .. Len(rx) + 1 : IsFrame(rx'[i]) => Holding'[<<"rx", i>>] = rx'[i]
  BY <1>2, <1>4, <1>5, <1>6 DEF Layout
<1>10. done + 1 \in Nat /\ done + 1 <= Len(rx) + 1 /\ \A i \in done + 1 .. Len(rx) : rx'[i] = rx[i]
  BY <1>1, <1>4
<1>11. "held" # "rx"
  OBVIOUS
<1> HIDE DEF R, KernelDeliverHeld, NextFrame, ConsumeFill
<1>12. HeadMoved("held", "rx", held, rx, held', rx', R, Holding, Holding', Len(held), Len(rx), done + 1,
                 Places, Places')
  BY <1>1, <1>2, <1>4, <1>7, <1>8, <1>9, <1>10, <1>11 DEF HeadMoved
<1> QED BY <1>12, HeadMoves

LEMMA SkipMoves ==
  ASSUME TypeOK, TypeOK', FreeFrames, KernelSkipInvalid
  PROVE  NoneMoves(Places, Holding, Places', Holding')
<1> USE DEF KernelSkipInvalid, ConsumeFill
<1>1. Len(fq) \in Nat
  BY Lengths
<1>2. /\ Head(fq) = fq[1] /\ Len(fq) > 0 /\ Len(fq') = Len(fq) - 1
      /\ \A i \in 1 .. Len(fq) - 1 : fq'[i] = fq[i + 1]
  BY HeadTailProperties, EmptySeq DEF TypeOK
<1>3. ~IsFrame(fq[1])
  BY <1>2 DEF IsFrame
<1>4. UNCHANGED <<umem_frame_addr, umem_frame_free, held, rx, done>>
  BY DEF pool, batch
<1>5. Layout /\ Layout'
  BY <1>4, LaidOut, LaidOutNext DEF FreeFrames
<1> DEFINE R == Entries("free", umem_frame_addr, 1 .. umem_frame_free)
                  \cup Entries("held", held, 1 .. Len(held)) \cup Entries("rx", rx, done + 1 .. Len(rx))
<1>6. Entries("fq", fq, 1 .. Len(fq)) = Entries("fq", fq, 1 + 1 .. Len(fq))
  <2>1. {i \in 1 .. Len(fq) : IsFrame(fq[i])} = {i \in 1 + 1 .. Len(fq) : IsFrame(fq[i])}
    BY <1>1, <1>2, <1>3
  <2> QED BY <2>1 DEF Entries
<1>7. /\ Places = Entries("fq", fq, 1 + 1 .. Len(fq)) \cup R
      /\ Places' = Entries("fq", fq', 1 .. Len(fq) - 1) \cup R
  BY <1>2, <1>4, <1>5, <1>6 DEF Layout, AllEntries
<1>8. \A p \in R : p[1] # "fq" /\ Holding'[p] = Holding[p]
  BY <1>4, <1>5 DEF Layout, Entries
<1>9. /\ \A i \in 1 + 1 .. Len(fq) : IsFrame(fq[i]) => Holding[<<"fq", i>>] = fq[i]
      /\ \A i \in 1 .. Len(fq) - 1 : IsFrame(fq'[i]) => Holding'[<<"fq", i>>] = fq'[i]
  BY <1>1, <1>2, <1>5 DEF Layout
<1>10. 1 \in 0 .. Len(fq)
  BY <1>1, <1>2
<1> HIDE DEF R, KernelSkipInvalid, ConsumeFill
<1>11. Shifted("fq", fq, fq', R, Holding, Holding', Len(fq), 1, Places, Places')
  BY <1>1, <1>2, <1>7, <1>8, <1>9, <1>10 DEF Shifted
<1> QED BY <1>11, ShiftMoves

LEMMA ReleaseMoves ==
  ASSUME TypeOK, TypeOK', FreeFrames, done = rcvd, Release
  PROVE  NoneMoves(Places, Holding, Places', Holding')
<1>1. Len(rx) \in Nat /\ rcvd \in 0 .. Len(rx) /\ done = rcvd /\ done' = 0
  BY Lengths DEF Release, ReleaseEntries
<1>2. /\ Len(rx') = Len(rx) - rcvd
      /\ \A i \in 1 .. Len(rx) - rcvd : rx'[i] = rx[i + rcvd]
  <2>1. \A i \in rcvd + 1 .. Len(rx) : rx[i] \in Frames
    BY <1>1, Contents
  <2>2. rx' = SubSeq(rx, rcvd + 1, Len(rx))
    BY DEF Release, ReleaseEntries
  <2>3. /\ Len(rx') = IF rcvd + 1 <= Len(rx) THEN Len(rx) - (rcvd + 1) + 1 ELSE 0
        /\ \A i \in 1 .. Len(rx) - (rcvd + 1) + 1 : rx'[i] = rx[rcvd + 1 + i - 1]
    BY <1>1, <2>1, <2>2, SubSeqProperties
  <2>4. ASSUME NEW i \in 1 .. Len(rx) - rcvd PROVE rx'[i] = rx[i + rcvd]
    <3>1. i \in 1 .. Len(rx) - (rcvd + 1) + 1 /\ rcvd + 1 + i - 1 = i + rcvd
      BY <1>1
    <3> QED BY <2>3, <3>1
  <2> QED BY <1>1, <2>3, <2>4
<1>3. UNCHANGED <<umem_frame_addr, umem_frame_free, held, fq>>
  BY DEF pool, Release, ReleaseEntries
<1>4. Layout /\ Layout'
  BY <1>3, LaidOut, LaidOutNext DEF FreeFrames
<1> DEFINE R == Entries("free", umem_frame_addr, 1 .. umem_frame_free)
                  \cup Entries("fq", fq, 1 .. Len(fq)) \cup Entries("held", held, 1 .. Len(held))
<1>5. /\ Places = Entries("rx", rx, rcvd + 1 .. Len(rx)) \cup R
      /\ Places' = Entries("rx", rx', 1 .. Len(rx) - rcvd) \cup R
  BY <1>1, <1>2, <1>3, <1>4 DEF Layout, AllEntries
<1>6. \A p \in R : p[1] # "rx" /\ Holding'[p] = Holding[p]
  BY <1>3, <1>4 DEF Layout, Entries
<1>7. /\ \A i \in rcvd + 1 .. Len(rx) : IsFrame(rx[i]) => Holding[<<"rx", i>>] = rx[i]
      /\ \A i \in 1 .. Len(rx) - rcvd : IsFrame(rx'[i]) => Holding'[<<"rx", i>>] = rx'[i]
  BY <1>1, <1>2, <1>4 DEF Layout
<1> HIDE DEF R
<1>8. Shifted("rx", rx, rx', R, Holding, Holding', Len(rx), rcvd, Places, Places')
  BY <1>1, <1>2, <1>5, <1>6, <1>7 DEF Shifted
<1> QED BY <1>8, ShiftMoves

LEMMA ProcessMoves ==
  ASSUME TypeOK, TypeOK', FreeFrames, ProcessPacket, umem_frame_free < NumFrames
  PROVE  OneMoves(Places, Holding, Places', Holding', <<"rx", done + 1>>,
                  <<"free", umem_frame_free + 1>>)
<1>1. /\ Len(rx) \in Nat /\ done \in Nat /\ done + 1 <= Len(rx)
      /\ umem_frame_free \in Nat /\ umem_frame_free + 1 \in 1 .. NumFrames
  BY Lengths, SizesAssumption DEF ProcessPacket, SizesAssumption
<1>2. /\ umem_frame_free' = umem_frame_free + 1 /\ done' = done + 1
      /\ umem_frame_addr' = [umem_frame_addr EXCEPT ![umem_frame_free + 1] = rx[done + 1]]
      /\ UNCHANGED <<fq, held, rx>>
  BY DEF ProcessPacket, Returned, ring
<1>3. rx[done + 1] \in Frames /\ IsFrame(rx[done + 1])
  BY <1>1, Contents, InvalidAssumption DEF InvalidAssumption, IsFrame
<1>4. /\ \A i \in 1 .. umem_frame_free : umem_frame_addr'[i] = umem_frame_addr[i]
      /\ umem_frame_addr'[umem_frame_free + 1] = rx[done + 1]
  BY <1>1, <1>2, Contents
<1>5. FreeFrames'
  BY <1>1, <1>2, <1>3, <1>4 DEF FreeFrames
<1>6. Layout /\ Layout'
  BY <1>5, LaidOut, LaidOutNext
<1> DEFINE R == Entries("fq", fq, 1 .. Len(fq)) \cup Entries("held", held, 1 .. Len(held))
<1>7. /\ Places = Entries("free", umem_frame_addr, 1 .. umem_frame_free)
                    \cup Entries("rx", rx, done + 1 .. Len(rx)) \cup R
      /\ Places' = Entries("free", umem_frame_addr', 1 .. umem_frame_free + 1)
                     \cup Entries("rx", rx, (done + 1) + 1 .. Len(rx)) \cup R
  BY <1>2, <1>6 DEF Layout, AllEntries
<1>8. \A p \in R : p[1] # "free" /\ p[1] # "rx" /\ Holding'[p] = Holding[p]
  BY <1>2, <1>6 DEF Layout, Entries
<1>9. /\ \A i \in 1 .. umem_frame_free : Holding[<<"free", i>>] = umem_frame_addr[i]
      /\ \A i \in 1 .. umem_frame_free + 1 : Holding'[<<"free", i>>] = umem_frame_addr'[i]
      /\ \A i \in done + 1 .. Len(rx) : Holding[<<"rx", i>>] = rx[i]
      /\ \A i \in (done + 1) + 1 .. Len(rx) : Holding'[<<"rx", i>>] = rx[i]
  BY <1>2, <1>6 DEF Layout
<1>10. done + 1 \in Nat
  BY <1>1
<1> HIDE DEF R
<1>11. GivenBack(umem_frame_addr, umem_frame_addr', umem_frame_free, rx, done + 1, Len(rx), R,
                 Holding, Holding', Places, Places')
  BY <1>1, <1>3, <1>4, <1>7, <1>8, <1>9, <1>10 DEF GivenBack
<1> QED BY <1>11, ReturnMoves

LEMMA SubmitMoves ==
  ASSUME TypeOK, TypeOK', FreeFrames, FillAndSubmit
  PROVE  SomeLent(Places, Holding, Places', Holding')
<1> DEFINE new == Allocated(umem_frame_addr, umem_frame_free, nframes_free)
           rest == FreeAfter(umem_frame_free, nframes_free)
           addr2 == AddrAfter(umem_frame_addr, umem_frame_free, nframes_free)
<1>1. /\ umem_frame_addr \in [1 .. NumFrames -> Addresses] /\ umem_frame_free \in 0 .. NumFrames
      /\ umem_frame_free \in Nat /\ nframes_free \in Nat /\ Len(fq) \in Nat
      /\ fq \in Seq(Addresses)
  BY Contents, Lengths DEF TypeOK, Addresses
<1>2. /\ fq' = fq \o new /\ umem_frame_free' = rest /\ umem_frame_addr' = addr2
      /\ UNCHANGED <<held, rx, done>>
  BY DEF FillAndSubmit, batch
<1>3. new \in Seq(Addresses) /\ Len(new) = nframes_free
  BY <1>1, AllocatedType
<1> HIDE DEF new
<1>4. /\ Len(fq') = Len(fq) + nframes_free
      /\ \A i \in 1 .. Len(fq) : fq'[i] = fq[i]
      /\ \A i \in 1 .. nframes_free : fq'[Len(fq) + i] = new[i]
  <2>1. /\ Len(fq') = Len(fq) + nframes_free
        /\ \A i \in 1 .. Len(fq) + nframes_free :
              fq'[i] = IF i <= Len(fq) THEN fq[i] ELSE new[i - Len(fq)]
    BY <1>1, <1>2, <1>3, ConcatProperties
  <2>2. ASSUME NEW i \in 1 .. nframes_free PROVE fq'[Len(fq) + i] = new[i]
    <3>1. /\ Len(fq) + i \in 1 .. Len(fq) + nframes_free /\ ~(Len(fq) + i <= Len(fq))
          /\ (Len(fq) + i) - Len(fq) = i
      BY <1>1
    <3> QED BY <2>1, <3>1
  <2> QED BY <1>1, <2>1, <2>2
<1>5. /\ rest \in 0 .. umem_frame_free
      /\ \A i \in 1 .. rest : addr2[i] = umem_frame_addr[i]
  <2>1. rest \in 0 .. umem_frame_free
    BY <1>1, FreeAfterIs
  <2>2. \A i \in 1 .. rest : i \in 1 .. NumFrames /\ ~(rest < i)
    BY <1>1, <2>1, SizesAssumption DEF SizesAssumption
  <2>3. addr2 = [i \in 1 .. NumFrames |->
                   IF rest < i /\ i <= umem_frame_free THEN INVALID_UMEM_FRAME
                   ELSE umem_frame_addr[i]]
    BY DEF AddrAfter
  <2> QED BY <2>1, <2>2, <2>3
<1>6. FreeFrames'
  <2> HIDE DEF rest, addr2
  <2> QED BY <1>1, <1>2, <1>5 DEF FreeFrames
<1>7. Layout /\ Layout'
  BY <1>6, LaidOut, LaidOutNext
<1> DEFINE R == Entries("held", held, 1 .. Len(held)) \cup Entries("rx", rx, done + 1 .. Len(rx))
<1>8. /\ Places = Entries("free", umem_frame_addr, 1 .. umem_frame_free)
                    \cup Entries("fq", fq, 1 .. Len(fq)) \cup R
      /\ Places' = Entries("free", addr2, 1 .. rest)
                     \cup Entries("fq", fq', 1 .. Len(fq) + nframes_free) \cup R
  BY <1>2, <1>4, <1>7 DEF Layout, AllEntries
<1>9. \A p \in R : p[1] # "free" /\ p[1] # "fq" /\ Holding'[p] = Holding[p]
  BY <1>2, <1>7 DEF Layout, Entries
<1>10. /\ \A i \in 1 .. umem_frame_free :
            IsFrame(umem_frame_addr[i]) /\ Holding[<<"free", i>>] = umem_frame_addr[i]
       /\ \A i \in 1 .. rest : Holding'[<<"free", i>>] = addr2[i]
       /\ \A i \in 1 .. Len(fq) : IsFrame(fq[i]) => Holding[<<"fq", i>>] = fq[i]
       /\ \A i \in 1 .. Len(fq) + nframes_free : IsFrame(fq'[i]) => Holding'[<<"fq", i>>] = fq'[i]
  BY <1>2, <1>4, <1>7 DEF Layout
<1> HIDE DEF R
<1>11. Filled(umem_frame_addr, umem_frame_free, nframes_free, fq, fq', Len(fq), R,
              Holding, Holding', Places, Places')
  BY <1>1, <1>4, <1>8, <1>9, <1>10 DEF Filled, new
<1> QED BY <1>11, FillMoves

\* xsk_configure_socket lends from a free list that holds every frame.
LEMMA ConfigureMoves ==
  ASSUME TypeOK', ConfigureSocket, pc' = "check",
         held = << >>, rx = << >>, done = 0
  PROVE  OneHolder' /\ \A q \in Places' : q[1] \in {"free", "fq"}
<1> USE SizesAssumption DEF SizesAssumption
<1> DEFINE all == [i \in 1 .. NumFrames |-> i - 1]
           rest == FreeAfter(NumFrames, FillSize)
           addr2 == AddrAfter(all, NumFrames, FillSize)
           new == Allocated(all, NumFrames, FillSize)
           P == {"free"} \X (1 .. NumFrames)
           C == [p \in P |-> p[2] - 1]
<1>1. /\ fq' = new /\ umem_frame_free' = rest /\ umem_frame_addr' = addr2
      /\ held' = << >> /\ rx' = << >> /\ done' = 0
  BY DEF ConfigureSocket, batch
<1>2. /\ all \in [1 .. NumFrames -> Addresses] /\ NumFrames \in 0 .. NumFrames /\ FillSize \in Nat
      /\ NumFrames \in Nat
      /\ \A i \in 1 .. NumFrames : all[i] = i - 1 /\ all[i] \in Frames /\ IsFrame(all[i])
  BY InvalidAssumption DEF Addresses, Frames, InvalidAssumption, IsFrame
<1> HIDE DEF all
<1>3. Len(new) = FillSize
  BY <1>2, AllocatedType
<1>4. rest \in 0 .. NumFrames /\ \A i \in 1 .. rest : addr2[i] = all[i]
  <2>1. rest \in 0 .. NumFrames
    BY <1>2, FreeAfterIs
  <2>2. \A i \in 1 .. rest : i \in 1 .. NumFrames /\ ~(rest < i)
    BY <2>1
  <2>3. addr2 = [i \in 1 .. NumFrames |->
                   IF rest < i /\ i <= NumFrames THEN INVALID_UMEM_FRAME ELSE all[i]]
    BY DEF AddrAfter
  <2> QED BY <2>1, <2>2, <2>3
<1>5. FreeFrames'
  <2> HIDE DEF rest, addr2
  <2> QED BY <1>1, <1>2, <1>4 DEF FreeFrames
<1>6. Layout'
  BY <1>5, LaidOutNext
<1>7. Len(held') = 0 /\ Len(rx') = 0
  BY <1>1
<1>8. Places' = Entries("free", addr2, 1 .. rest) \cup Entries("fq", fq', 1 .. 0 + FillSize) \cup {}
  <2>1. Entries("held", held', 1 .. 0) = {} /\ Entries("rx", rx', 0 + 1 .. 0) = {}
    BY DEF Entries
  <2>2. 0 + FillSize = Len(fq')
    BY <1>1, <1>3
  <2> HIDE DEF addr2, rest, new
  <2> QED BY <1>1, <1>6, <1>7, <2>1, <2>2 DEF Layout, AllEntries
<1>9. P = Entries("free", all, 1 .. NumFrames) \cup Entries("fq", << >>, 1 .. 0) \cup {}
  BY <1>2 DEF Entries
<1>10. /\ \A i \in 1 .. NumFrames : C[<<"free", i>>] = all[i]
       /\ OneEach(P, C)
  <2>1. \A i \in 1 .. NumFrames : <<"free", i>> \in P /\ C[<<"free", i>>] = i - 1
    OBVIOUS
  <2>2. {C[p] : p \in P} \subseteq Frames
    BY DEF Frames
  <2>3. Frames \subseteq {C[p] : p \in P}
    <3>1. SUFFICES ASSUME NEW f \in Frames PROVE \E p \in P : C[p] = f
      OBVIOUS
    <3>2. f + 1 \in 1 .. NumFrames /\ (f + 1) - 1 = f
      BY DEF Frames
    <3> QED BY <2>1, <3>2
  <2>4. \A p, q \in P : C[p] = C[q] => p = q
    OBVIOUS
  <2> HIDE DEF C, P
  <2> QED BY <1>2, <2>1, <2>2, <2>3, <2>4 DEF OneEach
<1>11. /\ \A i \in 1 .. rest : Holding'[<<"free", i>>] = addr2[i]
       /\ \A i \in 1 .. 0 + FillSize : IsFrame(fq'[i]) => Holding'[<<"fq", i>>] = fq'[i]
  <2> HIDE DEF addr2, rest, new
  <2> QED BY <1>1, <1>3, <1>6 DEF Layout
<1>12. \A i \in 1 .. FillSize : fq'[0 + i] = new[i]
  BY <1>1
<1> HIDE DEF P, C
<1>13. Filled(all, NumFrames, FillSize, << >>, fq', 0, {}, C, Holding', P, Places')
  BY <1>2, <1>8, <1>9, <1>10, <1>11, <1>12 DEF Filled
<1>14. SomeLent(P, C, Places', Holding')
  BY <1>13, FillMoves
<1>15. OneHolder'
  BY <1>10, <1>14, Rearranged DEF SomeLent, OneHolder
<1>16. \A q \in Places' : q[1] \in {"free", "fq"}
  BY <1>8 DEF Entries
<1> QED BY <1>15, <1>16

\* A frame in the RX ring is not in the free list, so that the list has room.
LEMMA RoomForOne ==
  ASSUME TypeOK, OneHolder, done < Len(rx)
  PROVE  umem_frame_free < NumFrames
<1> USE SizesAssumption DEF SizesAssumption
<1> DEFINE S == 1 .. umem_frame_free + 1
           place == [i \in S |-> IF i <= umem_frame_free THEN <<"free", i>> ELSE <<"rx", done + 1>>]
           g == [i \in S |-> Holding[place[i]]]
<1>1. /\ umem_frame_free \in Nat /\ done \in Nat /\ Len(rx) \in Nat
  BY Lengths
<1>2. \A i \in S : place[i] \in Places
  BY <1>1 DEF Places
<1>3. \A i, j \in S : place[i] = place[j] => i = j
  BY <1>1
<1> HIDE DEF place
<1>4. g \in [S -> Frames]
  BY <1>2 DEF OneHolder, OneEach
<1>5. \A i, j \in S : g[i] = g[j] => i = j
  BY <1>2, <1>3 DEF OneHolder, OneEach
<1>6. g \in Injection(S, Frames)
  BY <1>4, <1>5 DEF Injection, IsInjective
<1>7. IsFiniteSet(Frames) /\ Cardinality(Frames) = NumFrames
  <2>1. 0 \in Int /\ NumFrames - 1 \in Int /\ ~(0 > NumFrames - 1)
    OBVIOUS
  <2>2. Cardinality(0 .. NumFrames - 1) = (NumFrames - 1) - 0 + 1 /\ IsFiniteSet(0 .. NumFrames - 1)
    BY <2>1, FS_Interval
  <2> QED BY <2>2 DEF Frames
<1>8. Cardinality(S) = umem_frame_free + 1
  <2>1. 1 \in Int /\ umem_frame_free + 1 \in Int /\ ~(1 > umem_frame_free + 1)
    BY <1>1
  <2>2. Cardinality(S) = (umem_frame_free + 1) - 1 + 1
    BY <2>1, FS_Interval
  <2> QED BY <1>1, <2>2
<1> HIDE DEF S, g
<1>9. Cardinality(S) <= Cardinality(Frames)
  BY <1>6, <1>7, FS_Injection
<1> QED BY <1>1, <1>7, <1>8, <1>9

\* What the phases of the program imply about the free list and the batch.
PhaseInv ==
  /\ pc \in SetupPhases => umem_frame_free = 0
  /\ pc \in RunPhases /\ pc \notin {"process", "release"} => done = 0
  /\ pc = "release" => done = rcvd
  /\ pc # "aborted"

OwnerInv == TypeInv /\ PhaseInv /\ OneOwner

LEMMA OwnerFacts ==
  ASSUME OwnerInv, pc \in RunPhases PROVE TypeOK /\ OneHolder /\ FreeFrames
<1>1. TypeOK /\ OneHolder
  BY DEF OwnerInv, TypeInv, OneOwner, OneHolder, OneEach, Holding
<1>2. ASSUME NEW i \in 1 .. umem_frame_free PROVE umem_frame_addr[i] \in Frames
  <2>1. <<"free", i>> \in Places
    BY DEF Places
  <2>2. At(<<"free", i>>) = umem_frame_addr[i]
    BY DEF At
  <2> QED BY <2>1, <2>2 DEF OwnerInv, OneOwner
<1> QED BY <1>1, <1>2 DEF FreeFrames

LEMMA OneOwnerIs == OneHolder => OneOwner
BY DEF OneOwner, OneHolder, OneEach, Holding

LEMMA OneOwnerIsNext == OneHolder' => OneOwner'
BY OneOwnerIs, PTL

LEMMA MovedOwners ==
  ASSUME OneHolder,
         \/ \E old, new : OneMoves(Places, Holding, Places', Holding', old, new)
         \/ NoneMoves(Places, Holding, Places', Holding')
         \/ SomeLent(Places, Holding, Places', Holding')
  PROVE  OneOwner'
<1>1. PICK m, k : Moved(Places, Holding, Places', Holding', m, k)
  BY DEF OneMoves, NoneMoves, SomeLent
<1>2. OneHolder'
  BY <1>1, FrameMoves
<1> QED BY <1>2, OneOwnerIsNext

LEMMA ProcessHasRoom ==
  ASSUME OwnerInv, ProcessPacket PROVE umem_frame_free < NumFrames
<1>1. pc \in RunPhases /\ done < rcvd
  BY DEF ProcessPacket, RunPhases, BatchPhases
<1>2. TypeOK /\ OneHolder
  BY <1>1, OwnerFacts
<1>3. done < Len(rx)
  BY <1>1, <1>2, Lengths
<1> QED BY <1>2, <1>3, RoomForOne

LEMMA InitOwnerInv == Init => OwnerInv
<1> SUFFICES ASSUME Init PROVE OwnerInv
  OBVIOUS
<1>1. TypeInv
  BY InitTypeInv
<1>2. pc = "signal" /\ umem_frame_free = 0
  BY DEF Init
<1> QED BY <1>1, <1>2 DEF OwnerInv, PhaseInv, OneOwner, RunPhases, BatchPhases

LEMMA NextPhaseInv == OwnerInv /\ [Next]_vars => PhaseInv'
<1> SUFFICES ASSUME OwnerInv, [Next]_vars PROVE PhaseInv'
  OBVIOUS
<1> USE DEF PhaseInv, SetupPhases, RunPhases, BatchPhases, EndPhases
<1>0. PhaseInv /\ (pc \in SetupPhases => done = 0)
  BY DEF OwnerInv, TypeInv, RingsUnused
<1>1. CASE Setup
  BY <1>0, <1>1 DEF Setup, InstallHandler, FindInterface, LoadAndAttach, FindMap, AllocBuffer,
       ConfigureUmem, ConfigureSocket, Acquire, pool, batch
<1>2. CASE CheckExit \/ EnterPoll \/ PollReturns \/ Detach \/ SigInt \/ UNCHANGED vars
  BY <1>0, <1>2 DEF CheckExit, EnterPoll, PollReturns, Detach, SigInt, vars, pool, batch
<1>3. CASE Peek \/ NbFree \/ Reserve \/ FillAndSubmit \/ Release
  BY <1>0, <1>3 DEF Peek, NbFree, Replenish, Reserve, FillAndSubmit, Release, ReleaseEntries,
       pool, batch
<1>4. CASE ProcessPacket
  <2>1. umem_frame_free < NumFrames
    BY <1>4, ProcessHasRoom
  <2> QED BY <1>0, <1>4, <2>1 DEF ProcessPacket
<1>5. CASE Kernel
  BY <1>0, <1>5 DEF Kernel, Delivery, KernelReceive, KernelHoldFrame, KernelDeliverHeld,
       KernelSkipInvalid, pool, batch
<1> QED BY <1>1, <1>2, <1>3, <1>4, <1>5 DEF Next, Thread, Terminated

\* Steps that move no frame.
Still == UNCHANGED <<umem_frame_addr, umem_frame_free, fq, held, rx, done>>

LEMMA StillLayout ==
  ASSUME Still PROVE Places' = Places /\ \A p : At(p)' = At(p)
BY DEF Still, Places, At

LEMMA StillOwners ==
  ASSUME Still PROVE Places' = Places /\ \A f \in Frames : Owner(f)' = Owner(f)
BY StillLayout DEF Owner

LEMMA StillIs ==
  ASSUME OwnerInv, [Next]_vars
  PROVE  \/ Still /\ (pc' \in RunPhases => pc \in RunPhases)
         \/ Still /\ pc' \in SetupPhases
         \/ ConfigureSocket /\ pc' = "check"
         \/ FillAndSubmit \/ ProcessPacket \/ Release \/ Kernel
<1> USE DEF Still, SetupPhases, RunPhases, BatchPhases, EndPhases
<1>1. CASE Setup
  BY <1>1 DEF Setup, InstallHandler, FindInterface, LoadAndAttach, FindMap, AllocBuffer,
       ConfigureUmem, ConfigureSocket, Acquire, pool, ring, batch
<1>2. CASE CheckExit \/ EnterPoll \/ PollReturns \/ Detach \/ SigInt \/ UNCHANGED vars
  BY <1>2 DEF CheckExit, EnterPoll, PollReturns, Detach, SigInt, vars, pool, ring, batch
<1>3. CASE Peek
  BY <1>3 DEF Peek, pool, OwnerInv, PhaseInv
<1>4. CASE NbFree \/ Reserve
  BY <1>4 DEF NbFree, Replenish, Reserve, pool, batch
<1> QED BY <1>1, <1>2, <1>3, <1>4 DEF Next, Thread, Terminated

LEMMA NextOneOwner == OwnerInv /\ [Next]_vars => OneOwner'
<1> SUFFICES ASSUME OwnerInv, [Next]_vars PROVE OneOwner'
  OBVIOUS
<1>0. TypeOK'
  BY NextTypeInv DEF OwnerInv, TypeInv
<1>1. CASE Still /\ (pc' \in RunPhases => pc \in RunPhases)
  BY <1>1, StillLayout DEF OwnerInv, OneOwner
<1>2. CASE Still /\ pc' \in SetupPhases
  BY <1>2 DEF OneOwner, SetupPhases, RunPhases, BatchPhases
<1>3. CASE ConfigureSocket /\ pc' = "check"
  <2>1. held = << >> /\ rx = << >> /\ done = 0
    BY <1>3 DEF OwnerInv, TypeInv, RingsUnused, ConfigureSocket, SetupPhases
  <2>2. OneHolder'
    BY <1>0, <1>3, <2>1, ConfigureMoves
  <2> QED BY <2>2, OneOwnerIsNext
<1>4. ASSUME FillAndSubmit \/ ProcessPacket \/ Release \/ Kernel PROVE OneOwner'
  <2>1. pc \in RunPhases
    BY <1>4 DEF FillAndSubmit, ProcessPacket, Release, ReleaseEntries, Kernel, Delivery,
         KernelReceive, KernelHoldFrame, KernelDeliverHeld, KernelSkipInvalid, NextFrame,
         RunPhases, BatchPhases
  <2>2. TypeOK /\ OneHolder /\ FreeFrames
    BY <2>1, OwnerFacts
  <2>3. CASE FillAndSubmit
    BY <1>0, <2>2, <2>3, SubmitMoves, MovedOwners
  <2>4. CASE ProcessPacket
    BY <1>0, <2>2, <2>4, ProcessHasRoom, ProcessMoves, MovedOwners
  <2>5. CASE Release
    <3>1. done = rcvd
      BY <2>5 DEF OwnerInv, PhaseInv, Release, ReleaseEntries
    <3> QED BY <1>0, <2>2, <2>5, <3>1, ReleaseMoves, MovedOwners
  <2>6. CASE KernelReceive
    BY <1>0, <2>2, <2>6, ReceiveMoves, MovedOwners
  <2>7. CASE KernelHoldFrame
    BY <1>0, <2>2, <2>7, HoldMoves, MovedOwners
  <2>8. CASE KernelDeliverHeld
    BY <1>0, <2>2, <2>8, DeliverMoves, MovedOwners
  <2>9. CASE KernelSkipInvalid
    BY <1>0, <2>2, <2>9, SkipMoves, MovedOwners
  <2> QED BY <1>4, <2>3, <2>4, <2>5, <2>6, <2>7, <2>8, <2>9 DEF Kernel, Delivery
<1> QED BY <1>1, <1>2, <1>3, <1>4, StillIs

LEMMA NextOwnerInv == OwnerInv /\ [Next]_vars => OwnerInv'
BY NextTypeInv, NextPhaseInv, NextOneOwner DEF OwnerInv

\* No frame is lost and none has two owners, for every number of frames, every
\* ring size and every batch size.
THEOREM FramesHaveOneOwner == Spec => []OneOwner
<1>1. OwnerInv => OneOwner
  BY DEF OwnerInv
<1> QED BY <1>1, InitOwnerInv, NextOwnerInv, PTL DEF Spec

\* The assertion of xsk_free_umem_frame holds for every size: the free list cannot
\* be full while a frame is in the RX ring.
THEOREM AssertionHolds == Spec => []NoAbort
<1>1. OwnerInv => NoAbort
  BY DEF OwnerInv, PhaseInv, NoAbort
<1> QED BY <1>1, InitOwnerInv, NextOwnerInv, PTL DEF Spec

\* The abstract state.
OwnerMap == [f \in Frames |-> Owner(f)]
Open == pc \notin EndPhases

LEMMA EmptyPool ==
  ASSUME OwnerInv, pc \in SetupPhases
  PROVE  \A f \in Frames : Owner(f) = "app"
<1>1. /\ umem_frame_free = 0 /\ Len(fq) = 0 /\ Len(held) = 0 /\ Len(rx) = 0 /\ done = 0
  BY EmptySeq DEF OwnerInv, PhaseInv, TypeInv, RingsUnused
<1>2. Places = {}
  BY <1>1 DEF Places
<1> QED BY <1>2 DEF Owner

LEMMA InitOwnership == Init => Ownership!Init
<1> SUFFICES ASSUME Init PROVE Ownership!Init
  OBVIOUS
<1>1. pc = "signal"
  BY DEF Init
<1>2. \A f \in Frames : Owner(f) = "app"
  BY <1>1, InitOwnerInv, EmptyPool DEF SetupPhases
<1>3. (pc \notin EndPhases) = TRUE
  BY <1>1 DEF EndPhases
<1> QED BY <1>2, <1>3 DEF Ownership!Init

LEMMA OwnershipStutters ==
  ASSUME UNCHANGED <<OwnerMap, Open>> PROVE UNCHANGED Ownership!avars
BY DEF OwnerMap, Open, Ownership!avars

\* A frame that changes its place alone is received or taken.
LEMMA OwnershipMoves ==
  ASSUME OneHolder, NEW old \in Places, NEW new \in Places',
         OneMoves(Places, Holding, Places', Holding', old, new)
  PROVE  /\ Holding[old] \in Frames /\ Owner(Holding[old]) = Party(old[1])
         /\ OwnerMap' = [OwnerMap EXCEPT ![Holding[old]] = Party(new[1])]
<1>1. PICK m, k : /\ Moved(Places, Holding, Places', Holding', m, k)
                  /\ \A q \in Places' : IF q = new THEN m[q] = old ELSE m[q][1] = q[1]
  BY DEF OneMoves
<1>2. Holding[old] \in Frames /\ Owner(Holding[old]) = Party(old[1])
  BY OwnerAt DEF OneHolder, OneEach, Owners
<1>3. ASSUME NEW f \in Frames
      PROVE Owner(f)' = IF f = Holding[old] THEN Party(new[1]) ELSE Owner(f)
  <2>1. PICK q \in Places' :
              /\ f = Holding'[q] /\ Owner(f)' = Party(q[1]) /\ Owner(f) = Party(m[q][1])
              /\ m[q] \in Places /\ f = Holding[m[q]]
    BY <1>1, FrameMoves
  <2>2. CASE q = new
    <3>1. m[q] = old
      BY <1>1, <2>1, <2>2
    <3> QED BY <2>1, <2>2, <3>1
  <2>3. CASE q # new
    <3>1. m[q][1] = q[1] /\ m[new] = old
      BY <1>1, <2>1, <2>3
    <3>2. f # Holding[old]
      <4> SUFFICES ASSUME f = Holding[old] PROVE FALSE
        OBVIOUS
      <4>1. m[q] = old
        BY <2>1 DEF OneHolder, OneEach
      <4>2. k[m[q]] = q /\ k[m[new]] = new
        BY <1>1, <2>1 DEF Moved
      <4> QED BY <4>1, <4>2, <3>1, <2>3
    <3> QED BY <2>1, <3>1, <3>2
  <2> QED BY <2>2, <2>3
<1> QED BY <1>2, <1>3 DEF OwnerMap

\* The end is final.
LEMMA EndsStay == [Next]_vars /\ pc \in EndPhases => pc' = pc
BY DEF Next, Thread, Setup, InstallHandler, FindInterface, LoadAndAttach, FindMap,
       AllocBuffer, ConfigureUmem, Acquire, ConfigureSocket, CheckExit, EnterPoll,
       PollReturns, Peek, NbFree, Replenish, Reserve, FillAndSubmit, ProcessPacket,
       Release, ReleaseEntries, Detach, SigInt, Kernel, Delivery, KernelReceive,
       KernelHoldFrame, KernelDeliverHeld, KernelSkipInvalid, NextFrame, Terminated, vars,
       EndPhases, RunPhases, BatchPhases

LEMMA StepOwnership == OwnerInv /\ OwnerInv' /\ [Next]_vars => [Ownership!Next]_(Ownership!avars)
<1> SUFFICES ASSUME OwnerInv, OwnerInv', [Next]_vars
             PROVE Ownership!Next \/ UNCHANGED Ownership!avars
  OBVIOUS
<1>0. TypeOK /\ TypeOK'
  BY DEF OwnerInv, TypeInv
<1>1. CASE Still /\ pc' \notin EndPhases
  <2>1. Open' = Open
    BY <1>1, EndsStay DEF Open
  <2> QED BY <1>1, <2>1, StillOwners, OwnershipStutters DEF OwnerMap
<1>2. CASE Still /\ pc' \in EndPhases
  <2>1. OwnerMap' = OwnerMap /\ Open' = FALSE
    BY <1>2, StillOwners DEF OwnerMap, Open
  <2> QED BY <2>1 DEF OwnerMap, Open, Ownership!Next, Ownership!Close
<1>3. ASSUME ConfigureSocket /\ pc' = "check" PROVE Ownership!Lend
  <2>1. pc = "socket" /\ held = << >> /\ rx = << >> /\ done = 0
    BY <1>3 DEF OwnerInv, TypeInv, RingsUnused, ConfigureSocket, SetupPhases
  <2>2. OneHolder' /\ \A q \in Places' : q[1] \in {"free", "fq"}
    BY <1>0, <1>3, <2>1, ConfigureMoves
  <2>3. \A f \in Frames : Owner(f) = "app"
    BY <2>1, EmptyPool DEF SetupPhases
  <2>4. \A f \in Frames : Owner(f)' \in {"app", "kernel"}
    <3>1. TAKE f \in Frames
    <3>2. PICK q \in Places' : Holding'[q] = f
      BY <2>2 DEF OneHolder, OneEach
    <3>3. Owner(f)' = Party(q[1])
      BY <2>2, <3>2, OwnerAtNext DEF Owners
    <3> QED BY <2>2, <3>3 DEF Party
  <2>5. Open = TRUE /\ Open' = TRUE
    BY <1>3, <2>1 DEF Open, EndPhases
  <2> DEFINE S == {f \in Frames : Owner(f)' = "kernel"}
  <2>6. /\ S \in SUBSET {f \in Frames : OwnerMap[f] = "app"}
        /\ OwnerMap' = [f \in Frames |-> IF f \in S THEN "kernel" ELSE OwnerMap[f]]
    BY <2>3, <2>4 DEF OwnerMap
  <2> HIDE DEF S
  <2> QED BY <2>5, <2>6 DEF Ownership!Lend, Ownership!OwnedBy, OwnerMap, Open
<1>4. ASSUME FillAndSubmit \/ ProcessPacket \/ Release \/ Kernel
      PROVE Ownership!Next \/ UNCHANGED Ownership!avars
  <2>1. pc \in RunPhases /\ pc' \in RunPhases
    <3>1. ProcessPacket => umem_frame_free < NumFrames
      BY ProcessHasRoom
    <3> QED BY <1>4, <3>1 DEF FillAndSubmit, ProcessPacket, Release, ReleaseEntries, Kernel,
            Delivery, KernelReceive, KernelHoldFrame, KernelDeliverHeld, KernelSkipInvalid,
            NextFrame, RunPhases, BatchPhases
  <2>2. OneHolder /\ FreeFrames
    BY <2>1, OwnerFacts
  <2>10. Open = TRUE /\ Open' = TRUE
    BY <2>1 DEF Open, RunPhases, BatchPhases, EndPhases
  <2>3. CASE FillAndSubmit
    <3>1. PICK m, k : /\ Moved(Places, Holding, Places', Holding', m, k)
                      /\ \A q \in Places' : m[q][1] = q[1] \/ (m[q][1] = "free" /\ q[1] = "fq")
      BY <1>0, <2>2, <2>3, SubmitMoves DEF SomeLent
    <3>2. \A f \in Frames : Owner(f)' = Owner(f) \/ (Owner(f) = "app" /\ Owner(f)' = "kernel")
      <4>1. TAKE f \in Frames
      <4>2. PICK q \in Places' : Owner(f)' = Party(q[1]) /\ Owner(f) = Party(m[q][1])
        BY <2>2, <3>1, FrameMoves
      <4> QED BY <3>1, <4>2 DEF Party
    <3> DEFINE S == {f \in Frames : Owner(f) = "app" /\ Owner(f)' = "kernel"}
    <3>3. /\ S \in SUBSET {f \in Frames : OwnerMap[f] = "app"}
          /\ OwnerMap' = [f \in Frames |-> IF f \in S THEN "kernel" ELSE OwnerMap[f]]
      BY <3>2 DEF OwnerMap
    <3> HIDE DEF S
    <3>4. Ownership!Lend
      BY <2>10, <3>3 DEF Ownership!Lend, Ownership!OwnedBy, OwnerMap, Open
    <3> QED BY <3>4 DEF Ownership!Next
  <2>4. CASE ProcessPacket
    <3> DEFINE old == <<"rx", done + 1>>
               new == <<"free", umem_frame_free + 1>>
    <3>1. OneMoves(Places, Holding, Places', Holding', old, new)
      BY <1>0, <2>2, <2>4, ProcessHasRoom, ProcessMoves
    <3>2. old \in Places /\ new \in Places'
      <4>1. /\ done + 1 \in done + 1 .. Len(rx) /\ umem_frame_free + 1 \in 1 .. umem_frame_free'
        BY <1>0, <2>4, Lengths, ProcessHasRoom DEF ProcessPacket
      <4> QED BY <4>1 DEF Places
    <3>3. /\ Holding[old] \in Frames /\ Owner(Holding[old]) = Party(old[1])
          /\ OwnerMap' = [OwnerMap EXCEPT ![Holding[old]] = Party(new[1])]
      BY <2>2, <3>1, <3>2, OwnershipMoves
    <3>4. Party(old[1]) = "rx" /\ Party(new[1]) = "app"
      BY DEF Party
    <3> HIDE DEF old, new
    <3>5. Ownership!Take(Holding[old])
      BY <2>10, <3>3, <3>4 DEF Ownership!Take, OwnerMap, Open
    <3> QED BY <3>3, <3>5 DEF Ownership!Next
  <2>5. CASE KernelReceive
    <3> DEFINE old == <<"fq", 1>>
               new == <<"rx", Len(rx) + 1>>
    <3>1. OneMoves(Places, Holding, Places', Holding', old, new)
      BY <1>0, <2>2, <2>5, ReceiveMoves
    <3>2. old \in Places /\ new \in Places'
      <4>2. 1 \in 1 .. Len(fq) /\ IsFrame(fq[1])
        BY <1>0, <2>5, HeadTailProperties, EmptySeq, InvalidAssumption
           DEF TypeOK, KernelReceive, NextFrame, IsFrame, InvalidAssumption
      <4>3. Len(rx') = Len(rx) + 1 /\ Len(rx) \in Nat /\ done' = done /\ done <= Len(rx) /\ done \in Nat
        BY <1>0, <2>5, <4>2, AppendProperties, HeadTailProperties, Lengths
           DEF TypeOK, KernelReceive, NextFrame, batch
      <4>4. old \in Places
        BY <4>2 DEF Places
      <4>5. new \in Places'
        BY <4>3 DEF Places
      <4> QED BY <4>4, <4>5
    <3>3. /\ Holding[old] \in Frames /\ Owner(Holding[old]) = Party(old[1])
          /\ OwnerMap' = [OwnerMap EXCEPT ![Holding[old]] = Party(new[1])]
      BY <2>2, <3>1, <3>2, OwnershipMoves
    <3>4. Party(old[1]) = "kernel" /\ Party(new[1]) = "rx"
      BY DEF Party
    <3> HIDE DEF old, new
    <3>5. Ownership!Receive(Holding[old])
      BY <2>10, <3>3, <3>4 DEF Ownership!Receive, OwnerMap, Open
    <3> QED BY <3>3, <3>5 DEF Ownership!Next
  <2>6. CASE KernelHoldFrame
    <3> DEFINE old == <<"fq", 1>>
               new == <<"held", Len(held) + 1>>
    <3>1. OneMoves(Places, Holding, Places', Holding', old, new)
      BY <1>0, <2>2, <2>6, HoldMoves
    <3>2. old \in Places /\ new \in Places'
      <4>2. 1 \in 1 .. Len(fq) /\ IsFrame(fq[1])
        BY <1>0, <2>6, HeadTailProperties, EmptySeq, InvalidAssumption
           DEF TypeOK, KernelHoldFrame, NextFrame, IsFrame, InvalidAssumption
      <4>3. Len(held') = Len(held) + 1 /\ Len(held) \in Nat /\ done' = done /\ done <= Len(rx) /\ done \in Nat
        BY <1>0, <2>6, <4>2, AppendProperties, HeadTailProperties, Lengths
           DEF TypeOK, KernelHoldFrame, NextFrame, batch
      <4>4. old \in Places
        BY <4>2 DEF Places
      <4>5. new \in Places'
        BY <4>3 DEF Places
      <4> QED BY <4>4, <4>5
    <3>3. /\ Holding[old] \in Frames /\ Owner(Holding[old]) = Party(old[1])
          /\ OwnerMap' = [OwnerMap EXCEPT ![Holding[old]] = Party(new[1])]
      BY <2>2, <3>1, <3>2, OwnershipMoves
    <3>4. Party(old[1]) = "kernel" /\ Party(new[1]) = "kernel"
      BY DEF Party
    <3> HIDE DEF old, new
    <3>5. OwnerMap' = OwnerMap
      BY <3>3, <3>4 DEF OwnerMap
    <3> QED BY <2>10, <3>5, OwnershipStutters
  <2>7. CASE KernelDeliverHeld
    <3> DEFINE old == <<"held", 1>>
               new == <<"rx", Len(rx) + 1>>
    <3>1. OneMoves(Places, Holding, Places', Holding', old, new)
      BY <1>0, <2>2, <2>7, DeliverMoves
    <3>2. old \in Places /\ new \in Places'
      <4>2. 1 \in 1 .. Len(held) /\ IsFrame(held[1])
        BY <1>0, <2>7, HeadTailProperties, EmptySeq, InvalidAssumption
           DEF TypeOK, KernelDeliverHeld, NextFrame, IsFrame, InvalidAssumption
      <4>3. Len(rx') = Len(rx) + 1 /\ Len(rx) \in Nat /\ done' = done /\ done <= Len(rx) /\ done \in Nat
        BY <1>0, <2>7, <4>2, AppendProperties, HeadTailProperties, Lengths
           DEF TypeOK, KernelDeliverHeld, NextFrame, batch
      <4>4. old \in Places
        BY <4>2 DEF Places
      <4>5. new \in Places'
        BY <4>3 DEF Places
      <4> QED BY <4>4, <4>5
    <3>3. /\ Holding[old] \in Frames /\ Owner(Holding[old]) = Party(old[1])
          /\ OwnerMap' = [OwnerMap EXCEPT ![Holding[old]] = Party(new[1])]
      BY <2>2, <3>1, <3>2, OwnershipMoves
    <3>4. Party(old[1]) = "kernel" /\ Party(new[1]) = "rx"
      BY DEF Party
    <3> HIDE DEF old, new
    <3>5. Ownership!Receive(Holding[old])
      BY <2>10, <3>3, <3>4 DEF Ownership!Receive, OwnerMap, Open
    <3> QED BY <3>3, <3>5 DEF Ownership!Next
  <2>8. CASE Release \/ KernelSkipInvalid
    <3>1. Release => done = rcvd
      BY DEF OwnerInv, PhaseInv, Release, ReleaseEntries
    <3>2. PICK m, k : /\ Moved(Places, Holding, Places', Holding', m, k)
                      /\ \A q \in Places' : m[q][1] = q[1]
      BY <1>0, <2>2, <2>8, <3>1, ReleaseMoves, SkipMoves DEF NoneMoves
    <3>3. \A f \in Frames : Owner(f)' = Owner(f)
      BY <2>2, <3>2, FrameMoves
    <3> QED BY <2>10, <3>3, OwnershipStutters DEF OwnerMap
  <2> QED BY <1>4, <2>3, <2>4, <2>5, <2>6, <2>7, <2>8 DEF Kernel, Delivery
<1> QED BY <1>1, <1>2, <1>3, <1>4, StillIs DEF Ownership!Next

\* Every step of the receiver is a step of FrameOwnership, for every number of
\* frames, ring size and batch size: frames go round in one direction, and
\* packets are received and processed one at a time.
THEOREM OwnershipIsKept == Spec => Ownership!Safety
<1>1. Init => Ownership!Init
  BY InitOwnership
<1>2. OwnerInv /\ OwnerInv' /\ [Next]_vars => [Ownership!Next]_(Ownership!avars)
  BY StepOwnership
<1> QED BY <1>1, <1>2, InitOwnerInv, NextOwnerInv, PTL DEF Spec, Ownership!Safety
=============================================================================
