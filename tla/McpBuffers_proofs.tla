---------------------------- MODULE McpBuffers_proofs ----------------------------
(***************************************************************************)
(* Proofs about McpBuffers for every reservation of at least one buffer,   *)
(* every assignment of frames to messages and any number of messages.      *)
(***************************************************************************)
EXTENDS McpBuffers, TLAPS

-----------------------------------------------------------------------------
(* The encoding of frames in the buffers' registers *)

\* SIDL holds the kind of frame between two parts of the identifier.
LEMMA SidlParts ==
  ASSUME NEW lo \in 0 .. 3, NEW s \in 0 .. 7
  PROVE  /\ Part(lo + 32 * s + 8, 8, 2) = 1 /\ Part(32 * s, 8, 2) = 0
         /\ Part(lo + 32 * s + 8, 32, 8) = s /\ Part(32 * s, 32, 8) = s
         /\ Part(lo + 32 * s + 8, 1, 4) = lo
BY SMT DEF Part

LEMMA PartRanges ==
  ASSUME NEW id \in Nat
  PROVE  /\ Part(id, 65536, 4) \in 0 .. 3
         /\ Part(id, 262144, 8) \in 0 .. 7 /\ Part(id, 1, 8) \in 0 .. 7
         /\ Part(id, 1, 256) \in 0 .. 255 /\ Part(id, 8, 256) \in 0 .. 255
         /\ Part(id, 256, 256) \in 0 .. 255 /\ Part(id, 2097152, 256) \in 0 .. 255
BY SMT DEF Part

\* The parts of an identifier make it up again.
LEMMA ExtendedId ==
  ASSUME NEW id \in Nat, id < 536870912
  PROVE  id = 65536 * (4 * (8 * Part(id, 2097152, 256) + Part(id, 262144, 8)) + Part(id, 65536, 4))
                + 256 * Part(id, 256, 256) + Part(id, 1, 256)
<1> DEFINE n1 == id \div 256
           n2 == id \div 65536
           n3 == id \div 262144
           n4 == Part(id, 2097152, 256)
           a == Part(id, 1, 256)
           b == Part(id, 256, 256)
           c == Part(id, 65536, 4)
           d == Part(id, 262144, 8)
<1>1. id = 256 * n1 + a
  BY SMT DEF Part
<1>2. n1 = 256 * n2 + b
  BY SMT DEF Part
<1>3. n2 = 4 * n3 + c
  BY SMT DEF Part
<1>4. n3 = 8 * n4 + d
  BY SMT DEF Part
<1>5. n1 \in Nat /\ n2 \in Nat /\ n3 \in Nat
  BY SMT
<1>6. n4 \in Nat /\ a \in Nat /\ b \in Nat /\ c \in Nat /\ d \in Nat
  BY SMT DEF Part
<1>7. id = 65536 * (4 * (8 * n4 + d) + c) + 256 * b + a
  <2> HIDE DEF n1, n2, n3, n4, a, b, c, d
  <2> QED BY <1>1, <1>2, <1>3, <1>4, <1>5, <1>6, SMT
<1> QED BY <1>7, SMT

LEMMA StandardId ==
  ASSUME NEW id \in Nat, id < 2048
  PROVE  id = 8 * Part(id, 8, 256) + Part(id, 1, 8)
BY SMT DEF Part

LEMMA Length ==
  ASSUME NEW len \in 0 .. 8
  PROVE  /\ Part(len + 64, 64, 2) = 1 /\ Part(len + 0, 64, 2) = 0
         /\ Part(len + 64, 1, 16) = len /\ Part(len + 0, 1, 16) = len
BY SMT DEF Part

\* What one node encodes another decodes to the same frame, for every
\* identifier of either kind.
THEOREM DecodedIsEncoded ==
  ASSUME NEW f \in AllFrames
  PROVE  Decoded(Encoded(f)) = f
<1> DEFINE r == Encoded(f)
<1>1. /\ f = [ext |-> f.ext, id |-> f.id, rtr |-> f.rtr, len |-> f.len]
      /\ f.ext \in BOOLEAN /\ f.rtr \in BOOLEAN /\ f.len \in 0 .. 8 /\ f.id \in Nat
  BY SMT DEF AllFrames, CAN_MAX_CHAR_IN_MESSAGE
<1>2. f.id < IF f.ext THEN 536870912 ELSE 2048
  BY SMT DEF AllFrames, IdEnd
<1>3. /\ r.sidh = Part(f.id, IF f.ext THEN 2097152 ELSE 8, 256) /\ r.sidl = SidlOf(f)
      /\ r.eid8 = IF f.ext THEN Part(f.id, 256, 256) ELSE 0
      /\ r.eid0 = IF f.ext THEN Part(f.id, 1, 256) ELSE 0
      /\ r.dlc = f.len + (IF f.rtr THEN 64 ELSE 0)
  BY SMT DEF Encoded
<1>4. Part(r.dlc, 1, 16) = f.len /\ (Part(r.dlc, 64, 2) = 1 <=> f.rtr)
  <2>1. CASE f.rtr
    BY <1>1, <1>3, <2>1, Length, SMT
  <2>2. CASE ~f.rtr
    BY <1>1, <1>3, <2>2, Length, SMT
  <2> QED BY <2>1, <2>2
<1>5. Decoded(r).len = f.len /\ Decoded(r).rtr = f.rtr
  BY <1>1, <1>4, SMT DEF Decoded
<1>6. Decoded(r).ext = f.ext /\ Decoded(r).id = f.id
  <2>1. CASE f.ext
    <3>1. r.sidl = Part(f.id, 65536, 4) + 32 * Part(f.id, 262144, 8) + 8
      BY <1>3, <2>1, SMT DEF SidlOf
    <3>2. /\ Part(r.sidl, 8, 2) = 1 /\ Part(r.sidl, 1, 4) = Part(f.id, 65536, 4)
          /\ Part(r.sidl, 32, 8) = Part(f.id, 262144, 8)
      BY <1>1, <3>1, PartRanges, SidlParts, SMT
    <3>3. Sid(r) = 8 * Part(f.id, 2097152, 256) + Part(f.id, 262144, 8)
      BY <1>3, <2>1, <3>2, SMT DEF Sid
    <3>4. f.id = 65536 * (4 * Sid(r) + Part(r.sidl, 1, 4)) + 256 * r.eid8 + r.eid0
      BY <1>1, <1>2, <1>3, <2>1, <3>2, <3>3, ExtendedId, SMT
    <3>5. Decoded(r).id = 65536 * (4 * Sid(r) + Part(r.sidl, 1, 4)) + 256 * r.eid8 + r.eid0
      BY <3>2, SMT DEF Decoded
    <3>6. Part(r.sidl, 8, 2) = 1 <=> f.ext
      BY <2>1, <3>2
    <3>7. Decoded(r).ext = f.ext
      BY <1>1, <3>6, SMT DEF Decoded
    <3> QED BY <3>4, <3>5, <3>7, SMT
  <2>2. CASE ~f.ext
    <3>1. r.sidl = 32 * Part(f.id, 1, 8) /\ r.sidh = Part(f.id, 8, 256)
      BY <1>3, <2>2, SMT DEF SidlOf
    <3>2. Part(r.sidl, 8, 2) = 0 /\ Part(r.sidl, 32, 8) = Part(f.id, 1, 8)
      BY <1>1, <3>1, PartRanges, SidlParts, SMT
    <3>3. Sid(r) = f.id
      BY <1>1, <1>2, <2>2, <3>1, <3>2, StandardId, SMT DEF Sid
    <3> QED BY <1>1, <2>2, <3>2, <3>3, SMT DEF Decoded
  <2> QED BY <2>1, <2>2
<1> QED BY <1>1, <1>5, <1>6, SMT DEF Decoded

LEMMA EncodedInRange ==
  ASSUME NEW f \in AllFrames
  PROVE  Encoded(f) \in Registers
<1>1. f.ext \in BOOLEAN /\ f.rtr \in BOOLEAN /\ f.len \in 0 .. 8 /\ f.id \in Nat
  BY SMT DEF AllFrames, CAN_MAX_CHAR_IN_MESSAGE
<1>2. SidlOf(f) \in 0 .. 255
  BY <1>1, SMT DEF SidlOf, Part
<1>3. \A u \in {1, 8, 256, 2097152} : Part(f.id, u, 256) \in 0 .. 255
  BY <1>1, SMT DEF Part
<1> QED BY <1>1, <1>2, <1>3, SMT DEF Encoded, Registers

-----------------------------------------------------------------------------
Last == getLastTxBuffer
MainSends == mpc \in {"clear", "load", "start"}
IsrSends == ipc \in {"clear", "load", "start"}
FirstOfStream == specific /\ mpc # "idle"

\* What is where in the two programs.
PlaceInv ==
  /\ mpc # "idle" => mmsg \in Numbers
  /\ IsrSends => imsg \in Numbers
  /\ count + left <= MaxFrames

\* The main program's buffer is free as long as it uses it; only a stream's
\* first message goes to the last buffer.
MainInv ==
  /\ MainSends => mbuf \notin pending /\ (mbuf = Last <=> specific)
  /\ mpc \in {"load", "start"} => mbuf \notin txif
  /\ mpc = "start" => regs[mbuf] = Encoded(Frame[mmsg]) /\ data[mbuf] = mmsg

\* The interrupt routine's copy shows flags that are still set, and its buffer
\* is free as long as it uses it.
IsrInv ==
  /\ ipc \in {"check", "flags"} \/ IsrSends => status \subseteq txif
  /\ IsrSends => Last \notin status /\ Last \notin pending /\ ~FirstOfStream
  /\ ipc \in {"load", "start"} => Last \notin txif
  /\ ipc = "start" => regs[Last] = Encoded(Frame[imsg]) /\ data[Last] = imsg

\* At most one message of a stream is under way.
StreamInv ==
  /\ FirstOfStream => streaming /\ Last \notin pending \cup txif
  /\ ~streaming => Last \notin pending /\ ~IsrSends
  /\ ~streaming /\ Last \in txif => ipc = "flags" /\ Last \in status

\* What is pending was asked for, and is what was asked for.
PendingInv ==
  \A b \in pending : data[b] \in accepted /\ regs[b] = Encoded(Frame[data[b]])

\* The type invariant, its first line apart
RangesOK ==
  /\ mpc \in {"idle", "free", "clear", "load", "start"}
  /\ ipc \in {"idle", "status", "check", "clear", "load", "start", "flags"}
  /\ mbuf \in Buffers
  /\ mmsg \in 0 .. MaxFrames /\ imsg \in 0 .. MaxFrames
  /\ status \subseteq Buffers /\ left \in 0 .. MaxFrames
  /\ regs \in [Buffers -> Registers] /\ data \in [Buffers -> 0 .. MaxFrames]
  /\ pending \subseteq Buffers /\ txif \subseteq Buffers
  /\ count \in 0 .. MaxFrames /\ accepted \subseteq Numbers
  /\ onBus \in [Numbers -> AllFrames \cup {None}]
FlagsOK == specific \in BOOLEAN /\ streaming \in BOOLEAN

IInv ==
  /\ RangesOK /\ FlagsOK /\ PlaceInv /\ MainInv /\ IsrInv /\ StreamInv /\ PendingInv
  /\ FlagMeansFree /\ NothingOverwritten /\ OnlyWhatWasAsked

-----------------------------------------------------------------------------
(* Facts about the operators *)

LEMMA LastBuffer == Last = 2 /\ Buffers = 0 .. 2 /\ Last \in Buffers
BY DEF Last, getLastTxBuffer, Buffers, MCP_N_TXBUFFERS

LEMMA UnreservedBuffers == Unreserved \subseteq Buffers /\ Last \notin Unreserved
<1>1. nReservedTx \in {1, 2}
  BY BuffersAssumption, SMT DEF BuffersAssumption, nReservedTx, MCP_N_TXBUFFERS
<1> QED BY <1>1, LastBuffer DEF Unreserved, MCP_N_TXBUFFERS

LEMMA FrameOf ==
  ASSUME NEW n \in Numbers
  PROVE  Frame[n] \in AllFrames
BY BuffersAssumption DEF BuffersAssumption, Numbers

\* The chosen buffers are among those they are chosen from.
LEMMA LeastFree == ASSUME RangesOK, Free # {} PROVE Min(Free) \in Free
<1>1. Free \subseteq 0 .. 2
  BY UnreservedBuffers, LastBuffer DEF Free, Last
<1>2. \E x \in Free : \A y \in Free : x <= y
  <2>1. CASE 0 \in Free
    BY <1>1, <2>1
  <2>2. CASE 0 \notin Free /\ 1 \in Free
    BY <1>1, <2>2
  <2>3. CASE 0 \notin Free /\ 1 \notin Free
    <3>1. \A x \in Free : x = 2
      BY <1>1, <2>3
    <3>2. PICK x \in Free : TRUE
      OBVIOUS
    <3> QED BY <3>1, <3>2
  <2> QED BY <2>1, <2>2, <2>3
<1> QED BY <1>2 DEF Min

LEMMA HighestPending == ASSUME RangesOK, pending # {} PROVE Max(pending) \in pending
<1>1. pending \subseteq 0 .. 2
  BY LastBuffer DEF RangesOK
<1>2. \E x \in pending : \A y \in pending : x >= y
  <2>1. CASE 2 \in pending
    BY <1>1, <2>1
  <2>2. CASE 2 \notin pending /\ 1 \in pending
    BY <1>1, <2>2
  <2>3. CASE 2 \notin pending /\ 1 \notin pending
    <3>1. \A x \in pending : x = 0
      BY <1>1, <2>3
    <3>2. PICK x \in pending : TRUE
      OBVIOUS
    <3> QED BY <3>1, <3>2
  <2> QED BY <2>1, <2>2, <2>3
<1> QED BY <1>2 DEF Max

\* What FindFree does, with the buffer it chooses
LEMMA FoundFree ==
  ASSUME RangesOK, FlagsOK, FindFree, mpc' = "clear"
  PROVE  mbuf' \in Buffers /\ mbuf' \notin pending /\ (mbuf' = Last <=> specific)
<1>1. Free # {} /\ mbuf' = Min(Free)
  BY DEF FindFree
<1>2. mbuf' \in Free
  BY <1>1, LeastFree
<1>3. CASE specific
  BY <1>2, <1>3, LastBuffer DEF Free, Last
<1>4. CASE ~specific
  BY <1>2, <1>4, UnreservedBuffers DEF Free
<1> QED BY <1>3, <1>4 DEF FlagsOK

\* What Transmit does: the frame that was asked for gets on the bus.
LEMMA Transmitted ==
  ASSUME RangesOK, PendingInv, Transmit
  PROVE  \E b \in pending :
           /\ pending' = pending \ {b} /\ txif' = txif \cup {b}
           /\ data[b] \in accepted /\ data[b] \in Numbers /\ Frame[data[b]] \in AllFrames
           /\ onBus' = [onBus EXCEPT ![data[b]] = Frame[data[b]]]
<1> DEFINE b == Max(pending)
<1>1. /\ b \in pending
      /\ pending' = pending \ {b} /\ txif' = txif \cup {b}
      /\ onBus' = [onBus EXCEPT ![data[b]] = Decoded(regs[b])]
  BY HighestPending DEF Transmit
<1>2. data[b] \in accepted /\ regs[b] = Encoded(Frame[data[b]]) /\ data[b] \in Numbers
  BY <1>1 DEF PendingInv, RangesOK
<1>3. Frame[data[b]] \in AllFrames
  BY <1>2, FrameOf
<1>4. Decoded(regs[b]) = Frame[data[b]]
  BY <1>2, <1>3, DecodedIsEncoded
<1> QED BY <1>1, <1>2, <1>3, <1>4

-----------------------------------------------------------------------------
\* The variables keep their ranges.
LEMMA RangesOK_step ==
  ASSUME PlaceInv, PendingInv, FlagsOK, RangesOK, [Next]_vars
  PROVE  RangesOK'
<1> USE BuffersAssumption, LastBuffer DEF RangesOK, BuffersAssumption, Buffers, Numbers,
         PlaceInv, IsrSends, mainVars, isrVars, stream, buffers, chip, past
<1>1. CASE trySendMsgBuf
  BY <1>1 DEF trySendMsgBuf, MainMay
<1>2. CASE \E more \in 0 .. MaxFrames : StartStream(more)
  BY <1>2 DEF StartStream
<1>3. CASE FindFree
  BY <1>3, FoundFree DEF FindFree, MainMay
<1>4. CASE ClearFlag
  BY <1>4 DEF ClearFlag, MainMay
<1>5. CASE LoadMsg
  BY <1>5, FrameOf, EncodedInRange DEF LoadMsg, MainMay
<1>6. CASE StartTransmit
  BY <1>6 DEF StartTransmit, MainMay
<1>7. CASE Interrupt
  BY <1>7 DEF Interrupt, IsrOnly
<1>8. CASE readRxTxStatus
  BY <1>8 DEF readRxTxStatus, IsrOnly
<1>9. CASE SendNext
  BY <1>9 DEF SendNext, IsrOnly
<1>10. CASE NothingToSend
  BY <1>10 DEF NothingToSend, IsrOnly
<1>11. CASE SendClearsFlag
  BY <1>11 DEF SendClearsFlag, FlagsAfterSend, IsrOnly
<1>12. CASE SendLoads
  BY <1>12, FrameOf, EncodedInRange DEF SendLoads, IsrOnly
<1>13. CASE SendStarts
  <2>1. pending' = pending \cup {Last} /\ accepted' = accepted \cup {imsg} /\ ipc' = "flags"
    BY <1>13 DEF SendStarts, Last
  <2>2. imsg \in Numbers
    BY <1>13 DEF SendStarts
  <2>3. /\ UNCHANGED <<mpc, mbuf, mmsg, imsg, status, left, regs, data, txif, count>>
        /\ UNCHANGED onBus
    BY <1>13 DEF SendStarts
  <2> QED BY <2>1, <2>2, <2>3
<1>14. CASE ClearFlags
  BY <1>14 DEF ClearFlags, Clearable, IsrOnly
<1>15. CASE Transmit
  <2>1. UNCHANGED <<mainVars, isrVars, stream, buffers, count, accepted>>
    BY <1>15 DEF Transmit
  <2>2. PICK b \in pending :
          /\ pending' = pending \ {b} /\ txif' = txif \cup {b}
          /\ data[b] \in accepted /\ data[b] \in Numbers /\ Frame[data[b]] \in AllFrames
          /\ onBus' = [onBus EXCEPT ![data[b]] = Frame[data[b]]]
    BY <1>15, Transmitted
  <2> QED BY <2>1, <2>2
<1>16. CASE UNCHANGED vars
  BY <1>16 DEF vars
<1> QED
  BY <1>1, <1>2, <1>3, <1>4, <1>5, <1>6, <1>7, <1>8, <1>9, <1>10, <1>11, <1>12, <1>13, <1>14,
     <1>15, <1>16
  DEF Next, Main, Isr, Idle

\* The Boolean variables stay Boolean.
LEMMA FlagsOK_step ==
  ASSUME FlagsOK, [Next]_vars
  PROVE  FlagsOK'
<1> USE DEF FlagsOK, mainVars, isrVars, stream, buffers, chip, past
<1>1. CASE trySendMsgBuf
  BY <1>1, Zenon DEF trySendMsgBuf, MainMay
<1>2. CASE \E more \in 0 .. MaxFrames : StartStream(more)
  BY <1>2, Zenon DEF StartStream
<1>3. CASE FindFree
  BY <1>3, Zenon DEF FindFree, MainMay
<1>4. CASE ClearFlag
  BY <1>4, Zenon DEF ClearFlag, MainMay
<1>5. CASE LoadMsg
  BY <1>5, Zenon DEF LoadMsg, MainMay
<1>6. CASE StartTransmit
  BY <1>6 DEF StartTransmit, MainMay
<1>7. CASE Interrupt
  BY <1>7, Zenon DEF Interrupt, IsrOnly
<1>8. CASE readRxTxStatus
  BY <1>8, Zenon DEF readRxTxStatus, IsrOnly
<1>9. CASE SendNext
  BY <1>9, Zenon DEF SendNext, IsrOnly
<1>10. CASE NothingToSend
  BY <1>10, Zenon DEF NothingToSend, IsrOnly
<1>11. CASE SendClearsFlag
  BY <1>11, Zenon DEF SendClearsFlag, FlagsAfterSend, IsrOnly
<1>12. CASE SendLoads
  BY <1>12, Zenon DEF SendLoads, IsrOnly
<1>13. CASE SendStarts
  BY <1>13, Zenon DEF SendStarts
<1>14. CASE ClearFlags
  BY <1>14, Zenon DEF ClearFlags, Clearable, IsrOnly
<1>15. CASE Transmit
  BY <1>15 DEF Transmit
<1>16. CASE UNCHANGED vars
  BY <1>16, Zenon DEF vars
<1> QED
  BY <1>1, <1>2, <1>3, <1>4, <1>5, <1>6, <1>7, <1>8, <1>9, <1>10, <1>11, <1>12, <1>13, <1>14,
     <1>15, <1>16
  DEF Next, Main, Isr, Idle

\* Messages are numbered within their bound.
LEMMA PlaceInv_step ==
  ASSUME RangesOK, PlaceInv, [Next]_vars
  PROVE  PlaceInv'
<1> USE BuffersAssumption DEF PlaceInv, BuffersAssumption, RangesOK, Numbers, IsrSends,
         mainVars, isrVars, stream, buffers, chip, past
<1>1. CASE trySendMsgBuf
  BY <1>1 DEF trySendMsgBuf, MainMay
<1>2. CASE \E more \in 0 .. MaxFrames : StartStream(more)
  BY <1>2 DEF StartStream
<1>3. CASE FindFree
  BY <1>3 DEF FindFree, MainMay
<1>4. CASE ClearFlag
  BY <1>4 DEF ClearFlag, MainMay
<1>5. CASE LoadMsg
  BY <1>5 DEF LoadMsg, MainMay
<1>6. CASE StartTransmit
  BY <1>6 DEF StartTransmit, MainMay
<1>7. CASE Interrupt
  BY <1>7 DEF Interrupt, IsrOnly
<1>8. CASE readRxTxStatus
  BY <1>8 DEF readRxTxStatus, IsrOnly
<1>9. CASE SendNext
  BY <1>9 DEF SendNext, IsrOnly
<1>10. CASE NothingToSend
  BY <1>10 DEF NothingToSend, IsrOnly
<1>11. CASE SendClearsFlag
  BY <1>11 DEF SendClearsFlag, FlagsAfterSend, IsrOnly
<1>12. CASE SendLoads
  BY <1>12 DEF SendLoads, IsrOnly
<1>13. CASE SendStarts
  BY <1>13 DEF SendStarts
<1>14. CASE ClearFlags
  BY <1>14 DEF ClearFlags, Clearable, IsrOnly
<1>15. CASE Transmit
  BY <1>15 DEF Transmit
<1>16. CASE UNCHANGED vars
  BY <1>16 DEF vars
<1> QED
  BY <1>1, <1>2, <1>3, <1>4, <1>5, <1>6, <1>7, <1>8, <1>9, <1>10, <1>11, <1>12, <1>13, <1>14,
     <1>15, <1>16
  DEF Next, Main, Isr, Idle

\* The buffer the main program uses is its own.
LEMMA MainInv_step ==
  ASSUME RangesOK, FlagsOK, PlaceInv, PendingInv, IsrInv, MainInv, [Next]_vars
  PROVE  MainInv'
<1> USE LastBuffer DEF MainInv, RangesOK, IsrInv, Last, MainSends, IsrSends, FirstOfStream,
         mainVars, isrVars, stream, buffers, chip, past
<1>1. CASE trySendMsgBuf
  BY <1>1 DEF trySendMsgBuf, MainMay
<1>2. CASE \E more \in 0 .. MaxFrames : StartStream(more)
  BY <1>2 DEF StartStream
<1>3. CASE FindFree
  BY <1>3, FoundFree DEF FindFree, MainMay
<1>4. CASE ClearFlag
  BY <1>4 DEF ClearFlag, MainMay
<1>5. CASE LoadMsg
  BY <1>5 DEF LoadMsg, MainMay
<1>6. CASE StartTransmit
  BY <1>6 DEF StartTransmit, MainMay
<1>7. CASE Interrupt
  BY <1>7 DEF Interrupt, IsrOnly
<1>8. CASE readRxTxStatus
  BY <1>8 DEF readRxTxStatus, IsrOnly
<1>9. CASE SendNext
  BY <1>9 DEF SendNext, IsrOnly
<1>10. CASE NothingToSend
  BY <1>10 DEF NothingToSend, IsrOnly
<1>11. CASE SendClearsFlag
  BY <1>11 DEF SendClearsFlag, FlagsAfterSend, IsrOnly
<1>12. CASE SendLoads
  BY <1>12 DEF SendLoads, IsrOnly
<1>13. CASE SendStarts
  BY <1>13 DEF SendStarts
<1>14. CASE ClearFlags
  BY <1>14 DEF ClearFlags, Clearable, IsrOnly
<1>15. CASE Transmit
  <2>1. UNCHANGED <<mainVars, isrVars, stream, buffers, count, accepted>>
    BY <1>15 DEF Transmit
  <2>2. PICK b \in pending :
          /\ pending' = pending \ {b} /\ txif' = txif \cup {b}
          /\ data[b] \in accepted /\ data[b] \in Numbers /\ Frame[data[b]] \in AllFrames
          /\ onBus' = [onBus EXCEPT ![data[b]] = Frame[data[b]]]
    BY <1>15, Transmitted
  <2> QED BY <2>1, <2>2
<1>16. CASE UNCHANGED vars
  BY <1>16 DEF vars
<1> QED
  BY <1>1, <1>2, <1>3, <1>4, <1>5, <1>6, <1>7, <1>8, <1>9, <1>10, <1>11, <1>12, <1>13, <1>14,
     <1>15, <1>16
  DEF Next, Main, Isr, Idle

\* The last buffer is the interrupt routine's as long as it uses it.
LEMMA IsrInv_step ==
  ASSUME RangesOK, FlagsOK, PendingInv, MainInv, StreamInv, FlagMeansFree, IsrInv, [Next]_vars
  PROVE  IsrInv'
<1> USE LastBuffer DEF IsrInv, RangesOK, MainInv, StreamInv, FlagMeansFree, Last, MainSends,
         IsrSends, FirstOfStream, mainVars, isrVars, stream, buffers, chip, past
<1>1. CASE trySendMsgBuf
  BY <1>1 DEF trySendMsgBuf, MainMay
<1>2. CASE \E more \in 0 .. MaxFrames : StartStream(more)
  BY <1>2 DEF StartStream
<1>3. CASE FindFree
  BY <1>3 DEF FindFree, MainMay
<1>4. CASE ClearFlag
  BY <1>4 DEF ClearFlag, MainMay
<1>5. CASE LoadMsg
  BY <1>5 DEF LoadMsg, MainMay
<1>6. CASE StartTransmit
  BY <1>6 DEF StartTransmit, MainMay
<1>7. CASE Interrupt
  BY <1>7 DEF Interrupt, IsrOnly
<1>8. CASE readRxTxStatus
  BY <1>8 DEF readRxTxStatus, IsrOnly
<1>9. CASE SendNext
  BY <1>9 DEF SendNext, IsrOnly
<1>10. CASE NothingToSend
  BY <1>10 DEF NothingToSend, IsrOnly
<1>11. CASE SendClearsFlag
  BY <1>11 DEF SendClearsFlag, FlagsAfterSend, IsrOnly
<1>12. CASE SendLoads
  BY <1>12 DEF SendLoads, IsrOnly
<1>13. CASE SendStarts
  BY <1>13 DEF SendStarts
<1>14. CASE ClearFlags
  BY <1>14 DEF ClearFlags, Clearable, IsrOnly
<1>15. CASE Transmit
  <2>1. UNCHANGED <<mainVars, isrVars, stream, buffers, count, accepted>>
    BY <1>15 DEF Transmit
  <2>2. PICK b \in pending :
          /\ pending' = pending \ {b} /\ txif' = txif \cup {b}
          /\ data[b] \in accepted /\ data[b] \in Numbers /\ Frame[data[b]] \in AllFrames
          /\ onBus' = [onBus EXCEPT ![data[b]] = Frame[data[b]]]
    BY <1>15, Transmitted
  <2> QED BY <2>1, <2>2
<1>16. CASE UNCHANGED vars
  BY <1>16 DEF vars
<1> QED
  BY <1>1, <1>2, <1>3, <1>4, <1>5, <1>6, <1>7, <1>8, <1>9, <1>10, <1>11, <1>12, <1>13, <1>14,
     <1>15, <1>16
  DEF Next, Main, Isr, Idle

\* A stream ends only when its last message is out.
LEMMA StreamInv_step ==
  ASSUME RangesOK, FlagsOK, PendingInv, MainInv, IsrInv, FlagMeansFree, StreamInv, [Next]_vars
  PROVE  StreamInv'
<1> USE LastBuffer DEF StreamInv, FlagsOK, MainInv, IsrInv, FlagMeansFree, Last, MainSends,
         IsrSends, FirstOfStream, mainVars, isrVars, stream, buffers, chip, past
<1>1. CASE trySendMsgBuf
  BY <1>1 DEF trySendMsgBuf, MainMay
<1>2. CASE \E more \in 0 .. MaxFrames : StartStream(more)
  BY <1>2 DEF StartStream
<1>3. CASE FindFree
  BY <1>3 DEF FindFree, MainMay
<1>4. CASE ClearFlag
  BY <1>4 DEF ClearFlag, MainMay
<1>5. CASE LoadMsg
  BY <1>5 DEF LoadMsg, MainMay
<1>6. CASE StartTransmit
  BY <1>6 DEF StartTransmit, MainMay
<1>7. CASE Interrupt
  BY <1>7 DEF Interrupt, IsrOnly
<1>8. CASE readRxTxStatus
  BY <1>8 DEF readRxTxStatus, IsrOnly
<1>9. CASE SendNext
  BY <1>9 DEF SendNext, IsrOnly
<1>10. CASE NothingToSend
  BY <1>10 DEF NothingToSend, IsrOnly
<1>11. CASE SendClearsFlag
  BY <1>11 DEF SendClearsFlag, FlagsAfterSend, IsrOnly
<1>12. CASE SendLoads
  BY <1>12 DEF SendLoads, IsrOnly
<1>13. CASE SendStarts
  BY <1>13 DEF SendStarts
<1>14. CASE ClearFlags
  BY <1>14 DEF ClearFlags, Clearable, IsrOnly
<1>15. CASE Transmit
  <2>1. UNCHANGED <<mainVars, isrVars, stream, buffers, count, accepted>>
    BY <1>15 DEF Transmit
  <2>2. PICK b \in pending :
          /\ pending' = pending \ {b} /\ txif' = txif \cup {b}
          /\ data[b] \in accepted /\ data[b] \in Numbers /\ Frame[data[b]] \in AllFrames
          /\ onBus' = [onBus EXCEPT ![data[b]] = Frame[data[b]]]
    BY <1>15, Transmitted
  <2> QED BY <2>1, <2>2
<1>16. CASE UNCHANGED vars
  BY <1>16 DEF vars
<1> QED
  BY <1>1, <1>2, <1>3, <1>4, <1>5, <1>6, <1>7, <1>8, <1>9, <1>10, <1>11, <1>12, <1>13, <1>14,
     <1>15, <1>16
  DEF Next, Main, Isr, Idle

\* Pending buffers are not written.
LEMMA PendingInv_step ==
  ASSUME RangesOK, FlagsOK, PlaceInv, MainInv, IsrInv, PendingInv, [Next]_vars
  PROVE  PendingInv'
<1> USE LastBuffer DEF PendingInv, RangesOK, PlaceInv, MainInv, IsrInv, Last, MainSends,
         IsrSends, FirstOfStream, mainVars, isrVars, stream, buffers, chip, past
<1>1. CASE trySendMsgBuf
  BY <1>1 DEF trySendMsgBuf, MainMay
<1>2. CASE \E more \in 0 .. MaxFrames : StartStream(more)
  BY <1>2 DEF StartStream
<1>3. CASE FindFree
  BY <1>3 DEF FindFree, MainMay
<1>4. CASE ClearFlag
  BY <1>4 DEF ClearFlag, MainMay
<1>5. CASE LoadMsg
  BY <1>5 DEF LoadMsg, MainMay
<1>6. CASE StartTransmit
  BY <1>6 DEF StartTransmit, MainMay
<1>7. CASE Interrupt
  BY <1>7 DEF Interrupt, IsrOnly
<1>8. CASE readRxTxStatus
  BY <1>8 DEF readRxTxStatus, IsrOnly
<1>9. CASE SendNext
  BY <1>9 DEF SendNext, IsrOnly
<1>10. CASE NothingToSend
  BY <1>10 DEF NothingToSend, IsrOnly
<1>11. CASE SendClearsFlag
  BY <1>11 DEF SendClearsFlag, FlagsAfterSend, IsrOnly
<1>12. CASE SendLoads
  BY <1>12 DEF SendLoads, IsrOnly
<1>13. CASE SendStarts
  BY <1>13 DEF SendStarts
<1>14. CASE ClearFlags
  BY <1>14 DEF ClearFlags, Clearable, IsrOnly
<1>15. CASE Transmit
  <2>1. UNCHANGED <<mainVars, isrVars, stream, buffers, count, accepted>>
    BY <1>15 DEF Transmit
  <2>2. PICK b \in pending :
          /\ pending' = pending \ {b} /\ txif' = txif \cup {b}
          /\ data[b] \in accepted /\ data[b] \in Numbers /\ Frame[data[b]] \in AllFrames
          /\ onBus' = [onBus EXCEPT ![data[b]] = Frame[data[b]]]
    BY <1>15, Transmitted
  <2> QED BY <2>1, <2>2
<1>16. CASE UNCHANGED vars
  BY <1>16 DEF vars
<1> QED
  BY <1>1, <1>2, <1>3, <1>4, <1>5, <1>6, <1>7, <1>8, <1>9, <1>10, <1>11, <1>12, <1>13, <1>14,
     <1>15, <1>16
  DEF Next, Main, Isr, Idle

\* Flags are cleared before their buffers are filled.
LEMMA FlagMeansFree_step ==
  ASSUME RangesOK, FlagsOK, PendingInv, MainInv, IsrInv, FlagMeansFree, [Next]_vars
  PROVE  FlagMeansFree'
<1> USE LastBuffer DEF FlagMeansFree, MainInv, IsrInv, Last, MainSends, IsrSends,
         FirstOfStream, mainVars, isrVars, stream, buffers, chip, past
<1>1. CASE trySendMsgBuf
  BY <1>1 DEF trySendMsgBuf, MainMay
<1>2. CASE \E more \in 0 .. MaxFrames : StartStream(more)
  BY <1>2 DEF StartStream
<1>3. CASE FindFree
  BY <1>3 DEF FindFree, MainMay
<1>4. CASE ClearFlag
  BY <1>4 DEF ClearFlag, MainMay
<1>5. CASE LoadMsg
  BY <1>5 DEF LoadMsg, MainMay
<1>6. CASE StartTransmit
  BY <1>6 DEF StartTransmit, MainMay
<1>7. CASE Interrupt
  BY <1>7 DEF Interrupt, IsrOnly
<1>8. CASE readRxTxStatus
  BY <1>8 DEF readRxTxStatus, IsrOnly
<1>9. CASE SendNext
  BY <1>9 DEF SendNext, IsrOnly
<1>10. CASE NothingToSend
  BY <1>10 DEF NothingToSend, IsrOnly
<1>11. CASE SendClearsFlag
  BY <1>11 DEF SendClearsFlag, FlagsAfterSend, IsrOnly
<1>12. CASE SendLoads
  BY <1>12 DEF SendLoads, IsrOnly
<1>13. CASE SendStarts
  BY <1>13 DEF SendStarts
<1>14. CASE ClearFlags
  BY <1>14 DEF ClearFlags, Clearable, IsrOnly
<1>15. CASE Transmit
  <2>1. UNCHANGED <<mainVars, isrVars, stream, buffers, count, accepted>>
    BY <1>15 DEF Transmit
  <2>2. PICK b \in pending :
          /\ pending' = pending \ {b} /\ txif' = txif \cup {b}
          /\ data[b] \in accepted /\ data[b] \in Numbers /\ Frame[data[b]] \in AllFrames
          /\ onBus' = [onBus EXCEPT ![data[b]] = Frame[data[b]]]
    BY <1>15, Transmitted
  <2> QED BY <2>1, <2>2
<1>16. CASE UNCHANGED vars
  BY <1>16 DEF vars
<1> QED
  BY <1>1, <1>2, <1>3, <1>4, <1>5, <1>6, <1>7, <1>8, <1>9, <1>10, <1>11, <1>12, <1>13, <1>14,
     <1>15, <1>16
  DEF Next, Main, Isr, Idle

\* What was accepted stays pending until it is out.
LEMMA NothingOverwritten_step ==
  ASSUME RangesOK, FlagsOK, PlaceInv, PendingInv, MainInv, IsrInv, NothingOverwritten, [Next]_vars
  PROVE  NothingOverwritten'
<1> USE LastBuffer, BuffersAssumption DEF NothingOverwritten, BuffersAssumption, RangesOK,
         MainInv, IsrInv, Last, MainSends, IsrSends, FirstOfStream, mainVars, isrVars, stream,
         buffers, chip, past
<1>1. CASE trySendMsgBuf
  BY <1>1 DEF trySendMsgBuf, MainMay
<1>2. CASE \E more \in 0 .. MaxFrames : StartStream(more)
  BY <1>2 DEF StartStream
<1>3. CASE FindFree
  BY <1>3 DEF FindFree, MainMay
<1>4. CASE ClearFlag
  BY <1>4 DEF ClearFlag, MainMay
<1>5. CASE LoadMsg
  BY <1>5 DEF LoadMsg, MainMay
<1>6. CASE StartTransmit
  BY <1>6 DEF StartTransmit, MainMay
<1>7. CASE Interrupt
  BY <1>7 DEF Interrupt, IsrOnly
<1>8. CASE readRxTxStatus
  BY <1>8 DEF readRxTxStatus, IsrOnly
<1>9. CASE SendNext
  BY <1>9 DEF SendNext, IsrOnly
<1>10. CASE NothingToSend
  BY <1>10 DEF NothingToSend, IsrOnly
<1>11. CASE SendClearsFlag
  BY <1>11 DEF SendClearsFlag, FlagsAfterSend, IsrOnly
<1>12. CASE SendLoads
  BY <1>12 DEF SendLoads, IsrOnly
<1>13. CASE SendStarts
  BY <1>13 DEF SendStarts
<1>14. CASE ClearFlags
  BY <1>14 DEF ClearFlags, Clearable, IsrOnly
<1>15. CASE Transmit
  <2>1. UNCHANGED <<mainVars, isrVars, stream, buffers, count, accepted>>
    BY <1>15 DEF Transmit
  <2>2. PICK b \in pending :
          /\ pending' = pending \ {b} /\ txif' = txif \cup {b}
          /\ data[b] \in accepted /\ data[b] \in Numbers /\ Frame[data[b]] \in AllFrames
          /\ onBus' = [onBus EXCEPT ![data[b]] = Frame[data[b]]]
    BY <1>15, Transmitted
  <2> QED BY <2>1, <2>2
<1>16. CASE UNCHANGED vars
  BY <1>16 DEF vars
<1> QED
  BY <1>1, <1>2, <1>3, <1>4, <1>5, <1>6, <1>7, <1>8, <1>9, <1>10, <1>11, <1>12, <1>13, <1>14,
     <1>15, <1>16
  DEF Next, Main, Isr, Idle

\* What gets on the bus is what was asked for.
LEMMA OnlyWhatWasAsked_step ==
  ASSUME RangesOK, PendingInv, OnlyWhatWasAsked, [Next]_vars
  PROVE  OnlyWhatWasAsked'
<1> USE BuffersAssumption DEF OnlyWhatWasAsked, BuffersAssumption, RangesOK, mainVars, isrVars,
         stream, buffers, chip, past
<1>1. CASE trySendMsgBuf
  BY <1>1 DEF trySendMsgBuf, MainMay
<1>2. CASE \E more \in 0 .. MaxFrames : StartStream(more)
  BY <1>2 DEF StartStream
<1>3. CASE FindFree
  BY <1>3 DEF FindFree, MainMay
<1>4. CASE ClearFlag
  BY <1>4 DEF ClearFlag, MainMay
<1>5. CASE LoadMsg
  BY <1>5 DEF LoadMsg, MainMay
<1>6. CASE StartTransmit
  BY <1>6 DEF StartTransmit, MainMay
<1>7. CASE Interrupt
  BY <1>7 DEF Interrupt, IsrOnly
<1>8. CASE readRxTxStatus
  BY <1>8 DEF readRxTxStatus, IsrOnly
<1>9. CASE SendNext
  BY <1>9 DEF SendNext, IsrOnly
<1>10. CASE NothingToSend
  BY <1>10 DEF NothingToSend, IsrOnly
<1>11. CASE SendClearsFlag
  BY <1>11 DEF SendClearsFlag, FlagsAfterSend, IsrOnly
<1>12. CASE SendLoads
  BY <1>12 DEF SendLoads, IsrOnly
<1>13. CASE SendStarts
  BY <1>13 DEF SendStarts
<1>14. CASE ClearFlags
  BY <1>14 DEF ClearFlags, Clearable, IsrOnly
<1>15. CASE Transmit
  <2>1. UNCHANGED <<mainVars, isrVars, stream, buffers, count, accepted>>
    BY <1>15 DEF Transmit
  <2>2. PICK b \in pending :
          /\ pending' = pending \ {b} /\ txif' = txif \cup {b}
          /\ data[b] \in accepted /\ data[b] \in Numbers /\ Frame[data[b]] \in AllFrames
          /\ onBus' = [onBus EXCEPT ![data[b]] = Frame[data[b]]]
    BY <1>15, Transmitted
  <2> QED BY <2>1, <2>2
<1>16. CASE UNCHANGED vars
  BY <1>16 DEF vars
<1> QED
  BY <1>1, <1>2, <1>3, <1>4, <1>5, <1>6, <1>7, <1>8, <1>9, <1>10, <1>11, <1>12, <1>13, <1>14,
     <1>15, <1>16
  DEF Next, Main, Isr, Idle

-----------------------------------------------------------------------------
LEMMA InitIInv == Init => IInv
<1> SUFFICES ASSUME Init PROVE IInv
  OBVIOUS
<1>1. RangesOK
  <2>1. Cleared \in Registers
    BY SMT DEF Cleared, Registers
  <2> QED BY <2>1, BuffersAssumption, LastBuffer
          DEF BuffersAssumption, Init, RangesOK, Numbers, Buffers
<1>2. FlagsOK
  BY DEF Init, FlagsOK
<1>3. PlaceInv /\ MainInv /\ IsrInv /\ StreamInv
  BY BuffersAssumption DEF BuffersAssumption, Init, PlaceInv, MainInv, IsrInv, StreamInv, MainSends,
    IsrSends, FirstOfStream
<1>4. PendingInv /\ FlagMeansFree /\ NothingOverwritten
  BY DEF Init, PendingInv, FlagMeansFree, NothingOverwritten
<1>5. OnlyWhatWasAsked
  BY DEF Init, OnlyWhatWasAsked
<1> QED BY <1>1, <1>2, <1>3, <1>4, <1>5 DEF IInv

LEMMA NextIInv == IInv /\ [Next]_vars => IInv'
<1> SUFFICES ASSUME IInv, [Next]_vars PROVE IInv'
  OBVIOUS
<1>1. RangesOK' /\ FlagsOK' /\ PlaceInv'
  BY RangesOK_step, FlagsOK_step, PlaceInv_step DEF IInv
<1>2. MainInv' /\ IsrInv' /\ StreamInv'
  BY MainInv_step, IsrInv_step, StreamInv_step DEF IInv
<1>3. PendingInv' /\ FlagMeansFree'
  BY PendingInv_step, FlagMeansFree_step DEF IInv
<1>4. NothingOverwritten' /\ OnlyWhatWasAsked'
  BY NothingOverwritten_step, OnlyWhatWasAsked_step DEF IInv
<1> QED BY <1>1, <1>2, <1>3, <1>4 DEF IInv

LEMMA Inductive == Spec => []IInv
BY InitIInv, NextIInv, PTL DEF Spec

\* The variables keep their types: what is loaded fits the registers.
THEOREM TypeCorrect == Spec => []TypeOK
<1>1. IInv => TypeOK
  BY DEF IInv, TypeOK, RangesOK, FlagsOK
<1> QED BY <1>1, Inductive, PTL

\* A set flag means a free buffer, for both contexts at any moment.
THEOREM FlagsMeanFree == Spec => []FlagMeansFree
<1>1. IInv => FlagMeansFree
  BY DEF IInv
<1> QED BY <1>1, Inductive, PTL

\* No message whose transmission was requested is overwritten before it is out.
THEOREM NoneOverwritten == Spec => []NothingOverwritten
<1>1. IInv => NothingOverwritten
  BY DEF IInv
<1> QED BY <1>1, Inductive, PTL

\* What is read on the bus is the frame that was asked for, of either kind and
\* with any identifier.
THEOREM AskedIsSent == Spec => []OnlyWhatWasAsked
<1>1. IInv => OnlyWhatWasAsked
  BY DEF IInv
<1> QED BY <1>1, Inductive, PTL
=============================================================================
