------------------------------- MODULE McpBuffers -------------------------------
(***************************************************************************)
(* The transmit buffers of the CAN controller as the driver MCP_CAN        *)
(* (mcp_can.cpp) uses them from two contexts: the main program sends with  *)
(* trySendMsgBuf, and an interrupt routine, which may run between any two  *)
(* of the main program's accesses to the controller, sends a stream of     *)
(* messages through the last buffer, which is reserved for it, each time   *)
(* that buffer's transmit interrupt tells that the previous one is out.    *)
(* Meanwhile the controller transmits what is pending.                     *)
(*                                                                         *)
(* The callers are external: the calls in the order in which the comments  *)
(* of the driver prescribe them.  Messages are numbered in the order of    *)
(* the calls; a message's number stands for its data.                      *)
(***************************************************************************)
EXTENDS Integers, FiniteSets, FiniteSetsExt

CONSTANTS
  nTxBuf,              \* argument of reserveTxBuffers
  Frame,               \* per message: what is sent, as [ext, id, rtr, len]
  MaxFrames,           \* bound on the number of messages, for model checking
  None

MCP_N_TXBUFFERS == 3
CAN_MAX_CHAR_IN_MESSAGE == 8
IdEnd(ext) == IF ext THEN 536870912 ELSE 2048         \* 2^29, 2^11
AllFrames ==
  {f \in [ext : BOOLEAN, id : Nat, rtr : BOOLEAN, len : 0 .. CAN_MAX_CHAR_IN_MESSAGE] :
     f.id < IdEnd(f.ext)}

ASSUME BuffersAssumption ==
  /\ nTxBuf \in Nat \ {0} /\ MaxFrames \in Nat
  /\ Frame \in [1 .. MaxFrames -> AllFrames] /\ None \notin AllFrames

Buffers == 0 .. MCP_N_TXBUFFERS - 1
Numbers == 1 .. MaxFrames
nReservedTx == IF nTxBuf < MCP_N_TXBUFFERS THEN nTxBuf ELSE MCP_N_TXBUFFERS - 1
getLastTxBuffer == MCP_N_TXBUFFERS - 1

VARIABLES
  mpc, mbuf, mmsg,     \* main program: next access, buffer, message
  specific,            \* it asked for the last buffer, not for any
  ipc, imsg, status,   \* the interrupt routine, and its copy of the flags
  left,                \* messages of the stream not yet handed to the controller
  streaming,           \* a stream is on its way
  regs, data,          \* per buffer: SIDH, SIDL, EID8, EID0, DLC; and the data
  pending, txif,       \* buffers with TXREQ set; buffers with their flag in CANINTF set
  count,               \* messages so far
  onBus,               \* history: what another node's driver read, per message
  accepted             \* history: messages whose transmission was requested
mainVars == <<mpc, mbuf, mmsg, specific>>
isrVars == <<ipc, imsg, status>>
stream == <<left, streaming>>
buffers == <<regs, data>>
chip == <<buffers, pending, txif>>
past == <<onBus, accepted>>
vars == <<mainVars, isrVars, stream, chip, count, past>>

-----------------------------------------------------------------------------
(* Frames in the buffers' registers *)

\* n values of the bits of id from the one worth `unit' on
Part(id, unit, n) == (id \div unit) % n

\* mcp2515_id_to_buf and the DLC of mcp2515_write_canMsg
SidlOf_short(f) ==                                                  \* mutant
  IF f.ext THEN Part(f.id, 65536, 4) + 32 * Part(f.id, 262144, 4) + 8 ELSE 32 * Part(f.id, 1, 8)
SidlOf(f) ==
  IF f.ext THEN Part(f.id, 65536, 4) + 32 * Part(f.id, 262144, 8) + 8 ELSE 32 * Part(f.id, 1, 8)
Encoded(f) ==
  [sidh |-> Part(f.id, IF f.ext THEN 2097152 ELSE 8, 256),
   sidl |-> SidlOf(f),
   eid8 |-> IF f.ext THEN Part(f.id, 256, 256) ELSE 0,
   eid0 |-> IF f.ext THEN Part(f.id, 1, 256) ELSE 0,
   dlc  |-> f.len + (IF f.rtr THEN 64 ELSE 0)]

\* mcp2515_read_canMsg
Sid(r) == 8 * r.sidh + Part(r.sidl, 32, 8)
Decoded(r) ==
  LET ext == Part(r.sidl, 8, 2) = 1
  IN [ext |-> ext,
      id  |-> IF ext THEN 65536 * (4 * Sid(r) + Part(r.sidl, 1, 4)) + 256 * r.eid8 + r.eid0
              ELSE Sid(r),
      rtr |-> Part(r.dlc, 64, 2) = 1,
      len |-> Part(r.dlc, 1, 16)]

Cleared == [sidh |-> 0, sidl |-> 0, eid8 |-> 0, eid0 |-> 0, dlc |-> 0]

Init ==
  /\ mpc = "idle" /\ mbuf = 0 /\ mmsg = 0 /\ specific = FALSE
  /\ ipc = "idle" /\ imsg = 0 /\ status = {}
  /\ left = 0 /\ streaming = FALSE
  /\ regs = [b \in Buffers |-> Cleared] /\ data = [b \in Buffers |-> 0]
  /\ pending = {} /\ txif = {}
  /\ count = 0 /\ onBus = [n \in Numbers |-> None] /\ accepted = {}

\* enableTxInterrupt was called: INT is low while one of the flags is set.
IntLow == txif # {}

-----------------------------------------------------------------------------
(* trySendMsgBuf in the main program *)

MainMay == ipc = "idle" /\ UNCHANGED <<isrVars, streaming>>

trySendMsgBuf ==
  /\ MainMay /\ mpc = "idle" /\ count + left < MaxFrames
  /\ count' = count + 1 /\ mmsg' = count'
  /\ specific' = FALSE /\ mpc' = "free"
  /\ UNCHANGED <<mbuf, left, chip, past>>

\* The first message of a stream; the rest is left to the interrupt routine.
StartStream(more) ==
  /\ ipc = "idle" /\ mpc = "idle" /\ ~streaming /\ count + more < MaxFrames
  /\ count' = count + 1 /\ mmsg' = count'
  /\ specific' = TRUE /\ mpc' = "free"
  /\ streaming' = TRUE /\ left' = more
  /\ UNCHANGED <<mbuf, isrVars, chip, past>>

\* The buffers mcp2515_getNextFreeTXBuf may choose
Unreserved_all == Buffers                                           \* mutant
Unreserved == {b \in Buffers : b < MCP_N_TXBUFFERS - nReservedTx}
Free == (IF specific THEN {getLastTxBuffer} ELSE Unreserved) \ pending

\* mcp2515_getNextFreeTXBuf and mcp2515_isTXBufFree read the status ...
FindFree ==
  /\ MainMay /\ mpc = "free"
  /\ IF Free = {}
     THEN mpc' = "idle" /\ UNCHANGED mbuf                           \* CAN_FAILTX
     ELSE mpc' = "clear" /\ mbuf' = Min(Free)
  /\ UNCHANGED <<mmsg, specific, left, chip, count, past>>

\* ... and clear the flag of the buffer they chose.
ClearFlag ==
  /\ MainMay /\ mpc = "clear"
  /\ txif' = txif \ {mbuf} /\ mpc' = "load"
  /\ UNCHANGED <<mbuf, mmsg, specific, left, buffers, pending, count, past>>
LoadMsg ==
  /\ MainMay /\ mpc = "load"
  /\ regs' = [regs EXCEPT ![mbuf] = Encoded(Frame[mmsg])] /\ data' = [data EXCEPT ![mbuf] = mmsg]
  /\ mpc' = "start"
  /\ UNCHANGED <<mbuf, mmsg, specific, left, pending, txif, count, past>>
StartTransmit ==
  /\ MainMay /\ mpc = "start"
  /\ pending' = pending \cup {mbuf} /\ accepted' = accepted \cup {mmsg}
  /\ mpc' = "idle"
  /\ UNCHANGED <<mbuf, mmsg, specific, left, buffers, txif, count, onBus>>

Main == FindFree \/ ClearFlag \/ LoadMsg \/ StartTransmit

-----------------------------------------------------------------------------
(* The interrupt routine *)

IsrOnly == UNCHANGED <<mainVars, past>>

Interrupt ==
  /\ ipc = "idle" /\ IntLow
  /\ ipc' = "status"
  /\ IsrOnly /\ UNCHANGED <<imsg, status, stream, chip, count>>

readRxTxStatus ==
  /\ ipc = "status"
  /\ status' = txif /\ ipc' = "check"
  /\ IsrOnly /\ UNCHANGED <<imsg, stream, chip, count>>

\* checkClearTxStatus takes the last buffer's flag out of the copy; with it
\* sendMsgBuf(status, ...) sends the next message of the stream.
SendNext ==
  /\ ipc = "check" /\ getLastTxBuffer \in status /\ left > 0
  /\ status' = status \ {getLastTxBuffer}
  /\ count' = count + 1 /\ imsg' = count' /\ left' = left - 1
  /\ ipc' = "clear"
  /\ IsrOnly /\ UNCHANGED <<streaming, chip>>

NothingToSend ==
  /\ ipc = "check" /\ (getLastTxBuffer \notin status \/ left = 0)
  /\ streaming' = (streaming /\ getLastTxBuffer \notin status)
  /\ ipc' = "flags"
  /\ IsrOnly /\ UNCHANGED <<imsg, status, left, chip, count>>

\* sendMsgBuf clears the flag before the buffer is loaded.
FlagsAfterSend_kept == txif                                         \* mutant
FlagsAfterSend == txif \ {getLastTxBuffer}
SendClearsFlag ==
  /\ ipc = "clear"
  /\ txif' = FlagsAfterSend /\ ipc' = "load"
  /\ IsrOnly /\ UNCHANGED <<imsg, status, stream, buffers, pending, count>>
SendLoads ==
  /\ ipc = "load"
  /\ regs' = [regs EXCEPT ![getLastTxBuffer] = Encoded(Frame[imsg])]
  /\ data' = [data EXCEPT ![getLastTxBuffer] = imsg]
  /\ ipc' = "start"
  /\ IsrOnly /\ UNCHANGED <<imsg, status, stream, pending, txif, count>>
SendStarts ==
  /\ ipc = "start"
  /\ pending' = pending \cup {getLastTxBuffer} /\ accepted' = accepted \cup {imsg}
  /\ ipc' = "flags"
  /\ UNCHANGED <<mainVars, imsg, status, stream, buffers, txif, count, onBus>>

\* clearBufferTransmitIfFlags for what is left in the copy
Clearable_now(flags) == txif                                        \* mutant
Clearable(flags) == flags
ClearFlags ==
  /\ ipc = "flags"
  /\ txif' = txif \ Clearable(status) /\ status' = {}
  /\ ipc' = "idle"
  /\ IsrOnly /\ UNCHANGED <<imsg, stream, buffers, pending, count>>

Isr == Interrupt \/ readRxTxStatus \/ SendNext \/ NothingToSend \/ SendClearsFlag \/ SendLoads
         \/ SendStarts \/ ClearFlags

-----------------------------------------------------------------------------
\* The controller transmits the pending buffer with the highest number.
Transmit ==
  /\ pending # {}
  /\ LET b == Max(pending)
     IN /\ pending' = pending \ {b} /\ txif' = txif \cup {b}
        /\ onBus' = [onBus EXCEPT ![data[b]] = Decoded(regs[b])]
  /\ UNCHANGED <<mainVars, isrVars, stream, buffers, count, accepted>>

Idle == mpc = "idle" /\ ipc = "idle" /\ UNCHANGED vars

Next ==
  \/ trySendMsgBuf \/ \E more \in 0 .. MaxFrames : StartStream(more)
  \/ Main \/ Isr \/ Transmit \/ Idle

\* Both contexts run, and the bus lets the controller transmit.
Spec ==
  /\ Init /\ [][Next]_vars
  /\ WF_vars(Main) /\ WF_vars(Isr) /\ WF_vars(Transmit)

-----------------------------------------------------------------------------
Registers ==
  [sidh : 0 .. 255, sidl : 0 .. 255, eid8 : 0 .. 255, eid0 : 0 .. 255, dlc : 0 .. 255]
TypeOK ==
  /\ mpc \in {"idle", "free", "clear", "load", "start"}
  /\ ipc \in {"idle", "status", "check", "clear", "load", "start", "flags"}
  /\ mbuf \in Buffers /\ specific \in BOOLEAN
  /\ mmsg \in 0 .. MaxFrames /\ imsg \in 0 .. MaxFrames
  /\ status \subseteq Buffers /\ left \in 0 .. MaxFrames /\ streaming \in BOOLEAN
  /\ regs \in [Buffers -> Registers] /\ data \in [Buffers -> 0 .. MaxFrames]
  /\ pending \subseteq Buffers /\ txif \subseteq Buffers
  /\ count \in 0 .. MaxFrames /\ accepted \subseteq Numbers
  /\ onBus \in [Numbers -> AllFrames \cup {None}]

\* A set flag means that its buffer is free, also when the flags are read, the
\* buffer is loaded and the flag is cleared at different times in two contexts.
FlagMeansFree == txif \cap pending = {}

\* No message whose transmission was requested is overwritten or changed before
\* it is out: the interrupt routine, which does not ask which buffers are free,
\* and the main program, which it interrupts between asking and loading, get on
\* because the last buffer is reserved.
NothingOverwritten ==
  \A n \in accepted : onBus[n] # None \/ \E b \in pending : data[b] = n

\* What another node's driver reads is the frame that was asked for: identifier,
\* kind of frame and length survive the registers' encoding, and nothing else
\* is transmitted.
OnlyWhatWasAsked ==
  \A n \in Numbers : onBus[n] # None => n \in accepted /\ onBus[n] = Frame[n]

\* The stream that the interrupt routine keeps going does not break off: no
\* transmit interrupt is lost between the copy of the flags and their clearing.
StreamEnds == streaming ~> ~streaming
=============================================================================
