-------------------------- MODULE DropAndCount_proofs --------------------------
(***************************************************************************)
(* What holds of the packet counter for any number of CPUs, addresses and  *)
(* packets.  LockInv says what holding a lock means, TotalsAgree relates   *)
(* the two counters, PrintInv what user space has read to what is there.   *)
(***************************************************************************)
EXTENDS DropAndCount, FiniteSetTheorems, TLAPS

USE CounterAssumption DEF CounterAssumption

\* The order of the steps, spelt out.
LEMMA PathSteps ==
  /\ \A d \in BOOLEAN : Path(d)["idle"] = "lock"
  /\ Path(TRUE)["lock"] = "load" /\ Path(TRUE)["load"] = "store"
  /\ Path(TRUE)["store"] = "stamp" /\ Path(TRUE)["stamp"] = "unlock"
  /\ Path(TRUE)["unlock"] = "count" /\ Path(TRUE)["count"] = "idle"
  /\ Path(FALSE)["lock"] = "unlock" /\ Path(FALSE)["unlock"] = "idle"
BY DEF Path

LEMMA DropPath == ASSUME NEW m, do_drop(m) PROVE Path(do_drop(m)) = Path(TRUE)
<1>1. do_drop(m) = TRUE BY DEF do_drop
<1> QED BY <1>1

LEMMA PassPath == ASSUME NEW m, ~do_drop(m) PROVE Path(do_drop(m)) = Path(FALSE)
<1>1. do_drop(m) = FALSE BY DEF do_drop
<1> QED BY <1>1

LEMMA IdlePath == ASSUME NEW m PROVE Path(do_drop(m))["idle"] = "lock"
BY PathSteps DEF do_drop

-----------------------------------------------------------------------------
(* What a CPU or the user program knows of the entry it has locked. *)

Working(c) == pc[c] \in {"load", "store", "stamp", "unlock"}
MacInv ==
  \A c \in Cpus : /\ pc[c] # "idle" => mac[c] \in Macs
                  /\ pc[c] \in {"load", "store", "stamp", "count"} => do_drop(mac[c])
CpuHolds ==
  \A c \in Cpus : /\ Working(c) => lock[mac[c]] = c
                  /\ pc[c] = "store" => reg[c] = stats[mac[c]].dropped
UserHolds ==
  /\ upc \in {"copy", "copy_time"} => lock[current_key] = User
  /\ upc = "copy_time" => copied = stats[current_key].dropped
TimeInv == \A m \in Macs : stats[m].t_lastdrop <= now
LockInv == MacInv /\ CpuHolds /\ UserHolds /\ TimeInv

Moves(c, p) == pc' = [pc EXCEPT ![c] = p]

\* Where the steps of a CPU lead.
LEMMA CpuMoves ==
  ASSUME LockInv, NEW c \in Cpus
  PROVE  /\ Lock(c) => Moves(c, IF do_drop(mac[c]) THEN "load" ELSE "unlock")
         /\ Load(c) => Moves(c, "store")
         /\ Store(c) => Moves(c, "stamp")
         /\ Stamp(c) => Moves(c, "unlock")
         /\ Unlock(c) => Moves(c, IF do_drop(mac[c]) THEN "count" ELSE "idle")
         /\ Count(c) => Moves(c, "idle")
<1> DEFINE d == do_drop(mac[c])
<1>1. ASSUME NEW p, NEW q, pc[c] = p, Path(d)[p] = q, Goes(c) PROVE Moves(c, q)
  BY <1>1 DEF Goes, Moves
<1>2. /\ Lock(c) => pc[c] = "lock" /\ Goes(c)
      /\ Load(c) => pc[c] = "load" /\ Goes(c)
      /\ Store(c) => pc[c] = "store" /\ Goes(c)
      /\ Stamp(c) => pc[c] = "stamp" /\ Goes(c)
      /\ Unlock(c) => pc[c] = "unlock" /\ Goes(c)
      /\ Count(c) => pc[c] = "count" /\ Goes(c)
  BY DEF Lock, Load, Store, Stamp, Unlock, Count
<1>3. CASE d
  <2>1. Path(d) = Path(TRUE) BY <1>3, DropPath
  <2>2. /\ Path(d)["lock"] = "load" /\ Path(d)["load"] = "store" /\ Path(d)["store"] = "stamp"
        /\ Path(d)["stamp"] = "unlock" /\ Path(d)["unlock"] = "count" /\ Path(d)["count"] = "idle"
    BY <2>1, PathSteps
  <2> HIDE DEF d
  <2> QED BY <1>1, <1>2, <1>3, <2>2 DEF d
<1>4. CASE ~d
  <2>1. Path(d) = Path(FALSE) BY <1>4, PassPath
  <2>2. Path(d)["lock"] = "unlock" /\ Path(d)["unlock"] = "idle"
    BY <2>1, PathSteps
  <2>3. pc[c] \notin {"load", "store", "stamp", "count"} BY <1>4 DEF LockInv, MacInv
  <2> QED BY <1>1, <1>2, <1>4, <2>2, <2>3
<1> QED BY <1>3, <1>4

LEMMA InitInv == Init => TypeOK /\ LockInv
<1> SUFFICES ASSUME Init PROVE TypeOK /\ LockInv OBVIOUS
<1>1. first \in keys \cup {None} /\ (keys # {} => first \in keys) /\ keys \subseteq Macs
  BY DEF Init
<1>2. stats \in [Macs -> Entry] /\ value \in Entry
  BY DEF Init, Entry, NoDrop
<1>3. TypeOK
  <2>1. pc \in [Cpus -> CpuStates] /\ mac \in [Cpus -> Macs \cup {Short}] /\ reg \in [Cpus -> Nat]
        /\ lock \in [Macs -> Cpus \cup {User, None}]
    BY DEF Init, CpuStates
  <2>2. total \in Nat /\ now \in Nat /\ drop_cnt \in Nat /\ copied \in Nat /\ drops \in Nat
        /\ packets \in 0 .. MaxPackets
    BY DEF Init
  <2>3. upc \in UserStates /\ upc \notin {"lookup", "copy", "copy_time", "print"}
        /\ current_key = None
    BY DEF Init, UserStates
  <2>4. attached \in BOOLEAN /\ do_exit \in BOOLEAN BY DEF Init
  <2> QED BY <1>1, <1>2, <2>1, <2>2, <2>3, <2>4 DEF TypeOK
<1>4. LockInv BY DEF Init, LockInv, MacInv, CpuHolds, UserHolds, TimeInv, Working, NoDrop
<1> QED BY <1>3, <1>4

LEMMA TypeStep == ASSUME TypeOK, LockInv, [Next]_vars PROVE TypeOK'
<1> USE DEF TypeOK, CpuStates, UserStates, Entry
<1>1. ASSUME NEW c \in Cpus, NEW m \in keys \cup {Short}, Receive(c, m) PROVE TypeOK'
  BY <1>1, IdlePath DEF Receive, mapVars, userVars
<1>2. ASSUME NEW c \in Cpus, Lock(c) PROVE TypeOK'
  BY <1>2, CpuMoves DEF Lock, Moves, userVars
<1>3. ASSUME NEW c \in Cpus, Load(c) PROVE TypeOK'
  BY <1>3, CpuMoves DEF Load, Moves, LockInv, MacInv, mapVars, userVars
<1>4. ASSUME NEW c \in Cpus, Store(c) PROVE TypeOK'
  <2>1. mac[c] \in Macs /\ Moves(c, "stamp") BY <1>4, CpuMoves DEF Store, LockInv, MacInv
  <2>2. pc' \in [Cpus -> CpuStates] BY <2>1 DEF Moves
  <2>3. stats' \in [Macs -> Entry] BY <1>4, <2>1 DEF Store
  <2> QED BY <1>4, <2>2, <2>3 DEF Store, userVars
<1>5. ASSUME NEW c \in Cpus, Stamp(c) PROVE TypeOK'
  <2>1. mac[c] \in Macs /\ Moves(c, "unlock") BY <1>5, CpuMoves DEF Stamp, LockInv, MacInv
  <2>2. pc' \in [Cpus -> CpuStates] BY <2>1 DEF Moves
  <2>3. stats' \in [Macs -> Entry] BY <1>5, <2>1 DEF Stamp
  <2> QED BY <1>5, <2>2, <2>3 DEF Stamp, userVars
<1>6. ASSUME NEW c \in Cpus, Unlock(c) PROVE TypeOK'
  BY <1>6, CpuMoves DEF Unlock, Moves, userVars
<1>7. ASSUME NEW c \in Cpus, Count(c) PROVE TypeOK'
  BY <1>7, CpuMoves DEF Count, Moves, Added, userVars
<1>8. CASE Start \/ LoadAndAttach \/ FindMaps \/ PrintEntry \/ Sleep \/ Detach \/ SigInt
  BY <1>8 DEF Start, LoadAndAttach, FindMaps, MapMissing, PrintEntry, Sleep, Detach, SigInt, At,
              Shared, cpuVars, mapVars
<1>9. CASE Poll \/ GetNextKey \/ CopyDropped
  BY <1>9 DEF Poll, GetNextKey, NoKey, CopyDropped, At, Shared, cpuVars, mapVars
<1>10. CASE Lookup \/ CopyTime
  BY <1>10 DEF Lookup, CopyTime, At, cpuVars
<1>11. CASE UNCHANGED vars
  BY <1>11 DEF vars, cpuVars, mapVars, userVars
<1> QED BY <1>1, <1>2, <1>3, <1>4, <1>5, <1>6, <1>7, <1>8, <1>9, <1>10, <1>11
        DEF Next, Cpu, UserProgram, Ended

LEMMA LockStep == ASSUME TypeOK, LockInv, [Next]_vars PROVE LockInv'
<1> USE DEF TypeOK, LockInv, do_drop
<1>1. ASSUME NEW c \in Cpus, NEW m \in keys \cup {Short}, Receive(c, m) PROVE LockInv'
  BY <1>1, IdlePath DEF Receive, mapVars, userVars, MacInv, CpuHolds, UserHolds, TimeInv, Working
<1>2. ASSUME NEW c \in Cpus, Lock(c) PROVE LockInv'
  <2>1. Moves(c, IF do_drop(mac[c]) THEN "load" ELSE "unlock") BY <1>2, CpuMoves DEF Lock
  <2>2. mac[c] \in Macs BY <1>2 DEF MacInv, Lock
  <2>3. MacInv' BY <1>2, <2>1, <2>2 DEF Lock, MacInv, Moves
  <2>4. CpuHolds' BY <1>2, <2>1, <2>2 DEF Lock, MacInv, CpuHolds, Working, Moves, Entry
  <2>5. UserHolds' BY <1>2, <2>1, <2>2 DEF Lock, UserHolds, CpuHolds, Working, userVars, Entry
  <2>6. TimeInv' BY <1>2, <2>2 DEF Lock, TimeInv, Entry, mapVars
  <2> QED BY <2>3, <2>4, <2>5, <2>6
<1>3. ASSUME NEW c \in Cpus, Load(c) PROVE LockInv'
  <2>1. Moves(c, "store") BY <1>3, CpuMoves DEF Load
  <2>2. mac[c] \in Macs BY <1>3 DEF MacInv, Load
  <2>3. MacInv' BY <1>3, <2>1, <2>2 DEF Load, MacInv, Moves
  <2>4. CpuHolds' BY <1>3, <2>1, <2>2 DEF Load, mapVars, MacInv, CpuHolds, Working, Moves, Entry
  <2>5. UserHolds' BY <1>3, <2>1, <2>2 DEF Load, mapVars, UserHolds, CpuHolds, Working, userVars, Entry
  <2>6. TimeInv' BY <1>3, <2>2 DEF Load, TimeInv, Entry, mapVars
  <2> QED BY <2>3, <2>4, <2>5, <2>6
<1>4. ASSUME NEW c \in Cpus, Store(c) PROVE LockInv'
  <2>1. Moves(c, "stamp") BY <1>4, CpuMoves DEF Store
  <2>2. mac[c] \in Macs BY <1>4 DEF MacInv, Store
  <2>3. MacInv' BY <1>4, <2>1, <2>2 DEF Store, MacInv, Moves
  <2>4. CpuHolds' BY <1>4, <2>1, <2>2 DEF Store, MacInv, CpuHolds, Working, Moves, Entry
  <2>5. UserHolds' BY <1>4, <2>1, <2>2 DEF Store, UserHolds, CpuHolds, Working, userVars, Entry
  <2>6. TimeInv' BY <1>4, <2>2 DEF Store, TimeInv, Entry, mapVars
  <2> QED BY <2>3, <2>4, <2>5, <2>6
<1>5. ASSUME NEW c \in Cpus, Stamp(c) PROVE LockInv'
  <2>1. Moves(c, "unlock") BY <1>5, CpuMoves DEF Stamp
  <2>2. mac[c] \in Macs BY <1>5 DEF MacInv, Stamp
  <2>3. MacInv' BY <1>5, <2>1, <2>2 DEF Stamp, MacInv, Moves
  <2>4. CpuHolds' BY <1>5, <2>1, <2>2 DEF Stamp, MacInv, CpuHolds, Working, Moves, Entry
  <2>5. UserHolds' BY <1>5, <2>1, <2>2 DEF Stamp, UserHolds, CpuHolds, Working, userVars, Entry
  <2>6. TimeInv' BY <1>5, <2>2 DEF Stamp, TimeInv, Entry, mapVars
  <2> QED BY <2>3, <2>4, <2>5, <2>6
<1>6. ASSUME NEW c \in Cpus, Unlock(c) PROVE LockInv'
  <2>1. Moves(c, IF do_drop(mac[c]) THEN "count" ELSE "idle") BY <1>6, CpuMoves DEF Unlock
  <2>2. mac[c] \in Macs BY <1>6 DEF MacInv, Unlock
  <2>3. MacInv' BY <1>6, <2>1, <2>2 DEF Unlock, MacInv, Moves
  <2>4. CpuHolds' BY <1>6, <2>1, <2>2 DEF Unlock, MacInv, CpuHolds, Working, Moves, Entry
  <2>5. UserHolds' BY <1>6, <2>1, <2>2 DEF Unlock, UserHolds, CpuHolds, Working, userVars, Entry
  <2>6. TimeInv' BY <1>6, <2>2 DEF Unlock, TimeInv, Entry, mapVars
  <2> QED BY <2>3, <2>4, <2>5, <2>6
<1>7. ASSUME NEW c \in Cpus, Count(c) PROVE LockInv'
  <2>1. Moves(c, "idle") BY <1>7, CpuMoves DEF Count
  <2>2. mac[c] \in Macs BY <1>7 DEF MacInv, Count
  <2>3. MacInv' BY <1>7, <2>1, <2>2 DEF Count, MacInv, Moves
  <2>4. CpuHolds' BY <1>7, <2>1, <2>2 DEF Count, MacInv, CpuHolds, Working, Moves, Entry
  <2>5. UserHolds' BY <1>7, <2>1, <2>2 DEF Count, UserHolds, CpuHolds, Working, userVars, Entry
  <2>6. TimeInv' BY <1>7, <2>2 DEF Count, TimeInv, Entry, mapVars
  <2> QED BY <2>3, <2>4, <2>5, <2>6
<1>8. CASE Start \/ LoadAndAttach \/ FindMaps \/ PrintEntry \/ Sleep \/ Detach \/ SigInt
  BY <1>8 DEF Start, LoadAndAttach, FindMaps, MapMissing, PrintEntry, Sleep, Detach, SigInt, At,
              Shared, cpuVars, mapVars, MacInv, CpuHolds, UserHolds, TimeInv, Working
<1>9. CASE Poll \/ GetNextKey \/ CopyDropped
  BY <1>9 DEF Poll, GetNextKey, NoKey, CopyDropped, At, Shared, cpuVars, mapVars,
              MacInv, CpuHolds, UserHolds, TimeInv, Working
<1>10. CASE Lookup \/ CopyTime
  BY <1>10 DEF Lookup, CopyTime, At, cpuVars, MacInv, CpuHolds, UserHolds, TimeInv, Working
<1>11. CASE UNCHANGED vars
  BY <1>11 DEF vars, cpuVars, mapVars, userVars, MacInv, CpuHolds, UserHolds, TimeInv, Working
<1> QED BY <1>1, <1>2, <1>3, <1>4, <1>5, <1>6, <1>7, <1>8, <1>9, <1>10, <1>11
        DEF Next, Cpu, UserProgram, Ended

\* Every variable keeps its type, and no entry is looked up without a key
\* (main, poll_stats and xdp_prog_main).
THEOREM TypeCorrect == Spec => []TypeOK
<1>1. Spec => [](TypeOK /\ LockInv)
  BY InitInv, TypeStep, LockStep, PTL DEF Spec
<1> QED BY <1>1, PTL

LEMMA Locked == Spec => [](TypeOK /\ LockInv)
BY InitInv, TypeStep, LockStep, PTL DEF Spec

-----------------------------------------------------------------------------
(* The two counters *)

LEMMA BetweenFinite == IsFiniteSet(InBetween) /\ Cardinality(InBetween) \in Nat
<1>1. InBetween \subseteq Cpus BY DEF InBetween
<1> QED BY <1>1, FS_Subset, FS_CardinalityType

LEMMA TotalsStep == ASSUME TypeOK, LockInv, TotalsAgree, [Next]_vars PROVE TotalsAgree'
<1> USE DEF TotalsAgree, TypeOK
<1>a. Cardinality(InBetween) \in Nat BY BetweenFinite
<1>1. ASSUME NEW c \in Cpus, NEW m \in keys \cup {Short}, Receive(c, m) PROVE TotalsAgree'
  <2>1. InBetween' = InBetween BY <1>1, IdlePath DEF Receive, InBetween
  <2> QED BY <1>1, <2>1 DEF Receive, mapVars
<1>2. ASSUME NEW c \in Cpus, Lock(c) PROVE TotalsAgree'
  <2>1. Moves(c, IF do_drop(mac[c]) THEN "load" ELSE "unlock") BY <1>2, CpuMoves DEF Lock
  <2>2. InBetween' = InBetween BY <1>2, <2>1 DEF Lock, Moves, InBetween, do_drop
  <2> QED BY <1>2, <2>2 DEF Lock
<1>3. ASSUME NEW c \in Cpus, Load(c) PROVE TotalsAgree'
  <2>1. Moves(c, "store") BY <1>3, CpuMoves DEF Load
  <2>2. InBetween' = InBetween BY <1>3, <2>1 DEF Load, Moves, InBetween, do_drop
  <2> QED BY <1>3, <2>2 DEF Load, mapVars
<1>4. ASSUME NEW c \in Cpus, Store(c) PROVE TotalsAgree'
  <2>1. Moves(c, "stamp") BY <1>4, CpuMoves DEF Store
  <2>2. do_drop(mac[c]) /\ reg[c] = stats[mac[c]].dropped
    BY <1>4 DEF Store, LockInv, MacInv, CpuHolds
  <2>3. InBetween' = InBetween \cup {c} /\ c \notin InBetween
    BY <1>4, <2>1, <2>2 DEF Store, Moves, InBetween, do_drop
  <2>4. Cardinality(InBetween') = Cardinality(InBetween) + 1
    BY <2>3, BetweenFinite, FS_AddElement
  <2>5. stats'[eth_d_addr].dropped = stats[eth_d_addr].dropped + 1
    BY <1>4, <2>2 DEF Store, do_drop, Entry
  <2>6. stats[eth_d_addr].dropped \in Nat BY DEF Entry
  <2> QED BY <1>4, <1>a, <2>4, <2>5, <2>6 DEF Store
<1>5. ASSUME NEW c \in Cpus, Stamp(c) PROVE TotalsAgree'
  <2>1. Moves(c, "unlock") BY <1>5, CpuMoves DEF Stamp
  <2>2. InBetween' = InBetween
    BY <1>5, <2>1 DEF Stamp, Moves, InBetween, do_drop, LockInv, MacInv
  <2>3. stats'[eth_d_addr].dropped = stats[eth_d_addr].dropped
    BY <1>5 DEF Stamp, Entry
  <2> QED BY <1>5, <2>2, <2>3 DEF Stamp
<1>6. ASSUME NEW c \in Cpus, Unlock(c) PROVE TotalsAgree'
  <2>1. Moves(c, IF do_drop(mac[c]) THEN "count" ELSE "idle") BY <1>6, CpuMoves DEF Unlock
  <2>2. InBetween' = InBetween BY <1>6, <2>1 DEF Unlock, Moves, InBetween, do_drop
  <2> QED BY <1>6, <2>2 DEF Unlock
<1>7. ASSUME NEW c \in Cpus, Count(c) PROVE TotalsAgree'
  <2>1. Moves(c, "idle") BY <1>7, CpuMoves DEF Count
  <2>2. InBetween' = InBetween \ {c} /\ c \in InBetween
    BY <1>7, <2>1 DEF Count, Moves, InBetween, do_drop, LockInv, MacInv
  <2>3. Cardinality(InBetween') = Cardinality(InBetween) - 1
    BY <2>2, BetweenFinite, FS_RemoveElement
  <2>4. total' = total + 1 /\ drops' = drops + 1 /\ UNCHANGED stats BY <1>7 DEF Count, Added
  <2> QED BY <1>a, <2>3, <2>4
<1>8. CASE UserProgram \/ SigInt \/ UNCHANGED vars
  <2>1. UNCHANGED <<cpuVars, stats, total>>
    BY <1>8 DEF UserProgram, Start, LoadAndAttach, FindMaps, Poll, GetNextKey, Lookup, CopyDropped,
                CopyTime, PrintEntry, Sleep, Detach, SigInt, Shared, vars, mapVars
  <2>2. InBetween' = InBetween BY <2>1 DEF cpuVars, InBetween
  <2> QED BY <2>1, <2>2 DEF cpuVars
<1> QED BY <1>1, <1>2, <1>3, <1>4, <1>5, <1>6, <1>7, <1>8 DEF Next, Cpu, Ended

\* However many CPUs count at a time, no dropped packet is missing from the
\* total or from its address (update_mac_stats, __sync_fetch_and_add).
THEOREM TotalsCorrect == Spec => []TotalsAgree
<1>1. Init => TotalsAgree
  <2> SUFFICES ASSUME Init PROVE TotalsAgree OBVIOUS
  <2>1. InBetween = {} BY DEF Init, InBetween
  <2> QED BY <2>1, FS_EmptySet DEF Init, TotalsAgree, NoDrop
<1> QED BY <1>1, TotalsStep, Locked, PTL DEF Spec

-----------------------------------------------------------------------------
(* What user space has read *)

PrintInv ==
  /\ drop_cnt <= total
  /\ upc = "copy_time" /\ current_key = eth_d_addr => drop_cnt <= copied
  /\ PrintedTogether

LEMMA PrintStep == ASSUME TypeOK, TotalsAgree, PrintInv, [Next]_vars PROVE PrintInv'
<1> USE DEF PrintInv, PrintedTogether, TypeOK
<1>1. CASE \E c \in Cpus : (\E m \in keys \cup {Short} : Receive(c, m)) \/ Cpu(c)
  <2>1. UNCHANGED userVars /\ total' \in {total, total + 1}
    BY <1>1 DEF Receive, Cpu, Lock, Load, Store, Stamp, Unlock, Count, Added, mapVars
  <2> QED BY <2>1 DEF userVars
<1>2. CASE CopyDropped
  <2>1. total <= stats[eth_d_addr].dropped /\ stats[eth_d_addr].dropped \in Nat
    BY BetweenFinite DEF TotalsAgree, Entry
  <2>2. UNCHANGED <<drop_cnt, total, value>> /\ upc' = "copy_time"
        /\ (current_key' = eth_d_addr => copied' = stats[eth_d_addr].dropped)
    BY <1>2 DEF CopyDropped, At, Shared, mapVars
  <2> QED BY <2>1, <2>2
<1>3. CASE Start \/ LoadAndAttach \/ FindMaps \/ PrintEntry \/ Sleep \/ Detach \/ SigInt
  BY <1>3 DEF Start, LoadAndAttach, FindMaps, MapMissing, PrintEntry, Sleep, Detach, SigInt, At,
              Shared, mapVars
<1>4. CASE Poll \/ GetNextKey
  BY <1>4 DEF Poll, GetNextKey, NoKey, Shared, mapVars
<1>5. CASE Lookup \/ CopyTime
  BY <1>5 DEF Lookup, CopyTime, At
<1>6. CASE UNCHANGED vars
  BY <1>6 DEF vars, mapVars, userVars
<1> QED BY <1>1, <1>2, <1>3, <1>4, <1>5, <1>6 DEF Next, UserProgram, Ended

\* In every round the printed total is at most what was printed for the
\* address, in spite of packets that come in between (poll_stats).
THEOREM PrintsFitTogether == Spec => []PrintedTogether
<1>1. Init => PrintInv BY DEF Init, PrintInv, PrintedTogether
<1>2. PrintInv => PrintedTogether BY DEF PrintInv
<1> QED BY <1>1, <1>2, PrintStep, TotalsCorrect, TypeCorrect, PTL DEF Spec

UserInv == upc \in {"start", "load", "exited"} => ~attached

LEMMA UserStep == ASSUME UserInv, [Next]_vars PROVE UserInv'
<1>1. CASE \E c \in Cpus : (\E m \in keys \cup {Short} : Receive(c, m)) \/ Cpu(c)
  BY <1>1 DEF UserInv, Receive, Cpu, Lock, Load, Store, Stamp, Unlock, Count, userVars
<1>2. CASE UserProgram \/ SigInt
  BY <1>2 DEF UserInv, UserProgram, Start, LoadAndAttach, FindMaps, MapMissing, Poll, GetNextKey,
              NoKey, Lookup, CopyDropped, CopyTime, PrintEntry, Sleep, Detach, SigInt, At
<1>3. CASE UNCHANGED vars
  BY <1>3 DEF UserInv, vars, userVars
<1> QED BY <1>1, <1>2, <1>3 DEF Next, Ended

\* The XDP program is detached on every way out of main().
THEOREM AlwaysDetached == Spec => []DetachedAtExit
<1>1. Init => UserInv BY DEF Init, UserInv
<1>2. UserInv => DetachedAtExit BY DEF UserInv, DetachedAtExit
<1> QED BY <1>1, <1>2, UserStep, PTL DEF Spec

-----------------------------------------------------------------------------
(* Entries are atomic.  An update takes effect when it stores the time. *)

\* Whoever is between its two stores to an entry holds the entry's lock.
LEMMA StampHolds ==
  ASSUME LockInv, NEW c \in Cpus, pc[c] = "stamp"
  PROVE  lock[mac[c]] = c /\ mac[c] \in Macs
BY DEF LockInv, CpuHolds, MacInv, Working

LEMMA AtomicInit == Init => Atomic!Init
<1> SUFFICES ASSUME Init PROVE Atomic!Init OBVIOUS
<1>1. \A m \in Macs : Visible(m) = NoDrop BY DEF Init, Visible
<1> QED BY <1>1 DEF Init, Atomic!Init, Atomic!NoDrop, NoDrop

LEMMA VisibleSame ==
  ASSUME UNCHANGED stats,
         \A c \in Cpus, m \in Macs :
           (pc[c] = "stamp" /\ mac[c] = m) <=> (pc'[c] = "stamp" /\ mac'[c] = m)
  PROVE  \A m \in Macs : Visible(m)' = Visible(m)
BY DEF Visible

LEMMA AtomicStep ==
  ASSUME TypeOK, LockInv, [Next]_vars
  PROVE  [Atomic!Next]_(Atomic!vars)
<1> USE DEF TypeOK
<1> DEFINE same == (\A m \in Macs : Visible(m)' = Visible(m)) /\ UNCHANGED value
<1>1. SUFFICES same \/ Atomic!Next
  BY DEF Atomic!vars
<1>2. ASSUME NEW c \in Cpus, NEW m \in keys \cup {Short}, Receive(c, m) PROVE same
  BY <1>2, IdlePath, VisibleSame DEF Receive, mapVars, userVars
<1>3. ASSUME NEW c \in Cpus, Lock(c) \/ Load(c) \/ Unlock(c) \/ Count(c) PROVE same
  <2>1. PICK p : Moves(c, p) /\ p # "stamp" /\ pc[c] # "stamp"
    BY <1>3, CpuMoves DEF Lock, Load, Unlock, Count
  <2>2. UNCHANGED <<stats, mac, value>>
    BY <1>3 DEF Lock, Load, Unlock, Count, mapVars, userVars
  <2> QED BY <2>1, <2>2, VisibleSame DEF Moves
<1>4. ASSUME NEW c \in Cpus, Store(c) PROVE same
  <2>1. Moves(c, "stamp") BY <1>4, CpuMoves DEF Store
  <2>2. mac[c] \in Macs /\ lock[mac[c]] = c /\ reg[c] = stats[mac[c]].dropped
    BY <1>4 DEF Store, LockInv, MacInv, CpuHolds, Working
  <2>3. \A d \in Cpus : ~(pc[d] = "stamp" /\ mac[d] = mac[c])
    BY <1>4, <2>2, StampHolds DEF Store
  <2>4. UNCHANGED <<mac, value>> BY <1>4 DEF Store, userVars
  <2>5. Visible(mac[c]) = stats[mac[c]] BY <2>3 DEF Visible
  <2>6. stats'[mac[c]] = [dropped |-> reg[c] + 1, t_lastdrop |-> stats[mac[c]].t_lastdrop]
    BY <1>4, <2>2 DEF Store
  <2>7. \A n \in Macs \ {mac[c]} : stats'[n] = stats[n] BY <1>4 DEF Store
  <2>8. pc'[c] = "stamp" /\ \A d \in Cpus \ {c} : pc'[d] = pc[d] BY <2>1 DEF Moves
  <2>9. Visible(mac[c])' = [dropped |-> (reg[c] + 1) - 1, t_lastdrop |-> stats[mac[c]].t_lastdrop]
    BY <2>4, <2>6, <2>8 DEF Visible
  <2>10. stats[mac[c]] = [dropped |-> (reg[c] + 1) - 1, t_lastdrop |-> stats[mac[c]].t_lastdrop]
    BY <2>2 DEF Entry
  <2>11. \A n \in Macs \ {mac[c]} : Visible(n)' = Visible(n)
    BY <1>4, <2>4, <2>7, <2>8 DEF Visible, Store
  <2>12. Visible(mac[c])' = Visible(mac[c]) BY <2>5, <2>9, <2>10
  <2> QED BY <2>2, <2>4, <2>11, <2>12
<1>5. ASSUME NEW c \in Cpus, Stamp(c) PROVE Atomic!Next
  <2>1. PICK m \in Macs : m = mac[c] /\ lock[m] = c
    BY <1>5, StampHolds DEF Stamp
  <2>2. Moves(c, "unlock") BY <1>5, CpuMoves DEF Stamp
  <2>3. UNCHANGED <<mac, value, lock>> BY <1>5 DEF Stamp, userVars
  <2>4. pc'[c] = "unlock" /\ \A d \in Cpus \ {c} : pc'[d] = pc[d] BY <2>2 DEF Moves
  <2>5. \A d \in Cpus : ~(pc'[d] = "stamp" /\ mac'[d] = m)
    BY <2>1, <2>3, <2>4, StampHolds
  <2>6. Visible(m)' = stats'[m] BY <2>5 DEF Visible
  <2>7. Visible(m) = [dropped |-> stats[m].dropped - 1, t_lastdrop |-> stats[m].t_lastdrop]
    BY <1>5, <2>1 DEF Visible, Stamp
  <2>8. stats'[m] = [dropped |-> stats[m].dropped, t_lastdrop |-> now + 1]
        /\ \A n \in Macs \ {m} : stats'[n] = stats[n]
    BY <1>5, <2>1 DEF Stamp
  <2>9. \A n \in Macs \ {m} : Visible(n)' = Visible(n)
    BY <1>5, <2>1, <2>3, <2>4, <2>8 DEF Visible, Stamp
  <2>10. /\ Visible(m)'.dropped = Visible(m).dropped + 1
         /\ Visible(m)'.t_lastdrop = now + 1
         /\ Visible(m)'.t_lastdrop > Visible(m).t_lastdrop
    BY <2>6, <2>7, <2>8 DEF LockInv, TimeInv, Entry
  <2>11. Visible(m)' = [dropped |-> Visible(m).dropped + 1, t_lastdrop |-> Visible(m)'.t_lastdrop]
    BY <2>6, <2>8, <2>10
  <2>12. Atomic!Drop(m)
    BY <2>3, <2>9, <2>10, <2>11 DEF Atomic!Drop
  <2> QED BY <2>12 DEF Atomic!Next
<1>6. CASE CopyTime
  <2>1. current_key \in Macs /\ lock[current_key] = User /\ copied = stats[current_key].dropped
    BY <1>6 DEF CopyTime, At, LockInv, UserHolds
  <2>2. Visible(current_key) = stats[current_key]
    BY <2>1, StampHolds DEF Visible
  <2>3. value' = stats[current_key]
    BY <1>6, <2>1 DEF CopyTime, Entry
  <2>4. \A m \in Macs : Visible(m)' = Visible(m)
    BY <1>6, VisibleSame DEF CopyTime, cpuVars
  <2>5. Atomic!Copy(current_key)
    BY <2>1, <2>2, <2>3, <2>4 DEF Atomic!Copy
  <2> QED BY <2>1, <2>5 DEF Atomic!Next
<1>7. CASE (UserProgram /\ ~CopyTime) \/ SigInt \/ UNCHANGED vars
  <2>1. UNCHANGED <<pc, mac, stats, value>>
    BY <1>7 DEF UserProgram, Start, LoadAndAttach, FindMaps, Poll, GetNextKey, Lookup, CopyDropped,
                PrintEntry, Sleep, Detach, SigInt, Shared, vars, cpuVars, mapVars, userVars
  <2> QED BY <2>1, VisibleSame
<1> QED BY <1>2, <1>3, <1>4, <1>5, <1>6, <1>7 DEF Next, Cpu, Ended

\* Every entry behaves as if it were updated and copied in one step, which is
\* what the spin lock is for (update_mac_stats, BPF_F_LOCK).
THEOREM Atomicity == Spec => StatsAreAtomic
BY AtomicInit, AtomicStep, Locked, PTL DEF Spec, StatsAreAtomic, Atomic!Spec
=============================================================================
