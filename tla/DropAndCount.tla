----------------------------- MODULE DropAndCount -----------------------------
(***************************************************************************)
(* The packet counter: an XDP program (xdp-drop_and_count-bpf.c) that runs *)
(* on every CPU that receives packets, and the program                     *)
(* (xdp-drop_and_count-user.c) that attaches it and prints its statistics  *)
(* every second.  They share a total and one entry per destination MAC     *)
(* address, protected by a spin lock.                                      *)
(*                                                                         *)
(* Nothing in the two programs creates entries: `keys' is whatever was put *)
(* into the map from outside.  Only packets for these addresses, or too    *)
(* short for an Ethernet header, are considered; for others the code uses  *)
(* a NULL entry.                                                           *)
(***************************************************************************)
EXTENDS Integers, FiniteSets

CONSTANTS
  Cpus,
  Macs,                \* destination addresses
  eth_d_addr,          \* the one whose packets are dropped
  Short,               \* a packet shorter than an Ethernet header
  User,                \* holder of a lock besides the CPUs
  None,                \* no key; a free lock
  MaxPackets           \* bound on the packets, for model checking

ASSUME CounterAssumption ==
  /\ eth_d_addr \in Macs /\ Short \notin Macs /\ None \notin Macs
  /\ User \notin Cpus /\ None \notin Cpus \cup {User}
  /\ IsFiniteSet(Cpus) /\ MaxPackets \in Nat

Entry == [dropped : Nat, t_lastdrop : Nat]
NoDrop == [dropped |-> 0, t_lastdrop |-> 0]

VARIABLES
  pc, mac,             \* of each CPU: where xdp_prog_main is, and its packet
  reg,                 \* of each CPU: value->dropped as loaded
  keys, first,         \* entries of the per-MAC map, and the one its hash order begins with
  stats, lock,         \* the entries, and who holds the lock of each
  total, now,          \* xdp_drop_stats_map[0]; the clock
  attached,            \* the program is attached to the interface
  upc, do_exit,        \* where the user program is; set by its SIGINT handler
  drop_cnt,            \* the total it read
  current_key, copied, \* the key it looks up, and the first field on its way there
  value,               \* the entry it got
  packets, drops       \* history: packets received, XDP_DROP verdicts
mapVars == <<stats, lock, total, now>>
cpuVars == <<pc, mac, reg, packets, drops>>
userVars == <<upc, do_exit, drop_cnt, current_key, copied, value, attached>>
vars == <<cpuVars, mapVars, userVars, keys, first>>

Init ==
  /\ pc = [c \in Cpus |-> "idle"] /\ mac = [c \in Cpus |-> Short] /\ reg = [c \in Cpus |-> 0]
  /\ keys \in SUBSET Macs
  /\ first \in IF keys = {} THEN {None} ELSE keys
  /\ stats = [m \in Macs |-> NoDrop] /\ lock = [m \in Macs |-> None]
  /\ total = 0 /\ now = 0 /\ packets = 0 /\ drops = 0
  /\ attached = FALSE /\ upc = "start" /\ do_exit = FALSE
  /\ drop_cnt = 0 /\ current_key = None /\ copied = 0 /\ value = NoDrop

-----------------------------------------------------------------------------
(* xdp_prog_main *)

\* make_drop_decision_eth
do_drop(m) == m = eth_d_addr

\* The step after a step, on a packet that is dropped and on one that passes.
Path_count_first(drop) ==                                           \* mutant
  IF drop
  THEN [idle |-> "count", count |-> "lock", lock |-> "load", load |-> "store",
        store |-> "stamp", stamp |-> "unlock", unlock |-> "idle"]
  ELSE [idle |-> "lock", lock |-> "unlock", unlock |-> "idle"]
Path_retry(drop) ==                                                 \* mutant
  IF drop
  THEN [idle |-> "lock", lock |-> "load", load |-> "store", store |-> "stamp",
        stamp |-> "unlock", unlock |-> "count", count |-> "idle"]
  ELSE [idle |-> "lock", lock |-> "unlock", unlock |-> "lock"]
Path(drop) ==
  IF drop
  THEN [idle |-> "lock", lock |-> "load", load |-> "store", store |-> "stamp",
        stamp |-> "unlock", unlock |-> "count", count |-> "idle"]
  ELSE [idle |-> "lock", lock |-> "unlock", unlock |-> "idle"]

Goes(c) == pc' = [pc EXCEPT ![c] = Path(do_drop(mac[c]))[@]]

\* The bounds checks let a short packet pass at once.
Receive(c, m) ==
  /\ pc[c] = "idle" /\ attached /\ packets < MaxPackets
  /\ packets' = packets + 1
  /\ mac' = [mac EXCEPT ![c] = m]
  /\ pc' = IF m = Short THEN pc ELSE [pc EXCEPT ![c] = Path(do_drop(m))["idle"]]
  /\ UNCHANGED <<reg, drops, mapVars, userVars, keys, first>>

\* update_mac_stats; value->dropped++ loads and stores.
Lock(c) ==
  /\ pc[c] = "lock" /\ lock[mac[c]] = None
  /\ lock' = [lock EXCEPT ![mac[c]] = c]
  /\ Goes(c)
  /\ UNCHANGED <<mac, reg, packets, drops, stats, total, now, userVars, keys, first>>

Load(c) ==
  /\ pc[c] = "load"
  /\ reg' = [reg EXCEPT ![c] = stats[mac[c]].dropped]
  /\ Goes(c)
  /\ UNCHANGED <<mac, packets, drops, mapVars, userVars, keys, first>>

Store(c) ==
  /\ pc[c] = "store"
  /\ stats' = [stats EXCEPT ![mac[c]] = [dropped |-> reg[c] + 1, t_lastdrop |-> @.t_lastdrop]]
  /\ Goes(c)
  /\ UNCHANGED <<mac, reg, packets, drops, lock, total, now, userVars, keys, first>>

Stamp(c) ==
  /\ pc[c] = "stamp"
  /\ now' = now + 1
  /\ stats' = [stats EXCEPT ![mac[c]] = [dropped |-> @.dropped, t_lastdrop |-> now + 1]]
  /\ Goes(c)
  /\ UNCHANGED <<mac, reg, packets, drops, lock, total, userVars, keys, first>>

Unlock(c) ==
  /\ pc[c] = "unlock"
  /\ lock' = [lock EXCEPT ![mac[c]] = None]
  /\ Goes(c)
  /\ UNCHANGED <<mac, reg, packets, drops, stats, total, now, userVars, keys, first>>

\* __sync_fetch_and_add, and the verdict XDP_DROP.
Added_stale(c) == reg[c] + 1                                        \* mutant
Added(c) == total + 1
Count(c) ==
  /\ pc[c] = "count"
  /\ total' = Added(c) /\ drops' = drops + 1
  /\ Goes(c)
  /\ UNCHANGED <<mac, reg, packets, stats, lock, now, userVars, keys, first>>

Cpu(c) == Lock(c) \/ Load(c) \/ Store(c) \/ Stamp(c) \/ Unlock(c) \/ Count(c)

-----------------------------------------------------------------------------
(* The user program *)

At(p, q) == upc = p /\ upc' = q
Shared == UNCHANGED <<cpuVars, mapVars, keys, first>>

\* signal() and if_nametoindex(); then the program is loaded and attached.
Start ==
  /\ upc = "start" /\ upc' \in {"load", "exited"}
  /\ Shared /\ UNCHANGED <<do_exit, drop_cnt, current_key, copied, value, attached>>
LoadAndAttach ==
  /\ upc = "load"
  /\ \/ upc' = "maps" /\ attached' = TRUE
     \/ upc' = "exited" /\ UNCHANGED attached
  /\ Shared /\ UNCHANGED <<do_exit, drop_cnt, current_key, copied, value>>

\* get_map_fd for both maps
MapMissing == upc' = "detach"
FindMaps ==
  /\ upc = "maps"
  /\ upc' = "poll" \/ MapMissing
  /\ Shared /\ UNCHANGED <<do_exit, drop_cnt, current_key, copied, value, attached>>

\* The loop of poll_stats; the total may not be found.
Poll ==
  /\ upc = "poll"
  /\ \/ do_exit /\ upc' = "detach" /\ UNCHANGED drop_cnt
     \/ ~do_exit /\ upc' = "detach" /\ UNCHANGED drop_cnt
     \/ ~do_exit /\ upc' = "keys" /\ drop_cnt' = total
  /\ Shared /\ UNCHANGED <<do_exit, current_key, copied, value, attached>>

\* print_stats_per_mac: the key after NULL is the first one, also in the
\* condition of the loop.
NoKey == upc' = "sleep"
GetNextKey ==
  /\ upc = "keys"
  /\ \/ keys = {} /\ NoKey /\ UNCHANGED current_key
     \/ keys # {} /\ upc' = "lookup" /\ current_key' = first
  /\ Shared /\ UNCHANGED <<do_exit, drop_cnt, copied, value, attached>>

\* bpf_map_lookup_elem_flags with BPF_F_LOCK: the kernel copies under the lock.
Lookup_unlocked ==                                                  \* mutant
  /\ At("lookup", "copy")
  /\ UNCHANGED <<cpuVars, mapVars, do_exit, drop_cnt, current_key, copied, value, attached, keys, first>>
Lookup ==
  /\ At("lookup", "copy")
  /\ lock[current_key] = None /\ lock' = [lock EXCEPT ![current_key] = User]
  /\ UNCHANGED <<cpuVars, stats, total, now, do_exit, drop_cnt, current_key, copied, value, attached,
                 keys, first>>
CopyDropped ==
  /\ At("copy", "copy_time")
  /\ copied' = stats[current_key].dropped
  /\ Shared /\ UNCHANGED <<do_exit, drop_cnt, current_key, value, attached>>
CopyTime ==
  /\ At("copy_time", "print")
  /\ value' = [dropped |-> copied, t_lastdrop |-> stats[current_key].t_lastdrop]
  /\ lock' = [lock EXCEPT ![current_key] = None]
  /\ UNCHANGED <<cpuVars, stats, total, now, do_exit, drop_cnt, current_key, copied, attached,
                 keys, first>>
PrintEntry ==
  /\ At("print", "keys")
  /\ Shared /\ UNCHANGED <<do_exit, drop_cnt, current_key, copied, value, attached>>

Sleep ==
  /\ At("sleep", "poll")
  /\ Shared /\ UNCHANGED <<do_exit, drop_cnt, current_key, copied, value, attached>>

Detach ==
  /\ At("detach", "exited")
  /\ attached' = FALSE
  /\ Shared /\ UNCHANGED <<do_exit, drop_cnt, current_key, copied, value>>

UserProgram == Start \/ LoadAndAttach \/ FindMaps \/ Poll \/ GetNextKey \/ Lookup
                 \/ CopyDropped \/ CopyTime \/ PrintEntry \/ Sleep \/ Detach

\* Until the handler is installed SIGINT ends the program.
SigInt ==
  /\ upc # "exited" /\ ~do_exit
  /\ IF upc = "start" THEN upc' = "exited" /\ UNCHANGED do_exit
     ELSE do_exit' = TRUE /\ UNCHANGED upc
  /\ Shared /\ UNCHANGED <<drop_cnt, current_key, copied, value, attached>>

Ended == upc = "exited" /\ (\A c \in Cpus : pc[c] = "idle") /\ UNCHANGED vars

Next ==
  \/ \E c \in Cpus : (\E m \in keys \cup {Short} : Receive(c, m)) \/ Cpu(c)
  \/ UserProgram \/ SigInt \/ Ended

\* Both sides run; the kernel's spin locks are queued, so that nobody who
\* spins is passed over for ever.
Spec ==
  /\ Init /\ [][Next]_vars
  /\ WF_vars(UserProgram) /\ SF_vars(Lookup)
  /\ \A c \in Cpus : WF_vars(Cpu(c)) /\ SF_vars(Lock(c))

-----------------------------------------------------------------------------
CpuStates == {"idle", "lock", "load", "store", "stamp", "unlock", "count"}
UserStates == {"start", "load", "maps", "poll", "keys", "lookup", "copy", "copy_time", "print",
               "sleep", "detach", "exited"}
TypeOK ==
  /\ pc \in [Cpus -> CpuStates] /\ mac \in [Cpus -> Macs \cup {Short}] /\ reg \in [Cpus -> Nat]
  /\ keys \subseteq Macs /\ first \in keys \cup {None} /\ (keys # {} => first \in keys)
  /\ stats \in [Macs -> Entry] /\ lock \in [Macs -> Cpus \cup {User, None}]
  /\ total \in Nat /\ now \in Nat /\ attached \in BOOLEAN
  /\ upc \in UserStates /\ do_exit \in BOOLEAN /\ drop_cnt \in Nat
  /\ current_key \in keys \cup {None}
  /\ upc \in {"lookup", "copy", "copy_time", "print"} => current_key \in keys
  /\ copied \in Nat /\ value \in Entry
  /\ packets \in 0 .. MaxPackets /\ drops \in Nat

\* CPUs that have counted their packet for its address and not yet in the total.
InBetween == {c \in Cpus : pc[c] \in {"stamp", "unlock", "count"} /\ do_drop(mac[c])}

\* No drop is lost or counted twice, on however many CPUs at a time: the total
\* is the number of dropped packets, and the entry of the address is ahead of
\* it by the packets that are between the two.
TotalsAgree ==
  /\ total = drops
  /\ stats[eth_d_addr].dropped = total + Cardinality(InBetween)

\* The lines printed in a round fit together: the total, which is read first
\* and counted last, is never more than what the address accounts for.
PrintedTogether ==
  upc = "print" /\ current_key = eth_d_addr => drop_cnt <= value.dropped

\* Entries change and are copied atomically, though every field is written and
\* read by a step of its own.
Visible(m) ==
  IF \E c \in Cpus : pc[c] = "stamp" /\ mac[c] = m
  THEN [dropped |-> stats[m].dropped - 1, t_lastdrop |-> stats[m].t_lastdrop]
  ELSE stats[m]
Atomic == INSTANCE AtomicStats WITH stats <- [m \in Macs |-> Visible(m)], shown <- value
StatsAreAtomic == Atomic!Spec

\* However the program ends, it does not leave its XDP program behind.
DetachedAtExit == upc = "exited" => ~attached

\* Every packet gets its verdict, in spite of the locks user space takes.
PacketsGetVerdict == \A c \in Cpus : pc[c] # "idle" ~> pc[c] = "idle"

\* "Poll for new statistics values until user terminates program." (:176)
CtrlCExits == do_exit ~> upc = "exited"
=============================================================================
