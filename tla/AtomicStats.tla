------------------------------ MODULE AtomicStats ------------------------------
(***************************************************************************)
(* What the per-MAC statistics of the packet counter promise, whatever the *)
(* number of CPUs: dropping a packet changes both fields of an entry at    *)
(* once, and what user space gets is an entry as it was at one moment.     *)
(***************************************************************************)
EXTENDS Integers

CONSTANT Macs                 \* destination addresses

VARIABLES
  stats,                      \* the entry of each address
  shown                       \* the entry user space copied last
vars == <<stats, shown>>

NoDrop == [dropped |-> 0, t_lastdrop |-> 0]

Init == stats = [m \in Macs |-> NoDrop] /\ shown = NoDrop

\* Time moves on between two packets of an address.
Drop(m) ==
  LET t == stats'[m].t_lastdrop
  IN /\ t > stats[m].t_lastdrop
     /\ stats' = [stats EXCEPT ![m] = [dropped |-> @.dropped + 1, t_lastdrop |-> t]]
     /\ UNCHANGED shown

Copy(m) == shown' = stats[m] /\ UNCHANGED stats

Next == \E m \in Macs : Drop(m) \/ Copy(m)
Spec == Init /\ [][Next]_vars
=============================================================================
