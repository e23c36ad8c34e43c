----------------------------- MODULE MotorService -----------------------------
(***************************************************************************)
(* What the remote-controlled motor promises its users, whatever programs, *)
(* buffers and frames are in between: every ordered step is made at most   *)
(* once, and a displayed position is one the motor had after it was asked  *)
(* for.  Orders and queries may get lost, and queries are answered in any  *)
(* order.                                                                  *)
(***************************************************************************)
EXTENDS Integers

CONSTANTS
  MAX_STEPS,           \* positions in a turn
  Queries,
  None                 \* nothing displayed yet

Directions == {1, -1}

VARIABLES
  position,            \* of the motor
  todo,                \* steps ordered in each direction and not yet made
  open,                \* per query: the positions since it was asked, {} if it is not open
  shown                \* the position displayed last
vars == <<position, todo, open, shown>>

Init ==
  /\ position = 0 /\ todo = [d \in Directions |-> 0]
  /\ open = [q \in Queries |-> {}] /\ shown = None

Order(d) == todo' = [todo EXCEPT ![d] = @ + 1] /\ UNCHANGED <<position, open, shown>>

Lose(d) ==
  todo[d] > 0 /\ todo' = [todo EXCEPT ![d] = @ - 1] /\ UNCHANGED <<position, open, shown>>

Step(d) ==
  /\ todo[d] > 0 /\ todo' = [todo EXCEPT ![d] = @ - 1]
  /\ position' = (position + d) % MAX_STEPS
  /\ open' = [q \in Queries |-> IF open[q] = {} THEN {} ELSE open[q] \cup {position'}]
  /\ UNCHANGED shown

Ask(q) ==
  open[q] = {} /\ open' = [open EXCEPT ![q] = {position}] /\ UNCHANGED <<position, todo, shown>>

Close(q) == open[q] # {} /\ open' = [open EXCEPT ![q] = {}] /\ UNCHANGED <<position, todo>>

Show(q) == Close(q) /\ shown' \in open[q]

Forget(q) == Close(q) /\ UNCHANGED shown

Next ==
  \/ \E d \in Directions : Order(d) \/ Lose(d) \/ Step(d)
  \/ \E q \in Queries : Ask(q) \/ Show(q) \/ Forget(q)

Spec == Init /\ [][Next]_vars
=============================================================================
