---------------------------- MODULE FrameOwnership ----------------------------
(***************************************************************************)
(* What the AF_XDP receiver promises about its packet buffers, without     *)
(* rings, indices or batches: every frame belongs to exactly one party and *)
(* goes round app -> kernel -> rx -> app.  The application may lend any    *)
(* number of frames at once, packets arrive one at a time, and as long as  *)
(* the receiver is open every received packet is taken and its frame       *)
(* comes back to the application.                                          *)
(***************************************************************************)
CONSTANT Frames
VARIABLES owner, open

avars == <<owner, open>>

OwnedBy(who) == {f \in Frames : owner[f] = who}

Init == owner = [f \in Frames |-> "app"] /\ open = TRUE

Lend ==
  /\ open
  /\ \E S \in SUBSET OwnedBy("app") :
       owner' = [f \in Frames |-> IF f \in S THEN "kernel" ELSE owner[f]]
  /\ UNCHANGED open

Receive(f) ==
  /\ open /\ owner[f] = "kernel"
  /\ owner' = [owner EXCEPT ![f] = "rx"]
  /\ UNCHANGED open

Take(f) ==
  /\ open /\ owner[f] = "rx"
  /\ owner' = [owner EXCEPT ![f] = "app"]
  /\ UNCHANGED open

Close == open' = FALSE /\ UNCHANGED owner

Next == Lend \/ Close \/ \E f \in Frames : Receive(f) \/ Take(f)

Safety == Init /\ [][Next]_avars
Spec == Safety /\ \A f \in Frames : WF_avars(Take(f))
=============================================================================
