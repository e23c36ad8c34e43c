----------------------------- MODULE StepperNodeMC -----------------------------
\* Small sets of frames for StepperNode.
EXTENDS StepperNode

CanFrame(id, rtr, len, data) == [id |-> id, rtr |-> rtr, len |-> len, data |-> data]

StepFwd == CanFrame(CANID_STEPMSG, FALSE, 1, 1)
StepRev == CanFrame(CANID_STEPMSG, FALSE, 1, 2)
PosRequest == CanFrame(CANID_POSMSG, TRUE, 2, 0)
\* Near misses of the frames the firmware reacts to.
WrongLength == CanFrame(CANID_STEPMSG, FALSE, 2, 1)
NoRequest == CanFrame(CANID_POSMSG, FALSE, 2, 1)

Commands == {StepFwd, StepRev, PosRequest}
AllFrames == Commands \cup {WrongLength, NoRequest}
=============================================================================
