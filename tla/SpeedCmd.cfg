SPECIFICATION Spec
INVARIANTS CycleFollowsDir StopsPromptly SavedTtyRestored
PROPERTY SelectedDirectionIsSent
