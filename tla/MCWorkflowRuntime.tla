-------------------------- MODULE MCWorkflowRuntime --------------------------
(* Small instance of WorkflowRuntime: an approval workflow with two ways    *)
(* out of the first state, a way back and an edge that stays where it is.   *)
EXTENDS WorkflowRuntime

MCMap == << [action |-> "approve", from |-> "draft", to |-> "approved"],
            [action |-> "reject", from |-> "draft", to |-> "rejected"],
            [action |-> "reopen", from |-> "rejected", to |-> "draft"],
            [action |-> "remind", from |-> "draft", to |-> "draft"] >>
MCStates == {"draft", "approved", "rejected"}
MCAlways == MCStates
MCSometimes == {None, "draft"}
=============================================================================
