---------------------------- MODULE BuildContract ----------------------------
(***************************************************************************)
(* What an online build promises to whoever reads its output directory,    *)
(* without saying how: builds run one after the other, each ends by        *)
(* publishing one outcome or by publishing nothing, and a published        *)
(* ACCEPTED names one verified draft of the very build that published it.  *)
(* OnlineBuild is shown to implement this module.                          *)
(***************************************************************************)
EXTENDS Naturals

CONSTANTS
  Verified,      (* the drafts, each a record with the number of the build *)
                 (* that made it as its field run, that passed every check *)
  Nothing        (* no readable outcome is published                       *)

VARIABLES
  started,       (* number of builds begun so far                          *)
  running,       (* one of them is in progress: the last one               *)
  published      (* the outcome a reader of the directory finds            *)

vars == <<started, running, published>>

Init ==
  /\ started = 0
  /\ running = FALSE
  /\ published = Nothing

Begin ==
  /\ ~running
  /\ started' = started + 1
  /\ running' = TRUE
  /\ UNCHANGED published

Finish(outcome) ==
  /\ running
  /\ running' = FALSE
  /\ published' = outcome
  /\ UNCHANGED started

(* The draft is the one the new outcome names, so that Verified need not   *)
(* be enumerated.                                                          *)
Accept ==
  /\ published' # Nothing
  /\ LET d == published'.draft
     IN  /\ d \in Verified
         /\ d.run = started
         /\ Finish([run |-> started, status |-> "ACCEPTED", draft |-> d])

Reject == Finish([run |-> started, status |-> "REJECTED", draft |-> Nothing])

(* The build dies or raises.  An older outcome survives, unless it was     *)
(* being replaced at that moment.                                          *)
Abandon == Finish(published) \/ Finish(Nothing)

Next == Begin \/ Accept \/ Reject \/ Abandon

Spec == Init /\ [][Next]_vars
=============================================================================
