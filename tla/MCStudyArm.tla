------------------------------ MODULE MCStudyArm ------------------------------
(* Small instances of StudyArm: two cells, at most two attempts each.       *)
EXTENDS StudyArm
=============================================================================
