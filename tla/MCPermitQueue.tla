--------------------------- MODULE MCPermitQueue ---------------------------
(* A finite instance of PermitQueue for TLC.  Each behaviour has either the   *)
(* configured line, unlimited in the run, or a line of one place.             *)
EXTENDS PermitQueue

VARIABLE short   \* the line has one place

Short == INSTANCE PermitQueue WITH MaxPending <- 1

MCNext == UNCHANGED short /\ (IF short THEN Short!Next ELSE Next)

MCInit == Init /\ short \in BOOLEAN

MCSpec == MCInit /\ [][MCNext]_<<vars, short>> /\ Fairness
=============================================================================
