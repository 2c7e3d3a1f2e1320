--------------------------- MODULE MCCommunication ---------------------------
(***************************************************************************)
(* CommunicationRun for TLC, both versions in one run.  The cancellation   *)
(* of the request by its client is left to version 1, because a match is   *)
(* then answered with an error whatever else has happened.  The second     *)
(* specification has the matches that nothing else disturbs, either: no    *)
(* sandbox fails, the start is in time, and so is everybody.  Every        *)
(* behaviour of the two is a behaviour of Spec.                            *)
(***************************************************************************)
EXTENDS CommunicationRun

MCSpec == Init /\ [][Next /\ (match => ~parent')]_vars

MatchInit == Init /\ match = TRUE
SoundNext == Next /\ ~parent' /\ ~startup' /\ fired' = {} /\ \A p \in Proc : why'[p] # "setup"
SoundMatchSpec == MatchInit /\ [][SoundNext]_vars
=============================================================================
