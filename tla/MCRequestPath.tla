--------------------------- MODULE MCRequestPath ---------------------------
(* Finite instances of RequestPath for TLC: all requests share one principal. *)
EXTENDS RequestPath, TLC

CONSTANT principal

MCPrincipalOf == [r \in Requests |-> principal]
Symmetry == Permutations(Requests)
=============================================================================
