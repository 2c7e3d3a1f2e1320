---------------------------- MODULE MCCompileRun ----------------------------
(* Two builds: one that follows any plan, beside one that needs the fixed path. *)
EXTENDS CompileRun, TLC

CONSTANTS b1, b2

MCOffers == (b1 :> compilerRegistry) @@ (b2 :> {Plan(<<"konan">>, "one")})
=============================================================================
