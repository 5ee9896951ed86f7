------------------------ MODULE FunctionResolutionMC ------------------------
(* Two functions that call each other. *)
EXTENDS FunctionResolution, TLC

CONSTANTS f, g

MCCallees == (f :> {g}) @@ (g :> {f})
=============================================================================
