------------------------------- MODULE MCEnv -------------------------------
(* Environments of two blocks with two contents each; the default one has  *)
(* the first in both. Serial numbers wrap after four saves.                *)
EXTENDS Env

CONSTANTS a, b

const_default == [i \in 1 .. Blocks |-> a]
=============================================================================
