------------------------------- MODULE Frame -------------------------------
(***************************************************************************)
(* One call of a function: its arguments, its local variables, and what it *)
(* has returned.  The functions run one iteration of a loop per step.      *)
(***************************************************************************)
EXTENDS Integers, Sequences

VARIABLES
    call,   \* the function, fn, and its arguments
    loc,    \* its local variables
    ret     \* <<>> while it runs, then <<its result>>

frameVars == <<call, loc, ret>>

Runs(fn) == ret = <<>> /\ call.fn = fn

Goes(locals) == loc' = locals /\ UNCHANGED <<call, ret>>

Returns(value) == ret' = <<value>> /\ UNCHANGED <<call, loc>>
=============================================================================
