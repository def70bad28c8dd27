------------------------------- MODULE Compiler -------------------------------
(***************************************************************************)
(* What the optimiser promises: it starts with the source program, replaces *)
(* it any number of times by a program that may stand for the source, and   *)
(* hands out the last one.                                                 *)
(***************************************************************************)

CONSTANT MayReplace(_, _)   \* (new, old): behaviour new may stand for old

VARIABLES source, target, done

compilerVars == <<source, target, done>>

Start == target = source /\ done = FALSE

Rewrite ==
  /\ ~done
  /\ MayReplace(target', source)
  /\ UNCHANGED <<source, done>>

Deliver ==
  /\ ~done
  /\ done' = TRUE
  /\ UNCHANGED <<source, target>>

Safety == Start /\ [][Rewrite \/ Deliver]_compilerVars
=============================================================================
