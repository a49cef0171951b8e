----------------------------- MODULE MCCheckpointer -----------------------------
(* Finite instances of Checkpointer.                                        *)
EXTENDS Checkpointer

Latest == -1

(* An empty folder, or one with a seed checkpoint.                          *)
EmptyOrSeed == {{}, {0}}
===============================================================================
