------------------------- MODULE MCRequestLifecycle -------------------------
(***************************************************************************)
(* Small instances of RequestLifecycle: one caller, up to two workers and  *)
(* one request-status command, all model values.  The workers are          *)
(* interchangeable.                                                        *)
(***************************************************************************)
EXTENDS RequestLifecycle, TLC

WorkerSymmetry == Permutations(Workers)
=============================================================================
