---------------------------- MODULE MCRunPipeline ----------------------------
(***************************************************************************)
(* TLC instance of RunPipeline: two texts of one file, and the example.    *)
(***************************************************************************)
EXTENDS RunPipeline, TLC

CONSTANTS r1, r2, old, new, example, a, e

MCModuleOf == old :> a @@ new :> a @@ example :> e
RunSymmetry == Permutations(Runs)
=============================================================================
