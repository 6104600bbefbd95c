---------------------------- MODULE MCPageFrames ----------------------------
(***************************************************************************)
(* Instance of PageFrames for TLC.                                         *)
(***************************************************************************)
EXTENDS PageFrames, TLC

\* One module, which ends in the middle of frame 2.
MCModules == {[mod_start |-> 4, mod_end |-> 5]}

\* Controllers are only ever compared.
ControllerSymmetry == Permutations(Controllers)

=============================================================================
