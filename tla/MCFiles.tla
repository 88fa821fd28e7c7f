------------------------------ MODULE MCFiles ------------------------------
(***************************************************************************)
(* Files with the flags of the shell for < and >, those that a directory   *)
(* refuses and a file does not, and those that fail for all that exists.   *)
(***************************************************************************)
EXTENDS Files, TLC

MCModes == {{}, {"O_WRONLY"}, {"O_WRONLY", "O_CREAT", "O_TRUNC"}, {"O_CREAT", "O_EXCL"}}

\* Of a kernel that has stopped only where it did.
View == IF Running THEN filesVars ELSE <<halted>>

Symmetry == Permutations(Proc)
=============================================================================
