---------------------------- MODULE MCSfsFile ----------------------------
(***************************************************************************)
(* SfsFile on interchangeable files and descriptors.  Blocks are not: the  *)
(* first free one is taken.                                                *)
(***************************************************************************)
EXTENDS SfsFile, TLC

FilesAndFds == Permutations(File) \cup Permutations(Fd)
=============================================================================
