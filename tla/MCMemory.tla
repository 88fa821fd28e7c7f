---------------------------- MODULE MCMemory ----------------------------
(***************************************************************************)
(* Memory with a program of a single page, which touches the stack, and    *)
(* with three that are not loaded: one whose second segment starts inside  *)
(* the first, and one outside the user addresses, which are refused; and   *)
(* one that the stack, mapped last, reaches into from below, at which the  *)
(* kernel stops.  The lower page of the stack, which only a page fault     *)
(* maps, shares the page table of the program; the other one has a table   *)
(* of its own.                                                             *)
(***************************************************************************)
EXTENDS Memory, TLC

MCPrograms ==
    {<< <<1, 2>> >>, << <<0, 1>>, <<0, 1>> >>, << <<3, 4>> >>, << <<4, 5>> >>}
MCStack == <<2, 4>>
Symmetry == Permutations(Proc)
=============================================================================
