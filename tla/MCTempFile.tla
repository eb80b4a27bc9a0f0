----------------------------- MODULE MCTempFile ------------------------------
(***************************************************************************)
(* A small instance of TempFile: two shells, names of two letters out of    *)
(* three, and a generator of the same shape with 16 seeds, in which the     *)
(* eight names of a round have one twice.                                   *)
(***************************************************************************)
EXTENDS TempFile

\* A file that another program left, with the second name of the sequence.
MCExisting == {<<0, 1>>}

=============================================================================
