------------------------------ MODULE MCOwFile ------------------------------
(***************************************************************************)
(* Five pages, two files and a directory.  A directory page holds two      *)
(* entries, the header of the first one included, so that the second file  *)
(* needs a new directory page, and a file of two pages fills the part.     *)
(***************************************************************************)
EXTENDS OwFile, TLC

CONSTANTS a, b

\* What the last call was matters to the next states only through the rest.
MCView == <<dev, Han, CD, Internal, hung, calls, cuts, trusted>>

\* No definition tells one file from the other.
MCSymmetry == Permutations(Files)
=============================================================================
