----------------------------- MODULE MCOwSearch -----------------------------
(***************************************************************************)
(* Instances of the search for TLC: codes of a two-bit family, two bits of *)
(* number and two parity bits for a CRC.                                   *)
(***************************************************************************)
EXTENDS OwSearch

Code(f1, f2, n1, n2) == <<f1, f2, n1, n2, (f1 + n1) % 2, (f2 + n1 + n2) % 2>>

\* Two devices of one family, one that differs from them in the first bit,
\* one that differs in the second.
MCRoms == {Code(1, 0, 0, 0), Code(1, 0, 0, 1), Code(0, 1, 1, 0), Code(1, 1, 1, 0)}
MCAlarming == {Code(1, 0, 0, 1), Code(0, 1, 1, 0)}
=============================================================================
