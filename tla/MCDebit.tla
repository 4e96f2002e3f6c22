------------------------------ MODULE MCDebit ------------------------------
(***************************************************************************)
(* An instance of Debit for TLC: balances up to 3, two transaction IDs.    *)
(***************************************************************************)
EXTENDS Debit

\* What nobody will look at again is left out.
MCView ==
  <<page, pc, history, torn,
    IF pc = "away" THEN <<>> ELSE <<by, result>>,
    IF pc \in {"ready", "read", "write"} THEN file ELSE <<>>,
    IF pc # "away" /\ by # "recover" THEN <<verify, success, cnt, oldAcct>> ELSE <<>>,
    IF pc = "check" THEN newAcct ELSE <<>>>>
=============================================================================
