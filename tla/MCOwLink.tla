------------------------------ MODULE MCOwLink ------------------------------
(***************************************************************************)
(* Instances of the link for TLC: blocks with an escape, with a timing     *)
(* byte and what may follow it, two that make sendlen wrap (a search       *)
(* command and a baud rate are what is left of them) and one that is too   *)
(* long.                                                                   *)
(***************************************************************************)
EXTENDS OwLink

MCBlocks == {<<1, 227>>, <<193, 177>>, <<193, 225, 1>>, <<193, 119>>,
             <<227, 227, 227, 227, 177>>, <<227, 227, 227, 227, 119>>,
             <<1, 1, 1, 1, 1, 1>>}

\* A byte, and that byte with the timing byte behind it.
MCPlain == {<<1>>, <<1, 193>>}

MCRoms == {<<1>>, <<227, 193>>}

\* Every call forgets the results of the one before: states that differ in
\* nothing else have the same future, and the properties about results are
\* action properties, which TLC checks on every step.
MCView == <<open, Before(link)>>
=============================================================================
