------------------------------ MODULE MCSha18 ------------------------------
(***************************************************************************)
(* Three pages: one that signs data, one that signs nothing, and one with  *)
(* a counter that signs both itself and data.                              *)
(***************************************************************************)
EXTENDS Sha18

AllCalls == [op : Ops, page : 0 .. Pages - 1, value : Values, flag : BOOLEAN]

\* An argument that a function does not have is fixed, and so is the value
\* for all pages but one.
MCCalls ==
  {c \in AllCalls :
     /\ c.op \in {"CreateChallenge", "AnswerChallenge"} => c.flag
     /\ c.op \in {"CreateChallenge", "ReadMemoryPage"} => c.value = 1
     /\ c.page # 0 => c.value = 1}

NoBatches == [st \in {"CMD_ROM", "CMD_MEMORY"} |-> {}]

\* The history of module DS1963S is not looked at here; what a call has left
\* in the host is overwritten by the next one, and the properties of a return
\* are about the step.
MCView ==
  IF result = "running"
  THEN <<mem, registers, may, cmd_state, loop, reply, host, macOf>>
  ELSE <<mem, registers, may>>
=============================================================================
