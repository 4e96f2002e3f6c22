----------------------------- MODULE MCDS1963S -----------------------------
(***************************************************************************)
(* Instances of the button for TLC: pages of four cells, one page without  *)
(* and one page with a counter, and the packets the SDK of client/ow sends,*)
(* scaled to that page size.                                               *)
(***************************************************************************)
EXTENDS DS1963S

CONSTANTS Addrs,   \* addresses the host uses
          Signs    \* does the host use the SHA commands?

Packet(op, n) == [op |-> op, addr |-> 0, aa |-> FALSE, off |-> 0,
                  value |-> 1, sub |-> "", size |-> n]

Resume == [Packet("A5", 1) EXCEPT !.addr = NvSize + 1]
Match  == Packet("55", 9)
Search == Packet("F0", 25)

Reads  == {Packet("AA", PageSize + 6)}
Writes == {[Packet("0F", PageSize + 5) EXCEPT !.addr = a, !.value = v] :
             a \in Addrs, v \in Values}
Erases == {[Packet("C3", 5) EXCEPT !.addr = a] : a \in Addrs}
Copies == {[Packet("55", 6) EXCEPT !.addr = a, !.aa = f, !.off = o] :
             a \in Addrs, f \in BOOLEAN, o \in {0, PageSize - 1}}
Auths  == {[Packet("A5", PageSize + 15) EXCEPT !.addr = a] : a \in Addrs}
Shas   == {[Packet("33", 8) EXCEPT !.addr = a, !.sub = s] :
             a \in Addrs, s \in {"C3", "F0"}}
Others == {Packet("3C", 26)}        \* Match Scratchpad: not implemented

MemoryPackets == Reads \cup Writes \cup Erases \cup Copies \cup Others
                 \cup (IF Signs THEN Auths \cup Shas ELSE {})

Resumed == {<<Resume, m>> : m \in MemoryPackets}
Plain   == {<<m>> : m \in MemoryPackets}

\* The SDK sends Resume, Match ROM or Search ROM (owVerify) right after a
\* reset pulse, and a memory packet on its own only behind one of the two.
SDKBatches == [CMD_ROM |-> Resumed \cup {<<Match>>, <<Search>>}, CMD_MEMORY |-> Plain]
=============================================================================
