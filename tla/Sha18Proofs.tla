---------------------------- MODULE Sha18Proofs ----------------------------
(***************************************************************************)
(* What holds of the button and of the SDK's functions for it, for every   *)
(* page size, every number of pages, every host and every set of calls.    *)
(*                                                                         *)
(* The button: its types, that a Copy reaches nothing but the window it    *)
(* was addressed to and nothing at all before the first Read Scratchpad,   *)
(* and that what Read Scratchpad reported stays good for a Copy.  For      *)
(* hosts that keep to page addresses: that the secrets never change.  For  *)
(* hosts that send whole commands the button knows: that every batch is    *)
(* answered with at least as many bytes.                                   *)
(*                                                                         *)
(* The functions: a page of the button holds the data of one write, whole; *)
(* a call that loses no contact succeeds exactly if the button has what it *)
(* needs; and a signature that is returned is the one over what the call   *)
(* read or wrote.  The first rests on ShaInv, which follows a read-back    *)
(* and the copy behind it.  The others rest on SureInv: of a call that can *)
(* succeed, on what every exchange demands of the button and supplies to   *)
(* the next one (Demands, Supplies); of one that cannot, on the exchange   *)
(* that the button has no good answer to (Doomed).                         *)
(***************************************************************************)
EXTENDS Sha18, SequenceTheorems, TLAPS

----------------------------------------------------------------------------
(* The button. *)

\* A length other than 0 in LATCH_ES comes from a Read Scratchpad.
LengthInv == E # 0 => everRead

ButtonInv == TypeOK /\ LengthInv /\ ReadBackAuthorises

----------------------------------------------------------------------------
(* Sizes and cells. *)

LEMMA Sizes ==
  /\ PageSize \in Nat /\ PageSize > 1 /\ Pages \in Nat
  /\ NvSize \in Nat /\ Scratch \in Nat /\ MemSize \in Nat
  /\ NvSize + PageSize <= Scratch /\ MemSize = Scratch + PageSize
<1>1. PageSize \in Nat /\ PageSize > 1 /\ Pages \in Nat /\ SecretSize \in Nat
      /\ SecretSize >= PageSize
  BY ButtonAssumption
<1>2. Pages * PageSize \in Nat
  BY <1>1
<1> QED
  BY <1>1, <1>2 DEF NvSize, Scratch, MemSize

LEMMA OffsetRange ==
  ASSUME NEW a \in Nat
  PROVE  a % PageSize \in 0 .. PageSize - 1
  BY Sizes

LEMMA FillType ==
  ASSUME TypeOK, NEW cells, NEW v \in Contents
  PROVE  /\ Fill(cells, v) \in [0 .. MemSize - 1 -> Contents]
         /\ \A c \in 0 .. MemSize - 1 : c \notin cells => Fill(cells, v)[c] = mem[c]
  BY DEF TypeOK, Fill

LEMMA CopiedType ==
  ASSUME TypeOK, TA < NvSize
  PROVE  /\ CopiedMem \in [0 .. MemSize - 1 -> Contents]
         /\ \A c \in 0 .. MemSize - 1 :
              CopiedMem[c] # mem[c] => E # 0 /\ c \in TA .. TA + PageSize - 2
<1> USE DEF TypeOK
<1>1. ASSUME NEW c \in 0 .. MemSize - 1, c \in TA .. TA + E - 1
      PROVE  Scratch + (c - TA) \in 0 .. MemSize - 1 /\ E # 0
             /\ c \in TA .. TA + PageSize - 2
  BY <1>1, Sizes
<1>2. ASSUME NEW c \in 0 .. MemSize - 1
      PROVE  /\ CopiedMem[c] \in Contents
             /\ CopiedMem[c] # mem[c] => c \in TA .. TA + E - 1
  BY <1>1, <1>2 DEF CopiedMem, Put, CopyLen
<1>3. CopiedMem = [c \in 0 .. MemSize - 1 |-> CopiedMem[c]]
  BY DEF CopiedMem, Put
<1> QED
  BY <1>1, <1>2, <1>3

LEMMA CmdType ==
  ASSUME TypeOK, batch # <<>>
  PROVE  cmd \in Packets /\ Tail(batch) \in Seq(Packets)
  BY DEF TypeOK, cmd

LEMMA ContentsOf == Values \subseteq Contents /\ {0, 255, MAC} \subseteq Contents
  BY DEF Contents

----------------------------------------------------------------------------
(* The invariant, and what every step changes below the scratchpad. *)

LEMMA ButtonInit == Init => ButtonInv
<1> SUFFICES ASSUME Init PROVE ButtonInv
  OBVIOUS
<1>1. mem \in [0 .. MemSize - 1 -> Contents]
  BY ContentsOf DEF Init
<1>2. E \in 0 .. PageSize - 1
  BY Sizes DEF Init
<1>3. batch \in Seq(Packets)
  BY DEF Init
<1>4. AA \in BOOLEAN /\ fault \in BOOLEAN /\ everRead \in BOOLEAN
  BY Zenon DEF Init
<1>5. TypeOK
  BY <1>1, <1>2, <1>3, <1>4 DEF Init, TypeOK
<1> QED
  BY <1>5 DEF Init, ButtonInv, LengthInv, ReadBackAuthorises

LEMMA ScratchFill ==
  ASSUME ButtonInv, NEW cells, NEW v \in Contents, mem' = Fill(cells, v),
         \A c \in 0 .. Scratch - 1 : c \notin cells
  PROVE  mem' \in [0 .. MemSize - 1 -> Contents] /\ Reach
<1>1. \A c \in 0 .. Scratch - 1 : c \in 0 .. MemSize - 1
  BY Sizes
<1> QED
  BY <1>1, FillType DEF ButtonInv, Reach

\* A memory command ends the batch.
LEMMA MemoryDoneTypes ==
  ASSUME ButtonInv, NEW r, NEW u \in Nat, MemoryDone(r, u)
  PROVE  /\ cmd_state' \in {"CMD_ROM", "CMD_MEMORY"} /\ batch' \in Seq(Packets)
         /\ count' \in Nat /\ fault' \in BOOLEAN
<1>0. (count < u) \in BOOLEAN
  OBVIOUS
<1>1. fault' \in BOOLEAN
  BY <1>0, Zenon DEF MemoryDone
<1> QED
  BY <1>1 DEF MemoryDone, ButtonInv, TypeOK

LEMMA MacFill ==
  ASSUME ButtonInv
  PROVE  \A c \in 0 .. Scratch - 1 : c \notin MacPlace
<1> SUFFICES ASSUME NEW c \in 0 .. Scratch - 1, NEW k \in MacCells
             PROVE  c # Scratch + k
  BY DEF MacPlace
<1>1. k \in 0 .. PageSize - 1
  BY ButtonAssumption
<1> QED
  BY <1>1, Sizes

LEMMA ButtonStep ==
  ASSUME ButtonInv, [Next]_vars
  PROVE  ButtonInv' /\ Reach
<1> USE DEF ButtonInv, TypeOK, LengthInv, ReadBackAuthorises
<1>0. /\ mem' = mem => Reach
      /\ FullOffset \in 0 .. PageSize - 1
  BY Sizes DEF Reach, FullOffset
<1>1. CASE Call
  <2>1. PICK bt \in Batches[cmd_state] : batch' = bt /\ count' = Size(bt)
    BY <1>1 DEF Call
  <2>2. bt \in Seq(Packets) /\ Len(bt) \in {1, 2}
    BY ButtonAssumption
  <2>3. count' \in Nat
    <3>0. bt[1] \in Packets /\ (Len(bt) = 2 => bt[2] \in Packets)
      BY <2>2
    <3>1. bt[1].size \in Nat /\ (Len(bt) = 2 => bt[2].size \in Nat)
      BY <3>0 DEF Packets
    <3> QED
      BY <2>1, <2>2, <3>1 DEF Size
  <2> QED
    BY <1>0, <1>1, <2>1, <2>2, <2>3 DEF Call, registers, history
<1>2. CASE ResetPulse
  BY <1>0, <1>2 DEF ResetPulse, registers, loop, history
<1>3. CASE SkipRom
  BY <1>0, <1>3, CmdType DEF SkipRom, InRom, RomDone, registers, history
<1>4. CASE MatchRom
  <2>1. batch' \in Seq(Packets)
    BY <1>4, CmdType DEF MatchRom, InRom, RomDone
  <2> QED
    BY <1>0, <1>4, <2>1 DEF MatchRom, RomDone, registers, history
<1>5. CASE OtherRom
  <2>1. <<>> \in Seq(Packets)
    OBVIOUS
  <2> QED
    BY <1>0, <1>5, <2>1 DEF OtherRom, RomDone, registers, history
<1>6. CASE ReadScratchpad
  <2>1. PageSize + 6 \in Nat
    BY Sizes
  <2>2. MemoryDone(count, PageSize + 6)
    BY <1>6 DEF ReadScratchpad
  <2>3. /\ cmd_state' \in {"CMD_ROM", "CMD_MEMORY"} /\ batch' \in Seq(Packets)
        /\ count' \in Nat /\ fault' \in BOOLEAN
    BY <2>1, <2>2, MemoryDoneTypes
  <2>4. everRead' \in BOOLEAN
    BY <1>6, Zenon DEF ReadScratchpad
  <2> QED
    BY <1>0, <1>6, <2>3, <2>4 DEF ReadScratchpad
<1>7. CASE WriteScratchpad
  <2>1. MemoryDone(count, 0)
    BY <1>7 DEF WriteScratchpad
  <2>2. /\ cmd_state' \in {"CMD_ROM", "CMD_MEMORY"} /\ batch' \in Seq(Packets)
        /\ count' \in Nat /\ fault' \in BOOLEAN
    BY <2>1, MemoryDoneTypes
  <2>3. cmd.addr \in Nat /\ cmd.value \in Contents /\ TA' = cmd.addr
    BY <1>7, CmdType, ContentsOf DEF WriteScratchpad, InMemory, Packets
  <2>4. AA' \in BOOLEAN
    BY <1>7, Zenon DEF WriteScratchpad
  <2>5. mem' \in [0 .. MemSize - 1 -> Contents] /\ Reach
    <3>1. CASE TA' < NvSize
      <4>1. \A c \in 0 .. Scratch - 1 :
              c \notin Scratch + (cmd.addr % PageSize) .. MemSize - 1
        <5>1. cmd.addr % PageSize \in 0 .. PageSize - 1
          BY <2>3, OffsetRange
        <5>2. \A n \in 0 .. PageSize - 1 : \A c \in 0 .. Scratch - 1 :
                c \notin Scratch + n .. MemSize - 1
          BY Sizes
        <5> QED
          BY <5>1, <5>2
      <4> QED
        BY <1>7, <2>3, <3>1, <4>1, ScratchFill DEF WriteScratchpad
    <3>2. CASE ~(TA' < NvSize)
      BY <1>0, <1>7, <3>2 DEF WriteScratchpad
    <3> QED
      BY <3>1, <3>2
  <2> QED
    BY <1>7, <2>2, <2>3, <2>4, <2>5 DEF WriteScratchpad
<1>8. CASE EraseScratchpad
  <2>1. MemoryDone(count, 3)
    BY <1>8 DEF EraseScratchpad
  <2>2. /\ cmd_state' \in {"CMD_ROM", "CMD_MEMORY"} /\ batch' \in Seq(Packets)
        /\ count' \in Nat /\ fault' \in BOOLEAN
    BY <2>1, MemoryDoneTypes
  <2>3. cmd.addr \in Nat
    BY <1>8, CmdType DEF EraseScratchpad, InMemory, Packets
  <2>4. \A c \in 0 .. Scratch - 1 : c \notin Scratch .. MemSize - 1
    BY Sizes
  <2>5. mem' \in [0 .. MemSize - 1 -> Contents] /\ Reach
    BY <1>8, <2>4, ScratchFill, ContentsOf DEF EraseScratchpad
  <2> QED
    BY <1>8, <2>2, <2>3, <2>5 DEF EraseScratchpad
<1>9. CASE CopyScratchpad
  <2>1. MemoryDone(count, 4)
    BY <1>9 DEF CopyScratchpad
  <2>2. /\ cmd_state' \in {"CMD_ROM", "CMD_MEMORY"} /\ batch' \in Seq(Packets)
        /\ count' \in Nat /\ fault' \in BOOLEAN
    BY <2>1, MemoryDoneTypes
  <2>3. AA' \in BOOLEAN
    BY <1>9, Zenon DEF CopyScratchpad
  <2>4. mem' \in [0 .. MemSize - 1 -> Contents] /\ Reach
    <3>1. CASE Authorised
      <4>1. mem' = CopiedMem /\ TA < NvSize
        BY <1>9, <3>1 DEF CopyScratchpad, Authorised
      <4>2. \A c \in 0 .. Scratch - 1 : c \in 0 .. MemSize - 1
        BY Sizes
      <4> QED
        BY <4>1, <4>2, CopiedType DEF Reach
    <3>2. CASE ~Authorised
      BY <1>0, <1>9, <3>2 DEF CopyScratchpad
    <3> QED
      BY <3>1, <3>2
  <2>5. /\ UNCHANGED <<TA, E, everRead>>
        /\ provided' = NotProvided \/ (provided' = provided /\ AA' = AA)
    BY <1>9 DEF CopyScratchpad
  <2> QED
    BY <2>2, <2>3, <2>4, <2>5
<1>10. CASE ReadAuthPage
  <2>1. PageSize + 13 \in Nat /\ MemoryDone(count, PageSize + 13)
    BY <1>10, Sizes DEF ReadAuthPage
  <2>2. /\ cmd_state' \in {"CMD_ROM", "CMD_MEMORY"} /\ batch' \in Seq(Packets)
        /\ count' \in Nat /\ fault' \in BOOLEAN
    BY <2>1, MemoryDoneTypes
  <2>3. mem' = Fill(MacPlace, MAC) \/ mem' = mem
    BY <1>10 DEF ReadAuthPage
  <2>4. mem' \in [0 .. MemSize - 1 -> Contents] /\ Reach
    BY <1>0, <2>3, MacFill, ScratchFill, ContentsOf
  <2> QED
    BY <1>10, <2>2, <2>4 DEF ReadAuthPage
<1>11. CASE ComputeSHA
  <2>1. MemoryDone(IF cmd.sub = "C3" THEN count ELSE 2 * count - 3, 6)
    BY <1>11 DEF ComputeSHA
  <2>2. /\ cmd_state' \in {"CMD_ROM", "CMD_MEMORY"} /\ batch' \in Seq(Packets)
        /\ count' \in Nat /\ fault' \in BOOLEAN
    BY <2>1, MemoryDoneTypes
  <2>3. mem' = Fill(MacPlace, MAC) \/ mem' = mem
    BY <1>11 DEF ComputeSHA
  <2>4. mem' \in [0 .. MemSize - 1 -> Contents] /\ Reach
    BY <1>0, <2>3, MacFill, ScratchFill, ContentsOf
  <2>5. cmd.addr \in Nat
    BY <1>11, CmdType DEF ComputeSHA, InMemory, Packets
  <2> QED
    BY <1>11, <2>2, <2>4, <2>5 DEF ComputeSHA
<1>12. CASE OtherMemory
  <2>1. MemoryDone(0, 0)
    BY <1>12 DEF OtherMemory
  <2>2. /\ cmd_state' \in {"CMD_ROM", "CMD_MEMORY"} /\ batch' \in Seq(Packets)
        /\ count' \in Nat /\ fault' \in BOOLEAN
    BY <2>1, MemoryDoneTypes
  <2> QED
    BY <1>0, <1>12, <2>2 DEF OtherMemory, registers, history
<1>13. CASE UNCHANGED vars
  BY <1>0, <1>13 DEF vars, registers, loop, history
<1> QED
  BY <1>1, <1>2, <1>3, <1>4, <1>5, <1>6, <1>7, <1>8, <1>9, <1>10, <1>11,
     <1>12, <1>13 DEF Next

LEMMA ButtonAlways == Spec => []ButtonInv
<1>1. ButtonInv /\ [Next]_vars => ButtonInv'
  BY ButtonStep
<1> QED
  BY <1>1, ButtonInit, PTL DEF Spec

----------------------------------------------------------------------------
(* The results. *)

\* The button's variables keep their types (ds1963s.c:11-22).
THEOREM ButtonTypeCorrect == Spec => []TypeOK
<1>1. ButtonInv => TypeOK
  BY DEF ButtonInv
<1> QED
  BY <1>1, ButtonAlways, PTL

\* What Read Scratchpad reported is what a Copy must present, until a command
\* changes a register (ds1963s.c:227-230).
THEOREM ButtonReadBackAuthorises == Spec => []ReadBackAuthorises
<1>1. ButtonInv => ReadBackAuthorises
  BY DEF ButtonInv
<1> QED
  BY <1>1, ButtonAlways, PTL

\* Memory below the scratchpad changes only inside the window of an addressed
\* Copy, and only after a Read Scratchpad (ds1963s.c:211-244).
THEOREM ButtonCopyReach == Spec => CopyReach
<1>1. ButtonInv /\ [Next]_vars => [Reach]_vars
  BY ButtonStep
<1> QED
  BY <1>1, ButtonAlways, PTL DEF Spec, CopyReach
----------------------------------------------------------------------------
(* Hosts that keep to page addresses. *)

\* The commands that load TA with an address that stays there do so with the
\* address of a page (Read Authenticated Page clears TA when it is done).
Loads(c)      == c.op \in {"0F", "C3", "33"}
PageBatch(bt) == \A k \in 1 .. Len(bt) :
                   Loads(bt[k]) => bt[k].addr % PageSize = 0
PageAddressed == \A st \in {"CMD_ROM", "CMD_MEMORY"} :
                   \A bt \in Batches[st] : PageBatch(bt)

PageInv == TA % PageSize = 0 /\ PageBatch(batch)

LEMMA PageStep ==
  ASSUME PageAddressed, ButtonInv, PageInv, [Next]_vars
  PROVE  PageInv'
<1> USE DEF PageInv
<1>0. /\ 0 % PageSize = 0
      /\ PageBatch(<<>>)
  BY Sizes DEF PageBatch
<1>1. ASSUME batch # <<>> PROVE PageBatch(Tail(batch))
  <2>1. batch \in Seq(Packets)
    BY DEF ButtonInv, TypeOK
  <2> QED
    BY <1>1, <2>1 DEF PageBatch
<1>2. ASSUME batch # <<>>, Loads(cmd) PROVE cmd.addr % PageSize = 0
  <2>1. batch \in Seq(Packets)
    BY DEF ButtonInv, TypeOK
  <2>2. 1 \in 1 .. Len(batch) /\ cmd = batch[1]
    BY <1>2, <2>1 DEF cmd
  <2> QED
    BY <1>2, <2>2 DEF PageBatch
<1>3. CASE Call
  BY <1>3 DEF Call, registers, PageAddressed, ButtonInv, TypeOK
<1>4. CASE ResetPulse
  BY <1>4 DEF ResetPulse, registers, loop
<1>5. CASE SkipRom \/ MatchRom \/ OtherRom
  BY <1>0, <1>1, <1>5
  DEF SkipRom, MatchRom, OtherRom, InRom, RomDone, registers
<1>6. CASE ReadScratchpad \/ CopyScratchpad \/ OtherMemory
  BY <1>0, <1>6
  DEF ReadScratchpad, CopyScratchpad, OtherMemory, MemoryDone, registers
<1>7. CASE ReadAuthPage
  BY <1>0, <1>7 DEF ReadAuthPage, MemoryDone
<1>8. CASE WriteScratchpad
  BY <1>0, <1>2, <1>8 DEF WriteScratchpad, MemoryDone, InMemory, Loads
<1>9. CASE EraseScratchpad
  BY <1>0, <1>2, <1>9 DEF EraseScratchpad, MemoryDone, InMemory, Loads
<1>10. CASE ComputeSHA
  BY <1>0, <1>2, <1>10 DEF ComputeSHA, MemoryDone, InMemory, Loads
<1>11. CASE UNCHANGED vars
  BY <1>11 DEF vars, registers, loop
<1> QED
  BY <1>3, <1>4, <1>5, <1>6, <1>7, <1>8, <1>9, <1>10, <1>11 DEF Next

\* A page that starts inside nvram ends inside it.
LEMMA PageFits ==
  ASSUME NEW a \in Nat, a % PageSize = 0, a < NvSize
  PROVE  a + PageSize <= NvSize
<1> DEFINE q == a \div PageSize
<1>1. q \in Nat /\ a = PageSize * q
  BY Sizes
<1>2. PageSize * q < PageSize * Pages
  BY <1>1, Sizes DEF NvSize
<1>3. q < Pages
  BY <1>1, <1>2, Sizes
<1>4. q + 1 <= Pages
  BY <1>1, <1>3, Sizes
<1>5. PageSize * (q + 1) <= PageSize * Pages
  BY <1>1, <1>4, Sizes
<1> QED
  BY <1>1, <1>5, Sizes DEF NvSize

\* A host that keeps to page addresses never changes a secret
\* (ds1963s.c:222-240: HIDE is never set, and the copy ends inside nvram).
THEOREM ButtonSecretsSealed ==
  ASSUME PageAddressed
  PROVE  Spec => SecretsSealed
<1>1. Init => PageInv
  BY Sizes DEF Init, PageInv, PageBatch
<1>2. PageInv /\ ButtonInv /\ [Next]_vars => PageInv'
  BY PageStep
<1>3. ButtonInv /\ PageInv /\ [Next]_vars
        => [\A c \in SecretCells : mem'[c] = mem[c]]_vars
  <2> SUFFICES ASSUME ButtonInv, PageInv, [Next]_vars, NEW c \in SecretCells
               PROVE  mem'[c] = mem[c]
    OBVIOUS
  <2>1. Reach
    BY ButtonStep
  <2>2. c \in 0 .. Scratch - 1 /\ c \in Int /\ c >= NvSize
    BY Sizes DEF SecretCells
  <2>3. TA \in Nat /\ TA % PageSize = 0
    BY DEF ButtonInv, TypeOK, PageInv
  <2>4. TA < NvSize => TA + PageSize <= NvSize
    BY <2>3, PageFits
  <2> QED
    BY <2>1, <2>2, <2>3, <2>4, Sizes DEF Reach
<1> QED
  BY <1>1, <1>2, <1>3, ButtonAlways, PTL DEF Spec, SecretsSealed
----------------------------------------------------------------------------
(* Hosts that send a memory command in one batch. *)

\* A batch of n bytes holds what the handler of c counts off before it fills
\* the rest of the reply: opcode, address, data and CRC.
Whole(c, n) == /\ c.op = "AA" => n >= PageSize + 6
               /\ c.op = "C3" => n >= 3
               /\ c.op = "55" => n >= 4
               /\ c.op = "A5" => n >= PageSize + 13
               /\ c.op = "33" => n >= 6

\* The packet a batch gives to the memory handler: the second one behind a ROM
\* command, else the first (every memory command ends the batch).
SentWhole == /\ \A bt \in Batches["CMD_MEMORY"] : Whole(bt[1], bt[1].size)
             /\ \A bt \in Batches["CMD_ROM"] :
                  Len(bt) = 2 => Whole(bt[2], bt[2].size)

\* While commands are left nothing has replied yet but the ROM layer, and the
\* packet the memory handler may come to is whole.
ReplyInv ==
  /\ ~fault /\ outsize \in Nat
  /\ batch # <<>> => reply = None
  /\ batch # <<>> /\ cmd_state = "CMD_MEMORY" => Whole(batch[1], count)
  /\ batch # <<>> /\ cmd_state = "CMD_ROM" =>
       /\ Len(batch) \in {1, 2}
       /\ Len(batch) = 2 => Whole(batch[2], count)
  /\ batch = <<>> /\ reply # None => outsize >= count

LEMMA OneOrTwo ==
  ASSUME NEW bt \in Seq(Packets), Len(bt) \in {1, 2}
  PROVE  /\ bt # <<>> /\ 1 \in 1 .. Len(bt)
         /\ Len(bt) = 2 => 2 \in 1 .. Len(bt) /\ Tail(bt)[1] = bt[2]
         /\ Tail(bt) # <<>> => Len(bt) = 2
<1>1. bt # <<>> /\ 1 \in 1 .. Len(bt) /\ (Len(bt) = 2 => 2 \in 1 .. Len(bt))
  OBVIOUS
<1> DEFINE t == Tail(bt)
<1>2. /\ t \in Seq(Packets) /\ Len(t) = Len(bt) - 1
      /\ \A k \in 1 .. Len(t) : t[k] = bt[k + 1]
  BY <1>1, HeadTailProperties, Zenon
<1> HIDE DEF t
<1>3. ASSUME Len(bt) = 2 PROVE t[1] = bt[2]
  <2>1. 1 \in 1 .. Len(t) /\ 1 + 1 = 2
    BY <1>2, <1>3
  <2> QED
    BY <1>2, <2>1
<1>4. ASSUME Len(bt) = 1 PROVE t = <<>>
  <2>1. Len(t) = 0
    BY <1>2, <1>4
  <2> QED
    BY <1>2, <2>1
<1> QED
  BY <1>1, <1>3, <1>4 DEF t

LEMMA WholeGrows ==
  ASSUME NEW c, NEW m \in Nat, NEW n \in Nat, m <= n, Whole(c, m)
  PROVE  Whole(c, n)
  BY Sizes DEF Whole

LEMMA PacketSize ==
  ASSUME NEW c \in Packets
  PROVE  c.size \in Nat
  BY DEF Packets

\* The size of a batch covers each of its packets.
LEMMA CallWhole ==
  ASSUME SentWhole, TypeOK, ReplyInv, Call
  PROVE  ReplyInv'
<1>1. PICK bt : bt \in Batches[cmd_state] /\ batch' = bt /\ count' = Size(bt)
  BY DEF Call
<1>2. /\ ~fault' /\ outsize' = 0 /\ reply' = None /\ cmd_state' = cmd_state
      /\ cmd_state \in {"CMD_ROM", "CMD_MEMORY"}
  BY DEF Call, ReplyInv, TypeOK
<1>3. bt \in Seq(Packets) /\ Len(bt) \in {1, 2}
  BY <1>1, <1>2, ButtonAssumption
<1>4. ASSUME NEW k \in 1 .. Len(bt) PROVE bt[k].size \in Nat
  <2>1. bt[k] \in Packets
    BY <1>3, <1>4
  <2> QED
    BY <2>1, PacketSize
<1>5. \A k \in 1 .. Len(bt) : Size(bt) \in Nat /\ bt[k].size <= Size(bt)
  BY <1>3, <1>4 DEF Size
<1>6. cmd_state = "CMD_MEMORY" => Whole(bt[1], Size(bt))
  <2>1. 1 \in 1 .. Len(bt)
    BY <1>3, OneOrTwo
  <2> QED
    BY <1>1, <1>4, <1>5, <2>1, WholeGrows DEF SentWhole
<1>7. cmd_state = "CMD_ROM" /\ Len(bt) = 2 => Whole(bt[2], Size(bt))
  <2>1. Len(bt) = 2 => 2 \in 1 .. Len(bt)
    BY <1>3, OneOrTwo
  <2> QED
    BY <1>1, <1>4, <1>5, <2>1, WholeGrows DEF SentWhole
<1>8. bt # <<>>
  BY <1>3, OneOrTwo
<1>9. /\ batch' # <<>> /\ Len(batch') \in {1, 2}
      /\ cmd_state' = "CMD_MEMORY" => Whole(batch'[1], count')
      /\ cmd_state' = "CMD_ROM" /\ Len(batch') = 2 => Whole(batch'[2], count')
  BY <1>1, <1>2, <1>3, <1>6, <1>7, <1>8
<1> QED
  BY <1>2, <1>9 DEF ReplyInv

\* A ROM command leaves the memory handler the second packet, or nothing.
LEMMA RomWhole ==
  ASSUME TypeOK, ReplyInv, SkipRom \/ MatchRom \/ OtherRom
  PROVE  ReplyInv'
<1>1. /\ batch # <<>> /\ cmd_state = "CMD_ROM" /\ cmd_state' = "CMD_MEMORY"
      /\ batch' = Tail(batch) \/ batch' = <<>>
      /\ count' = count /\ reply' = reply /\ ~fault'
  BY DEF SkipRom, MatchRom, OtherRom, InRom, RomDone
<1>2. outsize' \in Nat
  BY DEF SkipRom, MatchRom, OtherRom, RomDone, ReplyInv, TypeOK
<1>3. reply = None
  BY <1>1 DEF ReplyInv
<1>4. batch' # <<>> => Whole(batch'[1], count')
  <2>1. SUFFICES ASSUME batch' # <<>> PROVE Whole(batch'[1], count')
    OBVIOUS
  <2>2. batch \in Seq(Packets) /\ Len(batch) \in {1, 2} /\ Tail(batch) # <<>>
    BY <1>1, <2>1 DEF ReplyInv, TypeOK
  <2>3. Len(batch) = 2 /\ batch'[1] = batch[2]
    BY <1>1, <2>1, <2>2, OneOrTwo
  <2> QED
    BY <1>1, <2>3 DEF ReplyInv
<1> QED
  BY <1>1, <1>2, <1>3, <1>4 DEF ReplyInv

\* A handler that reports the whole batch, and counts off no more than it has.
LEMMA MemoryReplies ==
  ASSUME TypeOK, ReplyInv, NEW used \in Nat, NEW n \in Int,
         count >= used, n >= count, MemoryDone(n, used)
  PROVE  ReplyInv'
<1>1. count \in Nat /\ outsize \in Nat
  BY DEF TypeOK, ReplyInv
<1>2. /\ outsize' = outsize + n /\ count' = count /\ batch' = <<>>
      /\ fault' = (count < used)
  BY DEF MemoryDone
<1>4. ~(count < used)
  BY <1>1
<1>3. ~fault'
  BY <1>2, <1>4, Zenon
<1> QED
  BY <1>1, <1>2, <1>3 DEF ReplyInv

LEMMA ReplyStep ==
  ASSUME SentWhole, ButtonInv, ReplyInv, [Next]_vars
  PROVE  ReplyInv'
<1>0. TypeOK /\ count \in Nat /\ PageSize \in Nat
  BY Sizes DEF ButtonInv, TypeOK
<1>1. ASSUME NEW op, InMemory(op)
      PROVE  cmd.op = op /\ Whole(cmd, count)
  <2>1. batch # <<>> /\ cmd = batch[1] /\ cmd.op = op
    BY <1>0, <1>1 DEF InMemory, cmd, TypeOK
  <2> QED
    BY <1>1, <2>1 DEF InMemory, ReplyInv
<1>2. CASE Call
  BY <1>0, <1>2, CallWhole
<1>3. CASE ResetPulse
  BY <1>3 DEF ResetPulse, loop, ReplyInv
<1>4. CASE SkipRom \/ MatchRom \/ OtherRom
  BY <1>0, <1>4, RomWhole
<1>5. CASE ReadScratchpad
  <2>1. MemoryDone(count, PageSize + 6) /\ InMemory("AA")
    BY <1>5 DEF ReadScratchpad
  <2>2. count >= PageSize + 6 /\ PageSize + 6 \in Nat
    BY <1>0, <1>1, <2>1 DEF Whole
  <2> QED
    BY <1>0, <2>1, <2>2, MemoryReplies
<1>6. CASE WriteScratchpad
  <2>1. MemoryDone(count, 0)
    BY <1>6 DEF WriteScratchpad
  <2> QED
    BY <1>0, <2>1, MemoryReplies
<1>7. CASE EraseScratchpad
  <2>1. MemoryDone(count, 3) /\ InMemory("C3")
    BY <1>7 DEF EraseScratchpad
  <2>2. count >= 3
    BY <1>1, <2>1 DEF Whole
  <2> QED
    BY <1>0, <2>1, <2>2, MemoryReplies
<1>8. CASE CopyScratchpad
  <2>1. MemoryDone(count, 4) /\ InMemory("55")
    BY <1>8 DEF CopyScratchpad
  <2>2. count >= 4
    BY <1>1, <2>1 DEF Whole
  <2> QED
    BY <1>0, <2>1, <2>2, MemoryReplies
<1>9. CASE ReadAuthPage
  <2>1. MemoryDone(count, PageSize + 13) /\ InMemory("A5")
    BY <1>9 DEF ReadAuthPage
  <2>2. count >= PageSize + 13 /\ PageSize + 13 \in Nat
    BY <1>0, <1>1, <2>1 DEF Whole
  <2> QED
    BY <1>0, <2>1, <2>2, MemoryReplies
<1>10. CASE ComputeSHA
  <2> DEFINE n == IF cmd.sub = "C3" THEN count ELSE 2 * count - 3
  <2>1. MemoryDone(n, 6) /\ InMemory("33")
    BY <1>10 DEF ComputeSHA
  <2>2. count >= 6
    BY <1>1, <2>1 DEF Whole
  <2>3. n \in Int /\ n >= count
    BY <1>0, <2>2
  <2> QED
    BY <1>0, <2>1, <2>2, <2>3, MemoryReplies
<1>11. CASE OtherMemory
  <2>1. MemoryDone(0, 0) /\ reply' = None
    BY <1>11 DEF OtherMemory
  <2>2. batch' = <<>> /\ outsize' = outsize + 0 /\ fault' = (count < 0)
    BY <2>1 DEF MemoryDone
  <2>4. ~(count < 0)
    BY <1>0
  <2>3. ~fault'
    BY <2>2, <2>4, Zenon
  <2> QED
    BY <2>1, <2>2, <2>3 DEF ReplyInv
<1>12. CASE UNCHANGED vars
  BY <1>12 DEF vars, loop, ReplyInv
<1> QED
  BY <1>2, <1>3, <1>4, <1>5, <1>6, <1>7, <1>8, <1>9, <1>10, <1>11, <1>12 DEF Next

\* For a host whose memory commands come whole, in one batch each, no handler
\* fills a negative number of bytes, and every memory command the button knows
\* is answered with at least the bytes of its batch (ds1963s.c:108-371).
THEOREM ButtonEnoughReply ==
  ASSUME SentWhole
  PROVE  Spec => []EnoughReply
<1>1. Init => ReplyInv
  BY DEF Init, ReplyInv
<1>2. ReplyInv /\ ButtonInv /\ [Next]_vars => ReplyInv'
  BY ReplyStep
<1>3. ReplyInv => EnoughReply
  BY DEF ReplyInv, EnoughReply
<1> QED
  BY <1>1, <1>2, <1>3, ButtonAlways, PTL DEF Spec

----------------------------------------------------------------------------
(* The functions of the SDK: packets, blocks and what a call may send. *)

\* What the functions put into packets and blocks.
Codes  == {"F0", "A5", "C3", "0F", "AA", "55", "3C", "33"}
Subs   == {"", "CC", "C3", "F0", "0F", "3C"}
Checks == {"any", "completion", "crc", "sign", "page", "verify", "copied"}

AnyPackets == [op : Codes, addr : Nat, aa : BOOLEAN, off : Nat, value : Nat,
               sub : Subs, size : Int]
AnyBlocks  == [reset : BOOLEAN, batch : Seq(AnyPackets), check : Checks,
               failed : {"FALSE", "TRUE"}]

\* No copy to a page.
Harmless == {x \in AnyPackets : x.op = "55" => x.addr >= NvSize}

CopyPacket(p) == [Packet("55", 6) EXCEPT !.addr = Page(p), !.off = PageSize - 1]
CopyBlock(p)  == Block(TRUE, <<Resume, CopyPacket(p)>>, "copied")
ReadPacket    == Packet("AA", PageSize + 6)
VerifyBlock   == Block(TRUE, <<Resume, ReadPacket>>, "verify")

\* A call copies only to its page, and only if it is one that writes.
Fit(t, c) ==
  /\ t.check = "copied" => t = CopyBlock(c.page) /\ Writes(c)
  /\ t.check = "verify" => t = VerifyBlock
  /\ t.check # "copied" => t.batch \in Seq(Harmless)

\* Right before a copy what is to be copied is read back.
Follows(s) ==
  \A n \in 2 .. Len(s) : s[n].check = "copied" => s[n - 1].check = "verify"

Lawful(s, c) ==
  /\ s \in Seq(AnyBlocks) /\ Len(s) >= 1
  /\ \A n \in 1 .. Len(s) : Fit(s[n], c)
  /\ Follows(s)

\* A whole function does not begin with a copy.
Proper(s, c) == Lawful(s, c) /\ s[1].check # "copied"

----------------------------------------------------------------------------
(* Functions as sequences of exchanges. *)

LEMMA Joined ==
  ASSUME NEW c, NEW s, NEW t, Lawful(s, c), Proper(t, c)
  PROVE  Lawful(s \o t, c) /\ (s \o t)[1] = s[1]
<1> DEFINE u == s \o t
<1>1. /\ s \in Seq(AnyBlocks) /\ t \in Seq(AnyBlocks) /\ Len(s) >= 1 /\ Len(t) >= 1
      /\ Len(s) \in Nat /\ Len(t) \in Nat
  BY DEF Lawful, Proper
<1>2. /\ u \in Seq(AnyBlocks) /\ Len(u) = Len(s) + Len(t)
      /\ \A n \in 1 .. Len(s) : u[n] = s[n]
      /\ \A n \in Len(s) + 1 .. Len(u) : u[n] = t[n - Len(s)]
  BY <1>1
<1>3. ASSUME NEW n \in 1 .. Len(u) PROVE Fit(u[n], c)
  <2>1. CASE n <= Len(s)
    BY <1>1, <1>2, <2>1 DEF Lawful
  <2>2. CASE n > Len(s)
    <3>1. n - Len(s) \in 1 .. Len(t) /\ u[n] = t[n - Len(s)]
      BY <1>1, <1>2, <2>2
    <3> QED
      BY <3>1 DEF Lawful, Proper
  <2> QED
    BY <1>1, <1>2, <2>1, <2>2
<1>4. ASSUME NEW n \in 2 .. Len(u), u[n].check = "copied"
      PROVE  u[n - 1].check = "verify"
  <2>1. CASE n <= Len(s)
    BY <1>1, <1>2, <1>4, <2>1 DEF Lawful, Follows
  <2>2. CASE n = Len(s) + 1
    BY <1>1, <1>2, <1>4, <2>2 DEF Proper
  <2>3. CASE n > Len(s) + 1
    <3>1. n - Len(s) \in 2 .. Len(t) /\ u[n] = t[n - Len(s)]
          /\ u[n - 1] = t[(n - Len(s)) - 1]
      BY <1>1, <1>2, <2>3
    <3> QED
      BY <3>1, <1>4 DEF Lawful, Proper, Follows
  <2> QED
    BY <1>1, <1>2, <2>1, <2>2, <2>3
<1>5. Follows(u)
  BY <1>4 DEF Follows
<1> QED
  BY <1>1, <1>2, <1>3, <1>5 DEF Lawful

LEMMA JoinedProper ==
  ASSUME NEW c, NEW s, NEW t, Proper(s, c), Proper(t, c)
  PROVE  Proper(s \o t, c)
BY Joined DEF Proper

\* A block that neither reads back nor copies.
LEMMA OneBlock ==
  ASSUME NEW c, NEW t \in AnyBlocks, t.check \notin {"copied", "verify"},
         t.batch \in Seq(Harmless)
  PROVE  Proper(<<t>>, c)
<1>1. <<t>> \in Seq(AnyBlocks) /\ Len(<<t>>) = 1 /\ <<t>>[1] = t
  OBVIOUS
<1> QED
  BY <1>1 DEF Proper, Lawful, Fit, Follows

LEMMA Two ==
  ASSUME NEW a, NEW b
  PROVE  <<a>> \o <<b>> = <<a, b>>
<1> DEFINE S == {a, b}
           u == <<a>> \o <<b>>
           w == <<a, b>>
<1>1. a \in S /\ b \in S
  OBVIOUS
<1> HIDE DEF S
<1>2. <<a>> \in Seq(S) /\ <<b>> \in Seq(S)
  BY <1>1
<1>3. u \in Seq(S) /\ Len(u) = 2 /\ u[1] = a /\ u[2] = b
  BY <1>2
<1>4. w \in Seq(S) /\ Len(w) = 2 /\ w[1] = a /\ w[2] = b
  BY <1>1
<1> HIDE DEF u, w
<1>5. \A n \in 1 .. Len(u) : u[n] = w[n]
  BY <1>3, <1>4
<1>6. u = w
  BY <1>3, <1>4, <1>5
<1> QED
  BY <1>6 DEF u, w

LEMMA PageAddress ==
  ASSUME NEW p \in Nat
  PROVE  Page(p) \in Nat
BY Sizes DEF Page

LEMMA PacketType ==
  ASSUME NEW op \in Codes, NEW n \in Int
  PROVE  /\ Packet(op, n) \in AnyPackets
         /\ Packet(op, n).op = op
<1>1. (CHOOSE v \in Values : TRUE) \in Nat
  BY ShaAssumption
<1> QED
  BY <1>1 DEF Packet, AnyPackets, Codes, Subs

LEMMA ResumeType == Resume \in Harmless /\ Resume.op = "A5"
BY PacketType DEF Resume, Harmless, Codes

LEMMA VerifyType ==
  /\ VerifyBlock \in AnyBlocks /\ VerifyBlock.check = "verify" /\ VerifyBlock.reset
  /\ VerifyBlock.batch = <<Resume, ReadPacket>>
  /\ ReadPacket \in Harmless /\ ReadPacket.op = "AA"
<1>1. ReadPacket \in Harmless /\ ReadPacket.op = "AA"
  BY PacketType, Sizes DEF ReadPacket, Harmless, Codes
<1> QED
  BY <1>1, ResumeType DEF VerifyBlock, Block, AnyBlocks, Harmless, Checks

LEMMA AddressedType ==
  ASSUME NEW op \in Codes, NEW n \in Int, NEW a \in Nat
  PROVE  LET x == [Packet(op, n) EXCEPT !.addr = a]
         IN  x \in AnyPackets /\ x.op = op /\ x.addr = a
<1>1. (CHOOSE v \in Values : TRUE) \in Nat
  BY ShaAssumption
<1> QED
  BY <1>1 DEF Packet, AnyPackets, Codes, Subs

\* An address and a value, subfunction or offset put into a packet.
LEMMA FilledValue ==
  ASSUME NEW r \in AnyPackets, NEW a \in Nat, NEW v \in Nat
  PROVE  LET x == [r EXCEPT !.addr = a, !.value = v]
         IN  x \in AnyPackets /\ x.op = r.op /\ x.addr = a
<1> DEFINE q == [r EXCEPT !.addr = a]
<1>1. q \in AnyPackets /\ q.op = r.op /\ q.addr = a
  BY DEF AnyPackets
<1> HIDE DEF q
<1> DEFINE x == [q EXCEPT !.value = v]
<1>2. x \in AnyPackets /\ x.op = r.op /\ x.addr = a
  BY <1>1 DEF AnyPackets
<1> QED
  BY <1>2 DEF q

LEMMA FilledSub ==
  ASSUME NEW r \in AnyPackets, NEW a \in Nat, NEW v \in Subs
  PROVE  LET x == [r EXCEPT !.addr = a, !.sub = v]
         IN  x \in AnyPackets /\ x.op = r.op /\ x.addr = a
<1> DEFINE q == [r EXCEPT !.addr = a]
<1>1. q \in AnyPackets /\ q.op = r.op /\ q.addr = a
  BY DEF AnyPackets
<1> HIDE DEF q
<1> DEFINE x == [q EXCEPT !.sub = v]
<1>2. x \in AnyPackets /\ x.op = r.op /\ x.addr = a
  BY <1>1 DEF AnyPackets
<1> QED
  BY <1>2 DEF q

WithOffset(r, a, v) == [r EXCEPT !.addr = a, !.off = v]

LEMMA FilledOff ==
  ASSUME NEW r \in AnyPackets, NEW a \in Nat, NEW v \in Nat
  PROVE  LET x == WithOffset(r, a, v)
         IN  x \in AnyPackets /\ x.op = r.op /\ x.addr = a /\ x.off = v
<1> DEFINE q == [r EXCEPT !.addr = a]
<1>1. q \in AnyPackets /\ q.op = r.op /\ q.addr = a
  BY DEF AnyPackets
<1> HIDE DEF q
<1> DEFINE x == [q EXCEPT !.off = v]
<1>2. x \in AnyPackets /\ x.op = r.op /\ x.addr = a /\ x.off = v
  BY <1>1 DEF AnyPackets
<1> QED
  BY <1>2 DEF q, WithOffset

LEMMA CopyType ==
  ASSUME NEW p \in Nat
  PROVE  /\ CopyBlock(p) \in AnyBlocks /\ CopyBlock(p).check = "copied"
         /\ CopyBlock(p).reset
         /\ CopyBlock(p).batch = <<Resume, CopyPacket(p)>>
         /\ CopyPacket(p).op = "55" /\ CopyPacket(p).addr = Page(p)
         /\ CopyPacket(p).off = PageSize - 1
<1>1. Page(p) \in Nat /\ PageSize - 1 \in Nat
  BY PageAddress, Sizes
<1>2. /\ CopyPacket(p) \in AnyPackets
      /\ CopyPacket(p).op = "55" /\ CopyPacket(p).addr = Page(p)
      /\ CopyPacket(p).off = PageSize - 1
  <2> DEFINE r == Packet("55", 6)
  <2>1. r \in AnyPackets /\ r.op = "55"
    BY PacketType DEF Codes
  <2> DEFINE a == Page(p)
             o == PageSize - 1
             x == WithOffset(r, a, o)
  <2> HIDE DEF r
  <2>2. x \in AnyPackets /\ x.op = "55" /\ x.addr = Page(p) /\ x.off = PageSize - 1
    <3>1. a \in Nat /\ o \in Nat
      BY <1>1
    <3> HIDE DEF a, o
    <3>2. x \in AnyPackets /\ x.op = r.op /\ x.addr = a /\ x.off = o
      BY <2>1, <3>1, FilledOff
    <3> QED
      BY <2>1, <3>2 DEF a, o
  <2>3. CopyPacket(p) = x
    BY DEF r, CopyPacket, WithOffset
  <2> QED
    BY <2>2, <2>3
<1> QED
  BY <1>2, ResumeType DEF CopyBlock, Block, AnyBlocks, Harmless, Checks

\* A read-back and the copy behind it.
LEMMA ThenCopied ==
  ASSUME NEW c, c.page \in Nat, Writes(c), NEW s, Proper(s, c)
  PROVE  Proper((s \o <<VerifyBlock>>) \o <<CopyBlock(c.page)>>, c)
<1> DEFINE v == <<VerifyBlock>>
           d == CopyBlock(c.page)
           r == s \o v
           u == r \o <<d>>
<1>1. VerifyBlock.batch \in Seq(Harmless)
  BY VerifyType, ResumeType
<1>2. v \in Seq(AnyBlocks) /\ Len(v) = 1 /\ v[1] = VerifyBlock
  BY VerifyType
<1>3. Proper(v, c)
  <2>1. Fit(VerifyBlock, c) /\ VerifyBlock.check # "copied"
    BY <1>1, VerifyType DEF Fit
  <2> HIDE DEF v
  <2>2. \A n \in 1 .. Len(v) : v[n] = VerifyBlock
    BY <1>2
  <2> QED
    BY <1>2, <2>1, <2>2 DEF Proper, Lawful, Follows
<1>4. Proper(r, c)
  BY <1>3, JoinedProper
<1>5. r[Len(r)].check = "verify" /\ r \in Seq(AnyBlocks) /\ Len(r) \in Nat /\ Len(r) >= 1
  <2>1. s \in Seq(AnyBlocks) /\ Len(s) \in Nat
    BY DEF Proper, Lawful
  <2>2. Len(r) = Len(s) + 1 /\ r[Len(s) + 1] = VerifyBlock
    BY <2>1, <1>2
  <2> QED
    BY <2>1, <2>2, <1>4, VerifyType DEF Proper, Lawful
<1>6. d \in AnyBlocks /\ d.check = "copied" /\ Fit(d, c)
  BY CopyType DEF Fit
<1> HIDE DEF r, d
<1>7. /\ u \in Seq(AnyBlocks) /\ Len(u) = Len(r) + 1 /\ u[Len(r) + 1] = d
      /\ \A n \in 1 .. Len(r) : u[n] = r[n]
  BY <1>5, <1>6
<1>8. ASSUME NEW n \in 1 .. Len(u) PROVE Fit(u[n], c)
  <2>1. CASE n = Len(r) + 1
    BY <1>6, <1>7, <2>1
  <2>2. CASE n # Len(r) + 1
    BY <1>4, <1>5, <1>7, <2>2 DEF Proper, Lawful
  <2> QED
    BY <2>1, <2>2
<1>9. ASSUME NEW n \in 2 .. Len(u), u[n].check = "copied" PROVE u[n - 1].check = "verify"
  <2>1. CASE n = Len(r) + 1
    BY <1>5, <1>7, <2>1
  <2>2. CASE n # Len(r) + 1
    BY <1>4, <1>5, <1>7, <1>9, <2>2 DEF Proper, Lawful, Follows
  <2> QED
    BY <2>1, <2>2
<1>10. Follows(u)
  BY <1>9 DEF Follows
<1>11. Proper(u, c)
  BY <1>4, <1>5, <1>7, <1>8, <1>10 DEF Proper, Lawful
<1> QED
  BY <1>11 DEF r, d

LEMMA SelectType ==
  Select \in AnyBlocks /\ Select.check = "any" /\ Select.batch \in Seq(Harmless)
<1>1. Packet("F0", 25) \in Harmless
  BY PacketType DEF Harmless, Codes
<1> QED
  BY <1>1 DEF Select, Block, AnyBlocks, Harmless, Checks

LEMMA SelectProper ==
  ASSUME NEW c
  PROVE  Proper(<<Select>>, c)
BY SelectType, OneBlock

\* A packet that is not a copy to a page, behind a Resume or a select.
LEMMA SelectedProper ==
  ASSUME NEW c, NEW resume \in BOOLEAN, NEW x \in Harmless,
         NEW check \in Checks, check \notin {"copied", "verify"}
  PROVE  Proper(Selected(resume, x, check), c)
<1> DEFINE behind == Block(TRUE, <<Resume, x>>, check)
           alone  == Block(FALSE, <<x>>, check)
<1>1. /\ behind \in AnyBlocks /\ behind.check = check /\ behind.batch \in Seq(Harmless)
      /\ alone \in AnyBlocks /\ alone.check = check /\ alone.batch \in Seq(Harmless)
  BY ResumeType DEF Block, AnyBlocks, Harmless
<1>2. Proper(<<behind>>, c) /\ Proper(<<alone>>, c)
  BY <1>1, OneBlock
<1>3. Proper(<<Select>> \o <<alone>>, c)
  BY <1>2, SelectProper, JoinedProper
<1>4. <<Select>> \o <<alone>> = <<Select, alone>>
  BY Two
<1> QED
  BY <1>2, <1>3, <1>4 DEF Selected

LEMMA NoCopy ==
  ASSUME NEW x \in AnyPackets, x.op # "55" \/ x.addr >= NvSize
  PROVE  x \in Harmless
BY DEF Harmless

LEMMA EraseProper ==
  ASSUME NEW c, NEW p \in Nat, NEW resume \in BOOLEAN
  PROVE  Proper(EraseScratchpadSHA18(p, resume), c)
<1> DEFINE x == [Packet("C3", 5) EXCEPT !.addr = Page(p)]
<1>1. x \in Harmless
  <2>1. x \in AnyPackets /\ x.op = "C3"
    BY PageAddress, AddressedType DEF Codes
  <2> HIDE DEF x
  <2> QED
    BY <2>1, NoCopy
<1> QED
  BY <1>1, SelectedProper DEF EraseScratchpadSHA18, Checks

LEMMA WriteProper ==
  ASSUME NEW c, NEW a \in Nat, NEW v \in Nat, NEW resume \in BOOLEAN
  PROVE  Proper(WriteScratchpadSHA18(a, v, resume), c)
<1> DEFINE x == [Packet("0F", PageSize + 5) EXCEPT !.addr = a, !.value = v]
<1>1. x \in Harmless
  <2> DEFINE r == Packet("0F", PageSize + 5)
  <2>1. r \in AnyPackets /\ r.op = "0F"
    BY Sizes, PacketType DEF Codes
  <2> HIDE DEF r
  <2>2. [r EXCEPT !.addr = a, !.value = v] \in AnyPackets
        /\ [r EXCEPT !.addr = a, !.value = v].op = "0F"
    BY <2>1, FilledValue
  <2>3. x \in AnyPackets /\ x.op = "0F"
    BY <2>2 DEF r
  <2> HIDE DEF x
  <2> QED
    BY <2>3, NoCopy
<1> QED
  BY <1>1, SelectedProper DEF WriteScratchpadSHA18, Checks

LEMMA SHAFunctionProper ==
  ASSUME NEW c, NEW p \in Nat, NEW sub \in Subs, NEW resume \in BOOLEAN
  PROVE  Proper(SHAFunction18(p, sub, resume), c)
<1> DEFINE x == [Packet("33", 8) EXCEPT !.addr = Page(p), !.sub = sub]
<1>1. x \in Harmless
  <2> DEFINE r == Packet("33", 8)
  <2>1. r \in AnyPackets /\ r.op = "33" /\ Page(p) \in Nat
    BY PageAddress, PacketType DEF Codes
  <2> HIDE DEF r
  <2>2. [r EXCEPT !.addr = Page(p), !.sub = sub] \in AnyPackets
        /\ [r EXCEPT !.addr = Page(p), !.sub = sub].op = "33"
    BY <2>1, FilledSub
  <2>3. x \in AnyPackets /\ x.op = "33"
    BY <2>2 DEF r
  <2> HIDE DEF x
  <2> QED
    BY <2>3, NoCopy
<1> QED
  BY <1>1, SelectedProper DEF SHAFunction18, Checks

LEMMA ReadSignProper ==
  ASSUME NEW c
  PROVE  Proper(ReadScratchpadSHA18("sign", TRUE), c)
BY VerifyType, SelectedProper DEF ReadScratchpadSHA18, ReadPacket, Checks

LEMMA MatchProper ==
  ASSUME NEW c
  PROVE  Proper(MatchScratchpadSHA18, c)
<1>1. Packet("3C", 24) \in Harmless
  BY PacketType DEF Harmless, Codes
<1> QED
  BY <1>1, SelectedProper DEF MatchScratchpadSHA18, Checks

LEMMA CopySecretProper ==
  ASSUME NEW c
  PROVE  Proper(CopySecretSHA18, c)
<1> DEFINE v == CHOOSE v \in Values : TRUE
           x == [Packet("55", 6) EXCEPT !.addr = NvSize, !.off = PageSize - 1]
           b == Block(TRUE, <<Resume, Packet("AA", 4)>>, "any")
<1>1. v \in Nat
  BY ShaAssumption
<1>2. Proper(WriteScratchpadSHA18(NvSize, v, TRUE), c)
  BY <1>1, Sizes, WriteProper
<1>3. Proper(<<b>>, c)
  <2>1. Packet("AA", 4) \in Harmless
    BY PacketType DEF Harmless, Codes
  <2>2. b \in AnyBlocks /\ b.check = "any" /\ b.batch \in Seq(Harmless)
    BY <2>1, ResumeType DEF Block, AnyBlocks, Checks, Harmless
  <2> QED
    BY <2>2, OneBlock
<1>4. x \in Harmless
  <2>1. NvSize \in Nat /\ PageSize - 1 \in Nat
    BY Sizes
  <2>2. Packet("55", 6) \in AnyPackets
    BY PacketType DEF Codes
  <2> DEFINE r == Packet("55", 6)
  <2>3. x \in AnyPackets /\ x.addr = NvSize
    <3>1. x = WithOffset(r, NvSize, PageSize - 1)
      BY DEF WithOffset
    <3> HIDE DEF x, r
    <3> QED
      BY <2>1, <2>2, <3>1, FilledOff DEF r
  <2> HIDE DEF x
  <2> QED
    BY <2>1, <2>3, NoCopy
<1>5. Proper(Selected(TRUE, x, "completion"), c)
  BY <1>4, SelectedProper DEF Checks
<1> QED
  BY <1>2, <1>3, <1>5, JoinedProper DEF CopySecretSHA18

LEMMA WriteDataPageProper ==
  ASSUME NEW c, NEW resume \in BOOLEAN, c.page \in Nat, c.value \in Nat, Writes(c)
  PROVE  Proper(WriteDataPageSHA18(c.page, c.value, resume), c)
<1> DEFINE s == EraseScratchpadSHA18(c.page, resume)
                  \o WriteScratchpadSHA18(Page(c.page), c.value, TRUE)
<1>1. Proper(s, c)
  BY PageAddress, EraseProper, WriteProper, JoinedProper
<1>2. /\ ReadScratchpadSHA18("verify", TRUE) = <<VerifyBlock>>
      /\ CopyScratchpadSHA18(c.page, TRUE) = <<CopyBlock(c.page)>>
  BY DEF ReadScratchpadSHA18, CopyScratchpadSHA18, Selected, VerifyBlock, ReadPacket,
         CopyBlock, CopyPacket
<1> HIDE DEF s
<1>3. WriteDataPageSHA18(c.page, c.value, resume)
        = (s \o <<VerifyBlock>>) \o <<CopyBlock(c.page)>>
  BY <1>2 DEF s, WriteDataPageSHA18
<1> QED
  BY <1>1, <1>3, ThenCopied

LEMMA InstallSecretProper ==
  ASSUME NEW c, NEW resume \in BOOLEAN, NEW sub \in Subs,
         c.page \in Nat, c.value \in Nat, Writes(c)
  PROVE  Proper(InstallSecret(c.page, c.value, sub, resume), c)
<1>1. Proper(WriteDataPageSHA18(c.page, c.value, resume), c)
  BY WriteDataPageProper
<1>2. Proper(WriteScratchpadSHA18(Page(c.page), c.value, TRUE), c)
  BY PageAddress, WriteProper
<1>3. Proper(SHAFunction18(c.page, sub, TRUE), c)
  BY SHAFunctionProper
<1> QED
  BY <1>1, <1>2, <1>3, CopySecretProper, JoinedProper DEF InstallSecret

LEMMA ReadAuthPageProper ==
  ASSUME NEW c, NEW p \in Nat
  PROVE  Proper(ReadAuthPageSHA18(p, TRUE), c)
<1> DEFINE x == [Packet("A5", PageSize + 15) EXCEPT !.addr = Page(p)]
           r == Block(TRUE, <<Resume, ReadPacket>>, "sign")
           b == [r EXCEPT !.failed = "TRUE"]
<1>1. x \in Harmless
  <2>1. x \in AnyPackets /\ x.op = "A5"
    BY Sizes, PageAddress, AddressedType DEF Codes
  <2> HIDE DEF x
  <2> QED
    BY <2>1, NoCopy
<1>2. Proper(Selected(TRUE, x, "page"), c)
  BY <1>1, SelectedProper DEF Checks
<1>3. r \in AnyBlocks /\ r.check = "sign" /\ r.batch \in Seq(Harmless)
  BY ResumeType, VerifyType DEF Block, AnyBlocks, Checks, Harmless
<1>4. b \in AnyBlocks /\ b.check = "sign" /\ b.batch \in Seq(Harmless)
  <2> HIDE DEF r
  <2> QED
    BY <1>3 DEF AnyBlocks
<1>5. Proper(<<b>>, c)
  BY <1>4, OneBlock
<1> QED
  BY <1>2, <1>5, JoinedProper DEF ReadAuthPageSHA18, ReadPacket

LEMMA ReadMemoryPageProper ==
  ASSUME NEW c, NEW p \in Nat, NEW resume \in BOOLEAN
  PROVE  Proper(ReadMemoryPageSHA18(p, resume), c)
<1> DEFINE x == [Packet("F0", PageSize + 3) EXCEPT !.addr = Page(p)]
           behind == Block(TRUE, <<Resume, x>>, "any")
           alone  == Block(TRUE, <<x>>, "any")
           first  == [Select EXCEPT !.failed = "TRUE"]
<1>1. x \in Harmless
  <2>1. x \in AnyPackets /\ x.op = "F0"
    BY Sizes, PageAddress, AddressedType DEF Codes
  <2> HIDE DEF x
  <2> QED
    BY <2>1, NoCopy
<1>2. /\ behind \in AnyBlocks /\ behind.check = "any" /\ behind.batch \in Seq(Harmless)
      /\ alone \in AnyBlocks /\ alone.check = "any" /\ alone.batch \in Seq(Harmless)
  BY <1>1, ResumeType DEF Block, AnyBlocks, Checks, Harmless
<1>3. first \in AnyBlocks /\ first.check = "any" /\ first.batch \in Seq(Harmless)
  BY SelectType DEF AnyBlocks
<1>4. Proper(<<behind>>, c) /\ Proper(<<alone>>, c) /\ Proper(<<first>>, c)
  BY <1>2, <1>3, OneBlock
<1>5. Proper(<<first>> \o <<alone>>, c)
  BY <1>4, JoinedProper
<1>6. <<first>> \o <<alone>> = <<first, alone>>
  BY Two
<1> QED
  BY <1>4, <1>5, <1>6 DEF ReadMemoryPageSHA18

LEMMA ChallengeProper ==
  ASSUME NEW c, NEW p \in Nat, NEW v \in Nat
  PROVE  Proper(CreateChallenge(p), c) /\ Proper(AnswerChallenge(p, v), c)
<1>1. /\ Proper(EraseScratchpadSHA18(p, FALSE), c)
      /\ Proper(SHAFunction18(p, "CC", TRUE), c)
      /\ Proper(WriteScratchpadSHA18(Page(p), v, TRUE), c)
  BY PageAddress, EraseProper, SHAFunctionProper, WriteProper DEF Subs
<1> QED
  BY <1>1, ReadSignProper, ReadAuthPageProper, JoinedProper DEF CreateChallenge, AnswerChallenge

LEMMA VerifyAuthResponseProper ==
  ASSUME NEW c, NEW doBind \in BOOLEAN, c.page \in Nat, c.value \in Nat, Writes(c)
  PROVE  Proper(VerifyAuthResponse(c.page, c.value, doBind), c)
<1> DEFINE w == WriteDataPageSHA18(c.page, c.value, doBind)
           b == InstallSecret(c.page, c.value, "F0", FALSE)
           r == WriteScratchpadSHA18(Page(c.page), c.value, TRUE)
           f == SHAFunction18(c.page, "3C", TRUE)
           m == MatchScratchpadSHA18
<1>1. Proper(w, c) /\ Proper(b, c) /\ Proper(r, c) /\ Proper(f, c) /\ Proper(m, c)
  BY PageAddress, WriteDataPageProper, InstallSecretProper, WriteProper,
     SHAFunctionProper, MatchProper DEF Subs
<1> HIDE DEF w, b, r, f, m
<1>2. w \in Seq(AnyBlocks)
  BY <1>1 DEF Proper, Lawful
<1>3. <<>> \o w = w
  BY <1>2
<1>4. Proper((IF doBind THEN b ELSE <<>>) \o w, c)
  BY <1>1, <1>3, JoinedProper
<1> HIDE DEF Proper
<1>5. Proper(((((IF doBind THEN b ELSE <<>>) \o w) \o r) \o f) \o m, c)
  BY <1>1, <1>4, JoinedProper
<1> QED
  BY <1>5 DEF w, b, r, f, m, VerifyAuthResponse

LEMMA CreateDataSignatureProper ==
  ASSUME NEW c, NEW readSignature \in BOOLEAN, c.page \in Nat, c.value \in Nat, Writes(c)
  PROVE  Proper(CreateDataSignature(c.page, c.value, readSignature), c)
<1>1. /\ Proper(WriteDataPageSHA18(c.page, c.value, FALSE), c)
      /\ Proper(WriteScratchpadSHA18(Page(c.page), c.value, TRUE), c)
      /\ Proper(SHAFunction18(c.page, "C3", TRUE), c)
  BY PageAddress, WriteDataPageProper, WriteProper, SHAFunctionProper DEF Subs
<1> QED
  BY <1>1, ReadSignProper, MatchProper, JoinedProper DEF CreateDataSignature

\* Every function is a sequence of exchanges that copies only what it has
\* read back, only to its page, and only if it is one that writes.
LEMMA Programs ==
  ASSUME NEW c \in Calls
  PROVE  /\ Proper(Program(c), c)
         /\ c.page \in 0 .. Pages - 1 /\ c.page \in Nat /\ c.value \in Nat
<1>1. /\ c.op \in Ops /\ c.page \in 0 .. Pages - 1 /\ c.value \in Values
      /\ c.flag \in BOOLEAN
  <2>1. c \in [op : Ops, page : 0 .. Pages - 1, value : Values, flag : BOOLEAN]
    BY ShaAssumption
  <2> QED
    BY <2>1
<1>2. c.page \in Nat /\ c.value \in Nat
  <2>1. Values \subseteq Nat
    BY ShaAssumption
  <2>2. c.value \in Nat
    BY <1>1, <2>1
  <2>3. c.page \in Nat
    BY <1>1, Sizes
  <2> QED
    BY <2>2, <2>3
<1>3. CASE c.op = "WriteDataPage"
  BY <1>1, <1>2, <1>3, WriteDataPageProper DEF Program, Writes
<1>4. CASE c.op = "ReadMemoryPage"
  BY <1>1, <1>2, <1>4, ReadMemoryPageProper DEF Program
<1>5. CASE c.op = "InstallSecret"
  BY <1>1, <1>2, <1>5, InstallSecretProper DEF Program, Writes, Subs
<1>6. CASE c.op = "CreateChallenge"
  BY <1>1, <1>2, <1>6, ChallengeProper DEF Program
<1>7. CASE c.op = "AnswerChallenge"
  BY <1>1, <1>2, <1>7, ChallengeProper DEF Program
<1>8. CASE c.op = "VerifyAuthResponse"
  BY <1>1, <1>2, <1>8, VerifyAuthResponseProper DEF Program, Writes
<1>9. CASE c.op = "CreateDataSignature"
  BY <1>1, <1>2, <1>9, CreateDataSignatureProper DEF Program, Writes
<1> QED
  BY <1>1, <1>2, <1>3, <1>4, <1>5, <1>6, <1>7, <1>8, <1>9 DEF Ops

----------------------------------------------------------------------------
(* Where the pages are. *)

LEMMA PageStart ==
  ASSUME NEW p \in Nat
  PROVE  Page(p) % PageSize = 0
<1> DEFINE a == p * PageSize
           q == a \div PageSize
           r == a % PageSize
<1>1. a \in Nat /\ q \in Nat /\ r \in 0 .. PageSize - 1 /\ a = PageSize * q + r
  BY Sizes
<1> HIDE DEF q, r
<1>2. PageSize * (p - q) = r
  BY <1>1, Sizes
<1>3. ASSUME p - q >= 1 PROVE FALSE
  BY <1>1, <1>2, <1>3, Sizes
<1>4. ASSUME p - q <= -1 PROVE FALSE
  BY <1>1, <1>2, <1>4, Sizes
<1>5. p = q
  BY <1>1, <1>3, <1>4
<1>6. r = 0
  BY <1>1, <1>2, <1>5, Sizes
<1> QED
  BY <1>6 DEF r, Page

LEMMA PageCells ==
  ASSUME NEW p \in 0 .. Pages - 1, NEW k \in 0 .. PageSize - 1
  PROVE  Page(p) + k \in 0 .. NvSize - 1 /\ Page(p) \in Nat
<1>1. p \in Nat /\ p + 1 <= Pages
  BY Sizes
<1>2. (p + 1) * PageSize <= Pages * PageSize
  BY <1>1, Sizes
<1>3. p * PageSize \in Nat /\ (p + 1) * PageSize = p * PageSize + PageSize
  BY <1>1, Sizes
<1> QED
  BY <1>2, <1>3, Sizes DEF Page, NvSize

LEMMA PagesApart ==
  ASSUME NEW p \in 0 .. Pages - 1, NEW q \in 0 .. Pages - 1, p # q,
         NEW k \in 0 .. PageSize - 1
  PROVE  Page(p) + k \notin Page(q) .. Page(q) + PageSize - 1
<1>1. p \in Nat /\ q \in Nat /\ p * PageSize \in Nat /\ q * PageSize \in Nat
  BY Sizes
<1>2. CASE p + 1 <= q
  <2>1. (p + 1) * PageSize <= q * PageSize
    BY <1>1, <1>2, Sizes
  <2>2. (p + 1) * PageSize = p * PageSize + PageSize
    BY <1>1, Sizes
  <2> QED
    BY <1>1, <2>1, <2>2, Sizes DEF Page
<1>3. CASE q + 1 <= p
  <2>1. (q + 1) * PageSize <= p * PageSize
    BY <1>1, <1>3, Sizes
  <2>2. (q + 1) * PageSize = q * PageSize + PageSize
    BY <1>1, Sizes
  <2> QED
    BY <1>1, <2>1, <2>2, Sizes DEF Page
<1> QED
  BY <1>1, <1>2, <1>3

----------------------------------------------------------------------------
(* The invariant. *)

PageHolds(p, v) == \A k \in 0 .. PageSize - 2 : mem[Page(p) + k] = v
ScratchHolds(v) == \A k \in Cells : mem[Scratch + k] = v

\* A read-back on its way tells what is in the scratchpad.
VerifyFlight ==
  \/ batch = <<Resume, ReadPacket>> /\ cmd_state = "CMD_ROM"
  \/ batch = <<ReadPacket>> /\ cmd_state = "CMD_MEMORY"
  \/ /\ batch = <<>> /\ reply.kind = "scratchpad"
     /\ reply.addr = Page(call.page) => \A k \in Cells : reply.data[k] = mem[Scratch + k]

\* A copy on its way finds in the scratchpad what was read back.
CopyFlight ==
  \/ /\ ScratchHolds(call.value)
     /\ \/ batch = <<Resume, CopyPacket(call.page)>> /\ cmd_state = "CMD_ROM"
        \/ batch = <<CopyPacket(call.page)>> /\ cmd_state = "CMD_MEMORY"
  \/ batch = <<>> /\ (reply.kind = "done" => PageHolds(call.page, call.value))

Flight ==
  /\ step.check = "verify" => VerifyFlight
  /\ step.check = "copied" => CopyFlight
  /\ step.check # "copied" => batch \in Seq(Harmless)

Primed == step.check = "copied" => ScratchHolds(call.value)

ShaTypes ==
  /\ DOMAIN mem = 0 .. MemSize - 1
  /\ may \in [0 .. Pages - 1 -> SUBSET Nat]
  /\ ~sent => batch = <<>>
  /\ result # "running" => ~sent

Running ==
  /\ call \in Calls /\ Lawful(steps, call)
  /\ Writes(call) => call.value \in may[call.page]
  /\ IF sent THEN Flight ELSE Primed

ShaInv == ShaTypes /\ (result = "running" => Running) /\ PagesWhole

LEMMA ShaInitHolds == ShaInit => ShaInv
<1> SUFFICES ASSUME ShaInit PROVE ShaInv
  OBVIOUS
<1>1. /\ mem = [c \in 0 .. MemSize - 1 |-> 0] /\ may = [p \in 0 .. Pages - 1 |-> {0}]
      /\ result = "none" /\ sent = FALSE /\ batch = <<>>
  BY DEF ShaInit, Init
<1>2. ShaTypes
  BY <1>1 DEF ShaTypes
<1>3. ASSUME NEW p \in 0 .. Pages - 1
      PROVE  \E v \in may[p] : \A k \in 0 .. PageSize - 2 : mem[Page(p) + k] = v
  <2>1. 0 \in may[p]
    BY <1>1
  <2>2. ASSUME NEW k \in 0 .. PageSize - 2 PROVE mem[Page(p) + k] = 0
    <3>1. k \in 0 .. PageSize - 1
      BY Sizes
    <3>2. Page(p) + k \in 0 .. MemSize - 1
      BY <3>1, PageCells, Sizes
    <3> QED
      BY <1>1, <3>2
  <2> QED
    BY <2>1, <2>2
<1>4. PagesWhole
  BY <1>3 DEF PagesWhole
<1> QED
  BY <1>1, <1>2, <1>4 DEF ShaInv

----------------------------------------------------------------------------
(* The button's part of a step. *)

\* What the handlers other than Copy Scratchpad do to the array.
LEMMA ScratchOnly ==
  ASSUME NEW ACTION cells, cells \cap 0 .. Scratch - 1 = {}, NEW STATE v,
         DOMAIN mem = 0 .. MemSize - 1, mem' = Fill(cells, v)
  PROVE  /\ DOMAIN mem' = DOMAIN mem
         /\ \A c \in 0 .. Scratch - 1 : mem'[c] = mem[c]
<1>1. \A c \in 0 .. Scratch - 1 : c \in DOMAIN mem /\ c \notin cells
  BY Sizes
<1> QED
  BY <1>1 DEF Fill

\* An answer that does not copy leaves the pages alone.
LEMMA PagesKept ==
  ASSUME DOMAIN mem = 0 .. MemSize - 1, Answer, ~(InMemory("55") /\ Authorised),
         cmd.addr \in Nat
  PROVE  /\ DOMAIN mem' = DOMAIN mem
         /\ \A c \in 0 .. Scratch - 1 : mem'[c] = mem[c]
<1>1. CASE SkipRom \/ OtherRom \/ ReadScratchpad \/ OtherMemory
  BY <1>1 DEF SkipRom, OtherRom, RomDone, ReadScratchpad, OtherMemory
<1>2. CASE WriteScratchpad
  <2> DEFINE o == TA' % PageSize
             cells == Scratch + o .. MemSize - 1
  <2>1. TA' = cmd.addr
    BY <1>2 DEF WriteScratchpad
  <2>2. mem' = Fill(cells, cmd.value) \/ mem' = mem
    BY <1>2 DEF WriteScratchpad
  <2>3. o \in 0 .. PageSize - 1
    BY <2>1, OffsetRange
  <2> HIDE DEF o
  <2>4. cells \cap 0 .. Scratch - 1 = {}
    BY <2>3, Sizes
  <2> HIDE DEF cells
  <2> QED
    BY <2>2, <2>4, ScratchOnly
<1>3. CASE EraseScratchpad
  <2> DEFINE cells == Scratch .. MemSize - 1
  <2>1. cells \cap 0 .. Scratch - 1 = {}
    BY Sizes
  <2>2. mem' = Fill(cells, 255)
    BY <1>3 DEF EraseScratchpad
  <2> HIDE DEF cells
  <2> QED
    BY <2>1, <2>2, ScratchOnly
<1>4. CASE CopyScratchpad
  BY <1>4 DEF CopyScratchpad
<1>5. CASE ReadAuthPage \/ ComputeSHA
  <2>1. mem' \in {Fill(MacPlace, MAC), mem}
    BY <1>5 DEF ReadAuthPage, ComputeSHA
  <2>2. MacPlace \cap 0 .. Scratch - 1 = {}
    <3>1. MacCells \subseteq 0 .. PageSize - 1
      BY ButtonAssumption
    <3> QED
      BY <3>1, Sizes DEF MacPlace
  <2> QED
    BY <2>1, <2>2, ScratchOnly
<1> QED
  BY <1>1, <1>2, <1>3, <1>4, <1>5 DEF Answer

\* A handler ends the batch or leaves what is behind the command.
LEMMA BatchShrinks ==
  ASSUME Answer
  PROVE  batch # <<>> /\ batch' \in {<<>>, Tail(batch)} /\ UNCHANGED host
<1>1. CASE SkipRom \/ OtherRom
  BY <1>1 DEF SkipRom, OtherRom, RomDone, InRom, Answer
<1>2. CASE ReadScratchpad \/ WriteScratchpad \/ EraseScratchpad \/ CopyScratchpad
  BY <1>2 DEF ReadScratchpad, WriteScratchpad, EraseScratchpad, CopyScratchpad,
              MemoryDone, InMemory, Answer
<1>3. CASE ReadAuthPage \/ ComputeSHA \/ OtherMemory
  BY <1>3 DEF ReadAuthPage, ComputeSHA, OtherMemory, MemoryDone, InMemory, Answer
<1> QED
  BY <1>1, <1>2, <1>3 DEF Answer

\* A Resume in front of a block is answered by the ROM handler.
LEMMA AnswersResume ==
  ASSUME Answer, cmd_state = "CMD_ROM", cmd = Resume
  PROVE  batch' = Tail(batch) /\ cmd_state' = "CMD_MEMORY" /\ mem' = mem
<1>1. cmd.op = "A5"
  BY ResumeType
<1>2. SkipRom
  BY <1>1 DEF Answer, OtherRom, ReadScratchpad, WriteScratchpad, EraseScratchpad,
              CopyScratchpad, ReadAuthPage, ComputeSHA, OtherMemory, InMemory
<1> QED
  BY <1>2 DEF SkipRom, RomDone

LEMMA AnswersRead ==
  ASSUME Answer, cmd_state = "CMD_MEMORY", cmd.op = "AA"
  PROVE  ReadScratchpad
BY DEF Answer, SkipRom, OtherRom, InRom, WriteScratchpad, EraseScratchpad,
       CopyScratchpad, ReadAuthPage, ComputeSHA, OtherMemory, InMemory

LEMMA AnswersCopy ==
  ASSUME Answer, cmd_state = "CMD_MEMORY", cmd.op = "55"
  PROVE  CopyScratchpad
BY DEF Answer, SkipRom, OtherRom, InRom, WriteScratchpad, EraseScratchpad,
       ReadScratchpad, ReadAuthPage, ComputeSHA, OtherMemory, InMemory

----------------------------------------------------------------------------
(* Every step keeps the invariant. *)

LEMMA CellKept ==
  ASSUME NEW p \in 0 .. Pages - 1, NEW k \in 0 .. PageSize - 2
  PROVE  Page(p) + k \in 0 .. Scratch - 1 /\ Page(p) + k \in 0 .. MemSize - 1
<1>1. k \in 0 .. PageSize - 1
  BY Sizes
<1> QED
  BY <1>1, PageCells, Sizes

\* The pages as they were, and no fewer values allowed.
LEMMA WholeKept ==
  ASSUME PagesWhole, \A c \in 0 .. Scratch - 1 : mem'[c] = mem[c],
         \A p \in 0 .. Pages - 1 : may[p] \subseteq may'[p]
  PROVE  PagesWhole'
<1>1. ASSUME NEW p \in 0 .. Pages - 1
      PROVE  \E v \in may'[p] : \A k \in 0 .. PageSize - 2 : mem'[Page(p) + k] = v
  <2>1. PICK v \in may[p] : \A k \in 0 .. PageSize - 2 : mem[Page(p) + k] = v
    BY DEF PagesWhole
  <2>2. \A k \in 0 .. PageSize - 2 : mem'[Page(p) + k] = v
    BY <2>1, CellKept
  <2> QED
    BY <2>1, <2>2
<1> QED
  BY <1>1 DEF PagesWhole, Page

LEMMA StepBegin ==
  ASSUME ShaInv, Begin
  PROVE  ShaInv'
<1>1. PICK c \in Calls :
        /\ call' = c /\ steps' = Program(c)
        /\ may' = IF Writes(c) THEN [may EXCEPT ![c.page] = @ \cup {c.value}] ELSE may
  BY DEF Begin
<1>2. /\ result' = "running" /\ sent' = FALSE /\ result # "running"
      /\ mem' = mem /\ batch' = batch
  BY DEF Begin, vars, loop
<1>3. /\ may \in [0 .. Pages - 1 -> SUBSET Nat] /\ DOMAIN mem = 0 .. MemSize - 1
      /\ batch = <<>> /\ PagesWhole
  BY <1>2 DEF ShaInv, ShaTypes
<1>4. /\ Proper(Program(c), c) /\ c.page \in 0 .. Pages - 1 /\ c.value \in Nat
  BY Programs
<1>5. /\ may' \in [0 .. Pages - 1 -> SUBSET Nat]
      /\ Writes(c) => c.value \in may'[c.page]
      /\ \A p \in 0 .. Pages - 1 : may[p] \subseteq may'[p]
  <2>1. CASE Writes(c)
    BY <1>1, <1>3, <1>4, <2>1
  <2>2. CASE ~Writes(c)
    BY <1>1, <1>3, <2>2
  <2> QED
    BY <2>1, <2>2
<1>6. PagesWhole'
  BY <1>2, <1>3, <1>5, WholeKept
<1>7. ShaTypes'
  BY <1>2, <1>3, <1>5 DEF ShaTypes
<1>8. Primed'
  <2>1. steps' \in Seq(AnyBlocks) /\ Len(steps') >= 1 /\ steps'[1].check # "copied"
    BY <1>1, <1>4 DEF Proper, Lawful
  <2>2. step' = steps'[1]
    BY <2>1 DEF step
  <2> QED
    BY <2>1, <2>2 DEF Primed
<1>9. Running'
  <2>1. Lawful(steps', call')
    BY <1>1, <1>4 DEF Proper
  <2>2. Writes(call') => call'.value \in may'[call'.page]
    BY <1>1, <1>5
  <2> QED
    BY <1>1, <1>2, <1>8, <2>1, <2>2 DEF Running, Lawful, Writes, Fit, Follows
<1> QED
  BY <1>6, <1>7, <1>9 DEF ShaInv

\* A step that ends the call.
LEMMA StepEnd ==
  ASSUME ShaInv, result' # "running", sent' = FALSE, UNCHANGED <<vars, may>>, batch = <<>>
  PROVE  ShaInv'
<1>1. mem' = mem /\ batch' = <<>> /\ may' = may
  BY DEF vars, loop
<1>2. PagesWhole'
  BY <1>1 DEF ShaInv, PagesWhole, Page
<1>3. ShaTypes'
  BY <1>1 DEF ShaInv, ShaTypes
<1> QED
  BY <1>2, <1>3 DEF ShaInv

\* The exchange that runs.
LEMMA StepFacts ==
  ASSUME ShaInv, result = "running"
  PROVE  /\ step \in AnyBlocks /\ step = steps[1] /\ Fit(step, call)
         /\ call \in Calls /\ call.page \in 0 .. Pages - 1 /\ call.page \in Nat
         /\ call.value \in Nat
<1>1. call \in Calls /\ Lawful(steps, call)
  BY DEF ShaInv, Running
<1>2. steps \in Seq(AnyBlocks) /\ Len(steps) >= 1
  BY <1>1 DEF Lawful
<1>3. step = steps[1] /\ step \in AnyBlocks
  BY <1>2 DEF step
<1>4. Fit(step, call)
  BY <1>1, <1>2, <1>3 DEF Lawful
<1> QED
  BY <1>1, <1>3, <1>4, Programs

LEMMA StepSendBlock ==
  ASSUME ShaInv, SendBlock
  PROVE  ShaInv'
<1>1. /\ result = "running" /\ ~sent /\ sent' = TRUE /\ result' = result
      /\ cmd_state' = (IF step.reset THEN "CMD_ROM" ELSE cmd_state)
      /\ batch' = step.batch /\ mem' = mem
      /\ call' = call /\ steps' = steps /\ may' = may
  BY DEF SendBlock
<1>2. /\ Fit(step, call) /\ call \in Calls /\ call.page \in Nat
      /\ step' = step
  BY <1>1, StepFacts DEF step
<1>3. Running /\ Primed /\ ShaTypes /\ PagesWhole
  BY <1>1 DEF ShaInv, Running
<1>4. ASSUME step.check = "verify" PROVE VerifyFlight'
  <2>1. step = VerifyBlock
    BY <1>2, <1>4 DEF Fit
  <2>2. batch' = <<Resume, ReadPacket>> /\ cmd_state' = "CMD_ROM"
    BY <1>1, <2>1, VerifyType
  <2> QED
    BY <2>2 DEF VerifyFlight, Resume, ReadPacket, Packet
<1>5. ASSUME step.check = "copied" PROVE CopyFlight'
  <2>1. step = CopyBlock(call.page)
    BY <1>2, <1>5 DEF Fit
  <2>2. batch' = <<Resume, CopyPacket(call.page)>> /\ cmd_state' = "CMD_ROM"
    BY <1>1, <1>2, <2>1, CopyType
  <2>3. ScratchHolds(call.value)'
    BY <1>1, <1>3, <1>5 DEF Primed, ScratchHolds
  <2> QED
    BY <1>1, <2>2, <2>3 DEF CopyFlight, Resume, CopyPacket, Packet, Page
<1>6. step.check # "copied" => batch' \in Seq(Harmless)
  BY <1>1, <1>2 DEF Fit
<1>7. Flight'
  BY <1>2, <1>4, <1>5, <1>6 DEF Flight, Harmless, AnyPackets
<1>8. Running'
  BY <1>1, <1>3, <1>7 DEF Running, Lawful, Writes, Fit, Follows
<1>9. ShaTypes' /\ PagesWhole'
  BY <1>1, <1>3 DEF ShaTypes, PagesWhole, Page
<1> QED
  BY <1>8, <1>9 DEF ShaInv

LEMMA StepLeave ==
  ASSUME ShaInv, Refuse \/ LoseContact
  PROVE  ShaInv'
<1>1. result = "running" /\ (~sent \/ batch = <<>>)
  BY DEF Refuse, LoseContact, Arrived
<1>2. Fail /\ UNCHANGED vars
  BY DEF Refuse, LoseContact
<1>3. batch = <<>>
  BY <1>1 DEF ShaInv, ShaTypes
<1>4. step \in AnyBlocks
  BY <1>1, StepFacts
<1>5. step.failed \in {"FALSE", "TRUE"}
  BY <1>4 DEF AnyBlocks
<1>6. result' # "running" /\ sent' = FALSE /\ may' = may
  BY <1>2, <1>5 DEF Fail
<1> QED
  BY <1>2, <1>3, <1>6, StepEnd

\* What is left of a lawful sequence is lawful, and begins with a copy only
\* if what was first was a read-back.
LEMMA TailLawful ==
  ASSUME NEW s, NEW c, Lawful(s, c), Tail(s) # <<>>
  PROVE  /\ Lawful(Tail(s), c)
         /\ Head(Tail(s)).check = "copied" => Head(s).check = "verify"
<1> DEFINE t == Tail(s)
<1>1. s \in Seq(AnyBlocks) /\ s # <<>>
  BY DEF Lawful
<1>2. /\ t \in Seq(AnyBlocks) /\ Len(t) = Len(s) - 1 /\ Len(t) >= 1
      /\ \A n \in 1 .. Len(t) : t[n] = s[n + 1]
  BY <1>1
<1>3. Head(s) = s[1] /\ Head(t) = s[2] /\ 2 \in 2 .. Len(s)
  BY <1>1, <1>2
<1>4. \A n \in 1 .. Len(t) : Fit(t[n], c)
  BY <1>1, <1>2 DEF Lawful
<1>5. ASSUME NEW n \in 2 .. Len(t), t[n].check = "copied" PROVE t[n - 1].check = "verify"
  <2>1. n + 1 \in 2 .. Len(s) /\ t[n] = s[n + 1] /\ t[n - 1] = s[(n + 1) - 1]
    BY <1>1, <1>2
  <2> QED
    BY <1>5, <2>1 DEF Lawful, Follows
<1>6. s[2].check = "copied" => s[1].check = "verify"
  BY <1>3 DEF Lawful, Follows
<1> HIDE DEF t
<1>7. Follows(t)
  BY <1>5 DEF Follows
<1>8. Lawful(t, c)
  BY <1>2, <1>4, <1>7 DEF Lawful
<1> QED
  BY <1>3, <1>6, <1>8 DEF t

\* A good read-back: the scratchpad holds what was written.
LEMMA GoodVerify ==
  ASSUME ShaInv, Arrived, Good, step.check = "verify"
  PROVE  ScratchHolds(call.value)
<1>1. ReadBack
  BY DEF Good
<1>2. VerifyFlight /\ batch = <<>>
  BY DEF ShaInv, Running, Flight, Arrived
<1>3. \A k \in Cells : reply.data[k] = mem[Scratch + k]
  BY <1>1, <1>2 DEF VerifyFlight, ReadBack
<1> QED
  BY <1>1, <1>3 DEF ReadBack, ScratchHolds

\* A good copy: the page holds what was written.
LEMMA GoodCopied ==
  ASSUME ShaInv, Arrived, Good, step.check = "copied"
  PROVE  PageHolds(call.page, call.value)
<1>1. reply.kind = "done"
  BY DEF Good, Completed
<1>2. CopyFlight /\ batch = <<>>
  BY DEF ShaInv, Running, Flight, Arrived
<1> QED
  BY <1>1, <1>2 DEF CopyFlight

LEMMA StepAccept ==
  ASSUME ShaInv, Accept
  PROVE  ShaInv'
<1>1. /\ Arrived /\ Good /\ result = "running" /\ sent /\ batch = <<>>
      /\ steps' = Tail(steps) /\ sent' = FALSE
      /\ result' = (IF Tail(steps) = <<>> THEN "TRUE" ELSE "running")
      /\ may' = (IF step.check = "copied" THEN [may EXCEPT ![call.page] = {call.value}]
                 ELSE may)
      /\ mem' = mem /\ batch' = batch /\ call' = call
  BY DEF Accept, Arrived, vars, loop
<1>2. Running /\ ShaTypes /\ PagesWhole
  BY <1>1 DEF ShaInv
<1>3. /\ call \in Calls /\ call.page \in 0 .. Pages - 1 /\ call.value \in Nat
      /\ Fit(step, call)
  BY <1>1, StepFacts
<1>4. may \in [0 .. Pages - 1 -> SUBSET Nat] /\ DOMAIN mem = 0 .. MemSize - 1
  BY <1>2 DEF ShaTypes
<1>5. /\ may' \in [0 .. Pages - 1 -> SUBSET Nat]
      /\ Writes(call) => call.value \in may'[call.page]
  <2>1. CASE step.check = "copied"
    BY <1>1, <1>3, <1>4, <2>1
  <2>2. CASE step.check # "copied"
    BY <1>1, <1>2, <1>4, <2>2 DEF Running
  <2> QED
    BY <2>1, <2>2
<1>6. ASSUME NEW p \in 0 .. Pages - 1
      PROVE  \E v \in may'[p] : \A k \in 0 .. PageSize - 2 : mem'[Page(p) + k] = v
  <2>1. CASE step.check = "copied" /\ p = call.page
    <3>1. PageHolds(p, call.value)
      BY <1>1, <2>1, GoodCopied
    <3>2. call.value \in may'[p]
      BY <1>1, <1>3, <1>4, <2>1
    <3> QED
      BY <1>1, <3>1, <3>2 DEF PageHolds
  <2>2. CASE ~(step.check = "copied" /\ p = call.page)
    <3>1. may'[p] = may[p]
      BY <1>1, <1>3, <1>4, <2>2
    <3> QED
      BY <1>1, <1>2, <3>1 DEF PagesWhole
  <2> QED
    BY <2>1, <2>2
<1>7. PagesWhole'
  BY <1>6 DEF PagesWhole, Page
<1>8. ShaTypes'
  BY <1>1, <1>4, <1>5 DEF ShaTypes
<1>9. ASSUME result' = "running" PROVE Running'
  <2>1. Tail(steps) # <<>> /\ Lawful(steps, call)
    BY <1>1, <1>2, <1>9 DEF Running
  <2>2. /\ Lawful(Tail(steps), call)
        /\ Head(Tail(steps)).check = "copied" => Head(steps).check = "verify"
    BY <2>1, TailLawful
  <2>3. Head(steps).check = "verify" => ScratchHolds(call.value)
    BY <1>1, GoodVerify DEF step
  <2>4. Primed'
    BY <1>1, <2>2, <2>3 DEF Primed, step, ScratchHolds
  <2> QED
    BY <1>1, <1>3, <1>5, <2>2, <2>4 DEF Running, Lawful, Writes, Fit, Follows
<1> QED
  BY <1>7, <1>8, <1>9 DEF ShaInv

\* The button reads the scratchpad for a read-back.
LEMMA AnswerVerify ==
  ASSUME ShaInv, Answer, result = "running", sent, step.check = "verify"
  PROVE  VerifyFlight'
<1>1. VerifyFlight /\ batch # <<>> /\ call.page \in Nat
  BY StepFacts, BatchShrinks DEF ShaInv, Running, Flight
<1>2. call' = call
  BY BatchShrinks DEF host
<1>3. CASE batch = <<Resume, ReadPacket>> /\ cmd_state = "CMD_ROM"
  <2>1. cmd = Resume /\ Tail(batch) = <<ReadPacket>>
    BY <1>3 DEF cmd
  <2>2. batch' = <<ReadPacket>> /\ cmd_state' = "CMD_MEMORY"
    BY <1>3, <2>1, AnswersResume
  <2> QED
    BY <2>2 DEF VerifyFlight, ReadPacket, Packet
<1>4. CASE batch = <<ReadPacket>> /\ cmd_state = "CMD_MEMORY"
  <2>1. cmd = ReadPacket
    BY <1>4 DEF cmd
  <2>2. ReadScratchpad
    BY <1>4, <2>1, VerifyType, AnswersRead
  <2>3. /\ batch' = <<>> /\ mem' = mem
        /\ reply' = [kind |-> "scratchpad", addr |-> TA, aa |-> AA, off |-> E',
                     data |-> [k \in Offset .. PageSize - 1 |-> mem[Scratch + k]]]
    BY <2>2 DEF ReadScratchpad, MemoryDone
  <2>4. ASSUME reply'.addr = Page(call.page), NEW k \in Cells
        PROVE  reply'.data[k] = mem'[Scratch + k]
    <3>1. TA = Page(call.page)
      BY <2>3, <2>4
    <3>2. Offset = 0
      BY <1>1, <3>1, PageStart DEF Offset
    <3>3. reply'.data = [j \in 0 .. PageSize - 1 |-> mem[Scratch + j]]
      BY <2>3, <3>2
    <3> QED
      BY <2>3, <2>4, <3>3 DEF Cells
  <2>5. reply'.kind = "scratchpad"
    BY <2>3
  <2> QED
    BY <1>2, <2>3, <2>4, <2>5 DEF VerifyFlight, Page, Cells
<1> QED
  BY <1>1, <1>3, <1>4 DEF VerifyFlight

\* The button copies to the page of the call, or refuses.
LEMMA AnswerCopied ==
  ASSUME ShaInv, Answer, result = "running", sent, step.check = "copied"
  PROVE  CopyFlight' /\ DOMAIN mem' = DOMAIN mem /\ PagesWhole'
<1> DEFINE p == call.page
           w == call.value
<1>1. /\ CopyFlight /\ batch # <<>> /\ PagesWhole /\ ShaTypes
      /\ Fit(step, call) /\ p \in 0 .. Pages - 1 /\ p \in Nat
  BY StepFacts, BatchShrinks DEF ShaInv, Running, Flight
<1>2. call' = call /\ may' = may
  BY BatchShrinks DEF host
<1>3. w \in may[p]
  BY <1>1 DEF ShaInv, Running, Fit
<1>4. ScratchHolds(w)
  BY <1>1 DEF CopyFlight
<1>5. CASE batch = <<Resume, CopyPacket(p)>> /\ cmd_state = "CMD_ROM"
  <2>1. cmd = Resume /\ Tail(batch) = <<CopyPacket(p)>>
    BY <1>5 DEF cmd
  <2>2. batch' = <<CopyPacket(p)>> /\ cmd_state' = "CMD_MEMORY" /\ mem' = mem
    BY <1>5, <2>1, AnswersResume
  <2>3. CopyFlight'
    BY <1>2, <1>4, <2>2 DEF CopyFlight, ScratchHolds, CopyPacket, Packet, Page
  <2> QED
    BY <1>1, <1>2, <2>2, <2>3 DEF PagesWhole, Page
<1>6. CASE batch = <<CopyPacket(p)>> /\ cmd_state = "CMD_MEMORY"
  <2>1. /\ cmd = CopyPacket(p) /\ cmd.op = "55" /\ cmd.addr = Page(p)
        /\ cmd.off = PageSize - 1
    BY <1>1, <1>6, CopyType DEF cmd
  <2>2. CopyScratchpad
    BY <1>6, <2>1, AnswersCopy
  <2>3. batch' = <<>>
    BY <2>2 DEF CopyScratchpad, MemoryDone
  <2>4. CASE ~Authorised
    <3>1. mem' = mem /\ reply'.kind = "refused"
      BY <2>2, <2>4 DEF CopyScratchpad
    <3>2. CopyFlight'
      BY <2>3, <3>1 DEF CopyFlight
    <3> QED
      BY <1>1, <1>2, <3>1, <3>2 DEF PagesWhole, Page
  <2>5. CASE Authorised
    <3>1. TA = Page(p) /\ E = PageSize - 1
      BY <2>1, <2>5 DEF Authorised
    <3>2. mem' = Put(Page(p), Scratch, PageSize - 1)
      BY <2>2, <2>5, <3>1 DEF CopyScratchpad, CopiedMem, CopyLen
    <3>3. DOMAIN mem' = DOMAIN mem /\ DOMAIN mem = 0 .. MemSize - 1
      BY <1>1, <3>2 DEF Put, ShaTypes
    <3>4. ASSUME NEW k \in 0 .. PageSize - 2 PROVE mem'[Page(p) + k] = w
      <4>1. Page(p) \in Nat /\ Page(p) + k \in DOMAIN mem
        BY <1>1, <3>3, CellKept, PageAddress
      <4>2. Page(p) + k \in Page(p) .. Page(p) + (PageSize - 1) - 1
        BY <4>1, Sizes
      <4>3. mem'[Page(p) + k] = mem[Scratch + ((Page(p) + k) - Page(p))]
        BY <3>2, <4>1, <4>2 DEF Put
      <4>4. (Page(p) + k) - Page(p) = k /\ k \in Cells
        BY <4>1, Sizes DEF Cells
      <4> QED
        BY <1>4, <4>3, <4>4 DEF ScratchHolds
    <3>5. ASSUME NEW q \in 0 .. Pages - 1, q # p, NEW k \in 0 .. PageSize - 2
          PROVE  mem'[Page(q) + k] = mem[Page(q) + k]
      <4>1. Page(q) + k \in DOMAIN mem
        BY <3>3, CellKept
      <4>2. k \in 0 .. PageSize - 1
        BY Sizes
      <4>3. Page(q) + k \notin Page(p) .. Page(p) + PageSize - 1
        BY <1>1, <3>5, <4>2, PagesApart
      <4>4. Page(p) \in Nat /\ Page(q) + k \in 0 .. MemSize - 1
        BY <1>1, CellKept, PageAddress
      <4>5. Page(q) + k \notin Page(p) .. Page(p) + (PageSize - 1) - 1
        BY <4>3, <4>4, Sizes
      <4> QED
        BY <3>2, <4>1, <4>5 DEF Put
    <3>6. ASSUME NEW q \in 0 .. Pages - 1
          PROVE  \E v \in may'[q] : \A k \in 0 .. PageSize - 2 : mem'[Page(q) + k] = v
      <4>1. CASE q = p
        BY <1>2, <1>3, <3>4, <4>1
      <4>2. CASE q # p
        BY <1>1, <1>2, <3>5, <4>2 DEF PagesWhole
      <4> QED
        BY <4>1, <4>2
    <3>7. PagesWhole'
      BY <3>6 DEF PagesWhole, Page
    <3>8. PageHolds(call.page, call.value)'
      BY <1>2, <3>4 DEF PageHolds, Page
    <3>9. CopyFlight'
      BY <2>3, <3>8 DEF CopyFlight
    <3> QED
      BY <3>3, <3>7, <3>9
  <2> QED
    BY <2>4, <2>5
<1> QED
  BY <1>1, <1>5, <1>6 DEF CopyFlight

LEMMA StepAnswer ==
  ASSUME ShaInv, Answer
  PROVE  ShaInv'
<1>1. /\ batch # <<>> /\ batch' \in {<<>>, Tail(batch)}
      /\ call' = call /\ result' = result /\ steps' = steps /\ sent' = sent /\ may' = may
  BY BatchShrinks DEF host
<1>2. sent /\ result = "running"
  BY <1>1 DEF ShaInv, ShaTypes
<1>3. Running /\ ShaTypes /\ PagesWhole /\ Flight
  BY <1>2 DEF ShaInv, Running
<1>4. step' = step
  BY <1>1 DEF step
<1>5. DOMAIN mem' = DOMAIN mem /\ PagesWhole' /\ Flight'
  <2>1. CASE step.check = "copied"
    <3>1. CopyFlight' /\ DOMAIN mem' = DOMAIN mem /\ PagesWhole'
      BY <1>2, <2>1, AnswerCopied
    <3> QED
      BY <1>4, <2>1, <3>1 DEF Flight
  <2>2. CASE step.check # "copied"
    <3>1. batch \in Seq(Harmless)
      BY <1>3, <2>2 DEF Flight
    <3>2. cmd \in Harmless
      BY <1>1, <3>1 DEF cmd
    <3>3. cmd.addr \in Nat /\ ~(InMemory("55") /\ Authorised)
      BY <3>2, Sizes DEF Harmless, AnyPackets, InMemory, Authorised
    <3>4. /\ DOMAIN mem' = DOMAIN mem
          /\ \A c \in 0 .. Scratch - 1 : mem'[c] = mem[c]
      BY <1>3, <3>3, PagesKept DEF ShaTypes
    <3>5. PagesWhole'
      BY <1>1, <1>3, <3>4, WholeKept
    <3>6. batch' \in Seq(Harmless)
      <4>1. Tail(batch) \in Seq(Harmless) /\ <<>> \in Seq(Harmless)
        BY <1>1, <3>1
      <4> QED
        BY <1>1, <4>1
    <3>7. step.check = "verify" => VerifyFlight'
      BY <1>2, AnswerVerify
    <3> QED
      BY <1>4, <2>2, <3>4, <3>5, <3>6, <3>7 DEF Flight, Harmless, AnyPackets
  <2> QED
    BY <2>1, <2>2
<1>6. ShaTypes'
  BY <1>1, <1>2, <1>3, <1>5 DEF ShaTypes
<1>7. Running'
  BY <1>1, <1>2, <1>3, <1>5 DEF Running, Lawful, Writes, Fit, Follows
<1> QED
  BY <1>5, <1>6, <1>7 DEF ShaInv

LEMMA ShaStep == ShaInv /\ [ShaNext]_shaVars => ShaInv'
<1> SUFFICES ASSUME ShaInv, [ShaNext]_shaVars PROVE ShaInv'
  OBVIOUS
<1>1. CASE UNCHANGED shaVars
  BY <1>1 DEF shaVars, vars, loop, registers, host, ShaInv, ShaTypes, Running, Flight,
     Primed, PagesWhole, VerifyFlight, CopyFlight, ScratchHolds, PageHolds, step,
     Page, Cells, Lawful, Writes, Fit, Follows
<1> QED
  BY <1>1, StepBegin, StepSendBlock, StepAnswer, StepAccept, StepLeave DEF ShaNext

\* Every page of the button holds the data of one write to it, whole, for
\* every page size, number of pages and set of calls, whatever is lost on the
\* way (sha18.c:582-599).
THEOREM ShaPagesWhole == ShaSpec => []PagesWhole
<1>1. ShaInv => PagesWhole
  BY DEF ShaInv
<1> QED
  BY <1>1, ShaInitHolds, ShaStep, PTL DEF ShaSpec
----------------------------------------------------------------------------
(* Which calls succeed, and what they return *)

Cmd(b) == b.batch[Len(b.batch)]

ErasePacket(c) == [Packet("C3", 5) EXCEPT !.addr = Page(c.page)]
WritePacket(c) == [Packet("0F", PageSize + 5) EXCEPT !.addr = Page(c.page), !.value = c.value]
ShaPacket(c)   == [Packet("33", 8) EXCEPT !.addr = Page(c.page),
                     !.sub = IF c.op = "CreateDataSignature" THEN "C3" ELSE "CC"]
PagePacket(c)  == [Packet("A5", PageSize + 15) EXCEPT !.addr = Page(c.page)]

\* The exchanges of the calls that can succeed: a search, or a command to the
\* page of the call behind a Resume, or behind a search without a reset.
Sure(b, c) ==
  /\ b.batch = IF b.reset /\ Cmd(b).op # "F0" THEN <<Resume, Cmd(b)>> ELSE <<Cmd(b)>>
  /\ Cmd(b).size >= 3
  /\ \/ Cmd(b).op = "F0" /\ b.reset /\ b.check = "any"
     \/ Cmd(b) = ErasePacket(c) /\ b.check = "completion"
     \/ Cmd(b) = WritePacket(c) /\ b.check = "crc"
     \/ Cmd(b) = ReadPacket /\ b.check \in {"verify", "sign"}
     \/ Cmd(b) = CopyPacket(c.page) /\ b.check = "copied"
     \/ Cmd(b) = ShaPacket(c) /\ b.check = "completion"
     \/ Cmd(b) = PagePacket(c) /\ b.check = "page"
  /\ b.failed = "TRUE" => c.op # "CreateDataSignature"

\* What has to come right before an exchange for it to succeed.
Feeds(a, b, c) ==
  /\ ~b.reset => Cmd(a).op = "F0"
  /\ b.check \in {"verify", "page"} => Cmd(a).op = "0F"
  /\ b.check = "copied" => a.check = "verify"
  /\ Cmd(b).op = "33" /\ c.op = "CreateDataSignature" => Cmd(a).op = "0F"
  /\ b.check = "sign" /\ c.op = "AnswerChallenge" => a.check = "page"
  /\ b.check = "sign" /\ c.op = "CreateDataSignature" => Cmd(a).op = "33"
  /\ Cmd(a).op = "33" => b.check = "sign"
  /\ a.check # "sign"

\* An exchange a call can begin with.
Opens(b) ==
  /\ b.reset /\ b.check \notin {"verify", "page", "copied", "sign"} /\ Cmd(b).op # "33"

Secure(s, c) ==
  /\ s \in Seq(AnyBlocks) /\ Len(s) >= 1
  /\ \A n \in 1 .. Len(s) : Sure(s[n], c)
  /\ \A n \in 2 .. Len(s) : Feeds(s[n - 1], s[n], c)

\* Exchanges the button has no good answer to.
Bad(b) ==
  /\ b.reset /\ b.batch = <<Resume, Cmd(b)>> /\ Cmd(b).size >= 1
  /\ \/ b.check = "any" /\ Cmd(b).op \in {"3C", "F0"}
     \/ b.check = "crc" /\ Cmd(b).op = "0F" /\ Cmd(b).addr >= NvSize

\* Who asks for a signature reads it last.
Ending(s, c) ==
  c.op \in {"AnswerChallenge", "CreateDataSignature"} => s[Len(s)].check = "sign"

Doomed(s) ==
  /\ s \in Seq(AnyBlocks)
  /\ \E n \in 1 .. Len(s) : Bad(s[n]) /\ \A m \in 1 .. n : s[m].failed = "FALSE"

Copies(s) == \E n \in 1 .. Len(s) : s[n].check = "copied"

\* The scratchpad and the registers behind a Write Scratchpad; the cells of a
\* SHA result.
Written == TA = Page(call.page) /\ AA = FALSE /\ ScratchHolds(call.value)
Macced  == \A k \in MacCells : mem[Scratch + k] = MAC

\* Behind Read Authenticated Page and before the read of the signature: what
\* was signed is what was read, d.
AnswerReady(d) ==
  /\ TA = 0
  /\ IF Signed(Page(call.page))
     THEN Macced /\ macOf.addr = Page(call.page) /\ macOf.data = d
     ELSE ScratchHolds(call.value)

\* Behind Sign Data Page: what was signed is what was written.
DataReady ==
  /\ TA = Page(call.page)
  /\ IF call.page \in {0, AuthPage}
     THEN /\ Macced /\ macOf.addr = Page(call.page) /\ macOf.sub = "C3"
          /\ \A k \in 0 .. PageSize - 2 : macOf.data[k] = call.value
     ELSE ScratchHolds(call.value)

Signable ==
  /\ call.op = "AnswerChallenge" => AnswerReady(data)
  /\ call.op = "CreateDataSignature" => DataReady

\* What an exchange finds, and what it leaves.
Demands(b) ==
  /\ b.check \in {"verify", "copied"} => Written
  /\ b.check = "copied" => E = PageSize - 1
  /\ b.check = "page" => ScratchHolds(call.value)
  /\ Cmd(b).op = "33" /\ call.op = "CreateDataSignature" => ScratchHolds(call.value)
  /\ b.check = "sign" => Signable

Supplies(b) ==
  /\ Cmd(b).op = "F0" => cmd_state = "CMD_MEMORY"
  /\ Cmd(b).op = "0F" => Written
  /\ b.check = "verify" => Written /\ E = PageSize - 1
  /\ b.check = "page" =>
       /\ reply.kind = "page"
       /\ call.op = "AnswerChallenge" => AnswerReady(reply.data)
  /\ Cmd(b).op = "33" /\ call.op = "CreateDataSignature" => DataReady
  /\ b.check = "sign" =>
       Signable /\ \A k \in Cells : Offset = 0 => reply.data[k] = mem[Scratch + k]

\* An exchange on its way to the button, and one that was answered.
Outbound(b) ==
  /\ \/ cmd_state = "CMD_ROM" /\ batch = b.batch /\ b.reset /\ outsize = 0
     \/ cmd_state = "CMD_MEMORY" /\ batch = <<Cmd(b)>> /\ Cmd(b).op # "F0" /\ outsize \in Nat
  /\ count \in Nat /\ count >= 3
  /\ Demands(b)
Inbound(b) == batch = <<>> /\ Good /\ Supplies(b)

Astray(b) ==
  \/ /\ count \in Nat /\ count >= 2
     /\ \/ cmd_state = "CMD_ROM" /\ batch = b.batch /\ outsize = 0
        \/ cmd_state = "CMD_MEMORY" /\ batch = <<Cmd(b)>> /\ outsize = 1
  \/ batch = <<>> /\ ~Good

\* Once nothing is left to be copied the page holds what was written.
Settled ==
  call.op = "CreateDataSignature" /\ ~Copies(steps) => PageHolds(call.page, call.value)

Succeeding ==
  /\ Secure(steps, call) /\ Ending(steps, call) /\ sign = "unread" /\ Settled
  /\ IF sent THEN Outbound(step) \/ Inbound(step)
     ELSE Demands(step) /\ (~step.reset => cmd_state = "CMD_MEMORY")

Failing == Doomed(steps) /\ (sent /\ Bad(step) => Astray(step))

SureInv ==
  result = "running" => ~lost /\ IF Supported THEN Succeeding ELSE Failing

LEMMA CmdOf ==
  ASSUME NEW x \in AnyPackets, NEW check \in Checks
  PROVE  LET behind == Block(TRUE, <<Resume, x>>, check)
             alone  == Block(FALSE, <<x>>, check)
             rom    == Block(TRUE, <<x>>, check)
         IN  /\ {behind, alone, rom} \subseteq AnyBlocks
             /\ Cmd(behind) = x /\ Cmd(alone) = x /\ Cmd(rom) = x
BY ResumeType DEF Block, Cmd, AnyBlocks, Harmless

LEMMA Addressed ==
  ASSUME NEW op \in Codes, NEW n \in Int, NEW a \in Nat
  PROVE  LET x == [Packet(op, n) EXCEPT !.addr = a]
         IN  x \in AnyPackets /\ x.op = op /\ x.addr = a /\ ~x.aa /\ x.size = n
<1>1. (CHOOSE v \in Values : TRUE) \in Nat
  BY ShaAssumption
<1> DEFINE r == Packet(op, n)
<1>2. r \in AnyPackets /\ r.op = op /\ ~r.aa /\ r.size = n
  BY <1>1 DEF Packet, AnyPackets, Codes, Subs
<1> HIDE DEF r
<1>3. LET x == [r EXCEPT !.addr = a]
      IN  x \in AnyPackets /\ x.op = op /\ x.addr = a /\ ~x.aa /\ x.size = n
  BY <1>2 DEF AnyPackets
<1> QED
  BY <1>3 DEF r

\* The packets, in full.
LEMMA PacketsInFull ==
  ASSUME NEW c \in Calls
  PROVE  /\ ErasePacket(c) \in AnyPackets /\ ErasePacket(c).op = "C3"
         /\ ErasePacket(c).addr = Page(c.page) /\ ErasePacket(c).size = 5
         /\ WritePacket(c) \in AnyPackets /\ WritePacket(c).op = "0F"
         /\ WritePacket(c).addr = Page(c.page) /\ WritePacket(c).value = c.value
         /\ WritePacket(c).size = PageSize + 5
         /\ PagePacket(c) \in AnyPackets /\ PagePacket(c).op = "A5"
         /\ PagePacket(c).addr = Page(c.page) /\ PagePacket(c).size = PageSize + 15
<1>1. c.page \in Nat /\ c.value \in Nat /\ Page(c.page) \in Nat
  BY Programs, PageAddress
<1>2. {"C3", "A5", "0F"} \subseteq Codes /\ 5 \in Int /\ PageSize + 15 \in Int
      /\ PageSize + 5 \in Int
  BY Sizes DEF Codes
<1>3. /\ ErasePacket(c) \in AnyPackets /\ ErasePacket(c).op = "C3"
      /\ ErasePacket(c).addr = Page(c.page) /\ ErasePacket(c).size = 5
  BY <1>1, <1>2, Addressed DEF ErasePacket
<1>4. /\ PagePacket(c) \in AnyPackets /\ PagePacket(c).op = "A5"
      /\ PagePacket(c).addr = Page(c.page) /\ PagePacket(c).size = PageSize + 15
  BY <1>1, <1>2, Addressed DEF PagePacket
<1>5. /\ WritePacket(c) \in AnyPackets /\ WritePacket(c).op = "0F"
      /\ WritePacket(c).addr = Page(c.page) /\ WritePacket(c).value = c.value
      /\ WritePacket(c).size = PageSize + 5
  <2> DEFINE q == [Packet("0F", PageSize + 5) EXCEPT !.addr = Page(c.page)]
  <2>1. q \in AnyPackets /\ q.op = "0F" /\ q.addr = Page(c.page) /\ q.size = PageSize + 5
    BY <1>1, <1>2, Addressed
  <2>2. WritePacket(c) = [q EXCEPT !.value = c.value]
    BY DEF WritePacket
  <2> HIDE DEF q
  <2> QED
    BY <2>1, <2>2, <1>1 DEF AnyPackets
<1> QED
  BY <1>3, <1>4, <1>5

LEMMA ShaPacketInFull ==
  ASSUME NEW c \in Calls
  PROVE  /\ ShaPacket(c) \in AnyPackets /\ ShaPacket(c).op = "33"
         /\ ShaPacket(c).addr = Page(c.page) /\ ShaPacket(c).size = 8
         /\ c.op = "CreateDataSignature" => ShaPacket(c).sub = "C3"
<1> DEFINE u == IF c.op = "CreateDataSignature" THEN "C3" ELSE "CC"
<1>1. Page(c.page) \in Nat
  BY Programs, PageAddress
<1>2. "33" \in Codes /\ 8 \in Int
  BY DEF Codes
<1> DEFINE q == [Packet("33", 8) EXCEPT !.addr = Page(c.page)]
<1>3. q \in AnyPackets /\ q.op = "33" /\ q.addr = Page(c.page) /\ q.size = 8
  BY <1>1, <1>2, Addressed
<1>4. ShaPacket(c) = [q EXCEPT !.sub = u]
  BY DEF ShaPacket
<1>5. u \in Subs /\ (c.op = "CreateDataSignature" => u = "C3")
  BY DEF Subs
<1> HIDE DEF q, u
<1> QED
  BY <1>3, <1>4, <1>5 DEF AnyPackets

LEMMA ReadsAndCopies ==
  ASSUME NEW p \in Nat
  PROVE  /\ ReadPacket \in AnyPackets /\ ReadPacket.op = "AA"
         /\ ReadPacket.size = PageSize + 6
         /\ CopyPacket(p) \in AnyPackets /\ CopyPacket(p).op = "55"
         /\ CopyPacket(p).addr = Page(p) /\ ~CopyPacket(p).aa
         /\ CopyPacket(p).off = PageSize - 1 /\ CopyPacket(p).size = 6
<1>1. (CHOOSE v \in Values : TRUE) \in Nat /\ Page(p) \in Nat
  BY ShaAssumption, PageAddress
<1>2. /\ ReadPacket \in AnyPackets /\ ReadPacket.op = "AA"
      /\ ReadPacket.size = PageSize + 6
  BY <1>1, Sizes DEF ReadPacket, Packet, AnyPackets, Codes, Subs
<1> DEFINE q == [Packet("55", 6) EXCEPT !.addr = Page(p)]
<1>3. q \in AnyPackets /\ q.op = "55" /\ q.addr = Page(p) /\ ~q.aa /\ q.size = 6
  <2>1. "55" \in Codes /\ 6 \in Int
    BY DEF Codes
  <2> QED
    BY <1>1, <2>1, Addressed
<1>4. CopyPacket(p) = [q EXCEPT !.off = PageSize - 1]
  BY DEF CopyPacket
<1> HIDE DEF q
<1> QED
  BY <1>2, <1>3, <1>4, Sizes DEF AnyPackets

----------------------------------------------------------------------------
(* Calls that can succeed, exchange by exchange. *)

\* A call begun with s goes on with b.
LEMMA GoesOn ==
  ASSUME NEW c, NEW s, Secure(s, c), NEW b \in AnyBlocks, Sure(b, c),
         Feeds(s[Len(s)], b, c)
  PROVE  /\ Secure(s \o <<b>>, c)
         /\ (s \o <<b>>)[1] = s[1] /\ (s \o <<b>>)[Len(s \o <<b>>)] = b
         /\ Copies(s) => Copies(s \o <<b>>)
         /\ b.check = "copied" => Copies(s \o <<b>>)
<1> DEFINE u == s \o <<b>>
<1>1. s \in Seq(AnyBlocks) /\ Len(s) \in Nat /\ Len(s) >= 1
  BY DEF Secure
<1>2. /\ u \in Seq(AnyBlocks) /\ Len(u) = Len(s) + 1 /\ u[Len(s) + 1] = b
      /\ \A n \in 1 .. Len(s) : u[n] = s[n]
  BY <1>1
<1> HIDE DEF u
<1>3. ASSUME NEW n \in 1 .. Len(u) PROVE Sure(u[n], c)
  <2>1. CASE n = Len(s) + 1
    BY <1>2, <2>1
  <2>2. CASE n # Len(s) + 1
    BY <1>1, <1>2, <2>2 DEF Secure
  <2> QED
    BY <2>1, <2>2
<1>4. ASSUME NEW n \in 2 .. Len(u) PROVE Feeds(u[n - 1], u[n], c)
  <2>1. CASE n = Len(s) + 1
    BY <1>1, <1>2, <2>1
  <2>2. CASE n # Len(s) + 1
    <3>1. n \in 2 .. Len(s) /\ u[n] = s[n] /\ u[n - 1] = s[n - 1]
      BY <1>1, <1>2, <2>2
    <3> QED
      BY <3>1 DEF Secure
  <2> QED
    BY <2>1, <2>2
<1>5. Secure(u, c)
  BY <1>1, <1>2, <1>3, <1>4 DEF Secure
<1>6. Copies(s) => Copies(u)
  BY <1>1, <1>2 DEF Copies
<1>7. b.check = "copied" => Copies(u)
  BY <1>1, <1>2 DEF Copies
<1>8. u[1] = s[1] /\ u[Len(u)] = b
  BY <1>1, <1>2
<1> QED
  BY <1>5, <1>6, <1>7, <1>8 DEF u

LEMMA BeginsWith ==
  ASSUME NEW c, NEW b \in AnyBlocks, Sure(b, c)
  PROVE  Secure(<<b>>, c) /\ <<b>>[1] = b /\ <<b>>[Len(<<b>>)] = b
<1>1. <<b>> \in Seq(AnyBlocks) /\ Len(<<b>>) = 1 /\ <<b>>[1] = b
  OBVIOUS
<1> QED
  BY <1>1 DEF Secure

\* The blocks.
Behind(x, check) == Block(TRUE, <<Resume, x>>, check)

LEMMA BehindFacts ==
  ASSUME NEW x \in AnyPackets, NEW check \in Checks
  PROVE  /\ Behind(x, check) \in AnyBlocks /\ Behind(x, check).reset
         /\ Behind(x, check).batch = <<Resume, x>>
         /\ Behind(x, check).check = check /\ Behind(x, check).failed = "FALSE"
         /\ Cmd(Behind(x, check)) = x
BY CmdOf DEF Behind, Block

LEMMA SelectSure ==
  ASSUME NEW c
  PROVE  Select \in AnyBlocks /\ Sure(Select, c) /\ Opens(Select) /\ Cmd(Select).op = "F0"
         /\ Select.check = "any"
<1> DEFINE x == Packet("F0", 25)
<1>1. x \in AnyPackets /\ x.op = "F0" /\ x.size = 25
  <2>1. (CHOOSE v \in Values : TRUE) \in Nat
    BY ShaAssumption
  <2> QED
    BY <2>1 DEF Packet, AnyPackets, Codes, Subs
<1>2. /\ Select \in AnyBlocks /\ Cmd(Select) = x /\ Select.reset
      /\ Select.batch = <<x>> /\ Select.check = "any" /\ Select.failed = "FALSE"
  BY <1>1, CmdOf DEF Select, Block, Checks
<1> HIDE DEF x
<1> QED
  BY <1>1, <1>2 DEF Sure, Opens

LEMMA BlocksSure ==
  ASSUME NEW c \in Calls
  PROVE  /\ Sure(Behind(ErasePacket(c), "completion"), c)
         /\ Sure(Behind(WritePacket(c), "crc"), c)
         /\ Sure(Behind(ReadPacket, "verify"), c)
         /\ Sure(Behind(ReadPacket, "sign"), c)
         /\ Sure(Behind(CopyPacket(c.page), "copied"), c)
         /\ Sure(Behind(ShaPacket(c), "completion"), c)
         /\ Sure(Behind(PagePacket(c), "page"), c)
<1>1. c.page \in Nat
  BY Programs
<1>2. Sure(Behind(ErasePacket(c), "completion"), c)
  BY PacketsInFull, BehindFacts DEF Sure, Checks
<1>3. Sure(Behind(WritePacket(c), "crc"), c)
  BY PacketsInFull, BehindFacts, Sizes DEF Sure, Checks
<1>4. Sure(Behind(ReadPacket, "verify"), c) /\ Sure(Behind(ReadPacket, "sign"), c)
  BY <1>1, ReadsAndCopies, BehindFacts, Sizes DEF Sure, Checks
<1>5. Sure(Behind(CopyPacket(c.page), "copied"), c)
  BY <1>1, ReadsAndCopies, BehindFacts DEF Sure, Checks
<1>6. Sure(Behind(ShaPacket(c), "completion"), c)
  BY ShaPacketInFull, BehindFacts DEF Sure, Checks
<1>7. Sure(Behind(PagePacket(c), "page"), c)
  BY PacketsInFull, BehindFacts, Sizes DEF Sure, Checks
<1> QED
  BY <1>2, <1>3, <1>4, <1>5, <1>6, <1>7

----------------------------------------------------------------------------
(* The programs. *)

LEMMA EraseSecure ==
  ASSUME NEW c \in Calls, NEW resume \in BOOLEAN
  PROVE  LET s == EraseScratchpadSHA18(c.page, resume)
         IN  /\ Secure(s, c) /\ Opens(s[1])
             /\ Cmd(s[Len(s)]).op = "C3" /\ s[Len(s)].check = "completion"
<1> DEFINE x     == ErasePacket(c)
           b     == Behind(x, "completion")
           alone == Block(FALSE, <<x>>, "completion")
<1>1. x \in AnyPackets /\ x.op = "C3" /\ x.size = 5 /\ "completion" \in Checks
  BY PacketsInFull DEF Checks
<1>2. /\ b \in AnyBlocks /\ b.reset /\ b.check = "completion" /\ Cmd(b) = x /\ Sure(b, c)
  BY <1>1, BehindFacts, BlocksSure
<1>3. /\ alone \in AnyBlocks /\ ~alone.reset /\ alone.check = "completion"
      /\ Cmd(alone) = x /\ alone.batch = <<x>> /\ alone.failed = "FALSE"
  BY <1>1, CmdOf DEF Block
<1>4. EraseScratchpadSHA18(c.page, resume) = IF resume THEN <<b>> ELSE <<Select, alone>>
  BY DEF EraseScratchpadSHA18, Selected, Behind, ErasePacket
<1>5. x = ErasePacket(c)
  OBVIOUS
<1> HIDE DEF x, b, alone
<1>6. Sure(alone, c)
  <2>1. alone.batch = IF alone.reset /\ Cmd(alone).op # "F0" THEN <<Resume, Cmd(alone)>>
                      ELSE <<Cmd(alone)>>
    BY <1>3
  <2>2. Cmd(alone).size >= 3
    BY <1>1, <1>3
  <2> QED
    BY <1>3, <1>5, <2>1, <2>2 DEF Sure
<1>7. CASE resume
  <2>1. Secure(<<b>>, c) /\ <<b>>[1] = b /\ <<b>>[Len(<<b>>)] = b
    BY <1>2, BeginsWith
  <2>2. Opens(b)
    BY <1>1, <1>2 DEF Opens
  <2> QED
    BY <1>1, <1>2, <1>4, <1>7, <2>1, <2>2
<1>8. CASE ~resume
  <2> DEFINE s == <<Select>>
             u == s \o <<alone>>
  <2>1. Secure(s, c) /\ s[1] = Select /\ s[Len(s)] = Select
    BY SelectSure, BeginsWith
  <2>2. Feeds(Select, alone, c)
    BY <1>1, <1>3, SelectSure DEF Feeds
  <2> HIDE DEF s
  <2>3. Secure(u, c) /\ u[1] = Select /\ u[Len(u)] = alone
    BY <1>3, <1>6, <2>1, <2>2, GoesOn
  <2>4. u = <<Select, alone>>
    BY Two DEF s
  <2> HIDE DEF u
  <2> QED
    BY <1>1, <1>3, <1>4, <1>8, <2>3, <2>4, SelectSure
<1> QED
  BY <1>7, <1>8

LEMMA WriteDataPageSecure ==
  ASSUME NEW c \in Calls, NEW resume \in BOOLEAN
  PROVE  LET s == WriteDataPageSHA18(c.page, c.value, resume)
         IN  /\ Secure(s, c) /\ Opens(s[1]) /\ Copies(s)
             /\ s[Len(s)].check = "copied" /\ Cmd(s[Len(s)]).op = "55"
<1> DEFINE e == EraseScratchpadSHA18(c.page, resume)
           w == Behind(WritePacket(c), "crc")
           v == Behind(ReadPacket, "verify")
           d == Behind(CopyPacket(c.page), "copied")
           ew == e \o <<w>>
           ewv == ew \o <<v>>
           ewvd == ewv \o <<d>>
<1>1. /\ Secure(e, c) /\ Opens(e[1])
      /\ Cmd(e[Len(e)]).op = "C3" /\ e[Len(e)].check = "completion"
  BY EraseSecure
<1>2. /\ w \in AnyBlocks /\ Sure(w, c) /\ w.reset /\ w.check = "crc" /\ Cmd(w).op = "0F"
      /\ v \in AnyBlocks /\ Sure(v, c) /\ v.reset /\ v.check = "verify" /\ Cmd(v).op = "AA"
      /\ d \in AnyBlocks /\ Sure(d, c) /\ d.reset /\ d.check = "copied" /\ Cmd(d).op = "55"
  BY Programs, PacketsInFull, ReadsAndCopies, BehindFacts, BlocksSure DEF Checks
<1>3. WriteDataPageSHA18(c.page, c.value, resume) = ewvd
  BY DEF WriteDataPageSHA18, WriteScratchpadSHA18, ReadScratchpadSHA18,
         CopyScratchpadSHA18, Selected, Behind, WritePacket, CopyPacket, ReadPacket
<1> HIDE DEF e, w, v, d
<1>4. Feeds(e[Len(e)], w, c) /\ Feeds(w, v, c) /\ Feeds(v, d, c)
  BY <1>1, <1>2 DEF Feeds
<1>5. Secure(ew, c) /\ ew[1] = e[1] /\ ew[Len(ew)] = w
  BY <1>1, <1>2, <1>4, GoesOn
<1> HIDE DEF ew
<1>6. Secure(ewv, c) /\ ewv[1] = e[1] /\ ewv[Len(ewv)] = v
  BY <1>2, <1>4, <1>5, GoesOn
<1> HIDE DEF ewv
<1>7. Secure(ewvd, c) /\ ewvd[1] = e[1] /\ ewvd[Len(ewvd)] = d /\ Copies(ewvd)
  BY <1>2, <1>4, <1>6, GoesOn
<1> QED
  BY <1>1, <1>2, <1>3, <1>7

LEMMA ChallengeSecure ==
  ASSUME NEW c \in Calls, c.op = "CreateChallenge"
  PROVE  Secure(CreateChallenge(c.page), c) /\ Opens(CreateChallenge(c.page)[1])
<1> DEFINE e == EraseScratchpadSHA18(c.page, FALSE)
           f == Behind(ShaPacket(c), "completion")
           r == Behind(ReadPacket, "sign")
           ef == e \o <<f>>
           efr == ef \o <<r>>
<1>1. /\ Secure(e, c) /\ Opens(e[1])
      /\ Cmd(e[Len(e)]).op = "C3" /\ e[Len(e)].check = "completion"
  BY EraseSecure
<1>2. /\ f \in AnyBlocks /\ Sure(f, c) /\ f.reset /\ f.check = "completion"
      /\ Cmd(f).op = "33"
      /\ r \in AnyBlocks /\ Sure(r, c) /\ r.reset /\ r.check = "sign" /\ Cmd(r).op = "AA"
  BY Programs, ShaPacketInFull, ReadsAndCopies, BehindFacts, BlocksSure DEF Checks
<1>3. CreateChallenge(c.page) = efr
  <2>1. ShaPacket(c) = [Packet("33", 8) EXCEPT !.addr = Page(c.page), !.sub = "CC"]
    BY DEF ShaPacket
  <2> QED
    BY <2>1 DEF CreateChallenge, SHAFunction18, ReadScratchpadSHA18, Selected, Behind,
                ReadPacket
<1> HIDE DEF e, f, r
<1>4. Feeds(e[Len(e)], f, c) /\ Feeds(f, r, c)
  BY <1>1, <1>2 DEF Feeds
<1>5. Secure(ef, c) /\ ef[1] = e[1] /\ ef[Len(ef)] = f
  BY <1>1, <1>2, <1>4, GoesOn
<1> HIDE DEF ef
<1>6. Secure(efr, c) /\ efr[1] = e[1]
  BY <1>2, <1>4, <1>5, GoesOn
<1> QED
  BY <1>1, <1>3, <1>6

LEMMA AnswerSecure ==
  ASSUME NEW c \in Calls, c.op = "AnswerChallenge"
  PROVE  LET s == AnswerChallenge(c.page, c.value)
         IN  Secure(s, c) /\ Opens(s[1]) /\ s[Len(s)].check = "sign"
<1> DEFINE e == EraseScratchpadSHA18(c.page, FALSE)
           w == Behind(WritePacket(c), "crc")
           g == Behind(PagePacket(c), "page")
           r == Behind(ReadPacket, "sign")
           t == [r EXCEPT !.failed = "TRUE"]
           ew == e \o <<w>>
           ewg == ew \o <<g>>
           ewgt == ewg \o <<t>>
<1>1. /\ Secure(e, c) /\ Opens(e[1])
      /\ Cmd(e[Len(e)]).op = "C3" /\ e[Len(e)].check = "completion"
  BY EraseSecure
<1>2. /\ w \in AnyBlocks /\ Sure(w, c) /\ w.reset /\ w.check = "crc" /\ Cmd(w).op = "0F"
      /\ g \in AnyBlocks /\ Sure(g, c) /\ g.reset /\ g.check = "page" /\ Cmd(g).op = "A5"
      /\ r \in AnyBlocks /\ Sure(r, c) /\ r.reset /\ r.check = "sign" /\ Cmd(r).op = "AA"
  BY Programs, PacketsInFull, ReadsAndCopies, BehindFacts, BlocksSure DEF Checks
<1>3. AnswerChallenge(c.page, c.value) = ew \o (<<g>> \o <<t>>)
  BY DEF AnswerChallenge, WriteScratchpadSHA18, ReadAuthPageSHA18, Selected, Behind,
         WritePacket, PagePacket, ReadPacket
<1> HIDE DEF e, w, g, r
<1>4. /\ t \in AnyBlocks /\ t.reset /\ t.check = "sign" /\ t.batch = r.batch
  BY <1>2 DEF AnyBlocks
<1> HIDE DEF t
<1>5. Cmd(t) = Cmd(r)
  BY <1>4 DEF Cmd
<1>6. Sure(t, c)
  BY <1>2, <1>4, <1>5 DEF Sure
<1>7. Feeds(e[Len(e)], w, c) /\ Feeds(w, g, c) /\ Feeds(g, t, c)
  BY <1>1, <1>2, <1>4, <1>5 DEF Feeds
<1>8. Secure(ew, c) /\ ew[1] = e[1] /\ ew[Len(ew)] = w
  BY <1>1, <1>2, <1>7, GoesOn
<1> HIDE DEF ew
<1>9. Secure(ewg, c) /\ ewg[1] = e[1] /\ ewg[Len(ewg)] = g
  BY <1>2, <1>7, <1>8, GoesOn
<1>10. ew \o (<<g>> \o <<t>>) = ewgt
  <2> DEFINE T == AnyBlocks
             gg == <<g>>
             tt == <<t>>
  <2>1. ew \in Seq(T) /\ gg \in Seq(T) /\ tt \in Seq(T)
    BY <1>2, <1>4, <1>8 DEF Secure
  <2> HIDE DEF gg, tt, T
  <2>2. ew \o (gg \o tt) = (ew \o gg) \o tt
    BY <2>1
  <2> QED
    BY <2>2 DEF gg, tt
<1> HIDE DEF ewg
<1>11. Secure(ewgt, c) /\ ewgt[1] = e[1] /\ ewgt[Len(ewgt)] = t
  BY <1>4, <1>6, <1>7, <1>9, GoesOn
<1> QED
  BY <1>1, <1>3, <1>4, <1>10, <1>11

LEMMA DataSignatureSecure ==
  ASSUME NEW c \in Calls, c.op = "CreateDataSignature"
  PROVE  LET s == CreateDataSignature(c.page, c.value, TRUE)
         IN  Secure(s, c) /\ Opens(s[1]) /\ s[Len(s)].check = "sign" /\ Copies(s)
<1> DEFINE a == WriteDataPageSHA18(c.page, c.value, FALSE)
           w == Behind(WritePacket(c), "crc")
           f == Behind(ShaPacket(c), "completion")
           r == Behind(ReadPacket, "sign")
           aw == a \o <<w>>
           awf == aw \o <<f>>
           awfr == awf \o <<r>>
<1>1. /\ Secure(a, c) /\ Opens(a[1]) /\ Copies(a)
      /\ a[Len(a)].check = "copied" /\ Cmd(a[Len(a)]).op = "55"
  BY WriteDataPageSecure
<1>2. /\ w \in AnyBlocks /\ Sure(w, c) /\ w.reset /\ w.check = "crc" /\ Cmd(w).op = "0F"
      /\ f \in AnyBlocks /\ Sure(f, c) /\ f.reset /\ f.check = "completion"
      /\ Cmd(f).op = "33"
      /\ r \in AnyBlocks /\ Sure(r, c) /\ r.reset /\ r.check = "sign" /\ Cmd(r).op = "AA"
  BY Programs, PacketsInFull, ShaPacketInFull, ReadsAndCopies, BehindFacts, BlocksSure
     DEF Checks
<1>3. CreateDataSignature(c.page, c.value, TRUE) = awfr
  <2>1. ShaPacket(c) = [Packet("33", 8) EXCEPT !.addr = Page(c.page), !.sub = "C3"]
    BY DEF ShaPacket
  <2> QED
    BY <2>1 DEF CreateDataSignature, SHAFunction18, ReadScratchpadSHA18,
                WriteScratchpadSHA18, Selected, Behind, ReadPacket, WritePacket
<1> HIDE DEF a, w, f, r
<1>4. Feeds(a[Len(a)], w, c) /\ Feeds(w, f, c) /\ Feeds(f, r, c)
  BY <1>1, <1>2 DEF Feeds
<1>5. Secure(aw, c) /\ aw[1] = a[1] /\ aw[Len(aw)] = w /\ Copies(aw)
  BY <1>1, <1>2, <1>4, GoesOn
<1> HIDE DEF aw
<1>6. Secure(awf, c) /\ awf[1] = a[1] /\ awf[Len(awf)] = f /\ Copies(awf)
  BY <1>2, <1>4, <1>5, GoesOn
<1> HIDE DEF awf
<1>7. Secure(awfr, c) /\ awfr[1] = a[1] /\ awfr[Len(awfr)] = r /\ Copies(awfr)
  BY <1>2, <1>4, <1>6, GoesOn
<1> QED
  BY <1>1, <1>2, <1>3, <1>7

\* Without a Resume the block of Read Memory meets the ROM handler.
LEMMA ReadMemorySecure ==
  ASSUME NEW c \in Calls, c.op = "ReadMemoryPage"
  PROVE  LET s == ReadMemoryPageSHA18(c.page, FALSE)
         IN  Secure(s, c) /\ Opens(s[1])
<1> DEFINE x     == [Packet("F0", PageSize + 3) EXCEPT !.addr = Page(c.page)]
           alone == Block(TRUE, <<x>>, "any")
           first == [Select EXCEPT !.failed = "TRUE"]
           s == <<first>>
           u == s \o <<alone>>
<1>1. x \in AnyPackets /\ x.op = "F0" /\ x.size >= 3
  <2>1. "F0" \in Codes /\ PageSize + 3 \in Int /\ Page(c.page) \in Nat
    BY Programs, PageAddress, Sizes DEF Codes
  <2>2. x \in AnyPackets /\ x.op = "F0" /\ x.size = PageSize + 3
    BY <2>1, Addressed
  <2> QED
    BY <2>2, Sizes
<1> HIDE DEF x
<1>2. /\ alone \in AnyBlocks /\ alone.reset /\ alone.check = "any" /\ Cmd(alone) = x
      /\ alone.batch = <<x>> /\ alone.failed = "FALSE"
  BY <1>1, CmdOf DEF Block, Checks
<1> HIDE DEF alone
<1>3. Sure(alone, c)
  BY <1>1, <1>2 DEF Sure
<1>4. /\ first \in AnyBlocks /\ first.reset /\ first.check = "any"
      /\ first.batch = Select.batch
  BY SelectSure DEF AnyBlocks, Sure, Opens
<1> HIDE DEF first
<1>5. Cmd(first) = Cmd(Select)
  BY <1>4 DEF Cmd
<1>6. Sure(first, c) /\ Opens(first)
  BY <1>4, <1>5, SelectSure DEF Sure, Opens
<1>7. Secure(s, c) /\ s[1] = first /\ s[Len(s)] = first
  BY <1>4, <1>6, BeginsWith
<1>8. Feeds(first, alone, c)
  BY <1>1, <1>2, <1>4, <1>5, SelectSure DEF Feeds
<1> HIDE DEF s
<1>9. Secure(u, c) /\ u[1] = first
  BY <1>2, <1>3, <1>7, <1>8, GoesOn
<1>10. u = <<first, alone>>
  BY Two DEF s
<1>11. ReadMemoryPageSHA18(c.page, FALSE) = <<first, alone>>
  BY DEF ReadMemoryPageSHA18, first, alone, x
<1> QED
  BY <1>6, <1>9, <1>10, <1>11

\* The calls of Supported.
CanSucceed(c) ==
  \/ c.op \in {"WriteDataPage", "CreateChallenge", "AnswerChallenge"}
  \/ c.op = "CreateDataSignature" /\ c.flag
  \/ c.op = "ReadMemoryPage" /\ ~c.flag

LEMMA CallFields ==
  ASSUME NEW c \in Calls
  PROVE  c.op \in Ops /\ c.flag \in BOOLEAN /\ c.value \in Values
<1>1. c \in [op : Ops, page : 0 .. Pages - 1, value : Values, flag : BOOLEAN]
  BY ShaAssumption
<1> QED
  BY <1>1

LEMMA SecurePrograms ==
  ASSUME NEW c \in Calls, CanSucceed(c)
  PROVE  /\ Secure(Program(c), c) /\ Opens(Program(c)[1]) /\ Ending(Program(c), c)
         /\ c.op = "CreateDataSignature" => Copies(Program(c))
<1>1. c.flag \in BOOLEAN
  BY CallFields
<1>2. CASE c.op = "WriteDataPage"
  <2>1. Program(c) = WriteDataPageSHA18(c.page, c.value, c.flag)
    BY <1>2 DEF Program
  <2> QED
    BY <1>1, <1>2, <2>1, WriteDataPageSecure DEF Ending
<1>3. CASE c.op = "CreateChallenge"
  <2>1. Program(c) = CreateChallenge(c.page)
    BY <1>3 DEF Program
  <2> QED
    BY <1>3, <2>1, ChallengeSecure DEF Ending
<1>4. CASE c.op = "AnswerChallenge"
  <2>1. Program(c) = AnswerChallenge(c.page, c.value)
    BY <1>4 DEF Program
  <2> QED
    BY <1>4, <2>1, AnswerSecure DEF Ending
<1>5. CASE c.op = "CreateDataSignature" /\ c.flag
  <2>1. Program(c) = CreateDataSignature(c.page, c.value, TRUE)
    BY <1>1, <1>5 DEF Program
  <2> QED
    BY <1>5, <2>1, DataSignatureSecure DEF Ending
<1>6. CASE c.op = "ReadMemoryPage" /\ ~c.flag
  <2>1. Program(c) = ReadMemoryPageSHA18(c.page, FALSE)
    BY <1>1, <1>6 DEF Program
  <2> QED
    BY <1>6, <2>1, ReadMemorySecure DEF Ending
<1> QED
  BY <1>2, <1>3, <1>4, <1>5, <1>6 DEF CanSucceed

----------------------------------------------------------------------------
(* Calls that cannot succeed: one of their exchanges is bad, and they are     *)
(* told of any failure up to it.                                              *)

Strict(s) == s \in Seq(AnyBlocks) /\ \A n \in 1 .. Len(s) : s[n].failed = "FALSE"

LEMMA StrictJoined ==
  ASSUME NEW s, NEW t, Strict(s), Strict(t)
  PROVE  Strict(s \o t)
<1> DEFINE u == s \o t
<1>1. /\ s \in Seq(AnyBlocks) /\ t \in Seq(AnyBlocks)
      /\ Len(s) \in Nat /\ Len(t) \in Nat
  BY DEF Strict
<1>2. /\ u \in Seq(AnyBlocks) /\ Len(u) = Len(s) + Len(t)
      /\ \A n \in 1 .. Len(s) : u[n] = s[n]
      /\ \A n \in Len(s) + 1 .. Len(u) : u[n] = t[n - Len(s)]
  BY <1>1
<1> HIDE DEF u
<1>3. ASSUME NEW n \in 1 .. Len(u) PROVE u[n].failed = "FALSE"
  <2>1. CASE n <= Len(s)
    BY <1>1, <1>2, <2>1 DEF Strict
  <2>2. CASE n > Len(s)
    <3>1. n - Len(s) \in 1 .. Len(t) /\ u[n] = t[n - Len(s)]
      BY <1>1, <1>2, <2>2
    <3> QED
      BY <3>1 DEF Strict
  <2> QED
    BY <1>1, <1>2, <2>1, <2>2
<1> QED
  BY <1>2, <1>3 DEF Strict, u

LEMMA DoomedBehind ==
  ASSUME NEW s, NEW t, Strict(s), Doomed(t)
  PROVE  Doomed(s \o t)
<1> DEFINE u == s \o t
<1>1. /\ s \in Seq(AnyBlocks) /\ t \in Seq(AnyBlocks)
      /\ Len(s) \in Nat /\ Len(t) \in Nat
  BY DEF Strict, Doomed
<1>2. /\ u \in Seq(AnyBlocks) /\ Len(u) = Len(s) + Len(t)
      /\ \A n \in 1 .. Len(s) : u[n] = s[n]
      /\ \A n \in 1 .. Len(t) : u[n + Len(s)] = t[n]
  BY <1>1
<1> HIDE DEF u
<1>3. PICK k \in 1 .. Len(t) : Bad(t[k]) /\ \A m \in 1 .. k : t[m].failed = "FALSE"
  BY DEF Doomed
<1>4. k + Len(s) \in 1 .. Len(u) /\ Bad(u[k + Len(s)])
  BY <1>1, <1>2, <1>3
<1>5. ASSUME NEW m \in 1 .. k + Len(s) PROVE u[m].failed = "FALSE"
  <2>1. CASE m <= Len(s)
    BY <1>1, <1>2, <2>1 DEF Strict
  <2>2. CASE m > Len(s)
    <3>1. m - Len(s) \in 1 .. k /\ m - Len(s) \in 1 .. Len(t)
          /\ (m - Len(s)) + Len(s) = m
      BY <1>1, <1>3, <2>2
    <3>2. u[m] = t[m - Len(s)]
      BY <1>2, <3>1
    <3> QED
      BY <1>3, <3>1, <3>2
  <2> QED
    BY <1>1, <2>1, <2>2
<1> QED
  BY <1>2, <1>4, <1>5 DEF Doomed, u

LEMMA DoomedBefore ==
  ASSUME NEW s, NEW t \in Seq(AnyBlocks), Doomed(s)
  PROVE  Doomed(s \o t)
<1> DEFINE u == s \o t
<1>1. s \in Seq(AnyBlocks) /\ Len(s) \in Nat /\ Len(t) \in Nat
  BY DEF Doomed
<1>2. /\ u \in Seq(AnyBlocks) /\ Len(u) = Len(s) + Len(t)
      /\ \A n \in 1 .. Len(s) : u[n] = s[n]
  BY <1>1
<1> HIDE DEF u
<1>3. PICK k \in 1 .. Len(s) : Bad(s[k]) /\ \A m \in 1 .. k : s[m].failed = "FALSE"
  BY DEF Doomed
<1>4. k \in 1 .. Len(u) /\ Bad(u[k]) /\ \A m \in 1 .. k : u[m].failed = "FALSE"
  BY <1>1, <1>2, <1>3
<1> QED
  BY <1>2, <1>4 DEF Doomed, u

LEMMA StrictSelected ==
  ASSUME NEW x \in AnyPackets, NEW check \in Checks, NEW resume \in BOOLEAN
  PROVE  Strict(Selected(resume, x, check))
<1> DEFINE b     == Block(TRUE, <<Resume, x>>, check)
           alone == Block(FALSE, <<x>>, check)
<1>1. /\ b \in AnyBlocks /\ b.failed = "FALSE"
      /\ alone \in AnyBlocks /\ alone.failed = "FALSE"
  BY CmdOf DEF Block
<1>2. Select \in AnyBlocks /\ Select.failed = "FALSE"
  BY SelectSure DEF Select, Block
<1>3. Selected(resume, x, check) = IF resume THEN <<b>> ELSE <<Select, alone>>
  BY DEF Selected
<1> HIDE DEF b, alone
<1> QED
  BY <1>1, <1>2, <1>3 DEF Strict

LEMMA OneBad ==
  ASSUME NEW x \in AnyPackets, NEW check \in Checks, x.size >= 1,
         \/ check = "any" /\ x.op \in {"3C", "F0"}
         \/ check = "crc" /\ x.op = "0F" /\ x.addr >= NvSize
  PROVE  Doomed(Selected(TRUE, x, check))
<1> DEFINE b == Behind(x, check)
<1>1. /\ b \in AnyBlocks /\ b.reset /\ b.batch = <<Resume, x>> /\ b.check = check
      /\ b.failed = "FALSE" /\ Cmd(b) = x
  BY BehindFacts
<1>2. Selected(TRUE, x, check) = <<b>>
  BY DEF Selected, Behind
<1> HIDE DEF b
<1>3. Bad(b)
  BY <1>1 DEF Bad
<1> DEFINE s == <<b>>
<1>4. s \in Seq(AnyBlocks) /\ Len(s) = 1 /\ s[1] = b
  BY <1>1
<1> HIDE DEF s
<1>5. 1 \in 1 .. Len(s) /\ Bad(s[1]) /\ \A m \in 1 .. 1 : s[m].failed = "FALSE"
  BY <1>1, <1>3, <1>4
<1>6. Doomed(s)
  BY <1>4, <1>5 DEF Doomed
<1> QED
  BY <1>2, <1>6 DEF s

LEMMA FilledWrite ==
  ASSUME NEW a \in Nat, NEW v \in Nat
  PROVE  LET x == [Packet("0F", PageSize + 5) EXCEPT !.addr = a, !.value = v]
         IN  x \in AnyPackets /\ x.op = "0F" /\ x.addr = a /\ x.size = PageSize + 5
<1> DEFINE q == [Packet("0F", PageSize + 5) EXCEPT !.addr = a]
<1>1. "0F" \in Codes /\ PageSize + 5 \in Int
  BY Sizes DEF Codes
<1>2. q \in AnyPackets /\ q.op = "0F" /\ q.addr = a /\ q.size = PageSize + 5
  BY <1>1, Addressed
<1> HIDE DEF q
<1>3. LET x == [q EXCEPT !.value = v]
      IN  x \in AnyPackets /\ x.op = "0F" /\ x.addr = a /\ x.size = PageSize + 5
  BY <1>2 DEF AnyPackets
<1> QED
  BY <1>3 DEF q

LEMMA StrictPieces ==
  ASSUME NEW c \in Calls, NEW resume \in BOOLEAN, NEW sub \in Subs
  PROVE  /\ Strict(EraseScratchpadSHA18(c.page, resume))
         /\ Strict(WriteScratchpadSHA18(Page(c.page), c.value, TRUE))
         /\ Strict(SHAFunction18(c.page, sub, TRUE))
         /\ Strict(ReadScratchpadSHA18("verify", TRUE))
         /\ Strict(CopyScratchpadSHA18(c.page, TRUE))
<1>1. c.page \in Nat /\ c.value \in Nat /\ Page(c.page) \in Nat
  BY Programs, PageAddress
<1>2. Strict(EraseScratchpadSHA18(c.page, resume))
  BY PacketsInFull, StrictSelected DEF EraseScratchpadSHA18, ErasePacket, Checks
<1>3. Strict(WriteScratchpadSHA18(Page(c.page), c.value, TRUE))
  BY <1>1, FilledWrite, StrictSelected DEF WriteScratchpadSHA18, Checks
<1>4. Strict(SHAFunction18(c.page, sub, TRUE))
  <2> DEFINE r == Packet("33", 8)
             x == [r EXCEPT !.addr = Page(c.page), !.sub = sub]
  <2>1. r \in AnyPackets
    BY PacketType DEF Codes
  <2>2. SHAFunction18(c.page, sub, TRUE) = Selected(TRUE, x, "completion")
    BY DEF SHAFunction18
  <2> HIDE DEF r
  <2>3. x \in AnyPackets
    BY <1>1, <2>1, FilledSub
  <2> HIDE DEF x
  <2> QED
    BY <2>2, <2>3, StrictSelected DEF Checks
<1>5. Strict(ReadScratchpadSHA18("verify", TRUE))
  BY <1>1, ReadsAndCopies, StrictSelected DEF ReadScratchpadSHA18, ReadPacket, Checks
<1>6. Strict(CopyScratchpadSHA18(c.page, TRUE))
  BY <1>1, ReadsAndCopies, StrictSelected DEF CopyScratchpadSHA18, CopyPacket, Checks
<1> QED
  BY <1>2, <1>3, <1>4, <1>5, <1>6

LEMMA StrictWriteDataPage ==
  ASSUME NEW c \in Calls, NEW resume \in BOOLEAN
  PROVE  Strict(WriteDataPageSHA18(c.page, c.value, resume))
<1>1. "" \in Subs
  BY DEF Subs
<1> QED
  BY <1>1, StrictPieces, StrictJoined DEF WriteDataPageSHA18

\* The secret's address gets no CRC.
LEMMA CopySecretDoomed == Strict(CopySecretSHA18) /\ Doomed(CopySecretSHA18)
<1> DEFINE v == CHOOSE v \in Values : TRUE
           w == [Packet("0F", PageSize + 5) EXCEPT !.addr = NvSize, !.value = v]
           x == [Packet("55", 6) EXCEPT !.addr = NvSize, !.off = PageSize - 1]
           sw == Selected(TRUE, w, "crc")
           sr == Selected(TRUE, Packet("AA", 4), "any")
           sx == Selected(TRUE, x, "completion")
<1>1. v \in Nat /\ NvSize \in Nat /\ PageSize - 1 \in Nat
  <2>1. v \in Nat
    BY ShaAssumption
  <2>2. NvSize \in Nat /\ PageSize - 1 \in Nat
    BY Sizes
  <2> QED
    BY <2>1, <2>2
<1>2. CopySecretSHA18 = (sw \o sr) \o sx
  BY DEF CopySecretSHA18, WriteScratchpadSHA18, Selected
<1>3. Packet("AA", 4) \in AnyPackets /\ Packet("55", 6) \in AnyPackets
  BY PacketType DEF Codes
<1>4. x \in AnyPackets
  <2> DEFINE r == Packet("55", 6)
  <2> HIDE DEF r
  <2>1. WithOffset(r, NvSize, PageSize - 1) \in AnyPackets
    BY <1>1, <1>3, FilledOff DEF r
  <2> QED
    BY <2>1 DEF WithOffset, r
<1> HIDE DEF v
<1>5. w \in AnyPackets /\ w.op = "0F" /\ w.addr = NvSize /\ w.size = PageSize + 5
  BY <1>1, FilledWrite
<1> HIDE DEF w, x
<1>6. Strict(sw) /\ Strict(sr) /\ Strict(sx)
  BY <1>3, <1>4, <1>5, StrictSelected DEF Checks
<1>7. Doomed(sw)
  <2>1. w.size >= 1 /\ w.addr >= NvSize /\ "crc" \in Checks
    BY <1>1, <1>5, Sizes DEF Checks
  <2> QED
    BY <1>5, <2>1, OneBad
<1> HIDE DEF sw, sr, sx
<1>8. Doomed(sw \o sr) /\ Strict(sw \o sr)
  BY <1>6, <1>7, DoomedBefore, StrictJoined DEF Strict
<1>9. Doomed((sw \o sr) \o sx) /\ Strict((sw \o sr) \o sx)
  BY <1>6, <1>8, DoomedBefore, StrictJoined DEF Strict
<1> QED
  BY <1>2, <1>9

LEMMA InstallDoomed ==
  ASSUME NEW c \in Calls, NEW resume \in BOOLEAN, NEW sub \in Subs
  PROVE  LET s == InstallSecret(c.page, c.value, sub, resume)
         IN  Strict(s) /\ Doomed(s)
<1>1. /\ Strict(WriteDataPageSHA18(c.page, c.value, resume))
      /\ Strict(WriteScratchpadSHA18(Page(c.page), c.value, TRUE))
      /\ Strict(SHAFunction18(c.page, sub, TRUE))
  BY StrictWriteDataPage, StrictPieces
<1> QED
  BY <1>1, CopySecretDoomed, StrictJoined, DoomedBehind DEF InstallSecret

\* The button has no Match Scratchpad.
LEMMA MatchDoomed == Doomed(MatchScratchpadSHA18)
<1>1. Packet("3C", 24) \in AnyPackets /\ Packet("3C", 24).op = "3C"
  BY PacketType DEF Codes
<1>2. Packet("3C", 24).size >= 1
  BY DEF Packet
<1> QED
  BY <1>1, <1>2, OneBad DEF MatchScratchpadSHA18, Checks

LEMMA DoomedPrograms ==
  ASSUME NEW c \in Calls, ~CanSucceed(c)
  PROVE  Doomed(Program(c))
<1> DEFINE w == WriteScratchpadSHA18(Page(c.page), c.value, TRUE)
<1>1. /\ c.op \in Ops /\ c.flag \in BOOLEAN /\ "" \in Subs /\ "F0" \in Subs /\ "0F" \in Subs
      /\ "3C" \in Subs /\ "C3" \in Subs
  BY CallFields DEF Subs
<1>2. CASE c.op = "InstallSecret"
  BY <1>1, <1>2, InstallDoomed DEF Program
<1>3. CASE c.op = "VerifyAuthResponse"
  <2> DEFINE a == WriteDataPageSHA18(c.page, c.value, c.flag)
             f == SHAFunction18(c.page, "3C", TRUE)
             b == IF c.flag THEN InstallSecret(c.page, c.value, "F0", FALSE) ELSE <<>>
  <2>1. Strict(a) /\ Strict(w) /\ Strict(f)
    BY <1>1, StrictWriteDataPage, StrictPieces
  <2>2. Strict(b)
    <3>1. Strict(InstallSecret(c.page, c.value, "F0", FALSE))
      BY <1>1, InstallDoomed
    <3>2. Strict(<<>>)
      BY DEF Strict
    <3> QED
      BY <3>1, <3>2
  <2>3. Program(c) = (((b \o a) \o w) \o f) \o MatchScratchpadSHA18
    BY <1>3 DEF Program, VerifyAuthResponse
  <2> HIDE DEF a, w, f, b
  <2> QED
    BY <2>1, <2>2, <2>3, StrictJoined, MatchDoomed, DoomedBehind
<1>4. CASE c.op = "CreateDataSignature" /\ ~c.flag
  <2> DEFINE a == WriteDataPageSHA18(c.page, c.value, FALSE)
             f == SHAFunction18(c.page, "C3", TRUE)
  <2>1. Strict(a) /\ Strict(w) /\ Strict(f)
    BY <1>1, StrictWriteDataPage, StrictPieces
  <2>2. Program(c) = ((a \o w) \o f) \o MatchScratchpadSHA18
    BY <1>1, <1>4 DEF Program, CreateDataSignature
  <2> HIDE DEF a, w, f
  <2> QED
    BY <2>1, <2>2, StrictJoined, MatchDoomed, DoomedBehind
<1>5. CASE c.op = "ReadMemoryPage" /\ c.flag
  <2> DEFINE x == [Packet("F0", PageSize + 3) EXCEPT !.addr = Page(c.page)]
  <2>1. "F0" \in Codes /\ PageSize + 3 \in Int /\ Page(c.page) \in Nat
    BY Programs, PageAddress, Sizes DEF Codes
  <2>2. x \in AnyPackets /\ x.op = "F0" /\ x.size = PageSize + 3
    BY <2>1, Addressed
  <2>3. Program(c) = Selected(TRUE, x, "any")
    BY <1>1, <1>5 DEF Program, ReadMemoryPageSHA18, Selected
  <2> HIDE DEF x
  <2>4. x.size >= 1 /\ "any" \in Checks
    BY <2>2, Sizes DEF Checks
  <2> QED
    BY <2>2, <2>3, <2>4, OneBad
<1> QED
  BY <1>1, <1>2, <1>3, <1>4, <1>5 DEF CanSucceed, Ops

----------------------------------------------------------------------------
(* The button's part of a step of a call that can succeed. *)

LEMMA PageNumber ==
  ASSUME NEW p \in 0 .. Pages - 1
  PROVE  /\ InNvram(Page(p)) /\ Page(p) < NvSize /\ Page(p) \in Nat
         /\ Page(p) \div PageSize = p /\ Page(p) % PageSize = 0
<1>1. p \in Nat /\ 0 \in 0 .. PageSize - 1 /\ PageSize - 1 \in 0 .. PageSize - 1
  BY Sizes
<1>2. Page(p) + (PageSize - 1) \in 0 .. NvSize - 1 /\ Page(p) \in Nat
  BY <1>1, PageCells
<1>3. Page(p) % PageSize = 0
  BY <1>1, PageStart
<1>4. Page(p) \div PageSize = p
  <2> DEFINE a == p * PageSize
             q == a \div PageSize
             r == a % PageSize
  <2>1. a \in Nat /\ q \in Nat /\ r \in 0 .. PageSize - 1 /\ a = PageSize * q + r
    BY <1>1, Sizes
  <2> HIDE DEF q, r
  <2>2. PageSize * (p - q) = r
    BY <1>1, <2>1, Sizes
  <2>3. ASSUME p - q >= 1 PROVE FALSE
    BY <1>1, <2>1, <2>2, <2>3, Sizes
  <2>4. ASSUME p - q <= -1 PROVE FALSE
    BY <1>1, <2>1, <2>2, <2>4, Sizes
  <2>5. p = q
    BY <1>1, <2>1, <2>3, <2>4
  <2> QED
    BY <2>5 DEF q, Page
<1> QED
  BY <1>1, <1>2, <1>3, <1>4, Sizes DEF InNvram

\* What an exchange that can succeed may be.
LEMMA Kinds ==
  ASSUME NEW c \in Calls, NEW b, Sure(b, c)
  PROVE  \/ Cmd(b).op = "F0" /\ b.check = "any" /\ b.reset
         \/ Cmd(b).op = "C3" /\ b.check = "completion" /\ Cmd(b) = ErasePacket(c)
         \/ Cmd(b).op = "0F" /\ b.check = "crc" /\ Cmd(b) = WritePacket(c)
         \/ Cmd(b).op = "AA" /\ b.check \in {"verify", "sign"} /\ Cmd(b) = ReadPacket
         \/ Cmd(b).op = "55" /\ b.check = "copied" /\ Cmd(b) = CopyPacket(c.page)
         \/ Cmd(b).op = "33" /\ b.check = "completion" /\ Cmd(b) = ShaPacket(c)
         \/ Cmd(b).op = "A5" /\ b.check = "page" /\ Cmd(b) = PagePacket(c)
BY Programs, PacketsInFull, ShaPacketInFull, ReadsAndCopies DEF Sure

\* A call that can succeed, with a block on its way that the button takes up.
Serving ==
  /\ ShaInv /\ result = "running" /\ sent /\ Secure(steps, call) /\ Settled
  /\ Outbound(step) /\ Answer

\* The last command of the block is before the memory handler.
AtCommand == Serving /\ cmd_state = "CMD_MEMORY"

LEMMA ServingFacts ==
  ASSUME Serving
  PROVE  /\ call \in Calls /\ call.page \in 0 .. Pages - 1 /\ call.page \in Nat
         /\ step = steps[1] /\ step \in AnyBlocks /\ Sure(step, call)
         /\ step' = step /\ call' = call /\ steps' = steps /\ data' = data /\ sign' = sign
         /\ result' = result /\ sent' = sent /\ lost' = lost
         /\ DOMAIN mem = 0 .. MemSize - 1
<1>1. ShaInv /\ result = "running" /\ Answer /\ Secure(steps, call)
  BY DEF Serving
<1>2. /\ call \in Calls /\ call.page \in 0 .. Pages - 1 /\ call.page \in Nat
      /\ step = steps[1] /\ step \in AnyBlocks
  BY <1>1, StepFacts
<1>3. Sure(step, call)
  BY <1>1, <1>2 DEF Secure
<1>4. /\ call' = call /\ steps' = steps /\ data' = data /\ sign' = sign
      /\ result' = result /\ sent' = sent /\ lost' = lost
  BY <1>1, BatchShrinks DEF host
<1>5. step' = step
  BY <1>4 DEF step
<1> QED
  BY <1>1, <1>2, <1>3, <1>4, <1>5 DEF ShaInv, ShaTypes

LEMMA CommandFacts ==
  ASSUME AtCommand
  PROVE  /\ batch = <<Cmd(step)>> /\ cmd = Cmd(step) /\ Demands(step)
         /\ Cmd(step).op # "F0" /\ count \in Nat /\ count >= 3 /\ outsize \in Nat
BY DEF AtCommand, Serving, Outbound, cmd

\* Only a SHA command that computes is remembered.
LEMMA MacOfKept ==
  ASSUME Answer, cmd.op \notin {"A5", "33"}
  PROVE  macOf' = macOf
BY DEF Answer, Computing, InMemory

\* A block that was answered in full.
LEMMA AnsweredInFull ==
  ASSUME count \in Nat, outsize \in Nat, outsize' = outsize + count, count' = count
  PROVE  Answered'
<1> DEFINE o == outsize'
           n == count'
<1>1. n = count /\ o = outsize + count
  OBVIOUS
<1> HIDE DEF o, n
<1>2. o >= n
  BY <1>1
<1> QED
  BY <1>2 DEF o, n, Answered

LEMMA ServesErase ==
  ASSUME AtCommand, step.check = "completion", Cmd(step).op = "C3"
  PROVE  Inbound(step)'
<1>1. /\ batch = <<Cmd(step)>> /\ cmd = Cmd(step) /\ count \in Nat /\ outsize \in Nat
      /\ step' = step
  BY CommandFacts, ServingFacts DEF AtCommand
<1>2. EraseScratchpad
  BY <1>1 DEF AtCommand, Serving, Answer, SkipRom, OtherRom, InRom, WriteScratchpad,
     ReadScratchpad, CopyScratchpad, ReadAuthPage, ComputeSHA, OtherMemory, InMemory
<1>3. batch' = <<>> /\ outsize' = outsize + count /\ count' = count /\ reply'.kind = "done"
  BY <1>2 DEF EraseScratchpad, MemoryDone
<1>4. Good'
  BY <1>1, <1>3, AnsweredInFull DEF Good, Completed
<1>5. Supplies(step)'
  BY <1>1 DEF Supplies, Cmd
<1> QED
  BY <1>3, <1>4, <1>5 DEF Inbound

LEMMA ServesWrite ==
  ASSUME AtCommand, step.check = "crc", Cmd(step) = WritePacket(call), Cmd(step).op = "0F"
  PROVE  Inbound(step)'
<1> DEFINE p == call.page
           v == call.value
<1>1. /\ batch = <<Cmd(step)>> /\ cmd = Cmd(step) /\ count \in Nat /\ outsize \in Nat
      /\ step' = step /\ call' = call /\ DOMAIN mem = 0 .. MemSize - 1
      /\ call \in Calls /\ p \in 0 .. Pages - 1
  BY CommandFacts, ServingFacts DEF AtCommand
<1>2. cmd.addr = Page(p) /\ cmd.value = v
  BY <1>1, PacketsInFull
<1>3. WriteScratchpad
  BY <1>1 DEF AtCommand, Serving, Answer, SkipRom, OtherRom, InRom, EraseScratchpad,
     ReadScratchpad, CopyScratchpad, ReadAuthPage, ComputeSHA, OtherMemory, InMemory
<1>4. Page(p) < NvSize /\ Page(p) % PageSize = 0 /\ Page(p) \in Nat
  BY <1>1, PageNumber
<1>5. TA' = Page(p) /\ AA' = FALSE
      /\ mem' = Fill(Scratch + (TA' % PageSize) .. MemSize - 1, v)
      /\ reply'.kind = "written"
  BY <1>2, <1>3, <1>4 DEF WriteScratchpad
<1>6. batch' = <<>> /\ outsize' = outsize + count /\ count' = count
  BY <1>3 DEF WriteScratchpad, MemoryDone
<1>7. mem' = Fill(Scratch .. MemSize - 1, v)
  <2>1. Scratch + 0 = Scratch
    BY Sizes
  <2> QED
    BY <1>4, <1>5, <2>1
<1>8. ASSUME NEW k \in Cells PROVE mem'[Scratch + k] = v
  <2>1. Scratch + k \in DOMAIN mem /\ Scratch + k \in Scratch .. MemSize - 1
    BY <1>1, Sizes DEF Cells
  <2> QED
    BY <1>7, <2>1 DEF Fill
<1>9. Written'
  BY <1>1, <1>5, <1>8 DEF Written, ScratchHolds, Cells, Page
<1>10. Good'
  BY <1>1, <1>5, <1>6, AnsweredInFull DEF Good, CrcGood
<1>11. Supplies(step)'
  BY <1>1, <1>9 DEF Supplies, Cmd
<1> QED
  BY <1>6, <1>10, <1>11 DEF Inbound

LEMMA ServesRead ==
  ASSUME AtCommand, Cmd(step).op = "AA"
  PROVE  /\ batch' = <<>> /\ Answered' /\ TA' = TA /\ AA' = AA /\ mem' = mem
         /\ E' = PageSize - 1 /\ macOf' = macOf
         /\ reply'.kind = "scratchpad" /\ reply'.addr = TA /\ reply'.aa = AA
         /\ reply'.off = PageSize - 1
         /\ \A k \in Cells : Offset = 0 => reply'.data[k] = mem[Scratch + k]
<1>1. /\ cmd = Cmd(step) /\ count \in Nat /\ outsize \in Nat
  BY CommandFacts
<1>2. ReadScratchpad
  BY <1>1, AnswersRead DEF AtCommand, Serving
<1>3. /\ batch' = <<>> /\ outsize' = outsize + count /\ count' = count
      /\ TA' = TA /\ AA' = AA /\ mem' = mem /\ E' = PageSize - 1
      /\ reply' = [kind |-> "scratchpad", addr |-> TA, aa |-> AA, off |-> E',
                   data |-> [k \in Offset .. PageSize - 1 |-> mem[Scratch + k]]]
  BY <1>2 DEF ReadScratchpad, MemoryDone, FullOffset
<1>4. macOf' = macOf
  BY <1>1, MacOfKept DEF AtCommand, Serving
<1>5. ASSUME NEW k \in Cells, Offset = 0 PROVE reply'.data[k] = mem[Scratch + k]
  <2>1. reply'.data = [j \in 0 .. PageSize - 1 |-> mem[Scratch + j]]
    BY <1>3, <1>5
  <2> QED
    BY <2>1 DEF Cells
<1> QED
  BY <1>1, <1>3, <1>4, <1>5, AnsweredInFull

LEMMA ServesVerify ==
  ASSUME AtCommand, step.check = "verify", Cmd(step).op = "AA"
  PROVE  Inbound(step)'
<1> DEFINE p == call.page
<1>1. /\ step' = step /\ call' = call /\ call \in Calls /\ p \in 0 .. Pages - 1
      /\ Written
  BY CommandFacts, ServingFacts DEF AtCommand, Demands
<1>2. Offset = 0
  BY <1>1, PageNumber DEF Offset, Written
<1>3. Written'
  BY <1>1, ServesRead DEF Written, ScratchHolds, Cells, Page
<1>4. \A k \in Cells : reply'.data[k] = call.value
  BY <1>1, <1>2, ServesRead DEF Written, ScratchHolds
<1>5. ReadBack'
  BY <1>1, <1>4, ServesRead DEF ReadBack, CrcGood, Written, Page, Cells
<1>6. Good'
  BY <1>1, <1>5 DEF Good
<1>7. Supplies(step)'
  BY <1>1, <1>3, ServesRead DEF Supplies, Cmd
<1> QED
  BY <1>6, <1>7, ServesRead DEF Inbound

LEMMA ServesSign ==
  ASSUME AtCommand, step.check = "sign", Cmd(step).op = "AA"
  PROVE  Inbound(step)'
<1>1. /\ step' = step /\ call' = call /\ data' = data /\ Signable
  BY CommandFacts, ServingFacts DEF AtCommand, Demands
<1>2. Signable'
  <2>1. call.op = "AnswerChallenge" => AnswerReady(data)'
    BY <1>1, ServesRead DEF Signable, AnswerReady, Macced, ScratchHolds, Cells, Page,
       Signed, InNvram
  <2>2. call.op = "CreateDataSignature" => DataReady'
    BY <1>1, ServesRead DEF Signable, DataReady, Macced, ScratchHolds, Cells, Page
  <2> QED
    BY <1>1, <2>1, <2>2 DEF Signable
<1>3. \A k \in Cells : Offset' = 0 => reply'.data[k] = mem'[Scratch + k]
  BY ServesRead DEF Offset
<1>4. Good'
  BY <1>1, ServesRead DEF Good, CrcGood
<1>5. Supplies(step)'
  BY <1>1, <1>2, <1>3 DEF Supplies, Cmd, Cells
<1> QED
  BY <1>4, <1>5, ServesRead DEF Inbound

LEMMA ServesCopy ==
  ASSUME AtCommand, step.check = "copied", Cmd(step) = CopyPacket(call.page),
         Cmd(step).op = "55"
  PROVE  Inbound(step)'
<1> DEFINE p == call.page
<1>1. /\ batch = <<Cmd(step)>> /\ cmd = Cmd(step) /\ count \in Nat /\ outsize \in Nat
      /\ step' = step /\ p \in 0 .. Pages - 1 /\ p \in Nat
      /\ Written /\ E = PageSize - 1
  BY CommandFacts, ServingFacts DEF AtCommand, Demands
<1>2. cmd.addr = Page(p) /\ ~cmd.aa /\ cmd \in AnyPackets /\ cmd.off = PageSize - 1
  BY <1>1, ReadsAndCopies
<1>3. Authorised
  <2>1. cmd.aa = FALSE
    BY <1>2 DEF AnyPackets
  <2> QED
    BY <1>1, <1>2, <2>1, PageNumber DEF Authorised, Written
<1>4. CopyScratchpad
  BY <1>1, AnswersCopy DEF AtCommand, Serving
<1>5. batch' = <<>> /\ outsize' = outsize + count /\ count' = count /\ reply'.kind = "done"
  BY <1>3, <1>4 DEF CopyScratchpad, MemoryDone
<1>6. Good'
  BY <1>1, <1>5, AnsweredInFull DEF Good, Completed
<1>7. Supplies(step)'
  BY <1>1 DEF Supplies, Cmd
<1> QED
  BY <1>5, <1>6, <1>7 DEF Inbound

\* A SHA result is put into its cells of the scratchpad.
LEMMA Maccs ==
  ASSUME DOMAIN mem = 0 .. MemSize - 1, mem' = Fill(MacPlace, MAC)
  PROVE  Macced'
<1>1. ASSUME NEW k \in MacCells PROVE mem'[Scratch + k] = MAC
  <2>1. k \in 0 .. PageSize - 1
    BY ButtonAssumption
  <2>2. Scratch + k \in DOMAIN mem /\ Scratch + k \in MacPlace
    BY <2>1, Sizes DEF MacPlace
  <2> QED
    BY <2>2 DEF Fill
<1> QED
  BY <1>1 DEF Macced

LEMMA ServesPage ==
  ASSUME AtCommand, step.check = "page", Cmd(step) = PagePacket(call), Cmd(step).op = "A5"
  PROVE  Inbound(step)'
<1> DEFINE a == Page(call.page)
           d == [k \in 0 .. PageSize - 1 |-> mem[a + k]]
<1>1. /\ batch = <<Cmd(step)>> /\ cmd = Cmd(step) /\ count \in Nat /\ outsize \in Nat
      /\ step' = step /\ call' = call /\ DOMAIN mem = 0 .. MemSize - 1
      /\ call \in Calls /\ call.page \in 0 .. Pages - 1
      /\ ScratchHolds(call.value)
  BY CommandFacts, ServingFacts DEF AtCommand, Demands
<1>2. cmd.addr = a /\ InNvram(a)
  BY <1>1, PacketsInFull, PageNumber
<1>3. ReadAuthPage
  BY <1>1 DEF AtCommand, Serving, Answer, SkipRom, OtherRom, InRom, EraseScratchpad,
     ReadScratchpad, CopyScratchpad, WriteScratchpad, ComputeSHA, OtherMemory, InMemory
<1>4. /\ mem' = IF Signed(a) THEN Fill(MacPlace, MAC) ELSE mem
      /\ reply' = [kind |-> "page", addr |-> a, data |-> d] /\ TA' = 0
      /\ batch' = <<>> /\ outsize' = outsize + count /\ count' = count
  BY <1>2, <1>3 DEF ReadAuthPage, MemoryDone
<1>5. InMemory("A5")
  BY <1>3 DEF ReadAuthPage
<1>6. Signed(a) => macOf' = [addr |-> a, sub |-> cmd.sub, data |-> d]
  <2>1. Signed(a) => Computing
    BY <1>2, <1>5 DEF Computing
  <2> QED
    BY <1>2, <2>1 DEF AtCommand, Serving, Answer, Cells
<1>7. AnswerReady(reply.data)'
  <2>1. CASE Signed(a)
    <3>1. Macced'
      BY <1>1, <1>4, <2>1, Maccs
    <3>2. macOf'.addr = a /\ macOf'.data = reply'.data
      BY <1>4, <1>6, <2>1
    <3>3. Signed(Page(call'.page))
      BY <1>1, <2>1
    <3> HIDE DEF a, d
    <3> QED
      BY <1>1, <1>4, <2>1, <3>1, <3>2, <3>3 DEF AnswerReady, Signed, InNvram, Page, a
  <2>2. CASE ~Signed(a)
    <3>1. ScratchHolds(call.value)'
      BY <1>1, <1>4, <2>2 DEF ScratchHolds, Cells
    <3> QED
      BY <1>1, <1>4, <2>2, <3>1 DEF AnswerReady, Signed, InNvram, Page
  <2> QED
    BY <2>1, <2>2
<1>8. reply'.kind = "page"
  BY <1>4
<1>9. Good'
  BY <1>1, <1>4, <1>8, AnsweredInFull DEF Good, CrcGood
<1>10. Supplies(step)'
  BY <1>1, <1>7, <1>8 DEF Supplies, Cmd
<1> QED
  BY <1>4, <1>9, <1>10 DEF Inbound

\* Behind a SHA command the call reads the scratchpad and is done.
LEMMA NothingLeftToCopy ==
  ASSUME NEW s, NEW c, Secure(s, c), Cmd(s[1]).op = "33", s[1].check # "copied"
  PROVE  ~Copies(s)
<1>1. s \in Seq(AnyBlocks) /\ Len(s) \in Nat
  BY DEF Secure
<1>2. ASSUME NEW n \in 1 .. Len(s), s[n].check = "copied" PROVE FALSE
  <2>1. n >= 2 /\ n \in Nat /\ 2 \in 2 .. Len(s) /\ 2 - 1 = 1
    BY <1>1, <1>2
  <2>2. Feeds(s[1], s[2], c)
    <3>1. Feeds(s[2 - 1], s[2], c)
      BY <2>1 DEF Secure
    <3> QED
      BY <2>1, <3>1
  <2>3. s[2].check = "sign"
    BY <2>2 DEF Feeds
  <2>4. n >= 3 /\ 3 \in 2 .. Len(s) /\ 3 - 1 = 2
    BY <1>1, <1>2, <2>1, <2>3
  <2>5. Feeds(s[2], s[3], c)
    <3>1. Feeds(s[3 - 1], s[3], c)
      BY <2>4 DEF Secure
    <3> QED
      BY <2>4, <3>1
  <2> QED
    BY <2>3, <2>5 DEF Feeds
<1> QED
  BY <1>2 DEF Copies

LEMMA ServesSha ==
  ASSUME AtCommand, step.check = "completion", Cmd(step) = ShaPacket(call),
         Cmd(step).op = "33"
  PROVE  Inbound(step)'
<1> DEFINE p == call.page
           a == Page(p)
<1>1. /\ batch = <<Cmd(step)>> /\ cmd = Cmd(step) /\ count \in Nat /\ outsize \in Nat
      /\ count >= 3 /\ step' = step /\ call' = call /\ DOMAIN mem = 0 .. MemSize - 1
      /\ call \in Calls /\ p \in 0 .. Pages - 1 /\ step = steps[1]
      /\ call.op = "CreateDataSignature" => ScratchHolds(call.value)
  BY CommandFacts, ServingFacts DEF AtCommand, Demands
<1>2. /\ cmd.addr = a /\ InNvram(a) /\ a \div PageSize = p
      /\ call.op = "CreateDataSignature" => cmd.sub = "C3"
  BY <1>1, ShaPacketInFull, PageNumber
<1>3. ComputeSHA
  BY <1>1 DEF AtCommand, Serving, Answer, SkipRom, OtherRom, InRom, EraseScratchpad,
     ReadScratchpad, CopyScratchpad, WriteScratchpad, ReadAuthPage, OtherMemory, InMemory
<1>4. /\ TA' = a /\ mem' = IF Computes(cmd) THEN Fill(MacPlace, MAC) ELSE mem
      /\ reply'.kind = "done" /\ batch' = <<>> /\ count' = count
      /\ outsize' = outsize + IF cmd.sub = "C3" THEN count ELSE 2 * count - 3
  BY <1>2, <1>3 DEF ComputeSHA, MemoryDone
<1>5. outsize' >= count'
  <2> DEFINE o == outsize'
             n == count'
  <2>1. n = count /\ (o = outsize + count \/ o = outsize + (2 * count - 3))
    BY <1>4
  <2> HIDE DEF o, n
  <2>2. o >= n
    BY <1>1, <2>1
  <2> QED
    BY <2>2 DEF o, n
<1>6. Good'
  BY <1>1, <1>4, <1>5 DEF Good, Completed, Answered
<1>7. ASSUME call.op = "CreateDataSignature" PROVE DataReady'
  <2>1. Computes(cmd) <=> p \in {0, AuthPage}
    BY <1>2, <1>7 DEF Computes
  <2>2. CASE p \in {0, AuthPage}
    <3>1. Macced'
      BY <1>1, <1>4, <2>1, <2>2, Maccs
    <3>2. macOf' = [addr |-> a, sub |-> cmd.sub, data |-> [k \in Cells |-> mem[a + k]]]
      <4>1. Computing
        BY <1>3, <2>1, <2>2 DEF Computing, ComputeSHA
      <4> QED
        BY <1>2, <4>1 DEF AtCommand, Serving, Answer
    <3>3. PageHolds(p, call.value)
      <4>1. ~Copies(steps)
        BY <1>1, NothingLeftToCopy DEF AtCommand, Serving
      <4> QED
        BY <1>7, <4>1 DEF AtCommand, Serving, Settled
    <3>4. ASSUME NEW k \in 0 .. PageSize - 2 PROVE macOf'.data[k] = call.value
      <4>1. k \in Cells
        BY Sizes DEF Cells
      <4> QED
        BY <3>2, <3>3, <4>1 DEF PageHolds
    <3>5. macOf'.addr = a /\ macOf'.sub = "C3"
      BY <1>2, <1>7, <3>2
    <3> QED
      BY <1>1, <1>4, <2>2, <3>1, <3>4, <3>5 DEF DataReady, Page
  <2>3. CASE p \notin {0, AuthPage}
    <3>1. ScratchHolds(call.value)'
      BY <1>1, <1>4, <1>7, <2>1, <2>3 DEF ScratchHolds, Cells
    <3> QED
      BY <1>1, <1>4, <2>3, <3>1 DEF DataReady, Page
  <2> QED
    BY <2>2, <2>3
<1>8. Supplies(step)'
  BY <1>1, <1>7 DEF Supplies, Cmd
<1> QED
  BY <1>4, <1>6, <1>8 DEF Inbound

----------------------------------------------------------------------------
(* The sequence of a call as it is in the next state. *)

LEMMA SecureNext ==
  ASSUME Secure(steps', call')
  PROVE  Secure(steps, call)'
BY DEF Secure, Sure, Feeds, Cmd, ErasePacket, WritePacket, ShaPacket, PagePacket,
   ReadPacket, CopyPacket, Packet, Resume, Page, AnyBlocks, AnyPackets

LEMMA DoomedNext ==
  ASSUME Doomed(steps')
  PROVE  Doomed(steps)'
BY DEF Doomed, Bad, Cmd, Resume, Packet, AnyBlocks, AnyPackets, NvSize

LEMMA BadNext ==
  ASSUME NEW b, b = step'
  PROVE  Bad(step)' <=> Bad(b)
BY DEF Bad, Cmd, Resume, Packet, NvSize

LEMMA EndingNext ==
  ASSUME Ending(steps', call')
  PROVE  Ending(steps, call)'
BY DEF Ending

LEMMA CopiesNext == Copies(steps)' <=> Copies(steps')
BY DEF Copies

LEMMA SupportedNext ==
  /\ Supported <=> CanSucceed(call)
  /\ Supported' <=> CanSucceed(call')
BY DEF Supported, CanSucceed

\* What an exchange finds stays there while the button's memory, its registers
\* and the buffers of the host do.
LEMMA DemandsKept ==
  ASSUME Demands(step), step' = step, call' = call, data' = data, macOf' = macOf,
         mem' = mem, TA' = TA, AA' = AA, E' = E
  PROVE  Demands(step)'
<1>1. Written => Written'
  BY DEF Written, ScratchHolds, Cells, Page
<1>2. Signable => Signable'
  BY DEF Signable, AnswerReady, DataReady, Macced, ScratchHolds, Cells, Page, Signed, InNvram
<1>3. ScratchHolds(call.value) => ScratchHolds(call.value)'
  BY DEF ScratchHolds, Cells
<1> QED
  BY <1>1, <1>2, <1>3 DEF Demands, Cmd

\* A Resume in front of the command, and a search.
LEMMA ServesResume ==
  ASSUME Serving, cmd_state = "CMD_ROM", Cmd(step).op # "F0"
  PROVE  Outbound(step)'
<1>1. /\ Sure(step, call) /\ step' = step /\ call' = call /\ data' = data
  BY ServingFacts
<1>2. /\ batch = <<Resume, Cmd(step)>> /\ outsize = 0 /\ count \in Nat /\ count >= 3
      /\ Demands(step)
  BY <1>1 DEF Serving, Outbound, Sure
<1>3. cmd = Resume /\ Tail(batch) = <<Cmd(step)>>
  BY <1>2 DEF cmd
<1>4. SkipRom
  BY <1>3, ResumeType DEF Serving, Answer, OtherRom, ReadScratchpad, WriteScratchpad,
     EraseScratchpad, CopyScratchpad, ReadAuthPage, ComputeSHA, OtherMemory, InMemory
<1>5. /\ batch' = <<Cmd(step)>> /\ cmd_state' = "CMD_MEMORY" /\ outsize' = 1
      /\ count' = count /\ mem' = mem /\ TA' = TA /\ AA' = AA /\ E' = E
  BY <1>2, <1>3, <1>4 DEF SkipRom, RomDone, registers
<1>6. macOf' = macOf
  BY DEF Serving, Answer, Computing, InMemory
<1>7. Demands(step)'
  BY <1>1, <1>2, <1>5, <1>6, DemandsKept
<1> QED
  BY <1>1, <1>2, <1>5, <1>7 DEF Outbound, Cmd

LEMMA ServesSearch ==
  ASSUME Serving, cmd_state = "CMD_ROM", Cmd(step).op = "F0"
  PROVE  Inbound(step)'
<1>1. call \in Calls /\ Sure(step, call) /\ step' = step
  BY ServingFacts
<1>2. step.check = "any"
  BY <1>1, Kinds
<1>3. /\ batch = <<Cmd(step)>> /\ cmd = Cmd(step) /\ outsize = 0 /\ count \in Nat
  BY <1>1 DEF Serving, Outbound, Sure, cmd
<1>4. OtherRom
  BY <1>3 DEF Serving, Answer, SkipRom, ReadScratchpad, WriteScratchpad,
     EraseScratchpad, CopyScratchpad, ReadAuthPage, ComputeSHA, OtherMemory, InMemory
<1>5. batch' = <<>> /\ cmd_state' = "CMD_MEMORY" /\ outsize' = outsize + count
      /\ count' = count
  BY <1>4 DEF OtherRom, RomDone
<1>6. Good'
  BY <1>1, <1>2, <1>3, <1>5, AnsweredInFull DEF Good
<1>7. Supplies(step)'
  BY <1>1, <1>2, <1>3, <1>5 DEF Supplies, Cmd
<1> QED
  BY <1>5, <1>6, <1>7 DEF Inbound

LEMMA Served ==
  ASSUME Serving
  PROVE  Outbound(step)' \/ Inbound(step)'
<1>1. call \in Calls /\ Sure(step, call)
  BY ServingFacts
<1>2. CASE cmd_state = "CMD_ROM"
  BY <1>2, ServesResume, ServesSearch
<1>3. CASE cmd_state = "CMD_MEMORY"
  <2>1. AtCommand
    BY <1>3 DEF AtCommand
  <2>2. Cmd(step).op # "F0"
    BY <2>1, CommandFacts
  <2> QED
    BY <1>1, <2>1, <2>2, Kinds, ServesErase, ServesWrite, ServesVerify, ServesSign,
       ServesCopy, ServesSha, ServesPage
<1> QED
  BY <1>2, <1>3 DEF Serving, Outbound

\* Only the copy of a call changes a page.
LEMMA SettledKept ==
  ASSUME Serving
  PROVE  Settled'
<1>1. /\ step = steps[1] /\ steps' = steps /\ call' = call
      /\ call.page \in 0 .. Pages - 1 /\ DOMAIN mem = 0 .. MemSize - 1
  BY ServingFacts
<1>2. ShaInv /\ Answer /\ result = "running" /\ sent /\ Settled
      /\ steps \in Seq(AnyBlocks) /\ Len(steps) >= 1
  BY DEF Serving, Secure
<1>3. ASSUME call.op = "CreateDataSignature", ~Copies(steps)
      PROVE  PageHolds(call.page, call.value)'
  <2>1. step.check # "copied"
    BY <1>1, <1>2, <1>3 DEF Copies
  <2>2. batch \in Seq(Harmless) /\ batch # <<>>
    BY <1>2, <2>1, BatchShrinks DEF ShaInv, Running, Flight
  <2>3. cmd \in Harmless
    BY <2>2 DEF cmd
  <2>4. cmd.addr \in Nat /\ ~(InMemory("55") /\ Authorised)
    BY <2>3, Sizes DEF Harmless, AnyPackets, InMemory, Authorised
  <2>5. \A c \in 0 .. Scratch - 1 : mem'[c] = mem[c]
    BY <1>1, <1>2, <2>4, PagesKept
  <2>6. PageHolds(call.page, call.value)
    BY <1>2, <1>3 DEF Settled
  <2>7. ASSUME NEW k \in 0 .. PageSize - 2 PROVE mem'[Page(call.page) + k] = call.value
    <3>1. Page(call.page) + k \in 0 .. Scratch - 1
      BY <1>1, CellKept
    <3> QED
      BY <2>5, <2>6, <3>1 DEF PageHolds
  <2> QED
    BY <1>1, <2>7 DEF PageHolds, Page
<1> QED
  BY <1>1, <1>3, CopiesNext DEF Settled

----------------------------------------------------------------------------
(* Every step keeps calls on their way. *)

LEMMA SureBegin ==
  ASSUME Begin
  PROVE  SureInv'
<1>1. PICK c \in Calls : call' = c /\ steps' = Program(c)
  BY DEF Begin
<1>2. /\ result' = "running" /\ sent' = FALSE /\ sign' = "unread" /\ lost' = FALSE
  BY DEF Begin
<1>3. CASE CanSucceed(c)
  <2>1. /\ Secure(Program(c), c) /\ Opens(Program(c)[1]) /\ Ending(Program(c), c)
        /\ c.op = "CreateDataSignature" => Copies(Program(c))
    BY <1>3, SecurePrograms
  <2>2. Secure(steps, call)' /\ Ending(steps, call)'
    BY <1>1, <2>1, SecureNext, EndingNext
  <2>3. Settled'
    BY <1>1, <2>1, CopiesNext DEF Settled
  <2>4. Program(c) \in Seq(AnyBlocks) /\ Len(Program(c)) >= 1
    BY <2>1 DEF Secure
  <2>5. step' = Program(c)[1]
    BY <1>1, <2>4 DEF step
  <2>6. Demands(step)' /\ step'.reset
    BY <2>1, <2>5 DEF Demands, Opens, Cmd
  <2>7. Succeeding'
    BY <1>2, <2>2, <2>3, <2>6 DEF Succeeding
  <2>8. Supported'
    BY <1>1, <1>3, SupportedNext
  <2> QED
    BY <1>2, <2>7, <2>8 DEF SureInv
<1>4. CASE ~CanSucceed(c)
  <2>1. Doomed(steps)'
    BY <1>1, <1>4, DoomedPrograms, DoomedNext
  <2>2. ~Supported'
    BY <1>1, <1>4, SupportedNext
  <2> QED
    BY <1>2, <2>1, <2>2 DEF SureInv, Failing
<1> QED
  BY <1>3, <1>4

\* What a block of one or two packets counts.
LEMMA BlockSize ==
  ASSUME NEW x, x.size \in Int
  PROVE  Size(<<x>>) = x.size /\ Size(<<Resume, x>>) = 1 + x.size
<1> DEFINE r == Resume
           s == <<r, x>>
           t == <<x>>
<1>1. r.size = 1
  BY DEF Resume, Packet
<1> HIDE DEF r
<1>2. Len(s) = 2 /\ s[1] = r /\ s[2] = x /\ Len(t) = 1 /\ t[1] = x
  OBVIOUS
<1> HIDE DEF s, t
<1>3. Size(t) = x.size /\ Size(s) = 1 + x.size
  BY <1>1, <1>2 DEF Size
<1> QED
  BY <1>3 DEF r, s, t

LEMMA LastPacket ==
  ASSUME NEW b \in AnyBlocks, NEW x, b.batch \in {<<x>>, <<Resume, x>>}
  PROVE  x \in AnyPackets /\ x.size \in Int
<1>1. b.batch \in Seq(AnyPackets)
  BY DEF AnyBlocks
<1>2. CASE b.batch = <<x>>
  <2> DEFINE s == b.batch
  <2>1. s \in Seq(AnyPackets) /\ Len(s) = 1 /\ s[1] = x
    BY <1>1, <1>2
  <2> HIDE DEF s
  <2>2. x \in AnyPackets
    BY <2>1
  <2> QED
    BY <2>2 DEF AnyPackets
<1>3. CASE b.batch = <<Resume, x>>
  <2> DEFINE s == b.batch
  <2>1. s \in Seq(AnyPackets) /\ 2 \in 1 .. Len(s) /\ s[2] = x
    BY <1>1, <1>3
  <2> HIDE DEF s
  <2>2. x \in AnyPackets
    BY <2>1
  <2> QED
    BY <2>2 DEF AnyPackets
<1> QED
  BY <1>2, <1>3

LEMMA SureSend ==
  ASSUME ShaInv, SureInv, SendBlock
  PROVE  SureInv'
<1>1. /\ result = "running" /\ ~sent /\ sent' = TRUE /\ result' = result
      /\ cmd_state' = (IF step.reset THEN "CMD_ROM" ELSE cmd_state)
      /\ batch' = step.batch /\ count' = Size(step.batch) /\ outsize' = 0
      /\ mem' = mem /\ TA' = TA /\ AA' = AA /\ E' = E
      /\ call' = call /\ steps' = steps /\ data' = data /\ sign' = sign
      /\ lost' = lost /\ macOf' = macOf
  BY DEF SendBlock, registers
<1>2. /\ step \in AnyBlocks /\ step = steps[1] /\ step' = step
      /\ call \in Calls /\ call.page \in 0 .. Pages - 1
  BY <1>1, StepFacts DEF step
<1> DEFINE x == Cmd(step)
<1>3. CASE Supported
  <2>1. /\ ~lost /\ Secure(steps, call) /\ Ending(steps, call) /\ sign = "unread"
        /\ Settled /\ Demands(step) /\ (~step.reset => cmd_state = "CMD_MEMORY")
    BY <1>1, <1>3 DEF SureInv, Succeeding
  <2>2. Sure(step, call)
    BY <1>2, <2>1 DEF Secure
  <2>3. Secure(steps, call)' /\ Ending(steps, call)'
    BY <1>1, <2>1, SecureNext, EndingNext
  <2>4. Settled'
    BY <1>1, <2>1, CopiesNext DEF Settled, PageHolds, Page
  <2>5. Demands(step)'
    BY <1>1, <1>2, <2>1, DemandsKept
  <2>6. /\ step.batch = IF step.reset /\ x.op # "F0" THEN <<Resume, x>> ELSE <<x>>
        /\ x.size >= 3 /\ (x.op = "F0" => step.reset)
    BY <1>2, <2>2, Kinds DEF Sure
  <2> HIDE DEF x
  <2>7. x.size \in Int
    BY <1>2, <2>6, LastPacket
  <2>8. Size(step.batch) \in Nat /\ Size(step.batch) >= 3
    BY <2>6, <2>7, BlockSize
  <2>9. Outbound(step)'
    <3>1. CASE step.reset
      BY <1>1, <1>2, <2>5, <2>8, <3>1 DEF Outbound
    <3>2. CASE ~step.reset
      <4>1. Cmd(step)' = x
        BY <1>2 DEF Cmd, x
      <4> QED
        BY <1>1, <1>2, <2>1, <2>5, <2>6, <2>8, <3>2, <4>1 DEF Outbound
    <3> QED
      BY <3>1, <3>2
  <2>10. Succeeding'
    BY <1>1, <2>1, <2>3, <2>4, <2>9 DEF Succeeding
  <2> QED
    BY <1>1, <1>3, <2>1, <2>10, SupportedNext DEF SureInv, CanSucceed
<1>4. CASE ~Supported
  <2>1. ~lost /\ Doomed(steps)
    BY <1>1, <1>4 DEF SureInv, Failing
  <2>2. Doomed(steps)'
    BY <1>1, <2>1, DoomedNext
  <2>3. ASSUME Bad(step) PROVE Astray(step)'
    <3>1. step.reset /\ step.batch = <<Resume, x>> /\ x.size >= 1
      BY <2>3 DEF Bad
    <3> HIDE DEF x
    <3>2. x.size \in Int
      <4>1. step.batch \in {<<x>>, <<Resume, x>>} /\ step \in AnyBlocks
        BY <1>2, <3>1
      <4> QED
        BY <4>1, LastPacket
    <3>3. Size(step.batch) \in Nat /\ Size(step.batch) >= 2
      <4> DEFINE n == Size(step.batch)
                 k == x.size
      <4>1. n = 1 + k
        BY <3>1, <3>2, BlockSize
      <4>2. k \in Int /\ k >= 1
        BY <3>1, <3>2
      <4> HIDE DEF n, k
      <4>3. n \in Nat /\ n >= 2
        BY <4>1, <4>2
      <4> QED
        BY <4>3 DEF n
    <3>4. cmd_state' = "CMD_ROM" /\ batch' = step'.batch /\ outsize' = 0
      BY <1>1, <1>2, <3>1
    <3>5. count' \in Nat /\ count' >= 2
      <4> DEFINE n == count'
                 m == Size(step.batch)
      <4>1. n = m
        BY <1>1
      <4> HIDE DEF n, m
      <4>2. n \in Nat /\ n >= 2
        BY <3>3, <4>1 DEF m
      <4> QED
        BY <4>2 DEF n
    <3> QED
      BY <3>4, <3>5 DEF Astray
  <2>4. Failing'
    BY <1>2, <2>2, <2>3, BadNext DEF Failing
  <2> QED
    BY <1>1, <1>4, <2>1, <2>4, SupportedNext DEF SureInv, CanSucceed
<1> QED
  BY <1>3, <1>4

\* A bad exchange comes back without the answer it needs.
LEMMA AstrayKept ==
  ASSUME ShaInv, Answer, result = "running", sent, Bad(step), Astray(step)
  PROVE  Astray(step)'
<1>1. /\ step' = step /\ batch # <<>>
  BY BatchShrinks DEF host, step
<1>2. /\ step.batch = <<Resume, Cmd(step)>>
      /\ \/ step.check = "any" /\ Cmd(step).op \in {"3C", "F0"}
         \/ step.check = "crc" /\ Cmd(step).op = "0F" /\ Cmd(step).addr >= NvSize
  BY DEF Bad
<1>3. count \in Nat /\ count >= 2
  BY <1>1 DEF Astray
<1>4. CASE cmd_state = "CMD_ROM" /\ batch = step.batch /\ outsize = 0
  <2>1. cmd = Resume /\ Tail(batch) = <<Cmd(step)>>
    BY <1>2, <1>4 DEF cmd
  <2>2. SkipRom
    BY <1>4, <2>1, ResumeType DEF Answer, OtherRom, ReadScratchpad, WriteScratchpad,
       EraseScratchpad, CopyScratchpad, ReadAuthPage, ComputeSHA, OtherMemory, InMemory
  <2>3. /\ batch' = <<Cmd(step)>> /\ cmd_state' = "CMD_MEMORY" /\ outsize' = 1
        /\ count' = count
    BY <1>4, <2>1, <2>2 DEF SkipRom, RomDone
  <2> QED
    BY <1>1, <1>3, <2>3 DEF Astray, Cmd
<1>5. CASE cmd_state = "CMD_MEMORY" /\ batch = <<Cmd(step)>> /\ outsize = 1
  <2>1. cmd = Cmd(step)
    BY <1>5 DEF cmd
  <2>2. CASE step.check = "any"
    <3>1. OtherMemory
      BY <1>2, <1>5, <2>1, <2>2 DEF Answer, SkipRom, OtherRom, InRom, ReadScratchpad,
         WriteScratchpad, EraseScratchpad, CopyScratchpad, ReadAuthPage, ComputeSHA,
         InMemory
    <3>2. batch' = <<>> /\ outsize' = outsize + 0 /\ count' = count
      BY <3>1 DEF OtherMemory, MemoryDone
    <3>3. outsize' = 1
      BY <1>5, <3>2
    <3>4. ~Answered'
      <4> DEFINE o == outsize'
                 n == count'
      <4>1. o = 1 /\ n = count
        BY <3>2, <3>3
      <4> HIDE DEF o, n
      <4>2. ~(o >= n)
        BY <1>3, <4>1
      <4> QED
        BY <4>2 DEF o, n, Answered
    <3> QED
      BY <1>1, <2>2, <3>2, <3>4 DEF Astray, Good
  <2>3. CASE step.check = "crc"
    <3>1. WriteScratchpad /\ cmd.addr >= NvSize
      BY <1>2, <1>5, <2>1, <2>3 DEF Answer, SkipRom, OtherRom, InRom, ReadScratchpad,
         EraseScratchpad, CopyScratchpad, ReadAuthPage, ComputeSHA, OtherMemory, InMemory
    <3>2. batch' = <<>> /\ TA' = cmd.addr
          /\ reply' = [kind |-> IF TA' < NvSize THEN "written" ELSE "echo"]
      BY <3>1 DEF WriteScratchpad, MemoryDone
    <3>3. reply'.kind = "echo"
      <4>1. cmd.addr \in Nat
        <5> DEFINE x == Cmd(step)
        <5>1. step.batch \in {<<x>>, <<Resume, x>>} /\ step \in AnyBlocks
          BY <1>2, StepFacts
        <5> HIDE DEF x
        <5>2. x \in AnyPackets
          BY <5>1, LastPacket
        <5>3. x.addr \in Nat
          BY <5>2 DEF AnyPackets
        <5> QED
          BY <2>1, <5>3 DEF x
      <4>2. ~(TA' < NvSize)
        BY <3>1, <3>2, <4>1, Sizes
      <4> QED
        BY <3>2, <4>2
    <3>4. ~CrcGood'
      BY <1>1, <2>3, <3>3 DEF CrcGood
    <3> QED
      BY <1>1, <2>3, <3>2, <3>4 DEF Astray, Good
  <2> QED
    BY <1>2, <2>2, <2>3
<1> QED
  BY <1>1, <1>4, <1>5 DEF Astray

LEMMA SureAnswer ==
  ASSUME ShaInv, SureInv, Answer
  PROVE  SureInv'
<1>1. /\ call' = call /\ result' = result /\ steps' = steps /\ sent' = sent
      /\ lost' = lost /\ sign' = sign /\ step' = step /\ batch # <<>>
  BY BatchShrinks DEF host, step
<1>2. sent /\ result = "running"
  BY <1>1 DEF ShaInv, ShaTypes
<1>3. CASE Supported
  <2>1. /\ ~lost /\ Secure(steps, call) /\ Ending(steps, call) /\ sign = "unread"
        /\ Settled /\ (Outbound(step) \/ Inbound(step))
    BY <1>2, <1>3 DEF SureInv, Succeeding
  <2>2. Serving
    BY <1>1, <1>2, <2>1 DEF Serving, Inbound
  <2>3. Secure(steps, call)' /\ Ending(steps, call)'
    BY <1>1, <2>1, SecureNext, EndingNext
  <2>4. Settled' /\ (Outbound(step)' \/ Inbound(step)')
    BY <2>2, Served, SettledKept
  <2>5. Succeeding'
    BY <1>1, <1>2, <2>1, <2>3, <2>4 DEF Succeeding
  <2> QED
    BY <1>1, <1>3, <2>1, <2>5, SupportedNext DEF SureInv, CanSucceed
<1>4. CASE ~Supported
  <2>1. ~lost /\ Doomed(steps) /\ (Bad(step) => Astray(step))
    BY <1>2, <1>4 DEF SureInv, Failing
  <2>2. Doomed(steps)'
    BY <1>1, <2>1, DoomedNext
  <2>3. Bad(step) => Astray(step)'
    BY <1>2, <2>1, AstrayKept
  <2>4. Failing'
    BY <1>1, <2>2, <2>3, BadNext DEF Failing
  <2> QED
    BY <1>1, <1>4, <2>1, <2>4, SupportedNext DEF SureInv, CanSucceed
<1> QED
  BY <1>3, <1>4

\* An exchange that was answered well lets the next one be: what it supplies
\* is what the next one demands.
LEMMA Handover ==
  ASSUME Supported, Supplies(step), Good, NEW b, b = step',
         Feeds(step, b, call), UNCHANGED <<vars, call, macOf>>,
         data' = IF step.check = "page"
                 THEN IF reply.kind = "page" THEN reply.data ELSE [k \in Cells |-> 255]
                 ELSE data
  PROVE  /\ Demands(step)'
         /\ ~b.reset => cmd_state' = "CMD_MEMORY"
<1>1. /\ call' = call /\ mem' = mem /\ TA' = TA /\ AA' = AA /\ E' = E /\ macOf' = macOf
      /\ cmd_state' = cmd_state
  BY DEF vars, registers
<1>2. Written => Written'
  BY <1>1 DEF Written, ScratchHolds, Cells, Page
<1>3. ScratchHolds(call.value) => ScratchHolds(call.value)'
  BY <1>1 DEF ScratchHolds, Cells
<1>4. Written => ScratchHolds(call.value)
  BY DEF Written
<1>5. DataReady => DataReady'
  BY <1>1 DEF DataReady, Macced, ScratchHolds, Cells, Page
<1>6. ASSUME b.check = "sign" PROVE Signable'
  <2>1. CASE call.op = "AnswerChallenge"
    <3>1. step.check = "page"
      BY <1>6, <2>1 DEF Feeds
    <3>2. data' = reply.data /\ AnswerReady(reply.data)
      BY <2>1, <3>1 DEF Supplies
    <3>3. AnswerReady(data)'
      BY <1>1, <3>2 DEF AnswerReady, Macced, ScratchHolds, Cells, Page, Signed, InNvram
    <3> QED
      BY <1>1, <2>1, <3>3 DEF Signable
  <2>2. CASE call.op = "CreateDataSignature"
    <3>1. DataReady
      BY <1>6, <2>2 DEF Feeds, Supplies
    <3> QED
      BY <1>1, <1>5, <2>2, <3>1 DEF Signable
  <2> QED
    BY <1>1, <2>1, <2>2 DEF Signable
<1>7. b.check \in {"verify", "page"} => Written
  BY DEF Feeds, Supplies
<1>8. b.check = "copied" => Written /\ E = PageSize - 1
  BY DEF Feeds, Supplies
<1>9. Cmd(b).op = "33" /\ call.op = "CreateDataSignature" => Written
  BY DEF Feeds, Supplies
<1>10. Cmd(step)' = Cmd(b)
  BY DEF Cmd
<1>11. Demands(step)'
  BY <1>1, <1>2, <1>3, <1>4, <1>6, <1>7, <1>8, <1>9, <1>10 DEF Demands
<1>12. ~b.reset => cmd_state = "CMD_MEMORY"
  BY DEF Feeds, Supplies
<1> QED
  BY <1>1, <1>11, <1>12

\* What is left of the exchanges of a call.
LEMMA Rest ==
  ASSUME NEW s \in Seq(AnyBlocks), NEW t, t = Tail(s), t # <<>>
  PROVE  /\ t \in Seq(AnyBlocks) /\ Len(t) \in Nat /\ Len(t) = Len(s) - 1 /\ Len(t) >= 1
         /\ Head(s) = s[1] /\ Head(t) = s[2] /\ 2 \in 2 .. Len(s) /\ s[2 - 1] = s[1]
         /\ \A n \in 1 .. Len(t) : t[n] = s[n + 1] /\ n + 1 \in 2 .. Len(s)
OBVIOUS

LEMMA LastOne ==
  ASSUME NEW s \in Seq(AnyBlocks), Len(s) >= 1, Tail(s) = <<>>
  PROVE  Len(s) = 1
<1> DEFINE t == Tail(s)
<1>1. Len(s) \in Nat /\ Len(t) = Len(s) - 1
  OBVIOUS
<1>2. t = <<>>
  OBVIOUS
<1> HIDE DEF t
<1>3. Len(t) = 0
  BY <1>2
<1> QED
  BY <1>1, <1>3

LEMMA SecureRest ==
  ASSUME NEW s, NEW c, NEW t, Secure(s, c), Ending(s, c), t = Tail(s), t # <<>>
  PROVE  /\ Secure(t, c) /\ Ending(t, c) /\ Feeds(Head(s), Head(t), c)
         /\ Copies(s) /\ Head(s).check # "copied" => Copies(t)
<1>1. s \in Seq(AnyBlocks)
  BY DEF Secure
<1>2. /\ t \in Seq(AnyBlocks) /\ Len(t) \in Nat /\ Len(t) = Len(s) - 1 /\ Len(t) >= 1
      /\ Head(s) = s[1] /\ Head(t) = s[2] /\ 2 \in 2 .. Len(s) /\ s[2 - 1] = s[1]
      /\ \A n \in 1 .. Len(t) : t[n] = s[n + 1] /\ n + 1 \in 2 .. Len(s)
  BY <1>1, Rest
<1>3. Len(s) \in Nat
  BY <1>1
<1>4. ASSUME NEW n \in 1 .. Len(t) PROVE Sure(t[n], c)
  <2>1. n + 1 \in 1 .. Len(s) /\ t[n] = s[n + 1]
    BY <1>2, <1>3
  <2> QED
    BY <2>1 DEF Secure
<1>5. ASSUME NEW n \in 2 .. Len(t) PROVE Feeds(t[n - 1], t[n], c)
  <2>1. n \in 1 .. Len(t) /\ n - 1 \in 1 .. Len(t) /\ (n - 1) + 1 = n /\ (n + 1) - 1 = n
    BY <1>2
  <2>2. t[n] = s[n + 1] /\ t[n - 1] = s[(n - 1) + 1] /\ n + 1 \in 2 .. Len(s)
    BY <1>2, <2>1
  <2>3. Feeds(s[(n + 1) - 1], s[n + 1], c)
    BY <2>2 DEF Secure
  <2> QED
    BY <2>1, <2>2, <2>3
<1>6. Secure(t, c)
  BY <1>2, <1>4, <1>5 DEF Secure
<1>7. Feeds(s[2 - 1], s[2], c)
  BY <1>2 DEF Secure
<1>8. Ending(t, c)
  <2>1. Len(t) \in 1 .. Len(t) /\ Len(t) + 1 = Len(s)
    BY <1>2, <1>3
  <2>2. t[Len(t)] = s[Len(s)]
    BY <1>2, <2>1
  <2> QED
    BY <2>2 DEF Ending
<1>9. ASSUME Copies(s), Head(s).check # "copied" PROVE Copies(t)
  <2>1. PICK n \in 1 .. Len(s) : s[n].check = "copied"
    BY <1>9 DEF Copies
  <2>2. n # 1
    BY <1>2, <1>9, <2>1
  <2>3. n - 1 \in 1 .. Len(t) /\ (n - 1) + 1 = n
    BY <1>2, <1>3, <2>2
  <2>4. t[n - 1] = s[(n - 1) + 1]
    BY <1>2, <2>3
  <2>5. t[n - 1].check = "copied"
    BY <2>1, <2>3, <2>4
  <2> QED
    BY <2>3, <2>5 DEF Copies
<1> QED
  BY <1>2, <1>6, <1>7, <1>8, <1>9

LEMMA DoomedRest ==
  ASSUME NEW s, NEW t, Doomed(s), t = Tail(s), t # <<>>, ~Bad(Head(s))
  PROVE  Doomed(t)
<1>1. s \in Seq(AnyBlocks)
  BY DEF Doomed
<1>2. /\ t \in Seq(AnyBlocks) /\ Len(t) \in Nat /\ Len(t) = Len(s) - 1 /\ Len(t) >= 1
      /\ Head(s) = s[1] /\ \A n \in 1 .. Len(t) : t[n] = s[n + 1]
  BY <1>1, Rest
<1>3. Len(s) \in Nat
  BY <1>1
<1>4. PICK k \in 1 .. Len(s) : Bad(s[k]) /\ \A m \in 1 .. k : s[m].failed = "FALSE"
  BY DEF Doomed
<1>5. k # 1
  BY <1>2, <1>4
<1>6. k - 1 \in 1 .. Len(t) /\ (k - 1) + 1 = k
  BY <1>2, <1>3, <1>5
<1>7. t[k - 1] = s[(k - 1) + 1]
  BY <1>2, <1>6
<1>8. Bad(t[k - 1])
  BY <1>4, <1>6, <1>7
<1>9. ASSUME NEW m \in 1 .. k - 1 PROVE t[m].failed = "FALSE"
  <2>1. m \in 1 .. Len(t) /\ m + 1 \in 1 .. k
    BY <1>2, <1>3, <1>6
  <2> QED
    BY <1>2, <1>4, <2>1
<1> QED
  BY <1>2, <1>6, <1>8, <1>9 DEF Doomed

\* The first exchange of a call that cannot succeed is either not the bad one,
\* or has not come back well.
LEMMA DoomedNow ==
  ASSUME ShaInv, SureInv, result = "running", ~Supported
  PROVE  /\ step.failed = "FALSE"
         /\ Arrived /\ Good => ~Bad(step) /\ Tail(steps) # <<>>
<1>1. Doomed(steps) /\ (sent /\ Bad(step) => Astray(step))
  BY DEF SureInv, Failing
<1>2. step = steps[1] /\ step \in AnyBlocks
  BY StepFacts
<1>3. steps \in Seq(AnyBlocks) /\ Len(steps) \in Nat
  BY <1>1 DEF Doomed
<1>4. PICK k \in 1 .. Len(steps) :
        Bad(steps[k]) /\ \A m \in 1 .. k : steps[m].failed = "FALSE"
  BY <1>1 DEF Doomed
<1>5. step.failed = "FALSE"
  <2>1. 1 \in 1 .. k
    BY <1>3, <1>4
  <2> QED
    BY <1>2, <1>4, <2>1
<1>6. ASSUME Arrived, Good PROVE ~Bad(step)
  <2>1. ASSUME Bad(step) PROVE FALSE
    <3>1. Astray(step) /\ batch = <<>>
      BY <1>1, <1>6, <2>1 DEF Arrived
    <3>2. step.batch # <<>>
      BY <2>1 DEF Bad
    <3> QED
      BY <1>6, <3>1, <3>2 DEF Astray
  <2> QED
    BY <2>1
<1>7. ASSUME Tail(steps) = <<>> PROVE Bad(step)
  <2>1. Len(steps) >= 1
    BY <1>3, <1>4
  <2>2. Len(steps) = 1
    BY <1>3, <1>7, <2>1, LastOne
  <2> QED
    BY <1>2, <1>4, <2>2
<1> QED
  BY <1>5, <1>6, <1>7

\* An exchange of a call that can succeed has come back well when it has come
\* back.
LEMMA SureNow ==
  ASSUME ShaInv, SureInv, Arrived, Supported
  PROVE  Good /\ Supplies(step)
<1>1. batch = <<>> /\ (Outbound(step) \/ Inbound(step)) /\ Secure(steps, call)
  BY DEF SureInv, Arrived, Succeeding
<1>2. Sure(step, call)
  BY <1>1, StepFacts DEF Secure, Arrived
<1>3. step.batch # <<>>
  BY <1>2 DEF Sure
<1> QED
  BY <1>1, <1>3 DEF Outbound, Inbound

LEMMA SureAccept ==
  ASSUME ShaInv, SureInv, Accept
  PROVE  SureInv'
<1> SUFFICES ASSUME result' = "running"
             PROVE  ~lost' /\ IF Supported' THEN Succeeding' ELSE Failing'
  BY DEF SureInv
<1>1. /\ Arrived /\ Good /\ result = "running" /\ sent /\ sent' = FALSE
      /\ steps' = Tail(steps) /\ Tail(steps) # <<>>
      /\ call' = call /\ lost' = lost /\ UNCHANGED <<vars, call, macOf>>
      /\ mem' = mem
      /\ data' = (IF step.check = "page"
                  THEN IF reply.kind = "page" THEN reply.data ELSE [k \in Cells |-> 255]
                  ELSE data)
      /\ sign' = (IF step.check = "sign" THEN Mac(reply.data) ELSE sign)
  BY DEF Accept, Arrived, vars
<1>2. ~lost
  BY <1>1 DEF SureInv
<1>3. step' = Head(Tail(steps)) /\ step = Head(steps)
  BY <1>1 DEF step
<1>4. CASE Supported
  <2>1. Secure(steps, call) /\ Ending(steps, call) /\ sign = "unread" /\ Settled
    BY <1>1, <1>4 DEF SureInv, Succeeding
  <2>2. Good /\ Supplies(step)
    BY <1>1, <1>4, SureNow
  <2> DEFINE t == Tail(steps)
             b == Head(t)
  <2>3. /\ Secure(t, call) /\ Ending(t, call) /\ Feeds(step, b, call)
        /\ Copies(steps) /\ step.check # "copied" => Copies(t)
    BY <1>1, <1>3, <2>1, SecureRest
  <2>4. b = step' /\ t = steps'
    BY <1>1, <1>3
  <2> HIDE DEF t, b
  <2>5. Secure(steps, call)' /\ Ending(steps, call)'
    BY <1>1, <2>3, <2>4, SecureNext, EndingNext
  <2>6. Demands(step)' /\ (~b.reset => cmd_state' = "CMD_MEMORY")
    BY <1>1, <1>4, <2>2, <2>3, <2>4, Handover
  <2>7. sign' = "unread"
    BY <1>1, <2>1, <2>3 DEF Feeds
  <2>8. Settled'
    <3>1. ASSUME call.op = "CreateDataSignature", ~Copies(t)
          PROVE  PageHolds(call.page, call.value)
      <4>1. CASE step.check = "copied"
        BY <1>1, <4>1, GoodCopied
      <4>2. CASE step.check # "copied"
        BY <2>1, <2>3, <3>1, <4>2 DEF Settled
      <4> QED
        BY <4>1, <4>2
    <3> QED
      BY <1>1, <2>4, <3>1, CopiesNext DEF Settled, PageHolds, Page
  <2>9. Succeeding'
    BY <1>1, <2>4, <2>5, <2>6, <2>7, <2>8 DEF Succeeding
  <2> QED
    BY <1>1, <1>2, <1>4, <2>9, SupportedNext DEF CanSucceed
<1>5. CASE ~Supported
  <2>1. ~Bad(step)
    BY <1>1, <1>5, DoomedNow
  <2>2. Doomed(steps)
    BY <1>1, <1>5 DEF SureInv, Failing
  <2>3. Doomed(steps)'
    BY <1>1, <1>3, <2>1, <2>2, DoomedRest, DoomedNext
  <2>4. Failing'
    BY <1>1, <2>3 DEF Failing
  <2> QED
    BY <1>1, <1>2, <1>5, <2>4, SupportedNext DEF CanSucceed
<1> QED
  BY <1>4, <1>5

LEMMA SureLeave ==
  ASSUME ShaInv, Refuse \/ LoseContact
  PROVE  SureInv'
<1>1. step.failed # "running"
  <2>1. result = "running"
    BY DEF Refuse, LoseContact, Arrived
  <2>2. step \in AnyBlocks
    BY <2>1, StepFacts
  <2> QED
    BY <2>2 DEF AnyBlocks
<1> QED
  BY <1>1 DEF Refuse, LoseContact, Fail, SureInv

LEMMA SureStutter ==
  ASSUME SureInv, UNCHANGED shaVars
  PROVE  SureInv'
<1>1. /\ call' = call /\ result' = result /\ steps' = steps /\ sent' = sent
      /\ data' = data /\ sign' = sign /\ lost' = lost /\ macOf' = macOf /\ step' = step
      /\ mem' = mem /\ TA' = TA /\ AA' = AA /\ E' = E /\ cmd_state' = cmd_state
      /\ batch' = batch /\ count' = count /\ outsize' = outsize /\ reply' = reply
  BY DEF shaVars, vars, loop, registers, host, step
<1>2. CASE result # "running"
  BY <1>1, <1>2 DEF SureInv
<1>3. CASE result = "running" /\ Supported
  <2>1. ~lost /\ Succeeding
    BY <1>3 DEF SureInv
  <2>2. Secure(steps, call)' /\ Ending(steps, call)'
    BY <1>1, <2>1, SecureNext, EndingNext DEF Succeeding
  <2>3. Settled'
    BY <1>1, <2>1, CopiesNext DEF Succeeding, Settled, PageHolds, Page
  <2>4. Demands(step) => Demands(step)'
    BY <1>1, DemandsKept
  <2>5. Outbound(step) => Outbound(step)'
    BY <1>1, <2>4 DEF Outbound, Cmd
  <2>6. Inbound(step) => Inbound(step)'
    <3>1. Good => Good'
      BY <1>1 DEF Good, Completed, CrcGood, ReadBack, Answered, Page, Cells
    <3>2. Signable => Signable'
      BY <1>1 DEF Signable, AnswerReady, DataReady, Macced, ScratchHolds, Cells, Page,
         Signed, InNvram
    <3>3. Written => Written'
      BY <1>1 DEF Written, ScratchHolds, Cells, Page
    <3>4. AnswerReady(reply.data) => AnswerReady(reply.data)'
      BY <1>1 DEF AnswerReady, Macced, ScratchHolds, Cells, Page, Signed, InNvram
    <3>5. DataReady => DataReady'
      BY <1>1 DEF DataReady, Macced, ScratchHolds, Cells, Page
    <3>6. Supplies(step) => Supplies(step)'
      BY <1>1, <3>2, <3>3, <3>4, <3>5 DEF Supplies, Cmd, Cells, Offset
    <3> QED
      BY <1>1, <3>1, <3>6 DEF Inbound
  <2>7. Succeeding'
    BY <1>1, <2>1, <2>2, <2>3, <2>4, <2>5, <2>6 DEF Succeeding
  <2> QED
    BY <1>1, <1>3, <2>1, <2>7, SupportedNext DEF SureInv, CanSucceed
<1>4. CASE result = "running" /\ ~Supported
  <2>1. ~lost /\ Failing
    BY <1>4 DEF SureInv
  <2>2. Doomed(steps)'
    BY <1>1, <2>1, DoomedNext DEF Failing
  <2>3. Astray(step) => Astray(step)'
    BY <1>1 DEF Astray, Cmd, Good, Completed, CrcGood, ReadBack, Answered, Page, Cells
  <2>4. Failing'
    BY <1>1, <2>1, <2>2, <2>3, BadNext DEF Failing
  <2> QED
    BY <1>1, <1>4, <2>1, <2>4, SupportedNext DEF SureInv, CanSucceed
<1> QED
  BY <1>2, <1>3, <1>4

LEMMA SureInitHolds == ShaInit => SureInv
BY DEF ShaInit, SureInv

LEMMA SureStep == ShaInv /\ SureInv /\ [ShaNext]_shaVars => SureInv'
<1> SUFFICES ASSUME ShaInv, SureInv, [ShaNext]_shaVars PROVE SureInv'
  OBVIOUS
<1> QED
  BY SureBegin, SureSend, SureAnswer, SureAccept, SureLeave, SureStutter DEF ShaNext

----------------------------------------------------------------------------
(* What a return says. *)

LEMMA ReturnKinds ==
  ASSUME [ShaNext]_shaVars, Returns
  PROVE  /\ call' = call
         /\ \/ Accept /\ Tail(steps) = <<>> /\ result' = "TRUE"
            \/ Refuse /\ result' = step.failed
            \/ LoseContact /\ result' = step.failed /\ lost'
<1>1. CASE UNCHANGED shaVars
  BY <1>1 DEF Returns, shaVars, host
<1>2. CASE Begin
  BY <1>2 DEF Returns, Begin
<1>3. CASE SendBlock
  BY <1>3 DEF Returns, SendBlock
<1>4. CASE Answer
  BY <1>4 DEF Returns, Answer, host
<1>5. CASE Accept
  BY <1>5 DEF Returns, Accept
<1>6. CASE Refuse
  BY <1>6 DEF Refuse, Fail
<1>7. CASE LoseContact
  BY <1>7 DEF LoseContact, Fail
<1> QED
  BY <1>1, <1>2, <1>3, <1>4, <1>5, <1>6, <1>7 DEF ShaNext

LEMMA ReturnSucceeds ==
  ASSUME ShaInv, SureInv, [ShaNext]_shaVars, Returns, ~lost'
  PROVE  result' = "TRUE" <=> Supported
<1>1. result = "running"
  BY DEF Returns
<1>2. CASE Accept /\ Tail(steps) = <<>> /\ result' = "TRUE"
  BY <1>1, <1>2, DoomedNow DEF Accept
<1>3. CASE Refuse /\ result' = step.failed
  BY <1>1, <1>3, DoomedNow, SureNow DEF Refuse
<1> QED
  BY <1>2, <1>3, ReturnKinds

\* A call without loss of contact succeeds exactly if the button has what it
\* needs, for every page size, number of pages and set of calls, whatever the
\* calls before it left in the button (sha18.c, shaib.c; ds1963s.c:183, 302).
THEOREM ShaSucceedsExactly == ShaSpec => SucceedsExactly
<1>1. ShaInv /\ SureInv /\ [ShaNext]_shaVars
        => [Returns /\ ~lost' => (result' = "TRUE" <=> Supported)]_shaVars
  BY ReturnSucceeds
<1> QED
  BY <1>1, ShaInitHolds, ShaStep, SureInitHolds, SureStep, PTL
     DEF ShaSpec, SucceedsExactly

\* The last read of a call that signs.
LEMMA LastRead ==
  ASSUME ShaInv, SureInv, Accept, Supported, Tail(steps) = <<>>,
         call.op \in {"AnswerChallenge", "CreateDataSignature"}
  PROVE  /\ Signable /\ call' = call /\ data' = data /\ macOf' = macOf
         /\ sign' = Mac(reply.data)
         /\ \A k \in Cells : Offset = 0 => reply.data[k] = mem[Scratch + k]
<1>1. /\ Arrived /\ result = "running" /\ call' = call /\ macOf' = macOf
      /\ data' = (IF step.check = "page"
                  THEN IF reply.kind = "page" THEN reply.data ELSE [k \in Cells |-> 255]
                  ELSE data)
      /\ sign' = (IF step.check = "sign" THEN Mac(reply.data) ELSE sign)
  BY DEF Accept, Arrived
<1>2. Secure(steps, call) /\ Ending(steps, call)
  BY <1>1 DEF SureInv, Succeeding
<1>3. step.check = "sign"
  <2>1. Len(steps) = 1
    BY <1>2, LastOne DEF Secure
  <2>2. step = steps[Len(steps)]
    BY <1>1, <2>1, StepFacts
  <2> QED
    BY <1>2, <2>2 DEF Ending
<1>4. Supplies(step)
  BY <1>1, SureNow
<1> QED
  BY <1>1, <1>3, <1>4 DEF Supplies

\* What the caller's signature buffer is given tells whether the button has
\* put a SHA result into the scratchpad.
LEMMA MacRead ==
  ASSUME ShaInv, result = "running", Offset = 0,
         \A k \in Cells : Offset = 0 => reply.data[k] = mem[Scratch + k]
  PROVE  /\ Macced => Mac(reply.data) = "MAC"
         /\ ScratchHolds(call.value) => Mac(reply.data) = "other"
<1>1. MacCells \subseteq Cells /\ MacCells # {} /\ call.value # MAC
  <2>1. call.value \in Values
    BY StepFacts, CallFields
  <2> QED
    BY <2>1, ButtonAssumption, ShaAssumption DEF Cells
<1>2. \A k \in MacCells : reply.data[k] = mem[Scratch + k]
  BY <1>1
<1>3. Macced => Mac(reply.data) = "MAC"
  BY <1>2 DEF Macced, Mac
<1>4. ASSUME ScratchHolds(call.value) PROVE Mac(reply.data) = "other"
  <2>1. PICK k \in MacCells : reply.data[k] = call.value
    BY <1>1, <1>2, <1>4 DEF ScratchHolds
  <2> QED
    BY <1>1, <2>1 DEF Mac
<1> QED
  BY <1>3, <1>4

LEMMA ReturnSigned ==
  ASSUME ShaInv, SureInv, [ShaNext]_shaVars, Returns, result' = "TRUE"
  PROVE  /\ call.op = "AnswerChallenge" => AnswerSigned'
         /\ call.op = "CreateDataSignature" => DataSigned'
<1> DEFINE a == Page(call.page)
<1>1. /\ result = "running" /\ call' = call /\ step = steps[1]
      /\ call \in Calls /\ call.page \in 0 .. Pages - 1
  BY ReturnKinds, StepFacts DEF Returns
<1>2. CASE Accept /\ Tail(steps) = <<>>
  <2>1. Supported
    BY <1>1, <1>2, DoomedNow DEF Accept
  <2>2. CASE call.op = "AnswerChallenge"
    <3>1. /\ AnswerReady(data) /\ data' = data /\ macOf' = macOf
          /\ sign' = Mac(reply.data)
          /\ \A k \in Cells : Offset = 0 => reply.data[k] = mem[Scratch + k]
      BY <1>2, <2>1, <2>2, LastRead DEF Signable
    <3>2. Offset = 0
      <4>1. TA = 0 /\ 0 % PageSize = 0
        BY <3>1, Sizes DEF AnswerReady
      <4> QED
        BY <4>1 DEF Offset
    <3>3. CASE Signed(a)
      <4>1. sign' = "MAC" /\ macOf'.addr = a /\ macOf'.data = data'
        BY <1>1, <3>1, <3>2, <3>3, MacRead DEF AnswerReady
      <4> QED
        BY <1>1, <2>2, <3>3, <4>1 DEF AnswerSigned, Signed, InNvram, Page
    <3>4. CASE ~Signed(a)
      <4>1. sign' = "other"
        BY <1>1, <3>1, <3>2, <3>4, MacRead DEF AnswerReady
      <4> QED
        BY <1>1, <2>2, <3>4, <4>1 DEF AnswerSigned, Signed, InNvram, Page
    <3> QED
      BY <3>3, <3>4
  <2>3. CASE call.op = "CreateDataSignature"
    <3>1. /\ DataReady /\ macOf' = macOf /\ sign' = Mac(reply.data)
          /\ \A k \in Cells : Offset = 0 => reply.data[k] = mem[Scratch + k]
      BY <1>2, <2>1, <2>3, LastRead DEF Signable
    <3>2. Offset = 0
      BY <1>1, <3>1, PageNumber DEF DataReady, Offset
    <3>3. CASE call.page \in {0, AuthPage}
      <4>1. /\ sign' = "MAC" /\ macOf'.addr = a /\ macOf'.sub = "C3"
            /\ \A k \in 0 .. PageSize - 2 : macOf'.data[k] = call.value
        BY <1>1, <3>1, <3>2, <3>3, MacRead DEF DataReady
      <4> QED
        BY <1>1, <2>3, <4>1 DEF DataSigned, Page
    <3>4. CASE call.page \notin {0, AuthPage}
      <4>1. sign' = "other"
        BY <1>1, <3>1, <3>2, <3>4, MacRead DEF DataReady
      <4> QED
        BY <1>1, <2>3, <3>4, <4>1 DEF DataSigned
    <3> QED
      BY <3>3, <3>4
  <2> QED
    BY <2>2, <2>3
<1>3. CASE Refuse /\ result' = step.failed
  <2>1. ~Supported
    BY <1>1, <1>3, SureNow DEF Refuse
  <2> QED
    BY <1>1, <1>3, <2>1, DoomedNow
<1>4. CASE LoseContact /\ result' = step.failed /\ lost'
  <2>1. Supported
    BY <1>1, <1>4, DoomedNow
  <2>2. sign = "unread" /\ Secure(steps, call)
    BY <1>1, <2>1 DEF SureInv, Succeeding
  <2>3. Sure(step, call)
    BY <1>1, <2>2 DEF Secure
  <2>4. call.op # "CreateDataSignature"
    BY <1>4, <2>3 DEF Sure
  <2>5. sign' = "unread"
    BY <1>4, <2>2 DEF LoseContact, Fail
  <2> QED
    BY <1>4, <2>4, <2>5 DEF AnswerSigned
<1> QED
  BY <1>2, <1>3, <1>4, ReturnKinds

\* A call that succeeds returns the signature over the page and the data of
\* the same call, for every page size, number of pages and set of calls,
\* except that AnswerChallenge may return none when contact is lost
\* (shaib.c:423-465, 590-627; sha18.c:550-551).
THEOREM ShaSignsWhatItReturns == ShaSpec => SignsWhatItReturns
<1>1. ShaInv /\ SureInv /\ [ShaNext]_shaVars
        => [Returns /\ result' = "TRUE" =>
              /\ call.op = "AnswerChallenge" => AnswerSigned'
              /\ call.op = "CreateDataSignature" => DataSigned']_shaVars
  BY ReturnSigned
<1> QED
  BY <1>1, ShaInitHolds, ShaStep, SureInitHolds, SureStep, PTL
     DEF ShaSpec, SignsWhatItReturns
=============================================================================
