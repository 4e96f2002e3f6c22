------------------------------ MODULE DS1963S ------------------------------
(***************************************************************************)
(* The DS1963S iButton of ds1963s.c: its memory, its address and status    *)
(* registers and the loop of ds1963s_process over the bytes of one batch.  *)
(*                                                                         *)
(* nvram, secrets and scratchpad are neighbours in struct _ds1963s_data    *)
(* and are modelled as one array of cells, because memcpy of a scratchpad  *)
(* to an address inside nvram does not stop at its end.  The sizes are     *)
(* constants (32-byte pages, 16 of them, 64 bytes of secrets in the code), *)
(* the contents of a cell is one of a few values, and the result of        *)
(* SHA-1 is a single value of its own, MAC.                                *)
(*                                                                         *)
(* A batch is what one call of button->process receives, cut into the      *)
(* commands it was built from: a ROM command, a memory command, or both.   *)
(* The handler that runs depends on cmd_state, not on what the host meant. *)
(***************************************************************************)
EXTENDS Integers, Sequences

CONSTANTS
  PageSize,     \* 32
  Pages,        \* 16
  AuthPage,     \* 8: first page with a write cycle counter
  SecretSize,   \* 64
  MacCells,     \* offsets in the scratchpad that a SHA result overwrites
  Values,       \* what a host may write into a cell
  MAC,          \* the contents of a cell that holds part of a SHA result
  Batches       \* per cmd_state, what a host may send in one batch

Packets == [op : STRING, addr : Nat, aa : BOOLEAN, off : 0 .. PageSize - 1,
            value : Values, sub : STRING, size : Nat \ {0}]

ASSUME ButtonAssumption ==
  /\ PageSize \in Nat /\ PageSize > 1
  /\ Pages \in Nat \ {0} /\ AuthPage \in 1 .. Pages
  /\ SecretSize \in Nat /\ SecretSize >= PageSize
  /\ MacCells \subseteq 0 .. PageSize - 1 /\ MacCells # {}
  /\ 0 \notin Values /\ 255 \notin Values /\ MAC \notin Values \cup {0, 255}
  /\ \A st \in {"CMD_ROM", "CMD_MEMORY"} : \A bt \in Batches[st] :
       bt \in Seq(Packets) /\ Len(bt) \in {1, 2}

NvSize     == Pages * PageSize                 \* 0x200
Scratch    == NvSize + SecretSize              \* first cell of scratchpad
MemSize    == Scratch + PageSize
NvCells    == 0 .. NvSize - 1
SecretCells == NvSize .. Scratch - 1
Contents   == Values \cup {0, 255, MAC}

VARIABLES
  mem,        \* nvram, secrets, scratchpad
  TA,         \* TA1 + (TA2 << 8)
  AA, E,      \* LATCH_ES: bit 7 (auth accepted) and the low five bits
  cmd_state,  \* "CMD_ROM" or "CMD_MEMORY"
  \* ds1963s_process: commands left, count, *outsize, last reply
  batch, count, outsize, reply,
  fault,      \* a memset was given a negative length
  \* history: what the host has been told and has done
  provided,   \* registers as the last Read Scratchpad reported them
  everRead    \* has there been a Read Scratchpad since power-up?

registers == <<TA, AA, E>>
history   == <<provided, everRead>>
loop      == <<batch, count, outsize, fault>>
vars == <<mem, registers, cmd_state, loop, reply, history>>

None == [kind |-> "none"]
NotProvided == <<>>

----------------------------------------------------------------------------
(* ds1963s_init *)

Init ==
  /\ mem = [c \in 0 .. MemSize - 1 |-> 0]
  /\ TA = 0 /\ AA = FALSE /\ E = 0
  /\ cmd_state = "CMD_ROM"
  /\ batch = <<>> /\ count = 0 /\ outsize = 0 /\ reply = None
  /\ fault = FALSE
  /\ provided = NotProvided /\ everRead = FALSE

----------------------------------------------------------------------------
(* ds1963s_process and ds1963s_process_rom *)

Size(bt) == IF Len(bt) = 1 THEN bt[1].size ELSE bt[1].size + bt[2].size

Call ==
  /\ batch = <<>> /\ ~fault
  /\ \E bt \in Batches[cmd_state] : batch' = bt /\ count' = Size(bt)
  /\ outsize' = 0 /\ reply' = None
  /\ UNCHANGED <<mem, registers, cmd_state, fault, history>>

\* Mutant: a reset pulse that clears the address registers.
ResetPulseClears ==
  /\ batch = <<>> /\ ~fault
  /\ cmd_state' = "CMD_ROM" /\ TA' = 0
  /\ UNCHANGED <<mem, AA, E, loop, reply, history>>

\* ds1963s_reset_pulse, between two batches.
ResetPulse ==
  /\ batch = <<>> /\ ~fault
  /\ cmd_state' = "CMD_ROM"
  /\ UNCHANGED <<mem, registers, loop, reply, history>>

cmd == Head(batch)
InRom == batch # <<>> /\ ~fault /\ cmd_state = "CMD_ROM"

RomDone(replied, rest) ==
  /\ cmd_state' = "CMD_MEMORY"
  /\ outsize' = outsize + replied
  /\ batch' = rest
  /\ UNCHANGED <<mem, registers, count, reply, fault, history>>

\* Skip and Resume take one byte; the rest of the batch goes to the memory
\* handler.
SkipRom == /\ InRom /\ cmd.op \in {"CC", "A5"}
           /\ RomDone(1, Tail(batch))

\* Read and Match take nine whatever was sent, and compare nothing.
MatchRom == /\ InRom /\ cmd.op \in {"33", "55"}
            /\ RomDone(9, IF count > 9 THEN Tail(batch) ELSE <<>>)

\* Search and everything unknown swallow the whole batch.
OtherRom == /\ InRom /\ cmd.op \notin {"CC", "A5", "33", "55"}
            /\ RomDone(count, <<>>)

----------------------------------------------------------------------------
(* ds1963s_process_memory *)

InMemory(op) ==
  batch # <<>> /\ ~fault /\ cmd_state = "CMD_MEMORY" /\ cmd.op = op

\* Mutant: a reply one byte short.
MemoryDoneShort(replied, used) ==
  /\ fault' = (count < used)
  /\ outsize' = outsize + replied - 1
  /\ cmd_state' = "CMD_ROM"
  /\ batch' = <<>>
  /\ UNCHANGED count

\* Each handler is told the count of the whole batch and fills what is left
\* of it after `used' bytes; a shorter batch makes that length negative.
MemoryDone(replied, used) ==
  /\ fault' = (count < used)
  /\ outsize' = outsize + replied
  /\ cmd_state' = "CMD_ROM"
  /\ batch' = <<>>
  /\ UNCHANGED count

Offset == TA % PageSize
Put(start, source, len) ==   \* memcpy(&mem[start], &mem[source], len)
  [c \in DOMAIN mem |-> IF c \in start .. start + len - 1
                        THEN mem[source + (c - start)] ELSE mem[c]]
Fill(cells, v) ==
  [c \in DOMAIN mem |-> IF c \in cells THEN v ELSE mem[c]]
MacPlace == {Scratch + k : k \in MacCells}

\* Mutant: LATCH_ES is set to the page size.
FullOffsetOver == PageSize
FullOffset == PageSize - 1                    \* LATCH_ES |= 0x1F

\* Read Scratchpad: always reports the page as full.
ReadScratchpad ==
  /\ InMemory("AA")
  /\ E' = FullOffset
  /\ reply' = [kind |-> "scratchpad", addr |-> TA, aa |-> AA, off |-> E',
               data |-> [k \in Offset .. PageSize - 1 |-> mem[Scratch + k]]]
  /\ MemoryDone(count, PageSize + 6)
  /\ provided' = <<TA, AA, E'>> /\ everRead' = TRUE
  /\ UNCHANGED <<mem, TA, AA>>

\* Mutant: the authorisation of an earlier copy stays.
WriteScratchpadLatched ==
  /\ InMemory("0F")
  /\ TA' = cmd.addr
  /\ mem' = IF TA' < NvSize
            THEN Fill(Scratch + (TA' % PageSize) .. MemSize - 1, cmd.value) ELSE mem
  /\ reply' = [kind |-> IF TA' < NvSize THEN "written" ELSE "echo"]
  /\ MemoryDone(count, 0)
  /\ provided' = NotProvided
  /\ UNCHANGED <<AA, E, everRead>>

\* Write Scratchpad: an address past nvram only loads TA, and the reply is
\* the echo of the packet, without a CRC.
WriteScratchpad ==
  /\ InMemory("0F")
  /\ TA' = cmd.addr
  /\ IF TA' < NvSize
     THEN /\ AA' = FALSE
          /\ mem' = Fill(Scratch + (TA' % PageSize) .. MemSize - 1, cmd.value)
     ELSE UNCHANGED <<AA, mem>>
  /\ reply' = [kind |-> IF TA' < NvSize THEN "written" ELSE "echo"]
  /\ MemoryDone(count, 0)
  /\ provided' = NotProvided
  /\ UNCHANGED <<E, everRead>>

EraseScratchpad ==
  /\ InMemory("C3")
  /\ TA' = cmd.addr
  /\ mem' = Fill(Scratch .. MemSize - 1, 255)
  /\ reply' = [kind |-> "done"]
  /\ MemoryDone(count, 3)
  /\ provided' = NotProvided
  /\ UNCHANGED <<AA, E, everRead>>

\* Mutant: no check of the address.
AuthorisedAnywhere == cmd.addr = TA /\ cmd.aa = AA /\ cmd.off = E

\* HIDE is never set, so only the nvram half of the address check can pass.
Authorised == /\ TA < NvSize
              /\ cmd.addr = TA /\ cmd.aa = AA /\ cmd.off = E

\* Mutant: a whole page whatever LATCH_ES says.
CopyLenPage == PageSize
CopyLen == E                 \* LATCH_ES & 0x1F
CopiedMem == Put(TA, Scratch, CopyLen)

\* The registers are compared; the cells are copied from the start of the
\* scratchpad.  No write cycle counter is incremented.
CopyScratchpad ==
  /\ InMemory("55")
  /\ IF Authorised
     THEN /\ AA' = TRUE
          /\ mem' = CopiedMem
          /\ provided' = NotProvided
     ELSE UNCHANGED <<AA, mem, provided>>
  /\ reply' = [kind |-> IF Authorised THEN "done" ELSE "refused"]
  /\ MemoryDone(count, 4)
  /\ UNCHANGED <<TA, E, everRead>>

\* _ds1963s_read_nvram: a page that does not fit leaves the reply as it was.
InNvram(a)  == a + PageSize <= NvSize
Signed(a)   == InNvram(a) /\ a \div PageSize >= AuthPage

ReadAuthPage ==
  /\ InMemory("A5")
  /\ LET a == cmd.addr IN
     /\ mem' = IF Signed(a) THEN Fill(MacPlace, MAC) ELSE mem
     /\ reply' = IF InNvram(a)
                 THEN [kind |-> "page", addr |-> a,
                       data |-> [k \in 0 .. PageSize - 1 |-> mem[a + k]]]
                 ELSE [kind |-> "echo"]
  /\ TA' = 0
  /\ MemoryDone(count, PageSize + 13)
  /\ provided' = NotProvided
  /\ UNCHANGED <<AA, E, everRead>>

\* Compute SHA: only "sign data page", and only for two pages, computes.
\* Any other subfunction reports the rest of the batch a second time.
Computes(c) == /\ c.sub = "C3" /\ InNvram(c.addr)
               /\ c.addr \div PageSize \in {0, AuthPage}

ComputeSHA ==
  /\ InMemory("33")
  /\ TA' = cmd.addr
  /\ mem' = IF Computes(cmd) THEN Fill(MacPlace, MAC) ELSE mem
  /\ reply' = [kind |-> "done"]
  /\ MemoryDone(IF cmd.sub = "C3" THEN count ELSE 2 * count - 3, 6)
  /\ provided' = NotProvided
  /\ UNCHANGED <<AA, E, everRead>>

\* *outsize stays 0: the host gets no answer at all.
OtherMemory ==
  /\ batch # <<>> /\ ~fault /\ cmd_state = "CMD_MEMORY"
  /\ cmd.op \notin {"AA", "0F", "C3", "55", "A5", "33"}
  /\ reply' = None
  /\ MemoryDone(0, 0)
  /\ UNCHANGED <<mem, registers, history>>

----------------------------------------------------------------------------
Next == \/ Call \/ ResetPulse
        \/ SkipRom \/ MatchRom \/ OtherRom
        \/ ReadScratchpad \/ WriteScratchpad \/ EraseScratchpad
        \/ CopyScratchpad \/ ReadAuthPage \/ ComputeSHA \/ OtherMemory

Spec == Init /\ [][Next]_vars

----------------------------------------------------------------------------
(* Properties *)

\* Every variable keeps the type its C counterpart has.
TypeOK ==
  /\ mem \in [0 .. MemSize - 1 -> Contents]
  /\ TA \in Nat /\ AA \in BOOLEAN /\ E \in 0 .. PageSize - 1
  /\ cmd_state \in {"CMD_ROM", "CMD_MEMORY"}
  /\ batch \in Seq(Packets)
  /\ count \in Nat /\ fault \in BOOLEAN
  /\ everRead \in BOOLEAN

\* What a step changes below the scratchpad lies in the window a Copy was
\* addressed to, and before the first Read Scratchpad since power-up nothing
\* changes at all: LATCH_ES is the length of the copy and only a read sets it
\* (ds1963s.c:162, 237).
Reach ==
  \A c \in 0 .. Scratch - 1 :
    mem'[c] # mem[c] => /\ everRead /\ TA < NvSize
                        /\ c \in TA .. TA + PageSize - 2
CopyReach == [][Reach]_vars

\* No host that keeps to page addresses can change a secret: HIDE is never
\* set, so secrets are out of reach of Copy Scratchpad (ds1963s.c:222-226) and
\* a page copy ends inside nvram.
SecretsSealed == [][\A c \in SecretCells : mem'[c] = mem[c]]_vars

\* The registers a Read Scratchpad reported are the ones a Copy must present,
\* until a command changes them: a reset pulse or a ROM command in between
\* (each command of the SDK begins with both) does not disturb them.
ReadBackAuthorises == provided # NotProvided => provided = <<TA, AA, E>>

\* A batch that ends in a memory command the button implements is answered
\* with at least as many bytes as it has: the SDK reads back as many bytes as
\* it wrote (owtrnu.c:78-150).  Commands as the SDK sends them, in one batch
\* each, never make a handler fill a negative number of bytes.
EnoughReply == ~fault /\ (batch = <<>> /\ reply # None => outsize >= count)
=============================================================================
