------------------------------- MODULE OwLink -------------------------------
(***************************************************************************)
(* The link layer of the SDK (ds2480ut.c, owllu.c, owtrnu.c, owsesu.c,     *)
(* ownetu.c) over simlink.c: what the SDK keeps in its globals about the   *)
(* bridge, and the bridge it talks to, inside one process.                 *)
(*                                                                         *)
(* A call of the SDK builds packets, writes each with one WriteCOM and     *)
(* reads its replies from g_outbuffer.  Nothing runs in between, so each   *)
(* call is one action.  The link is a record L, and each function of the   *)
(* SDK an operator from the record before the call to the record after it, *)
(* so that calls compose as they do in the code.                           *)
(*                                                                         *)
(* The bridge decodes the units of a packet as DS2480Stream does; a packet *)
(* never ends inside an escape, and 1024 bytes hold the replies to any     *)
(* packet, which is when DS2480Sim implements DS2480Stream.                *)
(***************************************************************************)
EXTENDS DS2480Codes, Sequences

CONSTANTS
  Blocks,      \* what callers hand to owBlock: sequences of bytes
  Roms,        \* serial numbers that are selected: sequences of bytes
  SendBytes,   \* what callers hand to the functions that send one byte
  Answers,     \* how the button may answer a batch
  SearchLen,   \* bytes of a search accelerator block (16)
  MaxBlock,    \* the longest block owBlock takes (160)
  UChar,       \* values of the uchar sendlen (256)
  Levels       \* what callers ask of owLevel

PARMSET_115200 == 6
SPEEDSEL_FLEX  == 4

\* What ds1963s.c does with a batch: answer with what it was sent, with
\* something else, with a byte too many (after a Resume), or not at all (an
\* unknown memory command).
ASSUME LinkAssumption ==
  /\ \A bytes \in Blocks \cup Roms : bytes \in Seq(Byte)
  /\ SendBytes \subseteq Byte
  /\ Answers \subseteq {"echo", "other", "more", "none"}
  /\ SearchLen \in Nat \ {0} /\ MaxBlock \in Nat
  /\ UChar \in Nat /\ UChar > 3   \* it holds the packet of any one byte
  /\ Levels \subseteq {"NORMAL", "STRONG5", "PROGRAM"}

VARIABLES
  open,   \* g_state # NULL
  link,   \* see Links
  last    \* the last call: its name (the level for owLevel) and its bytes

vars == <<open, link, last>>

\* The bridge: mode, speed, baud (the one register whose value the SDK looks
\* at), search, srch (the length of the unfinished search block).  The SDK:
\* UMode, UBaud, USpeed, ULevel.  rx is g_outbuffer; got, ok and detected are
\* what the functions return, handed what the button was handed since the
\* call began.
Links == [mode : {"COMMAND", "DATA"}, speed : Speeds, baud : 0 .. 14,
          search : BOOLEAN, srch : 0 .. SearchLen - 1,
          UMode : {"COMMAND", "DATA"}, UBaud : {PARMSET_9600, PARMSET_115200},
          USpeed : {SPEEDSEL_FLEX, SPEEDSEL_OD}, ULevel : {"NORMAL", "STRONG5"},
          rx : Seq(Byte), got : Seq(Byte), ok : BOOLEAN,
          detected : {"not tried", "yes", "no"}, handed : Seq(Byte)]

----------------------------------------------------------------------------
(* The bridge and the button behind WriteCOM *)

Surplus == 90

Answer(how, batch) ==
  IF batch = <<>> THEN <<>>
  ELSE CASE how = "echo"  -> batch
         [] how = "other" -> [k \in 1 .. Len(batch) |-> 0]
         [] how = "more"  -> Append(batch, Surplus)
         [] how = "none"  -> <<>>

\* The data bytes collected so far go to the button or to the search
\* accelerator, which answers each full block.
Searched(L, n) ==
  [L EXCEPT !.srch = n % SearchLen,
            !.rx = @ \o [k \in 1 .. SearchLen * (n \div SearchLen) |-> 0]]

Dispatch(L, batch, how) ==
  IF L.search THEN Searched(L, L.srch + Len(batch))
  ELSE [L EXCEPT !.rx = @ \o Answer(how, batch), !.handed = @ \o batch]

Command(L, c) ==
  CASE IsComm(c) /\ Funct(c) = "bit" ->
         [L EXCEPT !.speed = SpeedOf(c), !.rx = Append(@, BitReply(c))]
    [] IsComm(c) /\ Funct(c) = "search" ->
         [L EXCEPT !.speed = SpeedOf(c), !.search = SearchOn(c)]
    [] IsComm(c) /\ Funct(c) = "reset" ->
         [L EXCEPT !.speed = SpeedOf(c), !.rx = Append(@, RESET_REPLY)]
    [] IsComm(c) /\ Funct(c) = "chmod" ->
         [L EXCEPT !.rx = Append(@, ChmodReply(c))]
    [] IsConfig(c) /\ ParmSel(c) = PARMSEL_BAUDRATE ->
         [L EXCEPT !.baud = ParmSet(c), !.rx = Append(@, ParmReply(c))]
    [] IsConfig(c) /\ ParmSel(c) = 0 ->
         [L EXCEPT !.rx = Append(@, IF ParmRead(c) = PARMSEL_BAUDRATE THEN L.baud ELSE 0)]
    [] IsConfig(c) /\ ParmSel(c) \notin {0, PARMSEL_BAUDRATE} ->
         [L EXCEPT !.rx = Append(@, ParmReply(c))]
    [] OTHER -> L

\* The decoder inside a packet: the link, the data bytes collected, and
\* whether the next byte is the second of an escape.
At(L, batch, esc) == [link |-> L, batch |-> batch, esc |-> esc]

InCommandMode(L, c) ==
  CASE c = MODE_DATA    -> [L EXCEPT !.mode = "DATA"]
    [] c = MODE_COMMAND -> L
    [] c \notin {MODE_DATA, MODE_COMMAND} -> Command(L, c)

\* In data mode an escape is one byte, and a single 0xE3 ends the mode; so
\* does the timing byte, which resets the baud register too.
InDataMode(d, c, escape, how) ==
  CASE c = MODE_COMMAND /\ escape -> At(d.link, Append(d.batch, c), TRUE)
    [] c = MODE_COMMAND /\ ~escape ->
         At([Dispatch(d.link, d.batch, how) EXCEPT !.mode = "COMMAND"], <<>>, FALSE)
    [] c = TIMING ->
         At([Dispatch(d.link, d.batch, how) EXCEPT !.mode = "COMMAND", !.baud = PARMSET_9600],
            <<>>, FALSE)
    [] c \notin {MODE_COMMAND, TIMING} -> At(d.link, Append(d.batch, c), FALSE)

Decode(d, bytes, k, how) ==
  IF d.esc THEN At(d.link, d.batch, FALSE)
  ELSE IF d.link.mode = "COMMAND" THEN At(InCommandMode(d.link, bytes[k]), <<>>, FALSE)
  ELSE InDataMode(d, bytes[k], k < Len(bytes) /\ bytes[k + 1] = MODE_COMMAND, how)

WriteCOM(L, bytes, how) ==
  LET D[k \in 0 .. Len(bytes)] ==
        IF k = 0 THEN At(L, <<>>, FALSE) ELSE Decode(D[k - 1], bytes, k, how)
      end == D[Len(bytes)]
  IN  Dispatch(end.link, end.batch, how)

----------------------------------------------------------------------------
(* simlink.c *)

FlushCOM(L) == [L EXCEPT !.rx = <<>>]

\* All that was asked for, or nothing and the buffer stays as it is.
ReadCOM(L, n) ==
  IF n > Len(L.rx) THEN [L EXCEPT !.got = <<>>, !.ok = FALSE]
  ELSE [L EXCEPT !.got = SubSeq(L.rx, 1, n),
                 !.rx = SubSeq(L.rx, n + 1, Len(L.rx)), !.ok = TRUE]

\* The way of every packet: flush, write, read the replies.
Exchange(L, bytes, n, how) == ReadCOM(WriteCOM(FlushCOM(L), bytes, how), n)

----------------------------------------------------------------------------
(* ds2480ut.c *)

Slew1p37Vus == 23    \* CMD_CONFIG and a parameter: 0x17, 0x45, 0x5B, 0x3F
Write10us   == 69
SampOff8us  == 91
Infinite5V  == 63
ReadBaud    == 15
BitOne      == 145   \* CMD_COMM and a function; the speed is added
Reset       == 193
SearchOnCmd == 177
SearchOff   == 161
Pulse5V     == 237
STOP_PULSE  == 241
SearchRom   == 240
MatchRom    == 85
OverdriveMatch == 105

Enquiry == <<Slew1p37Vus, Write10us, SampOff8us, ReadBaud, BitOne>>

\* The baud rate is 9600 and the bit command was answered at this speed.
Detected(c) ==
  IF /\ c.ok /\ c.got[4] = PARMSET_9600
     /\ c.got[5] \div 16 = 9 /\ SpeedOf(c.got[5]) = 0
  THEN [c EXCEPT !.detected = "yes"] ELSE [c EXCEPT !.ok = FALSE, !.detected = "no"]

Forgotten(L) ==
  [L EXCEPT !.UMode = "COMMAND", !.UBaud = PARMSET_9600, !.USpeed = SPEEDSEL_FLEX]

\* Mutant: the reply of the timing byte is still there.
DetectTiming(L, how) ==
  Detected(ReadCOM(WriteCOM(WriteCOM(FlushCOM(Forgotten(L)), <<TIMING>>, how),
                            Enquiry, how), 5))

\* There is no break on this link: the timing byte has to do.
DS2480Detect(L, how) ==
  Detected(Exchange(WriteCOM(FlushCOM(Forgotten(L)), <<TIMING>>, how), Enquiry, 5, how))

\* A function that has lost communication detects the bridge anew and fails.
Failed(L, how) == [DS2480Detect(L, how) EXCEPT !.ok = FALSE]
Checked(L, Good(_), how) == IF L.ok /\ Good(L.got) THEN L ELSE Failed(L, how)

Commands(L, cmds, n, how) ==
  Exchange([L EXCEPT !.UMode = "COMMAND"],
           IF L.UMode = "COMMAND" THEN cmds ELSE <<MODE_COMMAND>> \o cmds, n, how)

DS2480ChangeBaud(L, newbaud, how) ==
  IF L.UBaud = newbaud THEN [L EXCEPT !.ok = TRUE]
  ELSE Checked(Exchange([Commands(L, <<113 + newbaud>>, 0, how) EXCEPT !.UBaud = newbaud],
                        <<ReadBaud>>, 1, how),
               LAMBDA got : ParmSet(got[1]) = newbaud, how)

----------------------------------------------------------------------------
(* owllu.c.  ProgramAvailable never becomes true: RESET_REPLY has no 0x20.   *)

\* The replies to the start and the stop of a pulse.
Stopped(got) == got[1] >= 224 /\ got[2] >= 224
Started(got) == got[1] < 128 /\ got[1] % 2 = 0

AtLevel(L, level) == IF L.ok THEN [L EXCEPT !.ULevel = level] ELSE L

owLevel(L, new_level, how) ==
  CASE new_level = L.ULevel -> [L EXCEPT !.ok = TRUE]
    [] new_level # L.ULevel /\ new_level = "NORMAL" ->
         AtLevel(Checked(Commands(L, <<STOP_PULSE, Pulse5V, STOP_PULSE>>, 2, how),
                         Stopped, how), "NORMAL")
    [] new_level # L.ULevel /\ new_level = "STRONG5" ->
         AtLevel(Checked(Commands(L, <<Infinite5V, Pulse5V>>, 1, how), Started, how),
                 "STRONG5")
    [] new_level # L.ULevel /\ new_level = "PROGRAM" ->
         [L EXCEPT !.UMode = "COMMAND", !.ok = FALSE]

Normal(L, how) == owLevel(L, "NORMAL", how)

ResetPulse(L, how) ==
  Checked(Commands(L, <<Reset + L.USpeed>>, 1, how), LAMBDA got : got[1] % 4 \in {1, 2}, how)

owTouchReset(L, how) == ResetPulse(Normal(L, how), how)

Bit(L, sendbit, how) ==
  Checked(Commands(L, <<BitOne - 16 + 16 * sendbit + L.USpeed>>, 1, how),
          LAMBDA got : TRUE, how)

owTouchBit(L, sendbit, how) == Bit(Normal(L, how), sendbit, how)

Escaped(bytes) ==
  LET E[k \in 0 .. Len(bytes)] ==
        IF k = 0 THEN <<>>
        ELSE E[k - 1] \o IF bytes[k] = MODE_COMMAND
                         THEN <<MODE_COMMAND, MODE_COMMAND>> ELSE <<bytes[k]>>
  IN  E[Len(bytes)]

DataPacket(L, bytes) ==
  IF L.UMode = "DATA" THEN Escaped(bytes) ELSE <<MODE_DATA>> \o Escaped(bytes)

\* sendlen wraps: the packet is what was last written below its final value.
Wrapped(packet) ==
  LET n == Len(packet)
  IN  [k \in 1 .. n % UChar |-> packet[n - ((n - k) % UChar)]]

\* Mutant: what an earlier packet left over is still in the buffer.
SendUnflushed(L, bytes, how) ==
  ReadCOM(WriteCOM([L EXCEPT !.UMode = "DATA"], Wrapped(DataPacket(L, bytes)), how), Len(bytes))

SendData(L, bytes, how) ==
  Exchange([L EXCEPT !.UMode = "DATA"], Wrapped(DataPacket(L, bytes)), Len(bytes), how)

\* The byte that was read, 0 when none was.
TouchedByte(L, how) == IF L.ok THEN L ELSE [Failed(L, how) EXCEPT !.got = <<0>>]
owTouchByte(L, sendbyte, how) == TouchedByte(SendData(Normal(L, how), <<sendbyte>>, how), how)

Compared(L, bytes) == [L EXCEPT !.ok = (L.got = bytes)]
owWriteByte(L, sendbyte, how) == Compared(owTouchByte(L, sendbyte, how), <<sendbyte>>)

BaudAt(speed) == IF speed = SPEEDSEL_OD THEN PARMSET_115200 ELSE PARMSET_9600

\* At the baud rate of the new speed the bridge is told the speed, without a
\* flush and without a reply.
SetSpeed(L, speed, how) ==
  IF L.UBaud # BaudAt(speed) THEN [L EXCEPT !.ok = FALSE]
  ELSE [WriteCOM([L EXCEPT !.USpeed = speed, !.UMode = "COMMAND"],
                 IF L.UMode = "COMMAND" THEN <<SearchOff + speed>>
                 ELSE <<MODE_COMMAND, SearchOff + speed>>, how) EXCEPT !.ok = TRUE]

owSpeed(L, new_speed, how) ==
  IF new_speed = L.USpeed THEN [L EXCEPT !.ok = TRUE]
  ELSE SetSpeed(DS2480ChangeBaud(L, BaudAt(new_speed), how), new_speed, how)

BitCommands(L, sendbyte) ==
  [k \in 1 .. 8 |-> BitOne + L.USpeed + (IF k = 8 THEN 2 ELSE 0)
                      - (IF (sendbyte \div 2^(k - 1)) % 2 = 1 THEN 0 ELSE 16)]

\* The echo of a bit command has its low bit set, whatever bit was sent: the
\* byte that seems to come back is 0xFF.
ReadBack(L) ==
  IF L.ok THEN [L EXCEPT !.got = <<IF \A k \in 2 .. 9 : L.got[k] % 2 = 1 THEN 255 ELSE 0>>]
  ELSE L

BytePower(L, sendbyte, how) ==
  ReadBack(AtLevel(Checked(Commands(L, <<Infinite5V>> \o BitCommands(L, sendbyte), 9, how),
                           Started, how), "STRONG5"))

\* It detects the bridge after a wrong echo too.
Verified(L, sendbyte, how) == IF L.ok /\ L.got # <<sendbyte>> THEN Failed(L, how) ELSE L

owWriteBytePower(L, sendbyte, how) == Verified(BytePower(L, sendbyte, how), sendbyte, how)

owReadBytePower(L, how) == BytePower(L, 255, how)

\* Back to the normal level when the bit is not the one it waits for.
KeptUp(L, applyPowerResponse, how) ==
  IF ~L.ok \/ L.got[2] % 2 = applyPowerResponse THEN L
  ELSE [Normal(L, how) EXCEPT !.ok = FALSE]

owReadBitPower(L, applyPowerResponse, how) ==
  KeptUp(AtLevel(Checked(Commands(L, <<Infinite5V, BitOne + L.USpeed + 2>>, 2, how),
                         Started, how), "STRONG5"), applyPowerResponse, how)

----------------------------------------------------------------------------
(* owtrnu.c, ownetu.c *)

\* What follows a reset, when it has succeeded.
Block(L, tran_buf, how) ==
  IF L.ok THEN Checked(SendData(L, tran_buf, how), LAMBDA got : TRUE, how) ELSE L

\* The optional reset.
Begun(L, do_reset, how) == IF do_reset THEN owTouchReset(L, how) ELSE [L EXCEPT !.ok = TRUE]

owBlock(L, do_reset, tran_buf, how) ==
  IF Len(tran_buf) > MaxBlock THEN [L EXCEPT !.ok = FALSE]
  ELSE Block(Begun(L, do_reset, how), tran_buf, how)

Echoed(L, bytes) == [L EXCEPT !.ok = L.ok /\ L.got = bytes]

\* Reset, Match ROM, and the echo is compared.
owAccess(L, rom, how) ==
  Echoed(Block(owTouchReset(L, how), <<MatchRom>> \o rom, how), <<MatchRom>> \o rom)

\* Each step of owOverdriveAccess when the one before has succeeded; back to
\* the normal speed when all are done and not all were well.
ThenWrite(L, how) == IF L.ok THEN owWriteByte(L, OverdriveMatch, how) ELSE L
ThenMatch(L, rom, how) ==
  IF L.ok THEN Echoed(owBlock(owSpeed(L, SPEEDSEL_OD, how), FALSE, rom, how), rom) ELSE L
ElseSlow(L, how) ==
  IF L.ok THEN L ELSE [owSpeed(L, SPEEDSEL_FLEX, how) EXCEPT !.ok = FALSE]

owOverdriveAccess(L, rom, first, second) ==
  LET start == owSpeed(Normal(L, first), SPEEDSEL_FLEX, first)
  IN  ElseSlow(ThenMatch(ThenWrite(owTouchReset(start, first), first), rom, second), second)

\* Mutant: the accelerator stays on.
SearchLeftOn(L) ==
  DataPacket(L, <<SearchRom>>)
    \o <<MODE_COMMAND, SearchOnCmd + L.USpeed, MODE_DATA>>
    \o [k \in 1 .. SearchLen |-> 0] \o <<MODE_COMMAND>>

\* owNext: the search command for the devices, and a block for the search
\* accelerator.  Its bytes have only odd bits set, and none is a mode switch.
SearchPacket(L) ==
  DataPacket(L, <<SearchRom>>)
    \o <<MODE_COMMAND, SearchOnCmd + L.USpeed, MODE_DATA>>
    \o [k \in 1 .. SearchLen |-> 0] \o <<MODE_COMMAND, SearchOff + L.USpeed>>

Search(L, how) ==
  IF L.ok
  THEN Checked(Exchange([L EXCEPT !.UMode = "COMMAND"], SearchPacket(L), SearchLen + 1, how),
               LAMBDA got : TRUE, how)
  ELSE L

owNext(L, do_reset, how) == Search(Begun(L, do_reset, how), how)

----------------------------------------------------------------------------
(* The calls.  owAcquire opens the port and detects the bridge; OpenCOM      *)
(* makes a new bridge and button, and keeps g_outbuffer.                     *)

\* A bridge and a button that were just made.
PowerUp(L) == [L EXCEPT !.mode = "COMMAND", !.speed = SPEEDSEL_STD,
                        !.baud = PARMSET_9600, !.search = FALSE, !.srch = 0]

Init ==
  /\ open = FALSE
  /\ link = [mode |-> "COMMAND", speed |-> SPEEDSEL_STD, baud |-> PARMSET_9600,
             search |-> FALSE, srch |-> 0, UMode |-> "COMMAND",
             UBaud |-> PARMSET_9600, USpeed |-> SPEEDSEL_FLEX,
             ULevel |-> "NORMAL", rx |-> <<>>, got |-> <<>>, ok |-> FALSE,
             detected |-> "not tried", handed |-> <<>>]
  /\ last = [op |-> "none", arg |-> <<>>]

\* The results of the call before are forgotten.
Before(L) == [L EXCEPT !.got = <<>>, !.ok = FALSE, !.detected = "not tried",
                       !.handed = <<>>]

owAcquire ==
  /\ link' = DS2480Detect(PowerUp(Before(link)), "echo")
  /\ open' = link'.ok
  /\ last' = [op |-> "owAcquire", arg |-> <<>>]

owRelease ==
  /\ open /\ open' = FALSE
  /\ link' = Before(link) /\ last' = [op |-> "owRelease", arg |-> <<>>]

Calls(op, arg, after) ==
  /\ open /\ UNCHANGED open
  /\ link' = after /\ last' = [op |-> op, arg |-> arg]

Do(L) ==
  \/ \E how \in Answers :
       \/ Calls("owTouchReset", <<>>, owTouchReset(L, how))
       \/ \E bit \in {0, 1} :
            \/ Calls("owTouchBit", <<bit>>, owTouchBit(L, bit, how))
            \/ Calls("owReadBitPower", <<bit>>, owReadBitPower(L, bit, how))
       \/ \E byte \in SendBytes :
            \/ Calls("owTouchByte", <<byte>>, owTouchByte(L, byte, how))
            \/ Calls("owWriteByte", <<byte>>, owWriteByte(L, byte, how))
            \/ Calls("owWriteBytePower", <<byte>>, owWriteBytePower(L, byte, how))
       \/ Calls("owReadBytePower", <<>>, owReadBytePower(L, how))
       \/ \E blk \in Blocks :
            \/ Calls("owBlock", blk, owBlock(L, FALSE, blk, how))
            \/ Calls("owBlockReset", blk, owBlock(L, TRUE, blk, how))
       \/ \E rom \in Roms : Calls("owAccess", <<MatchRom>> \o rom, owAccess(L, rom, how))
       \/ \E do_reset \in BOOLEAN : Calls("owNext", <<>>, owNext(L, do_reset, how))
       \/ \E s \in {SPEEDSEL_FLEX, SPEEDSEL_OD} :
            Calls("owSpeed", <<s>>, owSpeed(L, s, how))
       \/ \E level \in Levels : Calls(level, <<>>, owLevel(L, level, how))
  \/ \E first, second \in Answers, rom \in Roms :
       Calls("owOverdriveAccess", rom, owOverdriveAccess(L, rom, first, second))

Next == owAcquire \/ owRelease \/ Do(Before(link))

Spec == Init /\ [][Next]_vars

----------------------------------------------------------------------------
(* Properties *)

\* What the SDK believes of the bridge is so.
ModesAgree  == link.UMode = link.mode
SpeedsAgree == link.USpeed = SPEEDSEL_OD <=> link.speed = SPEEDSEL_OD
InSync == /\ ModesAgree /\ SpeedsAgree /\ link.UBaud = link.baud
          /\ ~link.search

Sent(bytes) == {bytes[k] : k \in DOMAIN bytes}
Fits(bytes) == Len(<<MODE_DATA>> \o Escaped(bytes)) < UChar

\* Data that is not taken for commands: without the timing byte, and in a
\* packet that sendlen can count (owtrnu.c:81).
Plain(bytes) == TIMING \notin Sent(bytes) /\ Fits(bytes)

\* Whatever fails in whatever order (ds2480ut.c, owllu.c, owtrnu.c), a call
\* leaves the SDK and the bridge in step: it loses the mode, the speed, the
\* baud rate or the search flag only if its data was not plain, if it asked
\* for program level, or if it failed to detect the bridge again.
StaysInSync ==
  [][open /\ open' /\ InSync /\ ~InSync' =>
       ~Plain(last'.arg) \/ last'.op = "PROGRAM" \/ link'.detected = "no"]_vars

\* ds2480ut.c:75-131: the bridge is not detected again exactly when its baud
\* register does not read 9600: the timing byte resets it in data mode only.
\* What was detected is in step.
DetectExact ==
  [][link'.detected # "not tried" /\ last'.op # "owOverdriveAccess" /\ Plain(last'.arg) =>
       /\ link'.detected = "yes" <=> link'.baud = PARMSET_9600
       /\ link'.detected = "yes" => ModesAgree' /\ SpeedsAgree']_vars

OneBatch == {"owBlock", "owBlockReset", "owAccess", "owTouchByte", "owWriteByte"}

\* The call of owWriteByte that reports success when nothing came back
\* (owllu.c:294).
WriteZero == [op |-> "owWriteByte", arg |-> <<0>>]

\* owtrnu.c:78-138, owllu.c:248-295: on a link in step a call that reports
\* success has handed the button what it was given, once and in order, and
\* returns the first bytes of the button's answer to it, nothing that an
\* earlier answer left; data that is not plain is excepted.
Delivered ==
  [][open /\ InSync /\ last'.op \in OneBatch /\ link'.ok /\ Plain(last'.arg) =>
       /\ link'.handed = last'.arg
       /\ \/ last' = WriteZero
          \/ \E how \in Answers :
               /\ Len(last'.arg) <= Len(Answer(how, last'.arg))
               /\ link'.got = SubSeq(Answer(how, last'.arg), 1, Len(last'.arg))]_vars

\* owtrnu.c:55-56, "transfers a block of data to and from the 1-Wire
\* Net" and "TRUE (1) : ... there was no reset required": a block that the
\* button answers is transferred.
BlockTransferred ==
  [][last'.op = "owBlock" /\ InSync /\ Len(last'.arg) <= MaxBlock =>
       link'.ok /\ link'.handed = last'.arg]_vars
=============================================================================
