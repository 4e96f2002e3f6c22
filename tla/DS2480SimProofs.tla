-------------------------- MODULE DS2480SimProofs --------------------------
(***************************************************************************)
(* What holds of the bridge for every set of streams, every room and every *)
(* number of allocation failures: its types, that its loops read only the  *)
(* bytes of the write they were given, that replies to command bytes stay  *)
(* inside the room, and that it decodes the stream as module DS2480Stream  *)
(* says, but for the steps that Disturbance names.                         *)
(***************************************************************************)
EXTENDS DS2480Sim, TLAPS

\* Where the two indices are while a call runs.  ReadsOwnWrite alone is not
\* inductive: it says nothing of an index past lim, which an error return
\* still moves.
IndexInv ==
  /\ first <= lim + 1
  /\ pc # "idle" => i >= first
  /\ pc \in {"cmd", "data", "dispatch"} => j >= first

SimInv == TypeOK /\ IndexInv /\ CommandRepliesFit

----------------------------------------------------------------------------
(* Decoding a byte stays within its range. *)

LEMMA DecodeTypes ==
  ASSUME NEW c \in Byte
  PROVE  /\ SpeedOf(c) \in Speeds
         /\ SearchOn(c) \in BOOLEAN
         /\ ParmSel(c) \in 0..7 /\ ParmRead(c) \in 0..7
         /\ ParmSet(c) \in Byte /\ ParmReply(c) \in Byte
         /\ BitReply(c) \in Byte \/ c < 128
         /\ ChmodReply(c) \in Byte
  BY DEF Byte, SpeedOf, Speeds, SearchOn, ParmSel, ParmRead, ParmSet,
         ParmReply, BitReply, ChmodReply

LEMMA ConfigTypes == ResetConfig \in [0..7 -> Byte]
  BY DEF ResetConfig, Byte

\* Division by a positive number: remainder in range, quotient natural.
LEMMA DivMod ==
  ASSUME NEW n \in Nat, NEW d \in Nat \ {0}
  PROVE  n % d \in 0 .. d - 1 /\ d * (n \div d) \in Nat
<1>1. n % d \in 0 .. d - 1
  OBVIOUS
<1>2. n \div d \in Nat
  OBVIOUS
<1> QED
  BY <1>1, <1>2

LEMMA NatSum ==
  ASSUME NEW x \in Nat, NEW y \in Nat
  PROVE  x + y \in Nat
  OBVIOUS

\* Events appended to the history are events.
LEMMA PushEvents ==
  ASSUME NEW h \in Seq(Events), NEW before \in Seq(Events), NEW r \in Byte
  PROVE  h \o before \o <<[kind |-> "reply", byte |-> r]>> \in Seq(Events)
<1>1. [kind |-> "reply", byte |-> r] \in Events
  BY DEF Events
<1>2. h \o before \in Seq(Events)
  OBVIOUS
<1> QED
  BY <1>1, <1>2

LEMMA DeliveredEvents ==
  ASSUME processed \in Seq(Byte), search \in BOOLEAN
  PROVE  Delivered \in Seq(Events)
<1>1. DOMAIN processed = 1 .. Len(processed) /\ Len(processed) \in Nat
  OBVIOUS
<1>2. ASSUME NEW k \in DOMAIN processed
      PROVE  [kind |-> IF search THEN "search" ELSE "data",
              byte |-> processed[k]] \in Events
  BY DEF Events
<1>3. Delivered \in [1 .. Len(processed) -> Events]
  BY <1>1, <1>2 DEF Delivered
<1> QED
  BY <1>1, <1>3

LEMMA ReplyLength ==
  ASSUME NEW n, n = 0 \/ n \in ReplyLens
  PROVE  n \in Nat
<1>1. ReplyLens \subseteq Nat
  BY SimAssumption
<1>2. n \in ReplyLens => n \in Nat
  BY <1>1
<1> QED
  BY <1>2

\* The byte under the inner index is a byte of the stream.
LEMMA CurrentByte ==
  ASSUME SimInv, pc \in {"cmd", "data"}, j <= lim
  PROVE  b \in Byte
<1>1. stream \in Seq(Byte)
  BY SimAssumption DEF SimInv, TypeOK
<1>2. j \in 1 .. Len(stream)
  BY <1>1 DEF SimInv, TypeOK, IndexInv
<1> QED
  BY <1>1, <1>2 DEF b

----------------------------------------------------------------------------
(* Pushing a reply keeps the invariant's parts that Push touches. *)

Pushed ==
  /\ pc' \in {"top", "cmd"} /\ i' \in Int /\ j' \in Int
  /\ i' >= first /\ j' >= first
  /\ outsize' \in Nat /\ state_out' \in Nat
  /\ bus' \in Seq(Events)
  /\ pc' = "cmd" /\ outsize' < MaxOut => outsize' + state_out' < MaxOut

LEMMA PushKeeps ==
  ASSUME SimInv, InCmd, NEW r \in Byte, NEW before \in Seq(Events),
         Push(r, before)
  PROVE  Pushed
<1> USE DEF SimInv, TypeOK, IndexInv, InCmd, Pushed
<1>1. CASE Full
  <2>1. bus \o before \in Seq(Events)
    OBVIOUS
  <2>2. /\ pc' = "top" /\ i' = i /\ outsize' = outsize + state_out
        /\ bus' = bus \o before /\ j' = j /\ state_out' = state_out
    BY <1>1 DEF Push
  <2> QED
    BY <2>1, <2>2
<1>2. CASE ~Full
  <2>1. bus' \in Seq(Events)
    BY <1>2, PushEvents DEF Push
  <2>2. outsize < MaxOut => outsize + state_out + 1 < MaxOut
    BY <1>2, SimAssumption DEF Full
  <2>3. /\ state_out' = state_out + 1 /\ j' = j + 1
        /\ pc' = pc /\ i' = i /\ outsize' = outsize
    BY <1>2 DEF Push
  <2> QED
    BY <2>1, <2>2, <2>3
<1> QED
  BY <1>1, <1>2

----------------------------------------------------------------------------

LEMMA SimInit == Init => SimInv
<1> SUFFICES ASSUME Init PROVE SimInv
  OBVIOUS
<1>1. stream \in Seq(Byte)
  BY SimAssumption DEF Init
<1>2. <<>> \in Seq(Byte) /\ <<>> \in Seq(Events)
  OBVIOUS
<1>3. /\ speed \in Speeds /\ config \in [0..7 -> Byte]
      /\ bus \in Seq(Events) /\ processed \in Seq(Byte)
      /\ lim \in 0 .. Len(stream)
  BY <1>1, <1>2, ConfigTypes DEF Init, Speeds, SPEEDSEL_STD
<1>4. search_rom_len \in 0 .. SearchLen - 1 /\ failures \in 0 .. MaxAllocFail
  BY SimAssumption DEF Init
<1>5. search \in BOOLEAN /\ switch \in BOOLEAN
  BY Zenon DEF Init
<1>6. /\ first \in Nat \ {0} /\ i \in Int /\ j \in Int
      /\ outsize \in Nat /\ state_out \in Nat
  BY DEF Init
<1>7. TypeOK
  BY <1>3, <1>4, <1>5, <1>6 DEF Init, TypeOK
<1> QED
  BY <1>7 DEF Init, SimInv, IndexInv, CommandRepliesFit

LEMMA SimStep == SimInv /\ [Next]_vars => SimInv'
<1> SUFFICES ASSUME SimInv, [Next]_vars PROVE SimInv'
  OBVIOUS
<1> USE DEF SimInv, TypeOK, IndexInv, CommandRepliesFit
<1> USE SimAssumption
<1>0. /\ stream \in Seq(Byte) /\ Len(stream) \in Nat
      /\ <<>> \in Seq(Byte) /\ <<>> \in Seq(Events)
  OBVIOUS
<1>1. CASE Call
  BY <1>0, <1>1 DEF Call, device, inner
<1>2. CASE EnterCmd
  BY <1>0, <1>2 DEF EnterCmd, More, device, host
<1>3. CASE EnterData
  BY <1>0, <1>3 DEF EnterData, More, device, host
<1>4. CASE AllocFail
  <2>1. i' \in Int /\ i' >= first
    BY <1>0, <1>4 DEF AllocFail, IndexAfterError, host
  <2>2. failures' \in 0 .. MaxAllocFail
    BY <1>4 DEF AllocFail
  <2> QED
    BY <1>0, <1>4, <2>1, <2>2 DEF AllocFail, More, device, host, inner
<1>5. CASE Return
  BY <1>0, <1>5 DEF Return, device, host, inner
<1>6. CASE CmdToData
  BY <1>0, <1>6 DEF CmdToData, InCmd, Resume, CmdRest, host
<1>7. CASE CmdSkip
  BY <1>0, <1>7 DEF CmdSkip, InCmd, CmdRest, device, host
<1>8. CASE CmdBit
  <2>1. b \in Byte /\ b >= 128
    BY <1>8, CurrentByte DEF CmdBit, Communication, InCmd, IsComm
  <2>2. ~(b < 128)
    BY <2>1 DEF Byte
  <2>3. BitReply(b) \in Byte /\ SpeedOf(b) \in Speeds
    BY <2>1, <2>2, DecodeTypes
  <2>4. Pushed
    BY <1>0, <1>8, <2>3, PushKeeps DEF CmdBit, Communication
  <2> QED
    BY <1>0, <1>8, <2>3, <2>4 DEF CmdBit, CmdRest, host, Pushed
<1>9. CASE CmdSearch
  <2>1. b \in Byte
    BY <1>9, CurrentByte DEF CmdSearch, Communication, InCmd
  <2>2. SpeedOf(b) \in Speeds /\ SearchOn(b) \in BOOLEAN
    BY <2>1, DecodeTypes
  <2> QED
    BY <1>0, <1>9, <2>2 DEF CmdSearch, Communication, InCmd, CmdRest, host
<1>10. CASE CmdReset
  <2>1. b \in Byte
    BY <1>10, CurrentByte DEF CmdReset, Communication, InCmd
  <2>2. RESET_REPLY \in Byte
    BY DEF RESET_REPLY, Byte
  <2>5. SpeedOf(b) \in Speeds
    BY <2>1, DecodeTypes
  <2>3. <<[kind |-> "pulse", byte |-> 0]>> \in Seq(Events)
    BY DEF Events, Byte
  <2>4. Pushed
    BY <1>10, <2>2, <2>3, PushKeeps DEF CmdReset, Communication
  <2> QED
    BY <1>0, <1>10, <2>5, <2>4 DEF CmdReset, CmdRest, host, Pushed
<1>11. CASE CmdChmod
  <2>1. b \in Byte
    BY <1>11, CurrentByte DEF CmdChmod, Communication, InCmd
  <2>2. ChmodReply(b) \in Byte /\ <<>> \in Seq(Events)
    BY <2>1, DecodeTypes
  <2>3. Pushed
    BY <1>11, <2>2, PushKeeps DEF CmdChmod, Communication
  <2> QED
    BY <1>0, <1>11, <2>3 DEF CmdChmod, CmdRest, device, host, Pushed
<1>12. CASE CmdConfigWrite
  <2>1. b \in Byte
    BY <1>12, CurrentByte DEF CmdConfigWrite, InCmd
  <2>2. /\ ParmReply(b) \in Byte /\ ParmSet(b) \in Byte
        /\ <<>> \in Seq(Events)
    BY <2>1, DecodeTypes
  <2>3. Pushed
    BY <1>12, <2>2, PushKeeps DEF CmdConfigWrite
  <2>4. config' \in [0..7 -> Byte]
    BY <1>12, <2>2 DEF CmdConfigWrite
  <2> QED
    BY <1>0, <1>12, <2>3, <2>4 DEF CmdConfigWrite, CmdRest, host, Pushed
<1>13. CASE CmdConfigRead
  <2>1. b \in Byte
    BY <1>13, CurrentByte DEF CmdConfigRead, InCmd
  <2>2. config[ParmRead(b)] \in Byte /\ <<>> \in Seq(Events)
    BY <2>1, DecodeTypes
  <2>3. Pushed
    BY <1>13, <2>2, PushKeeps DEF CmdConfigRead
  <2> QED
    BY <1>0, <1>13, <2>3 DEF CmdConfigRead, CmdRest, device, host, Pushed
<1>14. CASE CmdReturn
  BY <1>0, <1>14 DEF CmdReturn, Resume, CmdRest, device, host
<1>15. CASE DataByte
  <2>1. b \in Byte
    BY <1>15, CurrentByte DEF DataByte, InData
  <2>2. processed' \in Seq(Byte)
    BY <1>15, <2>1 DEF DataByte
  <2> QED
    BY <1>0, <1>15, <2>2 DEF DataByte, InData, DataRest, host
<1>16. CASE DataEscape
  <2>1. processed' \in Seq(Byte)
    BY <1>16 DEF DataEscape, MODE_COMMAND, Byte
  <2> QED
    BY <1>0, <1>16, <2>1 DEF DataEscape, InData, DataRest, host
<1>17. CASE DataToCommand
  BY <1>0, <1>17 DEF DataToCommand, InData, DataRest, host
<1>18. CASE DataTiming
  <2>2. PARMSET_9600 \in Byte /\ PARMSEL_BAUDRATE \in 0..7
    BY DEF PARMSEL_BAUDRATE, PARMSET_9600, Byte
  <2>1. config' \in [0..7 -> Byte]
    BY <1>18, <2>2 DEF DataTiming
  <2> QED
    BY <1>0, <1>18, <2>1 DEF DataTiming, InData, DataRest, host
<1>19. CASE DataEnd
  BY <1>0, <1>19 DEF DataEnd, DataRest, host
<1>20. CASE Dispatch
  <2>1. bus' \in Seq(Events)
    BY <1>20, DeliveredEvents DEF Dispatch
  <2>2. Len(processed) \in Nat /\ <<>> \in Seq(Byte)
    OBVIOUS
  <2>3. search_rom_len' \in 0 .. SearchLen - 1 /\ state_out' \in Nat
    <3>1. CASE search
      <4> DEFINE n == search_rom_len + Len(processed)
      <4>1. n \in Nat
        BY <2>2
      <4>2. n % SearchLen \in 0 .. SearchLen - 1 /\ SearchLen * (n \div SearchLen) \in Nat
        BY <4>1, DivMod
      <4> QED
        BY <1>20, <3>1, <4>2 DEF Dispatch, BlockRest
    <3>2. CASE ~search
      <4>1. /\ search_rom_len' = search_rom_len
            /\ state_out' = 0 \/ state_out' \in ReplyLens
        BY <1>20, <3>2 DEF Dispatch
      <4>2. state_out' \in Nat
        BY <4>1, ReplyLength
      <4>3. search_rom_len' \in 0 .. SearchLen - 1
        BY <4>1
      <4> QED
        BY <4>2, <4>3
    <3> QED
      BY <3>1, <3>2
  <2>5. /\ pc' = "top" /\ UNCHANGED <<speed, search, config, stream, first, lim,
                                        j, failures>>
        /\ i' \in {j, j + 1} /\ outsize' = outsize + state_out'
        /\ mode' \in {"COMMAND", mode}
        /\ processed' = <<>> /\ switch' = FALSE /\ pc = "dispatch"
    BY <1>20 DEF Dispatch, Resume, host
  <2>6. switch' \in BOOLEAN /\ search' \in BOOLEAN
    BY <2>5, Zenon
  <2>7. mode' \in {"COMMAND", "DATA"}
    BY <2>5
  <2>8. j \in Int /\ j >= first /\ first \in Int
    BY <2>5
  <2>13. i' \in Int /\ i' >= first'
    BY <2>5, <2>8
  <2>14. outsize' \in Nat
    BY <2>3, <2>5, NatSum
  <2>12. /\ first' = first /\ lim' = lim /\ pc' = "top"
    BY <2>5
  <2>9. IndexInv' /\ CommandRepliesFit'
    BY <2>12, <2>13
  <2>10. /\ processed' \in Seq(Byte) /\ config' \in [0..7 -> Byte]
         /\ speed' \in Speeds /\ stream' \in Streams
         /\ failures' \in 0 .. MaxAllocFail
         /\ first' \in Nat \ {0} /\ lim' \in 0 .. Len(stream')
         /\ j' \in Int /\ pc' \in {"idle", "top", "cmd", "data", "dispatch"}
    BY <1>0, <2>5
  <2>11. TypeOK'
    BY <2>1, <2>3, <2>6, <2>7, <2>10, <2>13, <2>14
  <2> QED
    BY <2>9, <2>11
<1>21. CASE UNCHANGED vars
  BY <1>21 DEF vars, device, host, inner, More
<1> QED
  BY <1>1, <1>2, <1>3, <1>4, <1>5, <1>6, <1>7, <1>8, <1>9, <1>10, <1>11,
     <1>12, <1>13, <1>14, <1>15, <1>16, <1>17, <1>18, <1>19, <1>20, <1>21
  DEF Next, Process

LEMMA SimAlways == Spec => []SimInv
  BY SimInit, SimStep, PTL DEF Spec

----------------------------------------------------------------------------
(* The results. *)

\* The bridge's variables keep their types (ds2480sim.h:40-53).
THEOREM SimTypeCorrect == Spec => []TypeOK
<1>1. SimInv => TypeOK
  BY DEF SimInv
<1> QED
  BY <1>1, SimAlways, PTL

\* Whatever ds2480_process_cmd and ds2480_process_data return, the outer loop
\* never goes on at a byte before the write it was given (ds2480sim.c:197-210).
THEOREM SimReadsOwnWrite == Spec => []ReadsOwnWrite
<1>1. SimInv => ReadsOwnWrite
  BY DEF SimInv, IndexInv, ReadsOwnWrite
<1> QED
  BY <1>1, SimAlways, PTL

\* OPUSH leaves the last byte of the room free (ds2480sim.c:42).
THEOREM SimCommandRepliesFit == Spec => []CommandRepliesFit
<1>1. SimInv => CommandRepliesFit
  BY DEF SimInv
<1> QED
  BY <1>1, SimAlways, PTL
----------------------------------------------------------------------------
(* Starvation *)

\* The run of command bytes so far holds no mode switch, so that a restart
\* comes back to the byte that had no room for its reply.
RunInv ==
  pc = "cmd" => /\ mode = "COMMAND" /\ i <= j
                /\ \A l \in i .. j - 1 : stream[l] # MODE_DATA

LEMMA ModeDataIsNoReply == IsComm(MODE_DATA) /\ ~IsConfig(MODE_DATA) /\ MODE_DATA # MODE_COMMAND
  BY DEF IsComm, IsConfig, MODE_DATA, MODE_COMMAND

\* A byte that is handled in the run extends it.
LEMMA RunGrows ==
  ASSUME SimInv, RunInv, pc = "cmd", b # MODE_DATA, pc' = "cmd",
         j' = j + 1, UNCHANGED <<i, mode, stream>>
  PROVE  RunInv'
<1>1. i \in Int /\ j \in Int /\ i <= j
  BY DEF SimInv, TypeOK, RunInv
<1>2. ASSUME NEW l \in i' .. j' - 1 PROVE stream'[l] # MODE_DATA
  <2>1. l \in i .. j - 1 \/ l = j
    BY <1>1, <1>2
  <2> QED
    BY <2>1 DEF RunInv, b
<1> QED
  BY <1>1, <1>2 DEF RunInv

PushingCmd == CmdBit \/ CmdReset \/ CmdChmod \/ CmdConfigWrite \/ CmdConfigRead
PassingCmd == CmdSkip \/ CmdSearch

LEMMA PassingByte ==
  ASSUME PassingCmd
  PROVE  /\ pc = "cmd" /\ j <= lim /\ b # MODE_DATA /\ ~Answers(b)
         /\ pc' = pc /\ j' = j + 1
         /\ UNCHANGED <<i, mode, stream, lim, outsize, state_out>>
<1>1. CASE CmdSkip
  BY <1>1, ModeDataIsNoReply DEF CmdSkip, CmdRest, InCmd, device, host, Answers
<1>2. CASE CmdSearch
  BY <1>2 DEF CmdSearch, CmdRest, Communication, InCmd, host, Answers
<1> QED
  BY <1>1, <1>2 DEF PassingCmd

LEMMA PushingByte ==
  ASSUME PushingCmd
  PROVE  /\ pc = "cmd" /\ j <= lim /\ b # MODE_DATA
         /\ UNCHANGED <<mode, stream, lim>>
         /\ \/ /\ Full /\ pc' = "top" /\ i' = i /\ outsize' = outsize + state_out
            \/ ~Full /\ pc' = pc /\ i' = i /\ j' = j + 1
<1> USE ModeDataIsNoReply DEF CmdRest, InCmd, device, host, Push
<1>1. CASE CmdBit
  BY <1>1 DEF CmdBit, Communication
<1>2. CASE CmdReset
  BY <1>2 DEF CmdReset, Communication
<1>3. CASE CmdChmod
  BY <1>3 DEF CmdChmod, Communication
<1>4. CASE CmdConfigWrite
  BY <1>4 DEF CmdConfigWrite
<1>5. CASE CmdConfigRead
  BY <1>5 DEF CmdConfigRead
<1> QED
  BY <1>1, <1>2, <1>3, <1>4, <1>5 DEF PushingCmd

LEMMA RunStep == SimInv /\ RunInv /\ [Next]_vars => RunInv'
<1> SUFFICES ASSUME SimInv, RunInv, [Next]_vars PROVE RunInv'
  OBVIOUS
<1>1. CASE EnterCmd
  <2>1. i' = i /\ j' = i /\ mode' = mode /\ mode = "COMMAND" /\ i \in Int
    BY <1>1 DEF EnterCmd, device, SimInv, TypeOK
  <2> QED
    BY <2>1 DEF RunInv
<1>2. CASE PassingCmd
  BY <1>2, PassingByte, RunGrows
<1>3. CASE PushingCmd
  BY <1>3, PushingByte, RunGrows DEF RunInv
<1>4. CASE UNCHANGED vars
  BY <1>4 DEF RunInv, vars, device, host, inner
<1>5. CASE Call \/ EnterData \/ AllocFail \/ Return \/ CmdToData \/ CmdReturn
  BY <1>5 DEF Call, EnterData, AllocFail, Return, CmdToData, CmdReturn, Resume, RunInv
<1>6. CASE DataByte \/ DataEscape \/ DataToCommand \/ DataTiming \/ DataEnd \/ Dispatch
  BY <1>6 DEF DataByte, DataEscape, DataToCommand, DataTiming, DataEnd, InData,
     Dispatch, Resume, RunInv
<1> QED
  BY <1>1, <1>2, <1>3, <1>4, <1>5, <1>6 DEF Next, Process, PassingCmd, PushingCmd

LEMMA RunAlways == Spec => [](SimInv /\ RunInv)
<1>1. Init => RunInv
  BY DEF Init, RunInv
<1> QED
  BY <1>1, SimInit, SimStep, RunStep, PTL DEF Spec

\* Where the run of a starved call goes on.
Restart == IF pc = "cmd" THEN j ELSE i

LEMMA StarvedStep == SimInv /\ RunInv /\ Starved /\ [Next]_vars => Starved'
<1> SUFFICES ASSUME SimInv, RunInv, Starved, [Next]_vars PROVE Starved'
  OBVIOUS
<1>0. /\ pc \in {"top", "cmd"} /\ mode = "COMMAND" /\ outsize = MaxOut - 1
      /\ pc = "cmd" => state_out = 0
      /\ i \in Int /\ j \in Int /\ lim \in Int /\ MaxOut \in Nat
  BY SimAssumption DEF Starved, SimInv, TypeOK
<1>1. PICK k \in Restart .. lim :
        Answers(stream[k]) /\ \A l \in Restart .. k : stream[l] # MODE_DATA
  BY DEF Starved, Restart
<1>2. CASE EnterCmd
  <2>1. /\ pc = "top" /\ pc' = "cmd" /\ i' = i /\ j' = i /\ state_out' = 0
        /\ UNCHANGED <<mode, stream, lim, outsize>>
    BY <1>2 DEF EnterCmd, device, host
  <2> QED
    BY <1>0, <1>1, <2>1 DEF Starved, Restart
<1>3. CASE PassingCmd
  <2>1. /\ pc = "cmd" /\ pc' = "cmd" /\ j' = j + 1 /\ ~Answers(stream[j])
        /\ UNCHANGED <<mode, stream, lim, outsize, state_out>>
    BY <1>3, PassingByte DEF b
  <2>2. k \in j + 1 .. lim
    BY <1>0, <1>1, <2>1 DEF Restart
  <2>3. \A l \in j + 1 .. k : stream[l] # MODE_DATA
    BY <1>0, <1>1, <2>1 DEF Restart
  <2> QED
    BY <1>0, <1>1, <2>1, <2>2, <2>3 DEF Starved
<1>4. CASE PushingCmd
  <2>1. pc = "cmd" /\ state_out = 0 /\ Full
    BY <1>0, <1>4, PushingByte DEF Full
  <2>2. /\ pc' = "top" /\ i' = i /\ outsize' = outsize
        /\ UNCHANGED <<mode, stream, lim>>
    BY <1>0, <1>4, <2>1, PushingByte
  <2>3. i <= j /\ \A l \in i .. j - 1 : stream[l] # MODE_DATA
    BY <2>1 DEF RunInv
  <2>4. k \in i .. lim
    BY <1>0, <1>1, <2>1, <2>3 DEF Restart
  <2>5. \A l \in i .. k : stream[l] # MODE_DATA
    BY <1>0, <1>1, <2>1, <2>3 DEF Restart
  <2> QED
    BY <1>0, <1>1, <2>2, <2>4, <2>5 DEF Starved
<1>5. CASE CmdToData
  <2>1. pc = "cmd" /\ stream[j] = MODE_DATA
    BY <1>5 DEF CmdToData, InCmd, b
  <2> QED
    BY <1>0, <1>1, <2>1 DEF Restart
<1>6. CASE Return \/ CmdReturn
  BY <1>0, <1>1, <1>6 DEF Return, More, CmdReturn, Restart
<1>7. CASE Call \/ EnterData \/ AllocFail \/ DataByte \/ DataEscape \/ DataToCommand
             \/ DataTiming \/ DataEnd \/ Dispatch
  BY <1>0, <1>7 DEF Call, EnterData, AllocFail, DataByte, DataEscape,
     DataToCommand, DataTiming, DataEnd, InData, Dispatch
<1>8. CASE UNCHANGED vars
  BY <1>8 DEF Starved, vars, device, host, inner
<1> QED
  BY <1>2, <1>3, <1>4, <1>5, <1>6, <1>7, <1>8
     DEF Next, Process, PassingCmd, PushingCmd

\* A call whose reply room is down to one byte with a reply still to push
\* never comes back: no step, for any room and any stream, leads out of it
\* (ds2480sim.c:42, 202).
THEOREM SimStarvedForever == Spec => StarvedForever
<1>1. SimInv /\ RunInv /\ [Next]_vars => [Starved => Starved']_vars
  BY StarvedStep
<1> QED
  BY <1>1, RunAlways, PTL DEF Spec, StarvedForever
----------------------------------------------------------------------------
(* The stream of the host is decoded as DS2480Stream does it. *)

\* What ties the position in the write to the position in the stream: a call
\* that is over has handled its write to the end, data bytes and the mode
\* switch wait only where the run of data bytes ends, and each run belongs to
\* its mode.
RunEnds ==
  /\ pc \notin {"data", "dispatch"} => processed = <<>>
  /\ pc # "dispatch" => switch = FALSE
  /\ pc = "cmd" => mode = "COMMAND"
  /\ pc \in {"data", "dispatch"} => mode = "DATA"
  /\ i <= lim + 1
  /\ pc = "idle" => i = lim + 1
  /\ pc \in {"cmd", "data", "dispatch"} => j <= lim + 1
  /\ switch => j <= lim

StreamInv == SimInv /\ RunEnds

LEMMA RunEndsStep == StreamInv /\ [Next]_vars => RunEnds'
<1> SUFFICES ASSUME StreamInv, [Next]_vars PROVE RunEnds'
  OBVIOUS
<1> USE DEF StreamInv, RunEnds
<1>0. /\ lim \in Nat /\ i \in Int /\ j \in Int /\ first \in Nat /\ first <= lim + 1
      /\ Len(stream) \in Nat /\ lim <= Len(stream)
      /\ pc # "idle" => i >= first
      /\ switch \in BOOLEAN
  BY SimAssumption DEF SimInv, TypeOK, IndexInv
<1>1. CASE Call
  BY <1>0, <1>1 DEF Call, device, inner
<1>2. CASE EnterCmd
  BY <1>0, <1>2 DEF EnterCmd, More, device, host
<1>3. CASE EnterData
  BY <1>0, <1>3 DEF EnterData, More, device, host
<1>4. CASE AllocFail
  BY <1>0, <1>4, SimAssumption DEF AllocFail, More, IndexAfterError, device, host, inner
<1>5. CASE Return
  BY <1>0, <1>5 DEF Return, More, device, host, inner
<1>6. CASE CmdToData
  BY <1>0, <1>6 DEF CmdToData, InCmd, Resume, CmdRest, host
<1>7. CASE CmdReturn
  BY <1>0, <1>7 DEF CmdReturn, Resume, CmdRest, device, host
<1>8. CASE PassingCmd
  <2>1. UNCHANGED <<processed, switch>>
    BY <1>8 DEF PassingCmd, CmdSkip, CmdSearch, CmdRest
  <2> QED
    BY <1>0, <1>8, <2>1, PassingByte
<1>9. CASE PushingCmd
  <2>1. UNCHANGED <<processed, switch>>
    BY <1>9 DEF PushingCmd, CmdBit, CmdReset, CmdChmod, CmdConfigWrite, CmdConfigRead, CmdRest
  <2> QED
    BY <1>0, <1>9, <2>1, PushingByte
<1>10. CASE DataByte \/ DataEscape
  BY <1>0, <1>10 DEF DataByte, DataEscape, SecondEscape, InData, DataRest, host
<1>11. CASE DataToCommand \/ DataTiming
  BY <1>0, <1>11 DEF DataToCommand, DataTiming, InData, DataRest, host
<1>12. CASE DataEnd
  BY <1>0, <1>12 DEF DataEnd, DataRest, host
<1>13. CASE Dispatch
  BY <1>0, <1>13 DEF Dispatch, Resume, host
<1>14. CASE UNCHANGED vars
  BY <1>14 DEF vars, device, host, inner
<1> QED
  BY <1>1, <1>2, <1>3, <1>4, <1>5, <1>6, <1>7, <1>8, <1>9, <1>10, <1>11,
     <1>12, <1>13, <1>14 DEF Next, Process, PassingCmd, PushingCmd

LEMMA StreamAlways == Spec => []StreamInv
<1>1. Init => RunEnds
  BY DEF Init, RunEnds
<1>2. StreamInv /\ [Next]_vars => StreamInv'
  BY SimStep, RunEndsStep DEF StreamInv
<1> QED
  BY <1>1, <1>2, SimInit, PTL DEF Spec, StreamInv

\* The abstract module decodes a byte with the same masks.
LEMMA SameCodes ==
  /\ Stream!MODE_DATA = MODE_DATA /\ Stream!MODE_COMMAND = MODE_COMMAND
  /\ Stream!TIMING = TIMING /\ Stream!RESET_REPLY = RESET_REPLY
  /\ Stream!PARMSEL_BAUDRATE = PARMSEL_BAUDRATE
  /\ Stream!PARMSET_9600 = PARMSET_9600
  /\ Stream!SPEEDSEL_STD = SPEEDSEL_STD /\ Stream!ResetConfig = ResetConfig
  /\ \A c : /\ Stream!IsComm(c) = IsComm(c) /\ Stream!IsConfig(c) = IsConfig(c)
            /\ Stream!Funct(c) = Funct(c)
            /\ Stream!SpeedOf(c) = SpeedOf(c) /\ Stream!SearchOn(c) = SearchOn(c)
            /\ Stream!ParmSel(c) = ParmSel(c) /\ Stream!ParmSet(c) = ParmSet(c)
            /\ Stream!ParmRead(c) = ParmRead(c) /\ Stream!ParmReply(c) = ParmReply(c)
            /\ Stream!BitReply(c) = BitReply(c) /\ Stream!ChmodReply(c) = ChmodReply(c)
  BY DEF Stream!MODE_DATA, MODE_DATA, Stream!MODE_COMMAND, MODE_COMMAND,
     Stream!TIMING, TIMING, Stream!RESET_REPLY, RESET_REPLY,
     Stream!PARMSEL_BAUDRATE, PARMSEL_BAUDRATE, Stream!PARMSET_9600, PARMSET_9600,
     Stream!SPEEDSEL_STD, SPEEDSEL_STD, Stream!ResetConfig, ResetConfig,
     Stream!IsComm, IsComm, Stream!IsConfig, IsConfig, Stream!Funct, Funct,
     Stream!SpeedOf, SpeedOf, Stream!SearchOn, SearchOn, Stream!ParmSel, ParmSel,
     Stream!ParmSet, ParmSet, Stream!ParmRead, ParmRead, Stream!ParmReply, ParmReply,
     Stream!BitReply, BitReply, Stream!ChmodReply, ChmodReply

\* With no data byte waiting, the abstract history is the bridge's own.
LEMMA NothingWaits ==
  ASSUME bus \in Seq(Events), processed = <<>>
  PROVE  StreamBus = bus
<1>1. Delivered = <<>>
  BY DEF Delivered
<1> QED
  BY <1>1 DEF StreamBus

\* A data byte that is taken is the next event of the abstract history.
LEMMA ByteWaits ==
  ASSUME bus \in Seq(Events), processed \in Seq(Byte), search \in BOOLEAN,
         NEW c \in Byte, processed' = Append(processed, c), UNCHANGED <<bus, search>>
  PROVE  StreamBus' = Append(StreamBus, Stream!DataEvent(c, search))
<1>1. Delivered' = Append(Delivered, Stream!DataEvent(c, search))
  BY DEF Delivered, Stream!DataEvent
<1>2. Delivered \in Seq(Events)
  BY DeliveredEvents
<1> QED
  BY <1>1, <1>2 DEF StreamBus

\* What the abstract state is in each state of the bridge.
StreamView ==
  /\ stream \in Seq(Byte) /\ bus \in Seq(Events) /\ processed \in Seq(Byte)
  /\ search \in BOOLEAN /\ switch \in BOOLEAN
  /\ lim \in Nat /\ i \in Int /\ j \in Int /\ lim <= Len(stream)
  /\ Len(stream) \in Nat
  /\ pc \notin {"data", "dispatch"} => StreamBus = bus /\ StreamMode = mode
  /\ processed = <<>> => StreamBus = bus
  /\ pc \in {"cmd", "data"} => StreamPos = j /\ StreamMode = mode
  /\ pc \in {"idle", "top"} => StreamPos = i
  /\ pc = "dispatch" => /\ StreamPos = IF switch THEN j + 1 ELSE j
                       /\ StreamMode = IF switch THEN "COMMAND" ELSE "DATA"

LEMMA StreamFacts == StreamInv => StreamView
<1> SUFFICES ASSUME StreamInv PROVE StreamView
  OBVIOUS
<1>1. stream \in Seq(Byte)
  BY SimAssumption DEF StreamInv, SimInv, TypeOK
<1>2. /\ bus \in Seq(Events) /\ processed \in Seq(Byte)
      /\ search \in BOOLEAN /\ switch \in BOOLEAN
      /\ lim \in Nat /\ i \in Int /\ j \in Int /\ lim <= Len(stream)
  BY <1>1 DEF StreamInv, SimInv, TypeOK
<1>3. processed = <<>> => StreamBus = bus
  BY <1>2, NothingWaits
<1>4. Len(stream) \in Nat
  BY <1>1
<1> QED
  BY <1>1, <1>2, <1>3, <1>4
     DEF StreamInv, RunEnds, StreamPos, StreamMode, StreamView

\* The bookkeeping of the loops decodes nothing.
Bookkeeping == Call \/ EnterCmd \/ EnterData \/ Return \/ CmdReturn \/ DataEnd \/ Dispatch

LEMMA BookkeepingDecodesNothing ==
  ASSUME StreamInv, StreamInv', Bookkeeping
  PROVE  UNCHANGED Stream!vars
<1> SUFFICES /\ StreamPos' = StreamPos /\ StreamMode' = StreamMode
             /\ StreamBus' = StreamBus
             /\ UNCHANGED <<stream, speed, search, config>>
  BY DEF Stream!vars
<1> USE DEF StreamView
<1>8. StreamView /\ StreamView'
  BY StreamFacts, PTL
<1>1. CASE Call
  BY <1>8, <1>1 DEF Call, StreamInv, RunEnds, device
<1>2. CASE EnterCmd
  BY <1>8, <1>2 DEF EnterCmd, device, host
<1>3. CASE EnterData
  <2>1. StreamBus' = bus'
    BY <1>3, <1>8 DEF EnterData
  <2> QED
    BY <1>8, <1>3, <2>1 DEF EnterData, device, host
<1>4. CASE Return
  BY <1>8, <1>4 DEF Return, device, host
<1>5. CASE CmdReturn
  BY <1>8, <1>5 DEF CmdReturn, Resume, CmdRest, device, host
<1>6. CASE DataEnd
  <2>1. StreamBus' = StreamBus
    BY <1>6 DEF DataEnd, DataRest, StreamBus, Delivered
  <2>2. StreamPos' = j /\ StreamMode' = mode
    BY <1>6 DEF DataEnd, DataRest, StreamPos, StreamMode, StreamInv, RunEnds
  <2> QED
    BY <1>6, <1>8, <2>1, <2>2 DEF DataEnd, DataRest, host
<1>7. CASE Dispatch
  BY <1>8, <1>7 DEF Dispatch, Resume, host, StreamBus, StreamInv, RunEnds
<1> QED
  BY <1>1, <1>2, <1>3, <1>4, <1>5, <1>6, <1>7 DEF Bookkeeping

\* Taking a byte of data mode is a step of the abstract module.
LEMMA DataSteps ==
  ASSUME StreamInv, StreamInv',
         DataByte \/ DataEscape \/ DataTiming \/ (DataToCommand /\ ~CutsEscape(j))
  PROVE  Stream!Next
<1> USE DEF StreamView
<1>0. /\ pc = "data" /\ j <= lim /\ StreamPos = j /\ StreamMode = "DATA"
      /\ Stream!b = b /\ Stream!More /\ switch = FALSE
      /\ UNCHANGED <<stream, speed, search>>
  BY StreamFacts DEF DataByte, DataEscape, DataTiming, DataToCommand, InData,
     DataRest, host, Stream!b, b, Stream!More, StreamInv, RunEnds
<1>1. CASE DataByte
  <2>1. b \in Byte
    BY <1>0, CurrentByte DEF StreamInv
  <2>2. StreamBus' = Append(StreamBus, Stream!DataEvent(b, search))
    BY <1>1, <2>1, ByteWaits, StreamFacts DEF DataByte, DataRest
  <2>3. StreamPos' = StreamPos + 1 /\ StreamMode' = StreamMode /\ config' = config
    BY <1>0, <1>1, StreamFacts DEF DataByte, DataRest, StreamPos, StreamMode
  <2>4. Stream!Data
    BY <1>0, <1>1, <2>2, <2>3, SameCodes DEF DataByte, Stream!Data
  <2> QED
    BY <1>0, <2>4 DEF Stream!Next
<1>2. CASE DataEscape
  <2>1. MODE_COMMAND \in Byte
    BY DEF MODE_COMMAND, Byte
  <2>2. StreamBus' = Append(StreamBus, Stream!DataEvent(MODE_COMMAND, search))
    BY <1>2, <2>1, ByteWaits, StreamFacts DEF DataEscape, DataRest
  <2>3. StreamPos' = StreamPos + 2 /\ StreamMode' = StreamMode /\ config' = config
    BY <1>0, <1>2, StreamFacts DEF DataEscape, DataRest, StreamPos, StreamMode
  <2>4. Stream!Escaped
    BY <1>0, <1>2, StreamFacts, SameCodes DEF DataEscape, SecondEscape, Stream!Escaped
  <2>5. Stream!Escape
    BY <1>0, <1>2, <2>2, <2>3, <2>4, SameCodes DEF DataEscape, Stream!Escape
  <2> QED
    BY <1>0, <2>5 DEF Stream!Next
<1>3. CASE DataTiming
  <2>1. StreamBus' = StreamBus
    BY <1>0, <1>3 DEF DataTiming, DataRest, StreamBus, Delivered
  <2>2. StreamPos' = StreamPos + 1 /\ StreamMode' = "COMMAND"
    BY <1>0, <1>3 DEF DataTiming, DataRest, StreamPos, StreamMode
  <2>3. Stream!Timing
    BY <1>0, <1>3, <2>1, <2>2, SameCodes DEF DataTiming, Stream!Timing
  <2> QED
    BY <1>0, <2>3 DEF Stream!Next
<1>4. CASE DataToCommand /\ ~CutsEscape(j)
  <2>1. StreamBus' = StreamBus
    BY <1>0, <1>4 DEF DataToCommand, DataRest, StreamBus, Delivered
  <2>2. StreamPos' = StreamPos + 1 /\ StreamMode' = "COMMAND" /\ config' = config
    BY <1>0, <1>4 DEF DataToCommand, DataRest, StreamPos, StreamMode
  <2>3. ~Stream!Escaped
    BY <1>0, <1>4, StreamFacts, SameCodes
       DEF DataToCommand, b, SecondEscape, CutsEscape, Stream!Escaped
  <2>4. Stream!ToCommand
    BY <1>0, <1>4, <2>1, <2>2, <2>3, SameCodes DEF DataToCommand, Stream!ToCommand
  <2> QED
    BY <1>0, <2>4 DEF Stream!Next
<1> QED
  BY <1>1, <1>2, <1>3, <1>4

\* A command byte that has its reply, or has none, is a step of the abstract
\* module; a mode switch too.
LEMMA PushAppends ==
  ASSUME bus \in Seq(Events), ~Full, NEW r, NEW before \in Seq(Events), Push(r, before)
  PROVE  bus' = (bus \o before) \o <<[kind |-> "reply", byte |-> r]>>
  BY DEF Push

LEMMA PushOne ==
  ASSUME bus \in Seq(Events), ~Full, NEW r, Push(r, <<>>)
  PROVE  bus' = Append(bus, Stream!Reply(r))
<1>1. <<>> \in Seq(Events) /\ bus \o <<>> = bus
  OBVIOUS
<1>2. bus' = bus \o <<[kind |-> "reply", byte |-> r]>>
  BY <1>1, PushAppends
<1> QED
  BY <1>2 DEF Stream!Reply

LEMMA CommandSteps ==
  ASSUME StreamInv, StreamInv',
         CmdToData \/ PassingCmd \/ (PushingCmd /\ ~Full)
  PROVE  Stream!Next
<1> USE DEF StreamView
<1>0. /\ pc = "cmd" /\ j <= lim /\ StreamPos = j
      /\ StreamMode = "COMMAND" /\ mode = "COMMAND"
      /\ Stream!b = b /\ Stream!More
      /\ StreamBus = bus /\ stream' = stream
  BY StreamFacts DEF CmdToData, PassingCmd, CmdSkip, CmdSearch, PushingCmd, CmdBit,
     CmdReset, CmdChmod, CmdConfigWrite, CmdConfigRead, Communication, InCmd, CmdRest,
     host, Stream!b, b, Stream!More, StreamInv, RunEnds
<1>1. StreamView'
  BY StreamFacts, PTL
<1>2. CASE CmdToData
  <2>1. Stream!ToData
    BY <1>0, <1>1, <1>2, SameCodes DEF CmdToData, Resume, CmdRest, Stream!ToData
  <2> QED
    BY <1>0, <2>1 DEF Stream!Next
<1>3. CASE CmdSkip
  <2>1. Stream!Skip
    BY <1>0, <1>1, <1>3, SameCodes DEF CmdSkip, CmdRest, device, Stream!Skip
  <2> QED
    BY <1>0, <2>1 DEF Stream!Next
<1>4. CASE CmdSearch
  <2>1. Stream!Communicate
    BY <1>0, <1>1, <1>4, SameCodes
       DEF CmdSearch, Communication, CmdRest, Stream!Communicate
  <2> QED
    BY <1>0, <2>1 DEF Stream!Next
<1>5. CASE PushingCmd /\ ~Full
  <2>0. StreamPos' = StreamPos + 1 /\ StreamMode' = StreamMode /\ StreamBus' = bus'
    BY <1>0, <1>1, <1>5, PushingByte
  <2>1. CASE CmdBit
    <3>1. bus' = Append(bus, Stream!Reply(BitReply(b)))
      BY <1>1, <1>5, <2>1, PushOne, StreamFacts DEF CmdBit
    <3>2. Stream!Communicate
      BY <1>0, <2>0, <2>1, <3>1, SameCodes DEF CmdBit, Communication, Stream!Communicate
    <3> QED
      BY <1>0, <3>2 DEF Stream!Next
  <2>2. CASE CmdReset
    <3> DEFINE pulse == [kind |-> "pulse", byte |-> 0]
    <3>1. <<pulse>> \in Seq(Events)
      BY DEF Events, Byte
    <3>2. bus' = (bus \o <<pulse>>) \o <<[kind |-> "reply", byte |-> RESET_REPLY]>>
      BY <1>5, <2>2, <3>1, PushAppends, StreamFacts DEF CmdReset
    <3>3. bus' = bus \o <<Stream!Pulse, Stream!Reply(RESET_REPLY)>>
      BY <3>2, StreamFacts DEF Stream!Pulse, Stream!Reply
    <3>4. Stream!Communicate
      BY <1>0, <2>0, <2>2, <3>3, SameCodes DEF CmdReset, Communication, Stream!Communicate
    <3> QED
      BY <1>0, <3>4 DEF Stream!Next
  <2>3. CASE CmdChmod
    <3>1. bus' = Append(bus, Stream!Reply(ChmodReply(b)))
      BY <1>5, <2>3, PushOne, StreamFacts DEF CmdChmod
    <3>2. Stream!Communicate
      BY <1>0, <2>0, <2>3, <3>1, SameCodes
         DEF CmdChmod, Communication, device, Stream!Communicate
    <3> QED
      BY <1>0, <3>2 DEF Stream!Next
  <2>4. CASE CmdConfigWrite
    <3>1. bus' = Append(bus, Stream!Reply(ParmReply(b)))
      BY <1>5, <2>4, PushOne, StreamFacts DEF CmdConfigWrite
    <3>2. Stream!Configure
      BY <1>0, <2>0, <2>4, <3>1, SameCodes DEF CmdConfigWrite, Stream!Configure
    <3> QED
      BY <1>0, <3>2 DEF Stream!Next
  <2>5. CASE CmdConfigRead
    <3>1. bus' = Append(bus, Stream!Reply(config[ParmRead(b)]))
      BY <1>5, <2>5, PushOne, StreamFacts DEF CmdConfigRead
    <3>2. Stream!Configure
      BY <1>0, <2>0, <2>5, <3>1, SameCodes DEF CmdConfigRead, device, Stream!Configure
    <3> QED
      BY <1>0, <3>2 DEF Stream!Next
  <2> QED
    BY <1>5, <2>1, <2>2, <2>3, <2>4, <2>5 DEF PushingCmd
<1> QED
  BY <1>2, <1>3, <1>4, <1>5 DEF PassingCmd

\* What may upset the decoding: memory runs out, a run of command bytes is
\* started again for want of room, or a write ends inside an escape.
Disturbance == \/ AllocFail
               \/ PushingCmd /\ Full
               \/ DataToCommand /\ CutsEscape(j)

LEMMA StepDecodes ==
  StreamInv /\ StreamInv' /\ [Next]_vars => Disturbance \/ [Stream!Next]_(Stream!vars)
<1> SUFFICES ASSUME StreamInv, StreamInv', [Next]_vars, ~Disturbance
             PROVE  [Stream!Next]_(Stream!vars)
  OBVIOUS
<1>1. CASE Bookkeeping
  BY <1>1, BookkeepingDecodesNothing
<1>2. CASE DataByte \/ DataEscape \/ DataTiming \/ DataToCommand
  BY <1>2, DataSteps DEF Disturbance
<1>3. CASE CmdToData \/ PassingCmd \/ PushingCmd
  BY <1>3, CommandSteps DEF Disturbance
<1>4. CASE UNCHANGED vars
  BY <1>4 DEF vars, device, host, inner, Stream!vars, StreamPos, StreamMode,
     StreamBus, Delivered
<1> QED
  BY <1>1, <1>2, <1>3, <1>4
     DEF Next, Process, Bookkeeping, PassingCmd, PushingCmd, Disturbance

LEMMA StreamStarts == Init => Stream!Init
<1> SUFFICES ASSUME Init PROVE Stream!Init
  OBVIOUS
<1>1. StreamBus = bus
  BY NothingWaits DEF Init
<1>2. StreamPos = 1 /\ StreamMode = "COMMAND"
  BY DEF Init, StreamPos, StreamMode
<1> QED
  BY <1>1, <1>2, SameCodes DEF Init, Stream!Init

\* Every step of the bridge decodes the next unit of the host's stream, or
\* nothing, for every way of cutting the stream into writes, unless the step is
\* one of three disturbances (ds2480sim.c:131-138 against :42, :139-141, :150).
THEOREM SimDecodesUnlessDisturbed ==
  Spec => /\ Stream!Init
          /\ [][Disturbance \/ [Stream!Next]_(Stream!vars)]_vars
  BY StreamAlways, StreamStarts, StepDecodes, PTL DEF Spec

\* A behaviour that meets none of the disturbances.
Undisturbed == /\ failures = 0
               /\ InCmd => ~Full
               /\ lim > 0 => ~CutsEscape(lim)

LEMMA UndisturbedStep ==
  StreamInv /\ Undisturbed /\ Undisturbed' /\ Disturbance => FALSE
<1> SUFFICES ASSUME StreamInv, Undisturbed, Undisturbed', Disturbance PROVE FALSE
  OBVIOUS
<1>1. CASE AllocFail
  BY <1>1 DEF AllocFail, Undisturbed
<1>2. CASE PushingCmd /\ Full
  BY <1>2, PushingByte DEF Undisturbed, InCmd
<1>3. CASE DataToCommand /\ CutsEscape(j)
  <2>1. j <= lim /\ ~SecondEscape /\ CutsEscape(j)
    BY <1>3 DEF DataToCommand, InData
  <2>2. j = lim /\ lim \in Nat /\ j >= first /\ first \in Nat \ {0}
    BY <1>3, <2>1 DEF DataToCommand, InData, SecondEscape, CutsEscape, StreamInv, SimInv,
       TypeOK, IndexInv
  <2> QED
    BY <2>1, <2>2 DEF Undisturbed
<1> QED
  BY <1>1, <1>2, <1>3 DEF Disturbance

\* The safety part of DecodesStream: as long as memory and room last and no
\* write ends inside an escape, the bridge implements DS2480Stream, for every
\* stream and every cutting of it (ds2480sim.c:131-138).
THEOREM SimDecodesUndisturbed ==
  Spec /\ []Undisturbed => Stream!Init /\ [][Stream!Next]_(Stream!vars)
<1>1. StreamInv /\ StreamInv' /\ Undisturbed /\ Undisturbed' /\ [Next]_vars
      => [Stream!Next]_(Stream!vars)
  BY StepDecodes, UndisturbedStep
<1> QED
  BY <1>1, StreamAlways, StreamStarts, PTL DEF Spec

----------------------------------------------------------------------------
(* How much room is enough *)

\* Replies to n bytes of a write, and what the search accelerator still held.
Allowed(r, n) == r * n + SearchLen - 1

\* With no byte of the stream answered by more than r bytes, the room in use,
\* the block in the search accelerator included, is paid for by the bytes of
\* the write that were handled.
RoomInv(r) ==
  /\ pc = "top" => outsize + search_rom_len <= Allowed(r, i - first)
  /\ pc = "cmd" =>
       outsize + state_out + search_rom_len <= Allowed(r, j - first)
  /\ pc \in {"data", "dispatch"} =>
       /\ outsize + search_rom_len <= Allowed(r, i - first)
       /\ Len(processed) <= j - i

LEMMA AllowedGrows ==
  ASSUME NEW r \in Nat \ {0}, NEW x \in Int, NEW y \in Int, NEW k \in Nat, x + k <= y
  PROVE  /\ Allowed(r, x) \in Int /\ Allowed(r, y) \in Int
         /\ Allowed(r, x) + k <= Allowed(r, y)
         /\ k >= 1 => Allowed(r, x) + r <= Allowed(r, y)
<1> DEFINE d == y - x
<1>1. d \in Nat /\ y = x + d /\ k <= d
  OBVIOUS
<1>2. r * y = r * x + r * d
  BY <1>1
<1>3. r * d >= d
  BY <1>1
<1>4. k >= 1 => r * d >= r
  BY <1>1
<1> QED
  BY <1>1, <1>2, <1>3, <1>4, SimAssumption DEF Allowed

LEMMA AllowedMore ==
  ASSUME NEW r \in Nat \ {0}, NEW x \in Int, NEW y \in Int, x <= y
  PROVE  /\ Allowed(r, x) \in Int /\ Allowed(r, y) \in Int
         /\ Allowed(r, x) <= Allowed(r, y)
<1>1. x + 0 <= y
  OBVIOUS
<1>2. /\ Allowed(r, x) \in Int /\ Allowed(r, y) \in Int
      /\ Allowed(r, x) + 0 <= Allowed(r, y)
  BY <1>1, AllowedGrows
<1> QED
  BY <1>2

\* Blocks of the search accelerator: what is answered and what is left.
LEMMA BlockSplit ==
  ASSUME NEW n \in Nat, NEW d \in Nat \ {0}
  PROVE  d * (n \div d) + (n % d) = n
  OBVIOUS

\* The room that is enough for every write of every stream.
Roomy(r) == /\ \A n \in ReplyLens : n <= r
            /\ \A s \in Streams : r * Len(s) + SearchLen <= MaxOut

LEMMA RoomStep ==
  ASSUME NEW r \in Nat \ {0}, \A n \in ReplyLens : n <= r,
         StreamInv, StreamInv', RoomInv(r), InCmd => ~Full, failures' = failures,
         [Next]_vars
  PROVE  RoomInv(r)'
<1> USE DEF RoomInv
<1>0. /\ i \in Int /\ j \in Int /\ first \in Int /\ lim \in Int
      /\ outsize \in Nat /\ state_out \in Nat /\ search_rom_len \in Nat
      /\ search_rom_len <= SearchLen - 1 /\ SearchLen \in Nat \ {0}
      /\ failures \in Nat
  BY SimAssumption DEF StreamInv, SimInv, TypeOK
<1>1. CASE Call
  <2>1. pc' = "top" /\ outsize' = 0 /\ search_rom_len' = search_rom_len
        /\ i' - first' = 0
    BY <1>0, <1>1 DEF Call, device
  <2>2. r * 0 = 0 /\ search_rom_len <= Allowed(r, 0)
    BY <1>0 DEF Allowed
  <2> QED
    BY <1>0, <2>1, <2>2
<1>2. CASE EnterCmd \/ EnterData
  <2>1. /\ pc = "top" /\ pc' \in {"cmd", "data"} /\ j' = i /\ i' = i /\ state_out' = 0
        /\ pc' = "data" => processed' = <<>>
        /\ UNCHANGED <<outsize, search_rom_len, first>>
    BY <1>2 DEF EnterCmd, EnterData, device, host
  <2> QED
    BY <1>0, <2>1
<1>3. CASE Return \/ AllocFail
  BY <1>0, <1>3 DEF Return, AllocFail
<1>4. CASE CmdToData \/ CmdReturn
  <2>1. /\ pc = "cmd" /\ pc' = "top" /\ (i' = j \/ i' = j + 1)
        /\ outsize' = outsize + state_out
        /\ UNCHANGED <<search_rom_len, first>>
    BY <1>4 DEF CmdToData, CmdReturn, Resume, InCmd, CmdRest, device, host
  <2>2. j - first \in Int /\ i' - first \in Int /\ j - first <= i' - first
    BY <1>0, <2>1
  <2>3. /\ Allowed(r, j - first) \in Int /\ Allowed(r, i' - first) \in Int
        /\ Allowed(r, j - first) <= Allowed(r, i' - first)
    BY <2>2, AllowedMore
  <2> QED
    BY <1>0, <2>1, <2>2, <2>3
<1>5. CASE PassingCmd
  <2>1. /\ pc = "cmd" /\ pc' = "cmd" /\ j' = j + 1
        /\ UNCHANGED <<outsize, state_out, search_rom_len, first>>
    BY <1>5, PassingByte DEF PassingCmd, CmdSkip, CmdSearch, CmdRest, device, host
  <2>2. j - first \in Int /\ j' - first \in Int /\ j - first <= j' - first
    BY <1>0, <2>1
  <2>3. /\ Allowed(r, j - first) \in Int /\ Allowed(r, j' - first) \in Int
        /\ Allowed(r, j - first) <= Allowed(r, j' - first)
    BY <2>2, AllowedMore
  <2> QED
    BY <1>0, <2>1, <2>2, <2>3
<1>6. CASE PushingCmd
  <2>1. /\ pc = "cmd" /\ pc' = "cmd" /\ j' = j + 1 /\ state_out' = state_out + 1
        /\ outsize' = outsize /\ search_rom_len' = search_rom_len /\ first' = first
    BY <1>6, PushingByte DEF InCmd, PushingCmd, CmdBit, CmdReset, CmdChmod,
       CmdConfigWrite, CmdConfigRead, Push, CmdRest, device, host
  <2>2. j - first \in Int /\ j' - first \in Int /\ (j - first) + 1 <= j' - first
    BY <1>0, <2>1
  <2>3. /\ Allowed(r, j - first) \in Int /\ Allowed(r, j' - first) \in Int
        /\ Allowed(r, j - first) + 1 <= Allowed(r, j' - first)
    BY <2>2, AllowedGrows
  <2> QED
    BY <1>0, <2>1, <2>2, <2>3
<1>7. CASE DataByte \/ DataEscape
  <2>1. /\ pc = "data" /\ pc' = "data" /\ j' \in {j + 1, j + 2} /\ i' = i
        /\ UNCHANGED <<outsize, search_rom_len, first>>
        /\ \E c : processed' = Append(processed, c)
    BY <1>7 DEF DataByte, DataEscape, InData, DataRest, host
  <2>2. Len(processed') = Len(processed) + 1 /\ Len(processed) \in Nat
    BY <2>1 DEF StreamInv, SimInv, TypeOK
  <2> QED
    BY <1>0, <2>1, <2>2
<1>8. CASE DataToCommand \/ DataTiming \/ DataEnd
  BY <1>8 DEF DataToCommand, DataTiming, DataEnd, InData, DataRest, host
<1>9. CASE Dispatch
  <2> DEFINE m == Len(processed)
             n == search_rom_len + m
  <2>6. processed \in Seq(Byte)
    BY DEF StreamInv, SimInv, TypeOK
  <2>7. m \in Nat /\ (processed # <<>> => m >= 1)
    BY <2>6
  <2>0. m \in Nat /\ n \in Nat /\ (processed # <<>> => m >= 1)
    BY <1>0, <2>7
  <2>1. /\ pc = "dispatch" /\ pc' = "top" /\ (i' = j \/ i' = j + 1)
        /\ outsize' = outsize + state_out' /\ first' = first
    BY <1>9 DEF Dispatch, Resume, host
  <2>2. i - first \in Int /\ i' - first \in Int /\ (i - first) + m <= i' - first
    BY <1>0, <2>0, <2>1
  <2>3. /\ Allowed(r, i - first) + m <= Allowed(r, i' - first)
        /\ m >= 1 => Allowed(r, i - first) + r <= Allowed(r, i' - first)
        /\ Allowed(r, i - first) \in Int /\ Allowed(r, i' - first) \in Int
    BY <2>0, <2>2, AllowedGrows
  <2>4. state_out' + search_rom_len' <= search_rom_len + Allowed(r, i' - first) - Allowed(r, i - first)
    <3>1. CASE search
      <4>1. state_out' = SearchLen * (n \div SearchLen) /\ search_rom_len' = n % SearchLen
        BY <1>9, <3>1 DEF Dispatch, BlockRest
      <4>2. state_out' + search_rom_len' = n
        BY <1>0, <2>0, <4>1, BlockSplit
      <4> QED
        BY <1>0, <2>0, <2>3, <4>2
    <3>2. CASE ~search
      <4>1. /\ search_rom_len' = search_rom_len
            /\ \/ processed = <<>> /\ state_out' = 0
               \/ processed # <<>> /\ state_out' \in ReplyLens
        BY <1>9, <3>2 DEF Dispatch
      <4>2. state_out' = 0 \/ (m >= 1 /\ state_out' <= r)
        BY <2>0, <4>1
      <4>3. state_out' \in Nat
        BY DEF StreamInv, SimInv, TypeOK
      <4> QED
        BY <1>0, <2>0, <2>3, <4>1, <4>2, <4>3
    <3> QED
      BY <3>1, <3>2
  <2>5. state_out' \in Nat /\ search_rom_len' \in Nat
    BY SimAssumption DEF StreamInv, SimInv, TypeOK
  <2>8. /\ outsize + search_rom_len <= Allowed(r, i - first)
        /\ outsize' = outsize + state_out' /\ pc' = "top" /\ first' = first
    BY <2>1
  <2>9. outsize' \in Nat
    BY DEF StreamInv, SimInv, TypeOK
  <2>10. outsize' + search_rom_len' <= Allowed(r, i' - first)
    <3> DEFINE o1 == outsize'  s1 == state_out'  q1 == search_rom_len'
               a  == Allowed(r, i - first)  a1 == Allowed(r, i' - first)
    <3>1. /\ o1 = outsize + s1 /\ s1 + q1 <= search_rom_len + a1 - a
          /\ outsize + search_rom_len <= a
          /\ o1 \in Nat /\ s1 \in Nat /\ q1 \in Nat /\ a \in Int /\ a1 \in Int
      BY <2>3, <2>4, <2>5, <2>8, <2>9
    <3> HIDE DEF o1, s1, q1, a, a1
    <3>2. o1 + q1 <= a1
      BY <1>0, <3>1
    <3> QED
      BY <3>2 DEF o1, q1, a1
  <2> QED
    BY <2>8, <2>10
<1>10. CASE UNCHANGED vars
  BY <1>10 DEF vars, device, host, inner
<1> QED
  BY <1>1, <1>2, <1>3, <1>4, <1>5, <1>6, <1>7, <1>8, <1>9, <1>10
     DEF Next, Process, PassingCmd, PushingCmd

\* A run of command bytes that has a byte left to look at has room for its reply.
LEMMA RoomLasts ==
  ASSUME NEW r \in Nat \ {0}, Roomy(r), StreamInv, RoomInv(r), InCmd
  PROVE  ~Full
<1>0. /\ j \in Int /\ first \in Nat \ {0} /\ lim \in Int /\ search_rom_len \in Nat
      /\ outsize \in Nat /\ state_out \in Nat /\ stream \in Streams
      /\ lim <= Len(stream) /\ SearchLen \in Nat \ {0} /\ MaxOut \in Nat
  BY SimAssumption DEF StreamInv, SimInv, TypeOK
<1>1. Len(stream) \in Nat /\ r * Len(stream) + SearchLen <= MaxOut
  <2>1. stream \in Seq(Byte)
    BY <1>0, SimAssumption
  <2> QED
    BY <1>0, <2>1 DEF Roomy
<1>2. j - first \in Int /\ (j - first) + 1 <= Len(stream)
  BY <1>0, <1>1 DEF InCmd
<1>3. /\ Allowed(r, j - first) \in Int /\ Allowed(r, Len(stream)) \in Int
      /\ Allowed(r, j - first) + 1 <= Allowed(r, Len(stream))
  <2> DEFINE x == j - first  y == Len(stream)
  <2>1. x \in Int /\ y \in Int /\ x + 1 <= y /\ 1 \in Nat
    BY <1>1, <1>2
  <2> HIDE DEF x, y
  <2>2. Allowed(r, x) \in Int /\ Allowed(r, y) \in Int /\ Allowed(r, x) + 1 <= Allowed(r, y)
    BY <2>1, AllowedGrows
  <2> QED
    BY <2>2 DEF x, y
<1>4. outsize + state_out + search_rom_len <= Allowed(r, j - first)
  BY DEF RoomInv, InCmd
<1>5. Allowed(r, Len(stream)) + 1 <= MaxOut
  BY <1>0, <1>1 DEF Allowed
<1>6. outsize + state_out + 1 < MaxOut
  BY <1>0, <1>3, <1>4, <1>5
<1> QED
  BY <1>0, <1>6 DEF Full

WholeEscapes == lim > 0 => ~CutsEscape(lim)

LEMMA WholeStep ==
  ASSUME ~CutEscapes, StreamInv, WholeEscapes, [Next]_vars
  PROVE  WholeEscapes'
<1>1. CASE Call
  BY <1>1 DEF Call, WholeEscapes, CutsEscape
<1>2. CASE UNCHANGED <<stream, lim>>
  BY <1>2 DEF WholeEscapes, CutsEscape
<1>3. ~Call => UNCHANGED <<stream, lim>>
  BY PassingByte, PushingByte DEF Next, Process, vars, host, EnterCmd, EnterData, AllocFail,
     Return, CmdToData, PassingCmd, PushingCmd, CmdReturn, CmdRest, DataByte, DataEscape,
     DataToCommand, DataTiming, DataEnd, DataRest, Dispatch
<1> QED
  BY <1>1, <1>2, <1>3

\* With memory, whole escapes and a room that covers r replies for each byte of
\* a stream and one block of the search accelerator, the bridge implements the
\* safety part of DecodesStream with no condition on the behaviour: every unit of
\* every stream is decoded once and in order (ds2480sim.c:131-138).
THEOREM SimRefinesStream ==
  ASSUME ~CutEscapes, MaxAllocFail = 0, NEW r \in Nat \ {0}, Roomy(r)
  PROVE  Spec => Stream!Init /\ [][Stream!Next]_(Stream!vars)
<1> DEFINE RInv == StreamInv /\ RoomInv(r) /\ WholeEscapes
<1>1. Init => RoomInv(r) /\ WholeEscapes
  BY DEF Init, RoomInv, WholeEscapes
<1>2. RInv => Undisturbed
  <2>1. StreamInv => failures = 0
    BY DEF StreamInv, SimInv, TypeOK
  <2> QED
    BY <2>1, RoomLasts DEF Undisturbed, WholeEscapes
<1>3. StreamInv /\ StreamInv' /\ RoomInv(r) /\ WholeEscapes /\ [Next]_vars
      => RoomInv(r)' /\ WholeEscapes'
  <2> SUFFICES ASSUME StreamInv, StreamInv', RoomInv(r), WholeEscapes, [Next]_vars
               PROVE  RoomInv(r)' /\ WholeEscapes'
    OBVIOUS
  <2>1. (InCmd => ~Full) /\ \A n \in ReplyLens : n <= r
    BY RoomLasts DEF Roomy
  <2>2. failures' = failures
    BY DEF StreamInv, SimInv, TypeOK
  <2> QED
    BY <2>1, <2>2, RoomStep, WholeStep
<1>4. Spec => []Undisturbed
  BY <1>1, <1>2, <1>3, StreamAlways, PTL DEF Spec
<1> QED
  BY <1>4, SimDecodesUndisturbed, PTL
=============================================================================
