----------------------------- MODULE DS2480Sim -----------------------------
(***************************************************************************)
(* The DS2480B bridge of ds2480sim.c.  One call of ds2480_process handles  *)
(* the bytes of one write; its outer loop hands runs of bytes to           *)
(* ds2480_process_cmd or ds2480_process_data, and each of those has a loop *)
(* over bytes of its own.  The module takes those loops one byte at a      *)
(* time.  Where a write ends is up to the host and the tty layer, so the   *)
(* stream of the host is cut at arbitrary places.                          *)
(*                                                                         *)
(* Indices are positions in the whole stream (C index 0 of a write is      *)
(* position `first').  The button is seen from this side only: bus records *)
(* the calls made to it and the replies pushed, in order.                  *)
(***************************************************************************)
EXTENDS DS2480Codes, Sequences

CONSTANTS
  Streams,      \* what a host may send: a set of sequences of bytes
  CutEscapes,   \* may a write end between the two bytes of an escape?
  MaxOut,       \* *outsize on entry: the caller's room for replies
  SearchLen,    \* bytes of a search accelerator block (16)
  ReplyLens,    \* reply lengths the button may answer a batch with
  ENOMEM,       \* the errno value (12)
  MaxAllocFail  \* bound: allocation failures in a behaviour

ASSUME SimAssumption ==
  /\ \A s \in Streams : s \in Seq(Byte)
  /\ CutEscapes \in BOOLEAN
  /\ MaxOut \in Nat \ {0}
  /\ SearchLen \in Nat \ {0}
  /\ ReplyLens \subseteq Nat /\ ReplyLens # {}
  /\ ENOMEM \in Nat \ {0}
  /\ MaxAllocFail \in Nat

VARIABLES
  \* struct _ds2480_state_t
  mode, speed, search, search_rom_len, config,
  \* the host side
  stream, first, lim,     \* all bytes; the current write is first..lim
  \* ds2480_process
  pc, i, outsize,
  \* ds2480_process_cmd and ds2480_process_data
  j, state_out, processed, switch,
  \* calls to the button and pushed replies, in order
  bus,
  \* allocation failures so far
  failures

device == <<mode, speed, search, search_rom_len, config>>
host   == <<stream, first, lim>>
inner  == <<j, state_out, processed, switch>>
vars   == <<device, host, pc, i, outsize, inner, bus, failures>>

----------------------------------------------------------------------------
(* ds2480_init, ds2480_master_reset *)

Init ==
  /\ mode = "COMMAND" /\ speed = SPEEDSEL_STD /\ search = FALSE
  /\ search_rom_len = 0
  /\ config = ResetConfig
  /\ stream \in Streams /\ first = 1 /\ lim = 0
  /\ pc = "idle" /\ i = 1 /\ outsize = 0
  /\ j = 1 /\ state_out = 0 /\ processed = <<>> /\ switch = FALSE
  /\ bus = <<>> /\ failures = 0

----------------------------------------------------------------------------
(* ds2480_process *)

\* Does position e fall between the two bytes of an escape?
CutsEscape(e) == /\ e < Len(stream)
                 /\ stream[e] = MODE_COMMAND /\ stream[e + 1] = MODE_COMMAND

\* A write arrives: any non-empty piece of what the host still sends.
Call ==
  /\ pc = "idle" /\ lim < Len(stream)
  /\ \E e \in lim + 1 .. Len(stream) :
       /\ CutEscapes \/ ~CutsEscape(e)
       /\ lim' = e
  /\ first' = lim + 1 /\ i' = lim + 1
  /\ outsize' = 0
  /\ pc' = "top"
  /\ UNCHANGED <<device, stream, inner, bus, failures>>

More == i <= lim

EnterCmd ==
  /\ pc = "top" /\ More /\ mode = "COMMAND"
  /\ pc' = "cmd" /\ j' = i /\ state_out' = 0
  /\ UNCHANGED <<device, host, i, outsize, processed, switch, bus, failures>>

EnterData ==
  /\ pc = "top" /\ More /\ mode = "DATA"
  /\ pc' = "data" /\ j' = i /\ state_out' = 0
  /\ processed' = <<>> /\ switch' = FALSE
  /\ UNCHANGED <<device, host, i, outsize, bus, failures>>

\* Mutant: an index that does not wrap below the write.
IndexAfterErrorSigned(k) == k - ENOMEM + 1

\* DS_MALLOC fails: -ENOMEM is added to the unsigned index before its ++,
\* and state_out still holds the whole room that was left.
IndexAfterError(k) ==
  IF k - first >= ENOMEM - 1 THEN k - ENOMEM + 1 ELSE lim + 1

AllocFail ==
  /\ pc = "top" /\ More /\ mode = "DATA"
  /\ failures < MaxAllocFail
  /\ failures' = failures + 1
  /\ i' = IndexAfterError(i)
  /\ outsize' = MaxOut
  /\ UNCHANGED <<device, host, pc, inner, bus>>

\* Mutant: the loop forgets its ++i.
ResumeAtLast(k) == /\ pc' = "top" /\ i' = k - 1
                   /\ outsize' = outsize + state_out'

\* i += ret; ++i: the loop goes on at position k.
Resume(k) == /\ pc' = "top" /\ i' = k
             /\ outsize' = outsize + state_out'

Return ==
  /\ pc = "top" /\ ~More
  /\ pc' = "idle"
  /\ UNCHANGED <<device, host, i, outsize, inner, bus, failures>>

----------------------------------------------------------------------------
(* ds2480_process_cmd *)

b == stream[j]
InCmd == pc = "cmd" /\ j <= lim

\* Mutant: OPUSH uses the last byte of the room too.
FullLate == outsize < MaxOut /\ state_out >= MaxOut - outsize

\* OPUSH gives up when one byte of the room is left; max_out - 1 wraps when
\* no room was left on entry.
Full == outsize < MaxOut /\ state_out >= MaxOut - outsize - 1

\* OPUSH: push the reply and go on, or return -1, which the outer loop adds
\* to i and so comes back to the byte this run started with.
Push(reply, before) ==
  IF Full
  THEN /\ pc' = "top" /\ i' = i
       /\ outsize' = outsize + state_out
       /\ bus' = bus \o before
       /\ UNCHANGED <<j, state_out>>
  ELSE /\ state_out' = state_out + 1
       /\ bus' = bus \o before \o <<[kind |-> "reply", byte |-> reply]>>
       /\ j' = j + 1
       /\ UNCHANGED <<pc, i, outsize>>

CmdRest == UNCHANGED <<host, processed, switch, failures>>

CmdToData ==
  /\ InCmd /\ b = MODE_DATA
  /\ mode' = "DATA"
  /\ state_out' = state_out /\ Resume(j + 1)
  /\ UNCHANGED <<speed, search, search_rom_len, config, j, bus>> /\ CmdRest

CmdSkip ==
  /\ InCmd
  /\ b = MODE_COMMAND \/ (~IsComm(b) /\ ~IsConfig(b))
  /\ j' = j + 1
  /\ UNCHANGED <<device, pc, i, outsize, state_out, bus>> /\ CmdRest

Communication(f) ==
  InCmd /\ b \notin {MODE_DATA, MODE_COMMAND} /\ IsComm(b) /\ Funct(b) = f

CmdBit ==
  /\ Communication("bit")
  /\ speed' = SpeedOf(b)
  /\ Push(BitReply(b), <<>>)
  /\ UNCHANGED <<mode, search, search_rom_len, config>> /\ CmdRest

CmdSearch ==
  /\ Communication("search")
  /\ search' = SearchOn(b) /\ speed' = SpeedOf(b)
  /\ j' = j + 1
  /\ UNCHANGED <<mode, search_rom_len, config, pc, i, outsize, state_out, bus>>
  /\ CmdRest

CmdReset ==
  /\ Communication("reset")
  /\ speed' = SpeedOf(b)
  /\ Push(RESET_REPLY, <<[kind |-> "pulse", byte |-> 0]>>)
  /\ UNCHANGED <<mode, search, search_rom_len, config>> /\ CmdRest

CmdChmod ==
  /\ Communication("chmod")
  /\ Push(ChmodReply(b), <<>>)
  /\ UNCHANGED device /\ CmdRest

CmdConfigWrite ==
  /\ InCmd /\ IsConfig(b) /\ ParmSel(b) # 0
  /\ config' = [config EXCEPT ![ParmSel(b)] = ParmSet(b)]
  /\ Push(ParmReply(b), <<>>)
  /\ UNCHANGED <<mode, speed, search, search_rom_len>> /\ CmdRest

CmdConfigRead ==
  /\ InCmd /\ IsConfig(b) /\ ParmSel(b) = 0
  /\ Push(config[ParmRead(b)], <<>>)
  /\ UNCHANGED device /\ CmdRest

CmdReturn ==
  /\ pc = "cmd" /\ j > lim
  /\ state_out' = state_out /\ Resume(j)
  /\ UNCHANGED <<device, j, bus>> /\ CmdRest

----------------------------------------------------------------------------
(* ds2480_process_data *)

InData == pc = "data" /\ j <= lim

DataRest == UNCHANGED <<mode, speed, search, search_rom_len, host,
                        i, outsize, state_out, bus, failures>>

DataByte ==
  /\ InData /\ b \notin {MODE_COMMAND, TIMING}
  /\ processed' = Append(processed, b)
  /\ j' = j + 1
  /\ UNCHANGED <<config, pc, switch>> /\ DataRest

\* Mutant: the bound of the look-ahead is one short.
SecondEscapeShort == j < lim - 1 /\ stream[j + 1] = MODE_COMMAND

\* Only the bytes of this write are looked at: i < count - 1.
SecondEscape == j < lim /\ stream[j + 1] = MODE_COMMAND

DataEscape ==
  /\ InData /\ b = MODE_COMMAND /\ SecondEscape
  /\ processed' = Append(processed, MODE_COMMAND)
  /\ j' = j + 2
  /\ UNCHANGED <<config, pc, switch>> /\ DataRest

\* The rest of data mode runs in Dispatch; mode changes after it.
DataToCommand ==
  /\ InData /\ b = MODE_COMMAND /\ ~SecondEscape
  /\ switch' = TRUE /\ pc' = "dispatch"
  /\ UNCHANGED <<config, j, processed>> /\ DataRest

DataTiming ==
  /\ InData /\ b = TIMING
  /\ switch' = TRUE /\ pc' = "dispatch"
  /\ config' = [config EXCEPT ![PARMSEL_BAUDRATE] = PARMSET_9600]
  /\ UNCHANGED <<j, processed>> /\ DataRest

DataEnd ==
  /\ pc = "data" /\ j > lim
  /\ pc' = "dispatch"
  /\ UNCHANGED <<config, j, processed, switch>> /\ DataRest

\* The data bytes collected so far, as they will reach the button or the
\* search accelerator.
Delivered == [k \in DOMAIN processed |->
                [kind |-> IF search THEN "search" ELSE "data",
                 byte |-> processed[k]]]

\* Mutant: the accelerator's length is never set back.
BlockRestKept(n) == n
\* Bytes of an unfinished block that stay in search_rom_buffer.
BlockRest(n) == n % SearchLen

\* Search accelerator blocks are answered one full block at a time; anything
\* else is one call of button->process, whose reply no bound is checked for.
Dispatch ==
  /\ pc = "dispatch"
  /\ bus' = bus \o Delivered
  /\ IF search
     THEN LET n == search_rom_len + Len(processed) IN
          /\ search_rom_len' = BlockRest(n)
          /\ state_out' = SearchLen * (n \div SearchLen)
     ELSE /\ \/ processed = <<>> /\ state_out' = 0
             \/ processed # <<>> /\ state_out' \in ReplyLens
          /\ UNCHANGED search_rom_len
  /\ mode' = IF switch THEN "COMMAND" ELSE mode
  /\ Resume(IF switch THEN j + 1 ELSE j)
  /\ processed' = <<>> /\ switch' = FALSE
  /\ UNCHANGED <<speed, search, config, host, j, failures>>

----------------------------------------------------------------------------
(* The loops run as long as there is something to do. *)

Process == \/ EnterCmd \/ EnterData \/ AllocFail \/ Return
           \/ CmdToData \/ CmdSkip \/ CmdBit \/ CmdSearch \/ CmdReset
           \/ CmdChmod \/ CmdConfigWrite \/ CmdConfigRead \/ CmdReturn
           \/ DataByte \/ DataEscape \/ DataToCommand \/ DataTiming \/ DataEnd
           \/ Dispatch

Next == Call \/ Process

\* The process that called ds2480_process keeps running, and the host sends
\* the rest of its stream.
Spec == Init /\ [][Next]_vars /\ WF_vars(Process) /\ WF_vars(Call)

----------------------------------------------------------------------------
(* Properties *)

Events == [kind : {"reply", "pulse", "data", "search"}, byte : Byte]

\* Every variable keeps the type its C counterpart has.
TypeOK ==
  /\ mode \in {"COMMAND", "DATA"} /\ speed \in Speeds /\ search \in BOOLEAN
  /\ search_rom_len \in 0 .. SearchLen - 1
  /\ config \in [0..7 -> Byte]
  /\ stream \in Streams
  /\ first \in Nat \ {0} /\ lim \in 0 .. Len(stream)
  /\ pc \in {"idle", "top", "cmd", "data", "dispatch"}
  /\ i \in Int /\ j \in Int
  /\ outsize \in Nat /\ state_out \in Nat
  /\ processed \in Seq(Byte) /\ switch \in BOOLEAN
  /\ bus \in Seq(Events)
  /\ failures \in 0 .. MaxAllocFail

\* A byte the loops look at is a byte of the write being handled: neither the
\* -1 of OPUSH nor -ENOMEM added to the unsigned index takes the outer loop
\* before the first byte of the write (ds2480sim.c:197-210).
ReadsOwnWrite ==
  /\ pc = "top" /\ More => i >= first
  /\ pc \in {"cmd", "data"} /\ j <= lim => j >= first

\* OPUSH keeps the replies to command bytes inside the room its caller gave,
\* with one byte to spare (ds2480sim.c:42), as long as nothing else had used
\* up that room when the run of command bytes began.
CommandRepliesFit ==
  pc = "cmd" /\ outsize < MaxOut => outsize + state_out < MaxOut

\* Where the stream has been decoded to: a byte of data mode counts as decoded
\* when the inner loop has taken it, the mode switch when it has been seen.
StreamPos ==
  IF pc \in {"cmd", "data"} THEN j
  ELSE IF pc = "dispatch" THEN (IF switch THEN j + 1 ELSE j) ELSE i
StreamMode == IF pc = "dispatch" /\ switch THEN "COMMAND" ELSE mode
StreamBus  == bus \o Delivered

\* ds2480sim.c:131-138: the bridge decodes the stream of the host, however
\* it was cut into writes, as DS2480Stream does: every unit once, in order.
Stream == INSTANCE DS2480Stream WITH
  pos <- StreamPos, mode <- StreamMode, bus <- StreamBus

DecodesStream == Stream!Spec

\* Does byte c in command mode make OPUSH run?
Answers(c) ==
  /\ c \notin {MODE_DATA, MODE_COMMAND} /\ (IsComm(c) \/ IsConfig(c))
  /\ ~(IsComm(c) /\ Funct(c) = "search")

\* The call is at a run of command bytes, one byte of room is left, and some
\* byte of the run has a reply to push.
Starved ==
  /\ pc \in {"top", "cmd"} /\ mode = "COMMAND"
  /\ outsize = MaxOut - 1 /\ (pc = "cmd" => state_out = 0)
  /\ \E k \in (IF pc = "cmd" THEN j ELSE i) .. lim :
       /\ Answers(stream[k])
       /\ \A l \in (IF pc = "cmd" THEN j ELSE i) .. k : stream[l] # MODE_DATA

\* Once a call is starved it is starved for ever: the -1 of OPUSH restarts
\* the same bytes with the same room, so the call never fails or returns.
StarvedForever == [][Starved => Starved']_vars

\* Nothing but starvation keeps a call from coming back: not a failed
\* allocation, which moves the index back by ENOMEM - 1 bytes
\* (ds2480sim.c:139-141, 206), and not a room that was overrun.
ReturnsOrStarves == pc # "idle" ~> pc = "idle" \/ Starved
=============================================================================
