------------------------------- MODULE Sha18 -------------------------------
(***************************************************************************)
(* The DS1963S functions of the SDK (sha18.c) and the protocols built on   *)
(* them (shaib.c), talking to the emulated button of module DS1963S.       *)
(*                                                                         *)
(* A function is a sequence of exchanges, each a block of bytes sent after *)
(* a reset or right behind a select, and a check of what came back; the    *)
(* first check that fails ends the call (OWASSERT).  Program gives the     *)
(* sequence of every function.  Contact may be lost in any exchange,       *)
(* before the button has seen the block or after it has answered.          *)
(*                                                                         *)
(* Buffers of a page or a scratchpad hold one value throughout.  A CRC is  *)
(* good exactly when the handler of the button has computed one.           *)
(***************************************************************************)
EXTENDS DS1963S

CONSTANT Calls   \* what the application may call

Ops == {"WriteDataPage", "ReadMemoryPage", "InstallSecret", "CreateChallenge",
        "AnswerChallenge", "VerifyAuthResponse", "CreateDataSignature"}

ASSUME ShaAssumption ==
  /\ Values # {} /\ Values \subseteq Nat
  /\ Calls \subseteq [op : Ops, page : 0 .. Pages - 1, value : Values, flag : BOOLEAN]

VARIABLES
  call,      \* the function that runs, or ran last, and its arguments
  result,    \* "none", "running", or what it has returned: "TRUE", "FALSE"
  steps,     \* exchanges that are left
  sent,      \* the block of the first of them is on its way
  data,      \* what the caller's page buffer was given, by cell
  sign,      \* and its signature buffer: "unread", "MAC" or "other"
  \* history
  lost,      \* has contact been lost in this call?
  macOf,     \* what the SHA result of this call was computed over
  may        \* per page, the values it may hold

host     == <<call, result, steps, sent, data, sign, lost, may>>
shaVars  == <<vars, host, macOf>>

Page(p)  == p * PageSize
Cells    == 0 .. PageSize - 1
NoMac    == [addr |-> 0, sub |-> "none", data |-> <<>>]
Unread   == <<>>

----------------------------------------------------------------------------
(* Blocks, and functions of sha18.c as sequences of them *)

Packet(op, n) == [op |-> op, addr |-> 0, aa |-> FALSE, off |-> 0,
                  value |-> CHOOSE v \in Values : TRUE, sub |-> "", size |-> n]
Resume == Packet("A5", 1)

Block(reset, bt, check) ==
  [reset |-> reset, batch |-> bt, check |-> check, failed |-> "FALSE"]

\* SelectSHA: owVerify, which is a Search ROM in one block.
Select == Block(TRUE, <<Packet("F0", 25)>>, "any")

\* A memory command behind a Resume or a select.
Selected(resume, packet, check) ==
  IF resume THEN <<Block(TRUE, <<Resume, packet>>, check)>>
  ELSE <<Select, Block(FALSE, <<packet>>, check)>>

EraseScratchpadSHA18(p, resume) ==
  Selected(resume, [Packet("C3", 5) EXCEPT !.addr = Page(p)], "completion")
WriteScratchpadSHA18(a, v, resume) ==
  Selected(resume, [Packet("0F", PageSize + 5) EXCEPT !.addr = a, !.value = v], "crc")
ReadScratchpadSHA18(check, resume) ==
  Selected(resume, Packet("AA", PageSize + 6), check)
CopyScratchpadSHA18(p, resume) ==
  Selected(resume, [Packet("55", 6) EXCEPT !.addr = Page(p), !.off = PageSize - 1],
           "copied")
MatchScratchpadSHA18 == Selected(TRUE, Packet("3C", 24), "any")
SHAFunction18(p, control, resume) ==
  Selected(resume, [Packet("33", 8) EXCEPT !.addr = Page(p), !.sub = control],
           "completion")

\* The block is sent behind a reset even when the button was selected by
\* SelectSHA: it then meets the ROM handler.  A select that fails is returned
\* as -1, which is not FALSE.
ReadMemoryPageSHA18(p, resume) ==
  LET packet == [Packet("F0", PageSize + 3) EXCEPT !.addr = Page(p)]
  IN IF resume THEN <<Block(TRUE, <<Resume, packet>>, "any")>>
     ELSE <<[Select EXCEPT !.failed = "TRUE"], Block(TRUE, <<packet>>, "any")>>

\* A failure of the last exchange is returned as FALSE, which is 0, a value
\* of the write cycle counter; -1 is the error.
ReadAuthPageSHA18(p, resume) ==
  Selected(resume, [Packet("A5", PageSize + 15) EXCEPT !.addr = Page(p)], "page")
    \o <<[Block(TRUE, <<Resume, Packet("AA", PageSize + 6)>>, "sign")
          EXCEPT !.failed = "TRUE"]>>

WriteDataPageSHA18(p, v, resume) ==
  EraseScratchpadSHA18(p, resume) \o WriteScratchpadSHA18(Page(p), v, TRUE)
    \o ReadScratchpadSHA18("verify", TRUE) \o CopyScratchpadSHA18(p, TRUE)

\* The secret's address gets no CRC from the button, so that the two blocks
\* behind the write are never sent.  The first reads three bytes only.
CopySecretSHA18 ==
  WriteScratchpadSHA18(NvSize, CHOOSE v \in Values : TRUE, TRUE)
    \o <<Block(TRUE, <<Resume, Packet("AA", 4)>>, "any")>>
    \o Selected(TRUE, [Packet("55", 6) EXCEPT !.addr = NvSize, !.off = PageSize - 1],
                "completion")

\* InstallSystemSecret18 (of the first block of 47 bytes) and
\* BindSecretToiButton18, which differ in the control byte.
InstallSecret(p, v, control, resume) ==
  WriteDataPageSHA18(p, v, resume) \o WriteScratchpadSHA18(Page(p), v, TRUE)
    \o SHAFunction18(p, control, TRUE) \o CopySecretSHA18

----------------------------------------------------------------------------
(* shaib.c *)

CreateChallenge(p) ==
  EraseScratchpadSHA18(p, FALSE) \o SHAFunction18(p, "CC", TRUE)
    \o ReadScratchpadSHA18("sign", TRUE)

\* Mutant: the page is read before the challenge is written.
AnswerChallengeEarly(p, v) ==
  EraseScratchpadSHA18(p, FALSE) \o <<Head(ReadAuthPageSHA18(p, TRUE))>>
    \o WriteScratchpadSHA18(Page(p), v, TRUE) \o Tail(ReadAuthPageSHA18(p, TRUE))

AnswerChallenge(p, v) ==
  EraseScratchpadSHA18(p, FALSE) \o WriteScratchpadSHA18(Page(p), v, TRUE)
    \o ReadAuthPageSHA18(p, TRUE)

VerifyAuthResponse(p, v, doBind) ==
  (IF doBind THEN InstallSecret(p, v, "F0", FALSE) ELSE <<>>)
    \o WriteDataPageSHA18(p, v, doBind) \o WriteScratchpadSHA18(Page(p), v, TRUE)
    \o SHAFunction18(p, "3C", TRUE) \o MatchScratchpadSHA18

CreateDataSignature(p, v, readSignature) ==
  WriteDataPageSHA18(p, v, FALSE) \o WriteScratchpadSHA18(Page(p), v, TRUE)
    \o SHAFunction18(p, "C3", TRUE)
    \o (IF readSignature THEN ReadScratchpadSHA18("sign", TRUE) ELSE MatchScratchpadSHA18)

Program(c) ==
  CASE c.op = "WriteDataPage"       -> WriteDataPageSHA18(c.page, c.value, c.flag)
    [] c.op = "ReadMemoryPage"      -> ReadMemoryPageSHA18(c.page, c.flag)
    [] c.op = "InstallSecret"       -> InstallSecret(c.page, c.value, "0F", c.flag)
    [] c.op = "CreateChallenge"     -> CreateChallenge(c.page)
    [] c.op = "AnswerChallenge"     -> AnswerChallenge(c.page, c.value)
    [] c.op = "VerifyAuthResponse"  -> VerifyAuthResponse(c.page, c.value, c.flag)
    [] c.op = "CreateDataSignature" -> CreateDataSignature(c.page, c.value, c.flag)

Writes(c) == c.op \in {"WriteDataPage", "InstallSecret", "VerifyAuthResponse",
                       "CreateDataSignature"}

----------------------------------------------------------------------------
(* Checks of an answer *)

step == Head(steps)
Mac(cells) == IF \A k \in MacCells : cells[k] = MAC THEN "MAC" ELSE "other"

\* owBlock fails when there are fewer bytes than were sent.
Answered == outsize >= count

Completed == Answered /\ reply.kind = "done"
CrcGood   == Answered /\ reply.kind \in {"written", "scratchpad", "page", "echo"}
               /\ (reply.kind = "echo" => step.check = "page")

\* WriteDataPageSHA18 compares address, status byte and data.
ReadBack ==
  /\ CrcGood
  /\ reply.addr = Page(call.page) /\ ~reply.aa /\ reply.off = PageSize - 1
  /\ \A k \in Cells : reply.data[k] = call.value

Good ==
  CASE step.check = "any"                       -> Answered
    [] step.check \in {"completion", "copied"}  -> Completed
    [] step.check \in {"crc", "sign", "page"}   -> CrcGood
    [] step.check = "verify"                    -> ReadBack

----------------------------------------------------------------------------
ShaInit ==
  /\ Init
  /\ call = [op |-> "none", page |-> 0, value |-> 0, flag |-> FALSE]
  /\ result = "none" /\ steps = <<>> /\ sent = FALSE
  /\ data = Unread /\ sign = "unread"
  /\ lost = FALSE /\ macOf = NoMac
  /\ may = [p \in 0 .. Pages - 1 |-> {0}]

Begin ==
  /\ result # "running"
  /\ \E c \in Calls :
       /\ call' = c /\ steps' = Program(c)
       /\ may' = IF Writes(c) THEN [may EXCEPT ![c.page] = @ \cup {c.value}] ELSE may
  /\ result' = "running" /\ sent' = FALSE
  /\ data' = Unread /\ sign' = "unread" /\ lost' = FALSE /\ macOf' = NoMac
  /\ UNCHANGED vars

\* owBlock: an optional reset, and the bytes.
SendBlock ==
  /\ result = "running" /\ ~sent
  /\ sent' = TRUE
  /\ cmd_state' = IF step.reset THEN "CMD_ROM" ELSE cmd_state
  /\ batch' = step.batch /\ count' = Size(step.batch)
  /\ outsize' = 0 /\ reply' = None
  /\ UNCHANGED <<mem, registers, fault, history>>
  /\ UNCHANGED <<call, result, steps, data, sign, lost, macOf, may>>

Computing == \/ InMemory("A5") /\ Signed(cmd.addr)
             \/ InMemory("33") /\ Computes(cmd)

\* The button works through the block.
Answer ==
  /\ \/ SkipRom \/ OtherRom
     \/ ReadScratchpad \/ WriteScratchpad \/ EraseScratchpad
     \/ CopyScratchpad \/ ReadAuthPage \/ ComputeSHA \/ OtherMemory
  /\ macOf' = IF Computing
              THEN [addr |-> cmd.addr, sub |-> cmd.sub,
                    data |-> [k \in Cells |-> mem[cmd.addr + k]]]
              ELSE macOf
  /\ UNCHANGED host

\* Mutant: a function goes on when one it has called has failed.
FailGoesOn ==
  /\ steps' = Tail(steps)
  /\ result' = IF Tail(steps) = <<>> THEN step.failed ELSE "running"
  /\ sent' = FALSE
  /\ UNCHANGED <<call, data, sign, may, macOf>>

\* OWASSERT: the call ends with the value the function gives to this failure.
Fail ==
  /\ steps' = <<>> /\ result' = step.failed /\ sent' = FALSE
  /\ UNCHANGED <<call, data, sign, may, macOf>>

Arrived == result = "running" /\ sent /\ batch = <<>>

Accept ==
  /\ Arrived /\ Good
  /\ steps' = Tail(steps) /\ sent' = FALSE
  /\ result' = IF Tail(steps) = <<>> THEN "TRUE" ELSE "running"
  /\ data' = IF step.check = "page"
             THEN IF reply.kind = "page" THEN reply.data ELSE [k \in Cells |-> 255]
             ELSE data
  /\ sign' = IF step.check = "sign" THEN Mac(reply.data) ELSE sign
  /\ may' = IF step.check = "copied" THEN [may EXCEPT ![call.page] = {call.value}]
            ELSE may
  /\ UNCHANGED <<vars, call, lost, macOf>>

Refuse == Arrived /\ ~Good /\ Fail /\ UNCHANGED <<vars, lost>>

\* Contact is lost before the block has reached the button, or with the
\* answer to it.
LoseContact ==
  /\ result = "running" /\ (~sent \/ Arrived)
  /\ lost' = TRUE /\ Fail /\ UNCHANGED vars

ShaNext == Begin \/ SendBlock \/ Answer \/ Accept \/ Refuse \/ LoseContact
ShaSpec == ShaInit /\ [][ShaNext]_shaVars

----------------------------------------------------------------------------
(* Properties *)

\* Whatever was called, refused or cut off before, a page holds the data of
\* one WriteDataPageSHA18, never a mixture, a cleared scratchpad or a SHA
\* result; after a success the data of that call, and otherwise that of a
\* later one that failed (sha18.c:582-599).  The last cell is excepted,
\* because the button copies one byte less than the page has (ds1963s.c:237).
PagesWhole ==
  \A p \in 0 .. Pages - 1 :
    \E v \in may[p] : \A k \in 0 .. PageSize - 2 : mem[Page(p) + k] = v

Returns == result = "running" /\ result' # "running"

\* A call that does not lose contact succeeds, whatever the registers were
\* left at, unless it needs what the button does not have: a secret that can
\* be copied to, Match Scratchpad, Read Memory (ds1963s.c:183, 302-305).
\* Without a Resume Read Memory seems to succeed: it is taken for a ROM
\* command (sha18.c:448).
Supported ==
  \/ call.op \in {"WriteDataPage", "CreateChallenge", "AnswerChallenge"}
  \/ call.op = "CreateDataSignature" /\ call.flag
  \/ call.op = "ReadMemoryPage" /\ ~call.flag
SucceedsExactly ==
  [][Returns /\ ~lost' => (result' = "TRUE" <=> Supported)]_shaVars

\* Who is given a signature is given the one over the page and the data of
\* the same call (shaib.c:423-465, 590-627); for a page that the button does
\* not sign it is given what the scratchpad held.  When the last read of
\* ReadAuthPageSHA18 fails it is given none and is told of no error
\* (sha18.c:550-551).
AnswerSigned ==
  \/ /\ sign = "MAC" /\ Signed(Page(call.page))
     /\ macOf.addr = Page(call.page) /\ macOf.data = data
  \/ sign = "other" /\ ~Signed(Page(call.page))
  \/ sign = "unread" /\ lost
DataSigned ==
  \/ /\ sign = "MAC" /\ macOf.addr = Page(call.page) /\ macOf.sub = "C3"
     /\ \A k \in 0 .. PageSize - 2 : macOf.data[k] = call.value
  \/ sign = "other" /\ call.page \notin {0, AuthPage}
SignsWhatItReturns ==
  [][Returns /\ result' = "TRUE" =>
       /\ call.op = "AnswerChallenge" => AnswerSigned'
       /\ call.op = "CreateDataSignature" => DataSigned']_shaVars
=============================================================================
