------------------------------- MODULE Debit -------------------------------
(***************************************************************************)
(* Debits from a DS1961S token (shadebit.c, with the functions of sha33.c  *)
(* it calls): how a terminal takes money from the account in a page of the *)
(* token, reads it back, and what the next terminal makes of a page that   *)
(* was left in the middle.                                                 *)
(*                                                                         *)
(* The page is a DebitFile33: a header, whose length byte points at one of *)
(* two records, A and B.  The CRC of a record goes from the header to the  *)
(* record's end, so that the CRC of B covers A.  A page is written by      *)
(* segments of 8 bytes: the header, A, B, and one that holds nothing.      *)
(*                                                                         *)
(* Contact may be lost anywhere: before a segment is written, after it and *)
(* before the terminal hears of it, or while it is written, which leaves   *)
(* the segment torn.  A torn segment fits no CRC.  DS1961S and coprocessor *)
(* are not in the repository; they do what the code expects of them.       *)
(***************************************************************************)
EXTENDS Integers

CONSTANTS
  Limit,     \* balances are taken modulo this (2^24)
  IDs,       \* and transaction IDs modulo this (2^16)
  Initial,   \* the balance at installation
  Amounts,   \* what a terminal may debit
  Retries,   \* MAX_RETRY_CNT
  MaxTorn    \* bound: how often a segment is torn

ASSUME DebitAssumption ==
  /\ Limit \in Nat \ {0} /\ IDs \in Nat \ {0}
  /\ Initial \in 0 .. Limit - 1 /\ Amounts \subseteq Nat
  /\ Retries \in Nat /\ MaxTorn \in Nat

VARIABLES
  page,      \* the account page of the token
  file,      \* user->accountFile
  pc,        \* "away": no token or no session; "ready": VerifyData has passed;
             \* "read", "write": in WriteDataPageSHA33; "check": in the loop
  by,        \* what has called it: "debit", "retry" (UpdateServiceData of
             \* ExecuteTransaction), "recover" (VerifyData)
  verify,    \* argument verifySuccess
  success, cnt, oldAcct, newAcct,   \* locals of ExecuteTransaction
  result,    \* what it has told its caller
  \* history
  before, after,  \* the balance a transaction found, and the one it is to leave
  spoiled,   \* has a torn segment been taken for good since it began?
  torn       \* how many were torn so far

locals  == <<verify, success, cnt, oldAcct, newAcct>>
history == <<before, after, spoiled>>
vars    == <<page, file, pc, by, locals, result, history, torn>>

Balances == 0 .. Limit - 1
TransIDs == 0 .. IDs - 1

----------------------------------------------------------------------------
(* DebitFile33 *)

\* len: RECORD_A_LENGTH, RECORD_B_LENGTH or neither.
\* kind: dataTypeCode and convFactor, which every update sets.
Headers  == [len : {"A", "B", "?"}, kind : {"ok", "torn"}]
RecordsA == [bal : Balances, id : TransIDs, crc : BOOLEAN]
\* over: the record A its CRC was computed over.
RecordsB == [bal : Balances, id : TransIDs, crc : BOOLEAN, over : RecordsA]
Files    == [hdr : Headers, A : RecordsA, B : RecordsB]

ValidA(f) == f.hdr.kind = "ok" /\ f.A.crc
ValidB(f) == f.hdr.kind = "ok" /\ f.B.crc /\ f.B.over = f.A
Valid(f)  == \/ f.hdr.len = "A" /\ ValidA(f)
             \/ f.hdr.len = "B" /\ ValidB(f)

GetBalance(f) == IF f.hdr.len = "A" THEN f.A.bal ELSE f.B.bal

Sealed(f, l, b) ==   \* the record l gets the balance b, a new ID and a CRC
  IF l = "A"
  THEN [hdr |-> [len |-> "A", kind |-> "ok"],
        A |-> [bal |-> b, id |-> (f.A.id + 1) % IDs, crc |-> TRUE], B |-> f.B]
  ELSE [hdr |-> [len |-> "B", kind |-> "ok"], A |-> f.A,
        B |-> [bal |-> b, id |-> (f.B.id + 1) % IDs, crc |-> TRUE, over |-> f.A]]

\* Mutant: the record pointed at is changed in place.
SameRecord(f) == IF f.hdr.len = "A" THEN "A" ELSE "B"

\* UpdateServiceData turns to the other record.
Other(f) == IF f.hdr.len = "A" THEN "B" ELSE "A"

\* Mutant: a retry signs the record pointed at.
UpdateInPlace(f) == Sealed(f, SameRecord(f), GetBalance(f))

\* With the balance that one holds.
UpdateServiceData(f) == Sealed(f, Other(f), IF Other(f) = "A" THEN f.A.bal ELSE f.B.bal)

\* VerifyData, of a file with a good record A: what it writes back.
Recovered(f) ==
  IF ValidB(f) THEN [f EXCEPT !.hdr = [len |-> "A", kind |-> "ok"]]
  ELSE [hdr |-> [len |-> "B", kind |-> "ok"], A |-> f.A,
        B |-> [bal |-> f.B.bal, id |-> f.B.id, crc |-> TRUE, over |-> f.A]]

----------------------------------------------------------------------------
(* Segments *)

\* Mutant: the page is written from its start.
HeaderFirst(p, f) == IF p.hdr # f.hdr THEN "header" ELSE IF p.A # f.A THEN "A" ELSE "B"

\* WriteDataPageSHA33 goes from the end of the page to its start, and writes
\* what differs.
NextSegment(p, f) == IF p.B # f.B THEN "B" ELSE IF p.A # f.A THEN "A" ELSE "header"

Put(p, s, f) ==
  CASE s = "header" -> [p EXCEPT !.hdr = f.hdr]
    [] s = "A"      -> [p EXCEPT !.A = f.A]
    [] s = "B"      -> [p EXCEPT !.B = f.B]

TornHeaders == {h \in Headers : h.len = "?" \/ h.kind = "torn"}
Torn(p, s) ==
  CASE s = "header" -> {[p EXCEPT !.hdr = h] : h \in TornHeaders}
    [] s = "A"      -> {[p EXCEPT !.A = [bal |-> b, id |-> p.A.id, crc |-> FALSE]] :
                          b \in Balances}
    [] s = "B"      -> {[p EXCEPT !.B = [bal |-> b, id |-> p.B.id, crc |-> FALSE,
                                         over |-> p.B.over]] : b \in Balances}
AnyTorn(p) == p.hdr \in TornHeaders \/ ~p.A.crc \/ ~p.B.crc

----------------------------------------------------------------------------
\* InstallServiceData: the same balance in both records, of which A gets a CRC.
Fresh ==
  LET a == [bal |-> Initial, id |-> 1 % IDs, crc |-> TRUE]
  IN [hdr |-> [len |-> "A", kind |-> "ok"], A |-> a,
      B |-> [bal |-> Initial, id |-> 0, crc |-> FALSE, over |-> a]]

Init ==
  /\ page = Fresh /\ file = Fresh /\ oldAcct = Fresh /\ newAcct = Fresh
  /\ pc = "away" /\ by = "debit" /\ result = "none"
  /\ verify = FALSE /\ success = FALSE /\ cnt = 0
  /\ before = Initial /\ after = Initial /\ spoiled = FALSE /\ torn = 0

\* while(dataOK==FALSE && cnt-->0)
Again ==
  \/ cnt > 0 /\ pc' = "check" /\ cnt' = cnt - 1 /\ UNCHANGED result
  \/ cnt = 0 /\ pc' = "away" /\ result' = "catastrophic" /\ UNCHANGED cnt

----------------------------------------------------------------------------
(* A session: VerifyUser, which reads the page, and VerifyData *)

Accept ==
  /\ pc = "away" /\ Valid(page)
  /\ file' = page /\ pc' = "ready"
  /\ UNCHANGED <<page, by, locals, result, history, torn>>

Recover ==
  /\ pc = "away" /\ ~Valid(page) /\ ValidA(page)
  /\ file' = Recovered(page)
  /\ pc' = "read" /\ by' = "recover"
  /\ spoiled' = (spoiled \/ ~page.B.crc)
  /\ UNCHANGED <<page, locals, result, before, after, torn>>

\* Record B may be good, but "should never ever happen": nothing is done.
Reject ==
  /\ pc = "away" /\ ~Valid(page) /\ ~ValidA(page)
  /\ file' = page
  /\ UNCHANGED <<page, pc, by, locals, result, history, torn>>

\* VerifyUser: the response does not match, RefreshPage33 writes every segment
\* again, and contact is lost in one.  The header may be lost without that: if
\* RefreshScratchpad33 fails with -1, which RefreshPage33 takes for success,
\* the scratchpad with the challenge is loaded over it.
RefreshTears ==
  /\ torn < MaxTorn
  /\ \/ pc = "away" /\ UNCHANGED <<pc, cnt, result>>
     \/ pc = "check" /\ Again
  /\ \E s \in {"header", "A", "B"} :
       page' \in Torn(page, s) /\ spoiled' = (spoiled \/ s = "header")
  /\ torn' = torn + 1
  /\ UNCHANGED <<file, by, verify, success, oldAcct, newAcct, before, after>>

\* ExecuteTransaction, up to the write.  The amount is not compared with the
\* balance.
Execute ==
  /\ pc = "ready" /\ GetBalance(file) > 0
  /\ \E a \in Amounts, v \in BOOLEAN :
       /\ after' = (GetBalance(file) - a) % Limit
       /\ verify' = v
  /\ file' = Sealed(file, Other(file), after')
  /\ oldAcct' = file /\ before' = GetBalance(file)
  /\ pc' = "read" /\ by' = "debit" /\ cnt' = Retries
  /\ result' = "none" /\ spoiled' = FALSE
  /\ UNCHANGED <<page, success, newAcct, torn>>

NoMoney ==
  /\ pc = "ready" /\ GetBalance(file) = 0
  /\ pc' = "away" /\ result' = "no money"
  /\ UNCHANGED <<page, file, by, locals, history, torn>>

----------------------------------------------------------------------------
(* WriteDataPageSHA33 and the return to its caller *)

Return(ok) ==
  /\ \/ /\ by = "recover"
        /\ pc' = IF ok THEN "ready" ELSE "away"
        /\ UNCHANGED <<locals, result>>
     \/ /\ by = "debit" /\ ok /\ ~verify
        /\ pc' = "away" /\ result' = "TRUE"
        /\ UNCHANGED locals
     \/ /\ by = "debit" /\ (verify \/ ~ok)
        /\ pc' = "check" /\ success' = ok /\ newAcct' = file
        /\ UNCHANGED <<verify, cnt, oldAcct, result>>
     \/ /\ by = "retry" /\ Again
        /\ success' = ok /\ newAcct' = file
        /\ UNCHANGED <<verify, oldAcct>>
  /\ UNCHANGED <<file, by, history>>

ReadPage ==
  /\ pc = "read" /\ pc' = "write"
  /\ UNCHANGED <<page, file, by, locals, result, history, torn>>

\* The page is read without a CRC, and a select that fails is not noticed
\* (sha33.c:410): if it was read wrongly, the token refuses the MAC over it.
ReadFails == pc = "read" /\ Return(FALSE) /\ UNCHANGED <<page, torn>>

Writing(s) == pc = "write" /\ page # file /\ s = NextSegment(page, file)

WriteSegment(s) ==
  /\ Writing(s)
  /\ page' = Put(page, s, file)
  /\ UNCHANGED <<file, pc, by, locals, result, history, torn>>

\* Not signed, not sent, not copied; or copied, and the completion not heard.
WriteFails(s) ==
  /\ Writing(s)
  /\ page' = page \/ page' = Put(page, s, file)
  /\ Return(FALSE) /\ UNCHANGED torn

WriteTears(s) ==
  /\ Writing(s) /\ torn < MaxTorn
  /\ page' \in Torn(page, s) /\ torn' = torn + 1
  /\ Return(FALSE)

Written == pc = "write" /\ page = file /\ Return(TRUE) /\ UNCHANGED <<page, torn>>

----------------------------------------------------------------------------
(* ExecuteTransaction, the loop: VerifyUser reads the page again *)

LooksRight ==
  /\ pc = "check" /\ page = newAcct
  /\ file' = page /\ pc' = "away"
  /\ result' = IF success THEN "TRUE" ELSE "FALSE"
  /\ UNCHANGED <<page, by, locals, history, torn>>

NotUpdated ==
  /\ pc = "check" /\ page # newAcct /\ page = oldAcct
  /\ file' = page /\ pc' = "away" /\ success' = FALSE
  /\ result' = "not updated"
  /\ UNCHANGED <<page, by, verify, cnt, oldAcct, newAcct, history, torn>>

Retry ==
  /\ pc = "check" /\ page # newAcct /\ page # oldAcct
  /\ file' = UpdateServiceData(page) /\ pc' = "read" /\ by' = "retry"
  /\ spoiled' = (spoiled \/ AnyTorn(page))
  /\ UNCHANGED <<page, locals, result, before, after, torn>>

VerifyFails ==
  /\ pc = "check" /\ Again
  /\ UNCHANGED <<page, file, by, verify, success, oldAcct, newAcct, history, torn>>

\* The token is taken away, or the terminal stops.
Leave ==
  /\ pc # "away" /\ pc' = "away" /\ result' = "none"
  /\ UNCHANGED <<page, file, by, locals, history, torn>>

Next ==
  \/ Accept \/ Recover \/ Reject \/ RefreshTears \/ Execute \/ NoMoney
  \/ ReadPage \/ ReadFails \/ Written
  \/ \E s \in {"header", "A", "B"} : WriteSegment(s) \/ WriteFails(s) \/ WriteTears(s)
  \/ LooksRight \/ NotUpdated \/ Retry \/ VerifyFails \/ Leave

Spec == Init /\ [][Next]_vars

----------------------------------------------------------------------------
(* Properties *)

\* The balance a terminal finds if it is not disturbed.
Rejected == -1
Found(p) == IF Valid(p) THEN GetBalance(p)
            ELSE IF ValidA(p) THEN GetBalance(Recovered(p)) ELSE Rejected

\* Wherever a debit, its retries and the recoveries behind it are cut off, the
\* next terminal finds the balance from before the debit or the one from after
\* it, never a third (shadebit.c:500-566).  Without a torn segment there is no
\* exception.  With one, the code fails in these ways: the token is rejected,
\* since a torn record A is covered by the CRC of B as well, and a torn header
\* by both (567-579); a record B torn by a recovery or a refresh is given a
\* CRC by the next recovery (550-566); a retry signs what is torn (718-724);
\* and a header that was torn at rest makes a terminal go back to the balance
\* before the last one (538-549).
Atomic ==
  \/ Found(page) \in {before, after}
  \/ /\ torn > 0
     /\ \/ Found(page) = Rejected
        \/ page.hdr.len # "A" /\ ~page.B.crc
        \/ spoiled

\* What ExecuteTransaction returns is true of the token, across lost
\* completions and retries, unless a retry has signed what was torn: after
\* TRUE it has been debited, and with OWERROR_SERVICE_DATA_NOT_UPDATED it has
\* not.  After a plain FALSE it has been debited too: the first write was not
\* confirmed, and success is not set again when the data looks right
\* (shadebit.c:686-737).
TellsTruth ==
  [][result' # result =>
       /\ result' \in {"TRUE", "FALSE"} => Found(page') = after \/ spoiled
       /\ result' = "not updated" => Found(page') = before]_vars

\* A debit takes effect in one write, that of the header, and a recovery never
\* changes what is found: the record written before is not believed, although
\* its CRC may be good and that of the other one not (shadebit.c:386-432,
\* 550-566).  A header that points at neither record is excepted: there each
\* write may change which of the two is believed.
CommitsAtHeader ==
  [][Found(page') # Found(page) /\ torn' = torn =>
       \/ Writing("header") /\ by # "recover"
       \/ page.hdr.len = "?" \/ Found(page) = Rejected]_vars
=============================================================================
