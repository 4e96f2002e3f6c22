---------------------------- MODULE DebitProofs ----------------------------
(***************************************************************************)
(* What holds of debits for every range of balances and transaction IDs,   *)
(* every set of amounts, and any number of retries and torn segments.      *)
(***************************************************************************)
EXTENDS Debit, TLAPS

Types ==
  /\ page \in Files /\ file \in Files /\ oldAcct \in Files /\ newAcct \in Files
  /\ pc \in {"away", "ready", "read", "write", "check"}
  /\ by \in {"debit", "retry", "recover"}
  /\ verify \in BOOLEAN /\ success \in BOOLEAN /\ cnt \in Nat
  /\ before \in Balances /\ after \in Balances
  /\ spoiled \in BOOLEAN /\ torn \in Nat

\* The records that a page may be believed for hold one of two balances.
Sound(p, b, a) ==
  \/ p.hdr.kind = "torn"
  \/ /\ p.hdr.len = "A" => (p.A.crc => p.A.bal \in {b, a})
     /\ p.hdr.len = "B" => (p.B.crc => p.B.bal \in {b, a})
     /\ p.hdr.len = "?" => (p.A.crc /\ p.B.crc => p.A.bal \in {b, a} /\ p.B.bal \in {b, a})

SealedA(p, a) == p.A.bal = a /\ p.A.crc
SealedB(p, a) == p.B.bal = a /\ p.B.crc /\ p.B.over = p.A

\* p points at the record o points at, which is as it was; the other one is as
\* it was or holds the new balance.
Half(p, o, a) ==
  /\ p.hdr = o.hdr
  /\ o.hdr.len = "A" => p.A = o.A /\ (p.B = o.B \/ SealedB(p, a))
  /\ o.hdr.len = "B" => p.B = o.B /\ (p.A = o.A \/ SealedA(p, a))

\* f is what a debit from o is to leave.
Target(f, o, a) ==
  /\ f.hdr.kind = "ok"
  /\ o.hdr.len = "A" => f.hdr.len = "B" /\ f.A = o.A /\ SealedB(f, a)
  /\ o.hdr.len = "B" => f.hdr.len = "A" /\ f.B = o.B /\ SealedA(f, a)

\* An update of the page p on its way to f.
Updates(p, f) ==
  /\ f.hdr.kind = "ok"
  /\ \/ /\ f.hdr.len = "B" /\ f.A = p.A /\ f.B.crc /\ f.B.over = f.A
        /\ p.hdr.len = "A" \/ p = f
     \/ /\ f.hdr.len = "A" /\ f.B = p.B /\ f.A.crc
        /\ p.hdr.len # "A" \/ p = f

\* A recovery of the page p on its way to f.
Fixes(p, f) ==
  /\ p.hdr.kind = "ok" /\ f.hdr.kind = "ok" /\ p.A.crc /\ f.A = p.A
  /\ \/ /\ f.hdr.len = "A" /\ f.B = p.B /\ ValidB(p)
        /\ p.hdr.len \in {"?", "A"}
     \/ /\ f.hdr.len = "B" /\ f.B.bal = p.B.bal /\ ValidB(f)
        /\ p.hdr.len \in {"?", "B"}

Busy == pc \in {"read", "write"}

Unspoiled ==
  /\ Sound(page, before, after)
  /\ Busy /\ by = "recover" => page.B.crc
  /\ Busy /\ by # "recover" =>
       /\ Target(file, oldAcct, after)
       /\ Half(page, oldAcct, after) \/ page = file
  /\ pc = "check" =>
       /\ Target(newAcct, oldAcct, after)
       /\ \/ page = newAcct
          \/ Half(page, oldAcct, after)
          \/ torn > 0 /\ AnyTorn(page)

Ready == pc = "ready" => file = page /\ Valid(page)
OnItsWay == Busy => IF by = "recover" THEN Fixes(page, file) ELSE Updates(page, file)
Debiting == pc = "check" \/ (Busy /\ by # "recover")
OldAccount == Debiting => Valid(oldAcct) /\ GetBalance(oldAcct) = before
\* No record is torn, and the one the header points at is good.
Whole(p) ==
  /\ p.hdr.kind = "ok" /\ p.hdr.len \in {"A", "B"} /\ p.A.crc
  /\ p.hdr.len = "B" => p.B.crc
Untorn == torn = 0 => Whole(page) /\ ~spoiled

DebitInv ==
  /\ Types /\ Ready /\ OnItsWay /\ OldAccount /\ Untorn
  /\ ~spoiled => Unspoiled

----------------------------------------------------------------------------
(* Segments: a write to a page of Files leaves one of Files *)

LEMMA PutType ==
  ASSUME NEW p \in Files, NEW f \in Files, NEW s \in {"header", "A", "B"}
  PROVE  /\ Put(p, s, f) \in Files
         /\ s = "header" => /\ Put(p, s, f).hdr = f.hdr
                            /\ Put(p, s, f).A = p.A /\ Put(p, s, f).B = p.B
         /\ s = "A" => /\ Put(p, s, f).hdr = p.hdr
                       /\ Put(p, s, f).A = f.A /\ Put(p, s, f).B = p.B
         /\ s = "B" => /\ Put(p, s, f).hdr = p.hdr
                       /\ Put(p, s, f).A = p.A /\ Put(p, s, f).B = f.B
<1>1. CASE s = "header"
  BY <1>1 DEF Put, Files
<1>2. CASE s = "A"
  BY <1>2 DEF Put, Files
<1>3. CASE s = "B"
  BY <1>3 DEF Put, Files
<1> QED  BY <1>1, <1>2, <1>3

LEMMA TornType ==
  ASSUME NEW p \in Files, NEW s \in {"header", "A", "B"}, NEW q \in Torn(p, s)
  PROVE  /\ q \in Files
         /\ s = "header" => q.hdr \in TornHeaders /\ q.A = p.A /\ q.B = p.B
         /\ s = "A" => q.hdr = p.hdr /\ ~q.A.crc /\ q.B = p.B
         /\ s = "B" => q.hdr = p.hdr /\ q.A = p.A /\ ~q.B.crc
         /\ AnyTorn(q)
<1>1. CASE s = "header"
  <2>1. PICK h \in TornHeaders : q = [p EXCEPT !.hdr = h]
    BY <1>1 DEF Torn
  <2>2. h \in Headers
    BY DEF TornHeaders
  <2>3. q \in Files /\ q.hdr = h /\ q.A = p.A /\ q.B = p.B
    BY <2>1, <2>2 DEF Files
  <2> QED  BY <1>1, <2>3 DEF AnyTorn
<1>2. CASE s = "A"
  <2>1. PICK v \in Balances :
          q = [p EXCEPT !.A = [bal |-> v, id |-> p.A.id, crc |-> FALSE]]
    BY <1>2 DEF Torn
  <2> DEFINE r == [bal |-> v, id |-> p.A.id, crc |-> FALSE]
  <2>2. r \in RecordsA /\ ~r.crc
    BY DEF Files, RecordsA
  <2>3. q = [p EXCEPT !.A = r]
    BY <2>1
  <2> HIDE DEF r
  <2>4. q \in Files /\ q.A = r /\ q.hdr = p.hdr /\ q.B = p.B
    BY <2>2, <2>3 DEF Files
  <2> QED  BY <1>2, <2>2, <2>4 DEF AnyTorn
<1>3. CASE s = "B"
  <2>1. PICK v \in Balances :
          q = [p EXCEPT !.B = [bal |-> v, id |-> p.B.id, crc |-> FALSE,
                               over |-> p.B.over]]
    BY <1>3 DEF Torn
  <2> DEFINE r == [bal |-> v, id |-> p.B.id, crc |-> FALSE, over |-> p.B.over]
  <2>2. r \in RecordsB /\ ~r.crc
    BY DEF Files, RecordsB
  <2>3. q = [p EXCEPT !.B = r]
    BY <2>1
  <2> HIDE DEF r
  <2>4. q \in Files /\ q.B = r /\ q.hdr = p.hdr /\ q.A = p.A
    BY <2>2, <2>3 DEF Files
  <2> QED  BY <1>3, <2>2, <2>4 DEF AnyTorn
<1> QED  BY <1>1, <1>2, <1>3

LEMMA SameFile ==
  ASSUME NEW p \in Files, NEW f \in Files
  PROVE  p = f <=> p.hdr = f.hdr /\ p.A = f.A /\ p.B = f.B
BY DEF Files

LEMMA SealedType ==
  ASSUME NEW p \in Files, NEW b \in Balances, NEW l \in {"A", "B"}
  PROVE  /\ Sealed(p, l, b) \in Files
         /\ Sealed(p, l, b).hdr.kind = "ok" /\ Sealed(p, l, b).hdr.len = l
         /\ l = "A" => SealedA(Sealed(p, l, b), b) /\ Sealed(p, l, b).B = p.B
         /\ l = "B" => SealedB(Sealed(p, l, b), b) /\ Sealed(p, l, b).A = p.A
<1>1. (p.A.id + 1) % IDs \in TransIDs /\ (p.B.id + 1) % IDs \in TransIDs
  BY DebitAssumption DEF Files, RecordsA, RecordsB, TransIDs
<1>2. [len |-> l, kind |-> "ok"] \in Headers
  BY DEF Headers
<1>3. CASE l = "A"
  BY <1>1, <1>2, <1>3 DEF Sealed, SealedA, Files, RecordsA
<1>4. CASE l = "B"
  BY <1>1, <1>2, <1>4 DEF Sealed, SealedB, Files, RecordsB
<1> QED  BY <1>3, <1>4

LEMMA NextSegmentType ==
  ASSUME NEW p \in Files, NEW f \in Files, p # f
  PROVE  /\ NextSegment(p, f) \in {"header", "A", "B"}
         /\ NextSegment(p, f) = "B" => p.B # f.B
         /\ NextSegment(p, f) = "A" => p.B = f.B /\ p.A # f.A
         /\ NextSegment(p, f) = "header" => p.B = f.B /\ p.A = f.A /\ p.hdr # f.hdr
BY SameFile DEF NextSegment

LEMMA HeaderFields ==
  ASSUME NEW p \in Files
  PROVE  /\ p.hdr \in Headers /\ p.A \in RecordsA /\ p.B \in RecordsB
         /\ p.hdr.len \in {"A", "B", "?"} /\ p.hdr.kind \in {"ok", "torn"}
         /\ p.A.bal \in Balances /\ p.B.bal \in Balances
         /\ p.A.crc \in BOOLEAN /\ p.B.crc \in BOOLEAN
BY DEF Files, Headers, RecordsA, RecordsB

LEMMA SameHeader ==
  ASSUME NEW p \in Files, NEW f \in Files, p.hdr.len = f.hdr.len, p.hdr.kind = f.hdr.kind
  PROVE  p.hdr = f.hdr
BY HeaderFields DEF Headers

----------------------------------------------------------------------------
(* What a terminal finds *)

LEMMA FoundCases ==
  ASSUME NEW p \in Files
  PROVE  /\ Valid(p) => Found(p) = GetBalance(p)
         /\ ~Valid(p) /\ ~ValidA(p) => Found(p) = Rejected
         /\ ~Valid(p) /\ ValidA(p) /\ ValidB(p) => Found(p) = p.A.bal
         /\ ~Valid(p) /\ ValidA(p) /\ ~ValidB(p) => Found(p) = p.B.bal
<1>1. ASSUME ~Valid(p), ValidA(p), ValidB(p)  PROVE Found(p) = p.A.bal
  <2> DEFINE h == [len |-> "A", kind |-> "ok"]
  <2>1. h \in Headers /\ h.len = "A"
    BY DEF Headers
  <2>2. Recovered(p) = [p EXCEPT !.hdr = h]
    BY <1>1 DEF Recovered
  <2> HIDE DEF h
  <2>3. Recovered(p).hdr = h /\ Recovered(p).A = p.A
    BY <2>1, <2>2 DEF Files
  <2>4. GetBalance(Recovered(p)) = p.A.bal
    BY <2>1, <2>3 DEF GetBalance
  <2> QED  BY <1>1, <2>4 DEF Found
<1>2. ASSUME ~Valid(p), ValidA(p), ~ValidB(p)  PROVE Found(p) = p.B.bal
  <2>1. GetBalance(Recovered(p)) = p.B.bal
    BY <1>2 DEF Recovered, GetBalance
  <2> QED  BY <1>2, <2>1 DEF Found
<1> QED  BY <1>1, <1>2 DEF Found

LEMMA RecoveredFixes ==
  ASSUME NEW p \in Files, ~Valid(p), ValidA(p)
  PROVE  Recovered(p) \in Files /\ Fixes(p, Recovered(p))
<1>1. p.hdr.kind = "ok" /\ p.A.crc /\ p.hdr.len \in {"B", "?"}
  BY HeaderFields DEF Valid, ValidA
<1>2. CASE ValidB(p)
  <2> DEFINE h == [len |-> "A", kind |-> "ok"]
  <2>1. h \in Headers /\ h.len = "A" /\ h.kind = "ok"
    BY DEF Headers
  <2>2. Recovered(p) = [p EXCEPT !.hdr = h]
    BY <1>2 DEF Recovered
  <2> HIDE DEF h
  <2>3. /\ Recovered(p) \in Files /\ Recovered(p).hdr = h
        /\ Recovered(p).A = p.A /\ Recovered(p).B = p.B
    BY <2>1, <2>2 DEF Files
  <2>4. p.hdr.len = "?"
    BY <1>1, <1>2 DEF Valid
  <2> QED  BY <1>1, <1>2, <2>1, <2>3, <2>4 DEF Fixes
<1>3. CASE ~ValidB(p)
  <2> DEFINE h == [len |-> "B", kind |-> "ok"]
             r == [bal |-> p.B.bal, id |-> p.B.id, crc |-> TRUE, over |-> p.A]
  <2>1. h \in Headers /\ h.len = "B" /\ h.kind = "ok"
    BY DEF Headers
  <2>2. r \in RecordsB /\ r.bal = p.B.bal /\ r.crc /\ r.over = p.A
    BY DEF Files, RecordsB
  <2>3. Recovered(p) = [hdr |-> h, A |-> p.A, B |-> r]
    BY <1>3 DEF Recovered
  <2> HIDE DEF h, r
  <2>4. /\ Recovered(p) \in Files /\ Recovered(p).hdr = h
        /\ Recovered(p).A = p.A /\ Recovered(p).B = r
    BY <2>1, <2>2, <2>3 DEF Files
  <2>5. ValidB(Recovered(p))
    BY <2>1, <2>2, <2>4 DEF ValidB
  <2>6. \/ p.hdr.len = "?"
        \/ p.hdr.len = "B"
    BY <1>1
  <2> QED  BY <1>1, <2>1, <2>2, <2>4, <2>5, <2>6 DEF Fixes
<1> QED  BY <1>2, <1>3

\* A sound page is found to hold one of the two balances, with the exceptions
\* that Atomic names.
LEMMA SoundFound ==
  ASSUME NEW p \in Files, NEW b \in Balances, NEW a \in Balances, Sound(p, b, a)
  PROVE  \/ Found(p) \in {b, a}
         \/ ~Whole(p) /\ Found(p) = Rejected
         \/ ~Whole(p) /\ p.hdr.len # "A" /\ ~p.B.crc
<1> USE HeaderFields
<1>1. CASE p.hdr.kind = "torn"
  BY <1>1, FoundCases DEF Valid, ValidA, ValidB, Whole
<1> SUFFICES ASSUME p.hdr.kind = "ok", p.hdr.len = "A" \/ p.B.crc
             PROVE  \/ Found(p) \in {b, a}
                    \/ Found(p) = Rejected /\ ~p.A.crc
  BY <1>1 DEF Whole
<1>2. CASE p.hdr.len = "A"
  BY <1>2, FoundCases DEF Sound, Valid, ValidA, ValidB, GetBalance
<1>3. CASE p.hdr.len = "B"
  BY <1>3, FoundCases DEF Sound, Valid, ValidA, ValidB, GetBalance
<1>4. CASE p.hdr.len = "?"
  BY <1>4, FoundCases DEF Sound, Valid, ValidA, ValidB
<1> QED  BY <1>2, <1>3, <1>4

LEMMA TargetFound ==
  ASSUME NEW f \in Files, NEW o \in Files, NEW a \in Balances, Valid(o), Target(f, o, a)
  PROVE  Valid(f) /\ Found(f) = a
<1>1. o.hdr.len \in {"A", "B"}
  BY DEF Valid
<1>2. Valid(f) /\ GetBalance(f) = a
  BY <1>1 DEF Target, SealedA, SealedB, Valid, ValidA, ValidB, GetBalance
<1> QED  BY <1>2, FoundCases

----------------------------------------------------------------------------
(* A debit from o to a: where it starts, and what it makes of half a write *)

LEMMA SealedUpdates ==
  ASSUME NEW p \in Files, NEW b \in Balances
  PROVE  Sealed(p, Other(p), b) \in Files /\ Updates(p, Sealed(p, Other(p), b))
<1>1. Other(p) \in {"A", "B"}
  BY DEF Other
<1> DEFINE f == Sealed(p, Other(p), b)
<1>2. /\ f \in Files /\ f.hdr.kind = "ok" /\ f.hdr.len = Other(p)
      /\ Other(p) = "A" => SealedA(f, b) /\ f.B = p.B
      /\ Other(p) = "B" => SealedB(f, b) /\ f.A = p.A
  BY <1>1, SealedType
<1> HIDE DEF f
<1>3. Updates(p, f)
  BY <1>2 DEF Other, Updates, SealedA, SealedB
<1> QED  BY <1>2, <1>3 DEF f

LEMMA SealedTarget ==
  ASSUME NEW o \in Files, NEW a \in Balances, Valid(o)
  PROVE  /\ Target(Sealed(o, Other(o), a), o, a) /\ Half(o, o, a)
         /\ Sound(o, GetBalance(o), a)
<1>1. Other(o) \in {"A", "B"} /\ o.hdr.len \in {"A", "B"}
  BY DEF Other, Valid
<1> DEFINE f == Sealed(o, Other(o), a)
<1>2. /\ f.hdr.kind = "ok" /\ f.hdr.len = Other(o)
      /\ Other(o) = "A" => SealedA(f, a) /\ f.B = o.B
      /\ Other(o) = "B" => SealedB(f, a) /\ f.A = o.A
  BY <1>1, SealedType
<1> HIDE DEF f
<1>3. Target(f, o, a)
  BY <1>1, <1>2 DEF Other, Target
<1>4. Half(o, o, a)
  BY DEF Half
<1>5. Sound(o, GetBalance(o), a)
  BY <1>1 DEF Sound, GetBalance
<1> QED  BY <1>3, <1>4, <1>5 DEF f

LEMMA RetryTarget ==
  ASSUME NEW p \in Files, NEW o \in Files, NEW a \in Balances, Valid(o),
         Half(p, o, a), p # o
  PROVE  Target(UpdateServiceData(p), o, a)
<1>1. p.hdr = o.hdr /\ p.hdr.len \in {"A", "B"}
  BY DEF Half, Valid
<1>2. CASE p.hdr.len = "A"
  <2>1. p.A = o.A /\ SealedB(p, a)
    BY <1>1, <1>2, SameFile DEF Half
  <2>2. UpdateServiceData(p) = Sealed(p, "B", a)
    BY <1>2, <2>1 DEF UpdateServiceData, Other, SealedB
  <2> DEFINE f == Sealed(p, "B", a)
  <2>3. f.hdr.kind = "ok" /\ f.hdr.len = "B" /\ SealedB(f, a) /\ f.A = p.A
    BY SealedType
  <2> HIDE DEF f
  <2>4. Target(f, o, a)
    BY <1>1, <1>2, <2>1, <2>3 DEF Target
  <2> QED  BY <2>2, <2>4 DEF f
<1>3. CASE p.hdr.len = "B"
  <2>1. p.B = o.B /\ SealedA(p, a)
    BY <1>1, <1>3, SameFile DEF Half
  <2>2. UpdateServiceData(p) = Sealed(p, "A", a)
    BY <1>3, <2>1 DEF UpdateServiceData, Other, SealedA
  <2> DEFINE f == Sealed(p, "A", a)
  <2>3. f.hdr.kind = "ok" /\ f.hdr.len = "A" /\ SealedA(f, a) /\ f.B = p.B
    BY SealedType
  <2> HIDE DEF f
  <2>4. Target(f, o, a)
    BY <1>1, <1>3, <2>1, <2>3 DEF Target
  <2> QED  BY <2>2, <2>4 DEF f
<1> QED  BY <1>1, <1>2, <1>3

LEMMA RetryUpdates ==
  ASSUME NEW p \in Files
  PROVE  UpdateServiceData(p) \in Files /\ Updates(p, UpdateServiceData(p))
<1>1. (IF Other(p) = "A" THEN p.A.bal ELSE p.B.bal) \in Balances
  BY HeaderFields
<1> QED  BY <1>1, SealedUpdates DEF UpdateServiceData

----------------------------------------------------------------------------
(* One segment of a write of f to p *)

Writes(p, f) == p # f /\ (Updates(p, f) \/ Fixes(p, f))

LEMMA PutUpdates ==
  ASSUME NEW p \in Files, NEW f \in Files, p # f, Updates(p, f)
  PROVE  Updates(Put(p, NextSegment(p, f), f), f)
<1> DEFINE s == NextSegment(p, f)
           q == Put(p, s, f)
<1>1. /\ s \in {"header", "A", "B"}
      /\ s = "B" => p.B # f.B
      /\ s = "A" => p.B = f.B /\ p.A # f.A
      /\ s = "header" => p.B = f.B /\ p.A = f.A
  BY NextSegmentType
<1> HIDE DEF s
<1>2. /\ q \in Files
      /\ s = "header" => q.hdr = f.hdr /\ q.A = p.A /\ q.B = p.B
      /\ s = "A" => q.hdr = p.hdr /\ q.A = f.A /\ q.B = p.B
      /\ s = "B" => q.hdr = p.hdr /\ q.A = p.A /\ q.B = f.B
  BY <1>1, PutType
<1> HIDE DEF q
<1>3. CASE s = "header"
  <2>1. q = f
    BY <1>1, <1>2, <1>3, SameFile
  <2> QED  BY <2>1 DEF Updates, q, s
<1>4. CASE s = "A"
  BY <1>1, <1>2, <1>4 DEF Updates, q, s
<1>5. CASE s = "B"
  BY <1>1, <1>2, <1>5 DEF Updates, q, s
<1> QED  BY <1>1, <1>3, <1>4, <1>5

LEMMA PutFixes ==
  ASSUME NEW p \in Files, NEW f \in Files, p # f, Fixes(p, f)
  PROVE  Fixes(Put(p, NextSegment(p, f), f), f)
<1> DEFINE s == NextSegment(p, f)
           q == Put(p, s, f)
<1>1. /\ s \in {"header", "A", "B"}
      /\ s = "B" => p.B # f.B
      /\ s = "A" => p.B = f.B /\ p.A # f.A
      /\ s = "header" => p.B = f.B /\ p.A = f.A
  BY NextSegmentType
<1> HIDE DEF s
<1>2. /\ q \in Files
      /\ s = "header" => q.hdr = f.hdr /\ q.A = p.A /\ q.B = p.B
      /\ s = "A" => q.hdr = p.hdr /\ q.A = f.A /\ q.B = p.B
      /\ s = "B" => q.hdr = p.hdr /\ q.A = p.A /\ q.B = f.B
  BY <1>1, PutType
<1> HIDE DEF q
<1>3. CASE s = "header"
  BY <1>1, <1>2, <1>3 DEF Fixes, ValidB, q, s
<1>4. CASE s = "A"
  BY <1>1, <1>2, <1>4 DEF Fixes, q, s
<1>5. CASE s = "B"
  BY <1>1, <1>2, <1>5 DEF Fixes, ValidB, q, s
<1> QED  BY <1>1, <1>3, <1>4, <1>5

\* Neither ever tears a page that was whole.
LEMMA PutWhole ==
  ASSUME NEW p \in Files, NEW f \in Files, Writes(p, f), Whole(p)
  PROVE  Whole(Put(p, NextSegment(p, f), f))
<1> DEFINE s == NextSegment(p, f)
           q == Put(p, s, f)
<1>1. /\ s \in {"header", "A", "B"}
      /\ s = "header" => p.B = f.B
  BY NextSegmentType DEF Writes
<1> HIDE DEF s
<1>2. /\ s = "header" => q.hdr = f.hdr /\ q.A = p.A /\ q.B = p.B
      /\ s = "A" => q.hdr = p.hdr /\ q.A = f.A /\ q.B = p.B
      /\ s = "B" => q.hdr = p.hdr /\ q.A = p.A /\ q.B = f.B
  BY <1>1, PutType
<1> HIDE DEF q
<1>3. /\ f.hdr.kind = "ok" /\ f.A.crc /\ f.hdr.len \in {"A", "B"}
      /\ f.hdr.len = "B" => f.B.crc
      /\ p.hdr.len = "B" => f.B.crc
  BY DEF Writes, Updates, Fixes, Whole, ValidB
<1>4. CASE s = "header"
  BY <1>1, <1>2, <1>3, <1>4 DEF Whole, q, s
<1>5. CASE s = "A"
  BY <1>2, <1>3, <1>5 DEF Whole, q, s
<1>6. CASE s = "B"
  BY <1>2, <1>3, <1>6 DEF Whole, q, s
<1> QED  BY <1>1, <1>4, <1>5, <1>6

LEMMA PutHalf ==
  ASSUME NEW p \in Files, NEW f \in Files, NEW o \in Files, NEW a \in Balances,
         p # f, Valid(o), Half(p, o, a), Target(f, o, a)
  PROVE  Half(Put(p, NextSegment(p, f), f), o, a) \/ Put(p, NextSegment(p, f), f) = f
<1> DEFINE s == NextSegment(p, f)
           q == Put(p, s, f)
<1>1. /\ s \in {"header", "A", "B"}
      /\ s = "B" => p.B # f.B
      /\ s = "A" => p.B = f.B /\ p.A # f.A
      /\ s = "header" => p.B = f.B /\ p.A = f.A
  BY NextSegmentType
<1> HIDE DEF s
<1>2. /\ q \in Files
      /\ s = "header" => q.hdr = f.hdr /\ q.A = p.A /\ q.B = p.B
      /\ s = "A" => q.hdr = p.hdr /\ q.A = f.A /\ q.B = p.B
      /\ s = "B" => q.hdr = p.hdr /\ q.A = p.A /\ q.B = f.B
  BY <1>1, PutType
<1> HIDE DEF q
<1>3. o.hdr.len \in {"A", "B"}
  BY DEF Valid
<1>4. CASE s = "header"
  <2>1. q = f
    BY <1>1, <1>2, <1>4, SameFile
  <2> QED  BY <2>1 DEF q, s
<1>5. CASE s = "A"
  <2>1. Half(q, o, a)
    BY <1>1, <1>2, <1>3, <1>5 DEF Half, Target, SealedA
  <2> QED  BY <2>1 DEF q, s
<1>6. CASE s = "B"
  <2>1. Half(q, o, a)
    BY <1>1, <1>2, <1>3, <1>6 DEF Half, Target, SealedB
  <2> QED  BY <2>1 DEF q, s
<1> QED  BY <1>1, <1>4, <1>5, <1>6

LEMMA HalfSound ==
  ASSUME NEW p \in Files, NEW o \in Files, NEW a \in Balances, Valid(o), Half(p, o, a)
  PROVE  Sound(p, GetBalance(o), a)
BY DEF Valid, Half, Sound, GetBalance

\* Half a write that was not torn leaves no record torn.
LEMMA HalfWhole ==
  ASSUME NEW p \in Files, NEW o \in Files, NEW a \in Balances, Valid(o),
         Half(p, o, a), p # o, Whole(p)
  PROVE  ~AnyTorn(p)
<1>1. o.hdr.len \in {"A", "B"} /\ p.hdr \notin TornHeaders
  BY DEF Valid, Whole, TornHeaders
<1>2. p.A.crc /\ p.B.crc
  BY <1>1, SameFile DEF Half, SealedB, Whole
<1> QED  BY <1>1, <1>2 DEF AnyTorn

LEMMA TargetSound ==
  ASSUME NEW p \in Files, NEW o \in Files, NEW b \in Balances, NEW a \in Balances,
         Valid(o), Target(p, o, a)
  PROVE  Sound(p, b, a)
BY DEF Valid, Target, Sound, SealedA, SealedB

\* A recovery leaves the balances of a sound page alone.
LEMMA PutSound ==
  ASSUME NEW p \in Files, NEW f \in Files, NEW b \in Balances, NEW a \in Balances,
         p # f, Fixes(p, f), Sound(p, b, a), p.B.crc
  PROVE  /\ Sound(Put(p, NextSegment(p, f), f), b, a)
         /\ Put(p, NextSegment(p, f), f).B.crc
<1> DEFINE s == NextSegment(p, f)
           q == Put(p, s, f)
<1>1. /\ s \in {"header", "A", "B"}
      /\ s = "B" => p.B # f.B
      /\ s = "A" => p.B = f.B /\ p.A # f.A
      /\ s = "header" => p.B = f.B /\ p.A = f.A
  BY NextSegmentType
<1> HIDE DEF s
<1>2. /\ q \in Files
      /\ s = "header" => q.hdr = f.hdr /\ q.A = p.A /\ q.B = p.B
      /\ s = "A" => q.hdr = p.hdr /\ q.A = f.A /\ q.B = p.B
      /\ s = "B" => q.hdr = p.hdr /\ q.A = p.A /\ q.B = f.B
  BY <1>1, PutType
<1> HIDE DEF q
<1>3. s # "A"
  BY <1>1 DEF Fixes
<1>4. CASE s = "header"
  <2>1. f.hdr.kind = "ok" /\ f.hdr.len \in {"A", "B"} /\ p.hdr.len \in {"?", f.hdr.len}
    BY DEF Fixes
  <2>2. p.hdr.kind = "ok" /\ p.A.crc
    BY DEF Fixes
  <2>3. p.hdr.len = "?"
    BY <1>1, <1>4, <2>1, <2>2, SameHeader, SameFile
  <2>4. p.A.bal \in {b, a} /\ p.B.bal \in {b, a}
    BY <2>2, <2>3 DEF Sound
  <2>5. Sound(q, b, a) /\ q.B.crc
    BY <1>2, <1>4, <2>1, <2>4 DEF Sound
  <2> QED  BY <2>5 DEF q, s
<1>5. CASE s = "B"
  <2>1. p.hdr.kind = "ok" /\ p.A.crc /\ f.B.bal = p.B.bal /\ f.B.crc
    BY <1>1, <1>5 DEF Fixes, ValidB
  <2>2. Sound(q, b, a) /\ q.B.crc
    BY <1>2, <1>5, <2>1 DEF Sound
  <2> QED  BY <2>2 DEF q, s
<1> QED  BY <1>1, <1>3, <1>4, <1>5

\* A torn record is not believed, and a torn header only if both records are good.
LEMMA TornRecordSound ==
  ASSUME NEW p \in Files, NEW s \in {"A", "B"}, NEW q \in Torn(p, s),
         NEW b \in Balances, NEW a \in Balances, Sound(p, b, a)
  PROVE  Sound(q, b, a)
<1>1. /\ s = "A" => q.hdr = p.hdr /\ ~q.A.crc /\ q.B = p.B
      /\ s = "B" => q.hdr = p.hdr /\ q.A = p.A /\ ~q.B.crc
  BY TornType
<1>2. CASE s = "A"
  BY <1>1, <1>2 DEF Sound
<1>3. CASE s = "B"
  BY <1>1, <1>3 DEF Sound
<1> QED  BY <1>2, <1>3

LEMMA TornHeaderSound ==
  ASSUME NEW p \in Files, NEW q \in Torn(p, "header"),
         NEW b \in Balances, NEW a \in Balances,
         p.A.bal \in {b, a}, p.B.bal \in {b, a}
  PROVE  Sound(q, b, a)
<1>1. q.A = p.A /\ q.B = p.B
  BY TornType
<1> QED  BY <1>1 DEF Sound

LEMMA TornHalf ==
  ASSUME NEW p \in Files, NEW f \in Files, NEW o \in Files, NEW a \in Balances,
         p # f, Valid(o), Half(p, o, a), Target(f, o, a),
         NEW q \in Torn(p, NextSegment(p, f))
  PROVE  Sound(q, GetBalance(o), a)
<1>1. /\ NextSegment(p, f) \in {"header", "A", "B"}
      /\ NextSegment(p, f) = "header" => p.B = f.B /\ p.A = f.A
  BY NextSegmentType
<1>2. GetBalance(o) \in Balances
  BY HeaderFields DEF GetBalance
<1>3. Sound(p, GetBalance(o), a)
  BY HalfSound
<1>4. CASE NextSegment(p, f) = "header"
  <2>1. p.A.bal \in {GetBalance(o), a} /\ p.B.bal \in {GetBalance(o), a}
    BY <1>1, <1>4 DEF Valid, Half, Target, GetBalance, SealedA, SealedB
  <2> QED  BY <1>2, <1>4, <2>1, TornHeaderSound
<1>5. CASE NextSegment(p, f) # "header"
  BY <1>1, <1>2, <1>3, <1>5, TornRecordSound
<1> QED  BY <1>4, <1>5

LEMMA TornFixed ==
  ASSUME NEW p \in Files, NEW f \in Files, NEW b \in Balances, NEW a \in Balances,
         p # f, Fixes(p, f), Sound(p, b, a), p.B.crc,
         NEW q \in Torn(p, NextSegment(p, f))
  PROVE  Sound(q, b, a)
<1>1. /\ NextSegment(p, f) \in {"header", "A", "B"}
      /\ NextSegment(p, f) = "header" => p.B = f.B /\ p.A = f.A
  BY NextSegmentType
<1>2. CASE NextSegment(p, f) = "header"
  <2>1. f.hdr.kind = "ok" /\ f.hdr.len \in {"A", "B"} /\ p.hdr.len \in {"?", f.hdr.len}
    BY DEF Fixes
  <2>2. p.hdr.kind = "ok" /\ p.A.crc
    BY DEF Fixes
  <2>3. p.hdr.len = "?"
    BY <1>1, <1>2, <2>1, <2>2, SameHeader, SameFile
  <2>4. p.A.bal \in {b, a} /\ p.B.bal \in {b, a}
    BY <2>2, <2>3 DEF Sound
  <2> QED  BY <1>2, <2>4, TornHeaderSound
<1>3. CASE NextSegment(p, f) # "header"
  BY <1>1, <1>3, TornRecordSound
<1> QED  BY <1>2, <1>3

----------------------------------------------------------------------------
(* The inductive invariant: types *)

LEMMA InitTypes == Init => Types
<1> SUFFICES ASSUME Init PROVE Types
  OBVIOUS
<1> DEFINE a == [bal |-> Initial, id |-> 1 % IDs, crc |-> TRUE]
           h == [len |-> "A", kind |-> "ok"]
<1>1. 1 % IDs \in TransIDs /\ 0 \in TransIDs /\ Initial \in Balances
  BY DebitAssumption DEF TransIDs, Balances
<1>2. a \in RecordsA
  BY <1>1 DEF RecordsA
<1>3. h \in Headers
  BY DEF Headers
<1> DEFINE b == [bal |-> Initial, id |-> 0, crc |-> FALSE, over |-> a]
<1>4. b \in RecordsB
  BY <1>1, <1>2 DEF RecordsB
<1>5. Fresh = [hdr |-> h, A |-> a, B |-> b]
  BY DEF Fresh
<1> HIDE DEF a, h, b
<1>6. Fresh \in Files
  BY <1>2, <1>3, <1>4, <1>5 DEF Files
<1> QED  BY <1>1, <1>6 DEF Init, Types

LEMMA TornIsTyped ==
  ASSUME NEW p \in Files, NEW s \in {"header", "A", "B"}
  PROVE  Torn(p, s) \subseteq Files
BY TornType

LEMMA AgainTypes ==
  ASSUME cnt \in Nat, Again
  PROVE  cnt' \in Nat /\ pc' \in {"check", "away"}
BY DEF Again

LEMMA ReturnTypes ==
  ASSUME Types, NEW ok \in BOOLEAN, Return(ok)
  PROVE  /\ file' \in Files /\ oldAcct' \in Files /\ newAcct' \in Files
         /\ pc' \in {"away", "ready", "read", "write", "check"}
         /\ by' \in {"debit", "retry", "recover"}
         /\ verify' \in BOOLEAN /\ success' \in BOOLEAN /\ cnt' \in Nat
         /\ before' \in Balances /\ after' \in Balances /\ spoiled' \in BOOLEAN
BY AgainTypes DEF Types, Return, history, locals

LEMMA TypesStep ==
  ASSUME Types, [Next]_vars
  PROVE  Types'
<1> USE DEF Types
<1>1. CASE UNCHANGED vars
  BY <1>1 DEF vars, locals, history
<1>2. CASE Accept \/ Reject
  BY <1>2 DEF Accept, Reject, locals, history
<1>3. CASE Recover
  <2>1. Recovered(page) \in Files
    BY <1>3, RecoveredFixes DEF Recover
  <2> QED  BY <1>3, <2>1 DEF Recover, locals
<1>4. CASE RefreshTears
  <2>1. page' \in Files
    BY <1>4, TornIsTyped DEF RefreshTears
  <2>2. pc' \in {"away", "check"} /\ cnt' \in Nat
    BY <1>4, AgainTypes DEF RefreshTears
  <2>3. spoiled' \in BOOLEAN
    BY <1>4 DEF RefreshTears
  <2>4. torn' \in Nat
    BY <1>4 DEF RefreshTears
  <2> QED  BY <1>4, <2>1, <2>2, <2>3, <2>4 DEF RefreshTears
<1>5. CASE Execute
  <2>1. GetBalance(file) \in Balances
    BY HeaderFields DEF GetBalance
  <2>2. PICK m \in Amounts, v \in BOOLEAN :
          after' = (GetBalance(file) - m) % Limit /\ verify' = v
    BY <1>5 DEF Execute
  <2>3. after' \in Balances
    BY <2>1, <2>2, DebitAssumption DEF Balances
  <2>4. file' \in Files
    BY <1>5, <2>3, SealedUpdates DEF Execute
  <2> QED  BY <1>5, <2>1, <2>2, <2>3, <2>4, DebitAssumption DEF Execute
<1>6. CASE NoMoney \/ ReadPage \/ Leave
  BY <1>6 DEF NoMoney, ReadPage, Leave, locals, history
<1>7. CASE ReadFails
  BY <1>7, ReturnTypes DEF ReadFails
<1>8. CASE Written
  BY <1>8, ReturnTypes DEF Written
<1>9. ASSUME NEW s \in {"header", "A", "B"}, WriteSegment(s)  PROVE Types'
  BY <1>9, PutType DEF WriteSegment, locals, history
<1>10. ASSUME NEW s \in {"header", "A", "B"}, WriteFails(s)  PROVE Types'
  <2>1. page' \in Files
    BY <1>10, PutType DEF WriteFails
  <2> QED  BY <1>10, <2>1, ReturnTypes DEF WriteFails
<1>11. ASSUME NEW s \in {"header", "A", "B"}, WriteTears(s)  PROVE Types'
  <2>1. page' \in Files
    BY <1>11, TornIsTyped DEF WriteTears
  <2>2. torn' \in Nat
    BY <1>11 DEF WriteTears
  <2> QED  BY <1>11, <2>1, <2>2, ReturnTypes DEF WriteTears
<1>12. CASE LooksRight \/ NotUpdated
  BY <1>12 DEF LooksRight, NotUpdated, locals, history
<1>13. CASE Retry
  BY <1>13, RetryUpdates DEF Retry, locals
<1>14. CASE VerifyFails
  BY <1>14, AgainTypes DEF VerifyFails, history
<1> QED
  BY <1>1, <1>2, <1>3, <1>4, <1>5, <1>6, <1>7, <1>8, <1>9, <1>10, <1>11, <1>12,
     <1>13, <1>14 DEF Next

----------------------------------------------------------------------------
(* The inductive invariant: steps *)

LEMMA InitInv == Init => DebitInv
<1> SUFFICES ASSUME Init PROVE DebitInv
  OBVIOUS
<1>1. Types
  BY InitTypes
<1>2. /\ page.hdr.len = "A" /\ page.hdr.kind = "ok" /\ page.A.crc
      /\ page.A.bal = Initial /\ Whole(page)
  BY DEF Init, Fresh, Whole
<1>3. Sound(page, before, after)
  BY <1>2 DEF Sound, Init
<1> QED
  BY <1>1, <1>2, <1>3
  DEF DebitInv, Ready, OnItsWay, OldAccount, Debiting, Untorn, Unspoiled, Busy, Init

\* Away from the token only the balances in the page matter.
LEMMA AwayStep ==
  ASSUME DebitInv, Types', pc' = "away", ~spoiled' => Sound(page, before, after)',
         Untorn'
  PROVE  DebitInv'
BY DEF DebitInv, Ready, OnItsWay, OldAccount, Debiting, Unspoiled, Busy

\* A write that starts, goes on or ends has the old account it had.
LEMMA CheckStep ==
  ASSUME DebitInv, Types', pc' = "check", Untorn', OldAccount',
         ~spoiled' => /\ Sound(page, before, after)'
                      /\ Target(newAcct, oldAcct, after)'
                      /\ (\/ page = newAcct
                          \/ Half(page, oldAcct, after)
                          \/ torn > 0 /\ AnyTorn(page))'
  PROVE  DebitInv'
BY DEF DebitInv, Ready, OnItsWay, Unspoiled, Busy

LEMMA FixedValid ==
  ASSUME NEW p \in Files, Fixes(p, p)
  PROVE  Valid(p)
BY DEF Fixes, Valid, ValidA, ValidB

\* The end of a write, with what the last segment has left.
LEMMA ReturnStep ==
  ASSUME DebitInv, Types', Busy, NEW ok \in BOOLEAN, Return(ok), Untorn',
         ok => page' = page /\ page = file,
         ~spoiled => Sound(page', before, after),
         ~spoiled /\ by # "recover" =>
           \/ page' = file
           \/ Half(page', oldAcct, after)
           \/ torn' > 0 /\ AnyTorn(page')
  PROVE  DebitInv'
<1>1. spoiled' = spoiled /\ before' = before /\ after' = after /\ file' = file /\ by' = by
  BY DEF Return, history
<1>2. CASE pc' = "away"
  BY <1>1, <1>2, AwayStep
<1>3. CASE pc' = "check"
  <2>1. by # "recover" /\ newAcct' = file /\ oldAcct' = oldAcct
    BY <1>3 DEF Return
  <2>2. OldAccount'
    BY <1>1, <2>1 DEF DebitInv, OldAccount, Debiting
  <2>3. ~spoiled' => Target(newAcct, oldAcct, after)'
    BY <1>1, <2>1 DEF DebitInv, Unspoiled
  <2> QED  BY <1>1, <1>3, <2>1, <2>2, <2>3, CheckStep
<1>4. CASE pc' = "ready"
  <2>1. ok /\ by = "recover"
    BY <1>4 DEF Return, Again
  <2>2. page' = file' /\ Valid(file')
    BY <1>1, <2>1, FixedValid DEF DebitInv, OnItsWay, Types
  <2> QED
    BY <1>1, <1>4, <2>2
    DEF DebitInv, Ready, OnItsWay, OldAccount, Debiting, Unspoiled, Busy
<1>5. pc' \in {"away", "check", "ready"}
  BY DEF Return, Again
<1> QED  BY <1>2, <1>3, <1>4, <1>5

\* A segment that was written.
LEMMA PutStep ==
  ASSUME DebitInv, Busy, page # file
  PROVE  LET q == Put(page, NextSegment(page, file), file)
         IN  /\ by = "recover" => Fixes(q, file)
             /\ by # "recover" => Updates(q, file)
             /\ torn = 0 => Whole(q)
             /\ ~spoiled => Sound(q, before, after)
             /\ ~spoiled /\ by = "recover" => q.B.crc
             /\ ~spoiled /\ by # "recover" => q = file \/ Half(q, oldAcct, after)
<1> DEFINE q == Put(page, NextSegment(page, file), file)
<1>0. /\ page \in Files /\ file \in Files /\ oldAcct \in Files
      /\ before \in Balances /\ after \in Balances
  BY DEF DebitInv, Types
<1>1. by = "recover" => Fixes(page, file)
  BY DEF DebitInv, OnItsWay
<1>2. by # "recover" => Updates(page, file)
  BY DEF DebitInv, OnItsWay
<1>3. by = "recover" => Fixes(q, file)
  BY <1>0, <1>1, PutFixes
<1>4. by # "recover" => Updates(q, file)
  BY <1>0, <1>2, PutUpdates
<1>5. torn = 0 => Whole(q)
  BY <1>0, <1>1, <1>2, PutWhole DEF Writes, DebitInv, Untorn
<1>6. ~spoiled /\ by = "recover" => Sound(q, before, after) /\ q.B.crc
  <2>1. ~spoiled /\ by = "recover" => Sound(page, before, after) /\ page.B.crc
    BY DEF DebitInv, Unspoiled
  <2> QED  BY <1>0, <1>1, <2>1, PutSound
<1>7. ASSUME ~spoiled, by # "recover"
      PROVE  Sound(q, before, after) /\ (q = file \/ Half(q, oldAcct, after))
  <2>1. /\ Target(file, oldAcct, after) /\ Half(page, oldAcct, after)
        /\ Valid(oldAcct) /\ GetBalance(oldAcct) = before
    BY <1>7 DEF DebitInv, Unspoiled, OldAccount, Debiting
  <2>2. q = file \/ Half(q, oldAcct, after)
    BY <1>0, <2>1, PutHalf
  <2>3. q \in Files
    BY <1>0, NextSegmentType, PutType
  <2> HIDE DEF q
  <2>4. Sound(q, before, after)
    BY <1>0, <2>1, <2>2, <2>3, HalfSound, TargetSound
  <2> QED  BY <2>2, <2>4
<1> QED  BY <1>3, <1>4, <1>5, <1>6, <1>7

\* A segment that was torn.
LEMMA TornStep ==
  ASSUME DebitInv, Busy, page # file, ~spoiled,
         NEW q \in Torn(page, NextSegment(page, file))
  PROVE  Sound(q, before, after)
<1>0. /\ page \in Files /\ file \in Files /\ oldAcct \in Files
      /\ before \in Balances /\ after \in Balances
  BY DEF DebitInv, Types
<1>1. CASE by = "recover"
  <2>1. Sound(page, before, after) /\ page.B.crc /\ Fixes(page, file)
    BY <1>1 DEF DebitInv, Unspoiled, OnItsWay
  <2> QED  BY <1>0, <2>1, TornFixed
<1>2. CASE by # "recover"
  <2>1. /\ Target(file, oldAcct, after) /\ Half(page, oldAcct, after)
        /\ Valid(oldAcct) /\ GetBalance(oldAcct) = before
    BY <1>2 DEF DebitInv, Unspoiled, OldAccount, Debiting
  <2> QED  BY <1>0, <2>1, TornHalf
<1> QED  BY <1>1, <1>2

LEMMA RecoverStep == ASSUME DebitInv, Recover, Types'  PROVE DebitInv'
<1>1. page' = page /\ page \in Files /\ torn' = torn /\ before' = before /\ after' = after
  BY DEF Recover, DebitInv, Types
<1>2. Fixes(page, file')
  BY <1>1, RecoveredFixes DEF Recover
<1>3. ~spoiled' => ~spoiled /\ page.B.crc
  BY DEF Recover
<1>4. Untorn'
  <2>1. torn = 0 => Whole(page) /\ ~spoiled
    BY DEF DebitInv, Untorn
  <2>2. Whole(page) => page.hdr.len = "B" /\ page.B.crc
    BY DEF Recover, Whole, Valid, ValidA
  <2>3. torn = 0 => ~spoiled'
    BY <2>1, <2>2 DEF Recover
  <2> QED  BY <1>1, <2>1, <2>3 DEF Untorn
<1> QED
  BY <1>1, <1>2, <1>3, <1>4
  DEF Recover, DebitInv, Ready, OnItsWay, OldAccount, Debiting, Unspoiled, Busy

LEMMA RefreshStep == ASSUME DebitInv, RefreshTears, Types'  PROVE DebitInv'
<1>1. /\ page \in Files /\ before \in Balances /\ after \in Balances /\ torn \in Nat
      /\ torn' = torn + 1 /\ before' = before /\ after' = after
      /\ oldAcct' = oldAcct /\ newAcct' = newAcct
  BY DEF RefreshTears, DebitInv, Types
<1>2. PICK s \in {"header", "A", "B"} :
        page' \in Torn(page, s) /\ spoiled' = (spoiled \/ s = "header")
  BY DEF RefreshTears
<1>3. AnyTorn(page')
  BY <1>1, <1>2, TornType
<1>4. ~spoiled' => Sound(page', before, after)
  <2>1. ~spoiled' => ~spoiled /\ s \in {"A", "B"} /\ Sound(page, before, after)
    BY <1>2 DEF DebitInv, Unspoiled
  <2> QED  BY <1>1, <1>2, <2>1, TornRecordSound
<1>5. Untorn'
  BY <1>1 DEF Untorn
<1>6. pc' \in {"away", "check"} /\ (pc' = "check" => pc = "check")
  BY DEF RefreshTears, Again
<1>7. CASE pc' = "away"
  BY <1>1, <1>4, <1>5, <1>7, AwayStep
<1>8. CASE pc' = "check"
  <2>1. pc = "check"
    BY <1>6, <1>8
  <2>2. OldAccount'
    BY <1>1, <2>1 DEF DebitInv, OldAccount, Debiting
  <2>3. ~spoiled' => Target(newAcct, oldAcct, after)
    BY <1>2, <2>1 DEF DebitInv, Unspoiled
  <2> QED  BY <1>1, <1>3, <1>4, <1>5, <1>8, <2>2, <2>3, CheckStep
<1> QED  BY <1>6, <1>7, <1>8

LEMMA ExecuteStep == ASSUME DebitInv, Execute, Types'  PROVE DebitInv'
<1>1. /\ file = page /\ Valid(page) /\ page' = page /\ oldAcct' = page
      /\ before' = GetBalance(page) /\ torn' = torn /\ page \in Files
      /\ after' \in Balances /\ pc' = "read" /\ by' = "debit" /\ spoiled' = FALSE
  BY DEF Execute, DebitInv, Ready, Types
<1>2. file' = Sealed(page, Other(page), after')
  BY <1>1 DEF Execute
<1>3. Updates(page, file')
  BY <1>1, <1>2, SealedUpdates
<1>4. /\ Target(file', page, after') /\ Half(page, page, after')
      /\ Sound(page, GetBalance(page), after')
  BY <1>1, <1>2, SealedTarget
<1>5. Untorn'
  BY <1>1 DEF DebitInv, Untorn
<1> QED
  BY <1>1, <1>3, <1>4, <1>5
  DEF DebitInv, Ready, OnItsWay, OldAccount, Debiting, Unspoiled, Busy

LEMMA RetryStep == ASSUME DebitInv, Retry, Types'  PROVE DebitInv'
<1>1. /\ page' = page /\ page \in Files /\ oldAcct \in Files /\ after \in Balances
      /\ before' = before /\ after' = after /\ oldAcct' = oldAcct /\ torn' = torn
      /\ pc = "check" /\ pc' = "read" /\ by' = "retry" /\ page # newAcct /\ page # oldAcct
      /\ file' = UpdateServiceData(page)
  BY DEF Retry, DebitInv, Types, locals
<1>2. Updates(page, file')
  BY <1>1, RetryUpdates
<1>3. Valid(oldAcct) /\ GetBalance(oldAcct) = before
  BY <1>1 DEF DebitInv, OldAccount, Debiting
<1>4. ASSUME ~spoiled'
      PROVE  /\ Sound(page, before, after) /\ Half(page, oldAcct, after)
             /\ Target(file', oldAcct, after)
  <2>1. ~spoiled /\ ~AnyTorn(page)
    BY <1>4 DEF Retry
  <2>2. Sound(page, before, after) /\ Half(page, oldAcct, after)
    BY <1>1, <2>1 DEF DebitInv, Unspoiled
  <2> QED  BY <1>1, <1>3, <2>2, RetryTarget
<1>5. Untorn'
  <2>1. ASSUME torn = 0  PROVE ~AnyTorn(page)
    <3>1. Whole(page) /\ ~spoiled
      BY <2>1 DEF DebitInv, Untorn
    <3>2. Half(page, oldAcct, after)
      BY <1>1, <2>1, <3>1 DEF DebitInv, Unspoiled
    <3> QED  BY <1>1, <1>3, <3>1, <3>2, HalfWhole
  <2> QED  BY <1>1, <2>1 DEF Retry, DebitInv, Untorn
<1> QED
  BY <1>1, <1>2, <1>3, <1>4, <1>5
  DEF DebitInv, Ready, OnItsWay, OldAccount, Debiting, Unspoiled, Busy

LEMMA WriteSegmentStep ==
  ASSUME DebitInv, NEW s \in {"header", "A", "B"}, WriteSegment(s), Types'
  PROVE  DebitInv'
<1>1. /\ Busy /\ page # file /\ pc' = pc /\ by' = by /\ file' = file
      /\ page' = Put(page, NextSegment(page, file), file)
      /\ oldAcct' = oldAcct /\ spoiled' = spoiled /\ torn' = torn
      /\ before' = before /\ after' = after
  BY DEF WriteSegment, Writing, Busy, locals, history
<1>2. /\ by = "recover" => Fixes(page', file)
      /\ by # "recover" => Updates(page', file)
      /\ torn = 0 => Whole(page')
      /\ ~spoiled => Sound(page', before, after)
      /\ ~spoiled /\ by = "recover" => page'.B.crc
      /\ ~spoiled /\ by # "recover" => page' = file \/ Half(page', oldAcct, after)
  BY <1>1, PutStep
<1> QED
  BY <1>1, <1>2
  DEF DebitInv, Ready, OnItsWay, OldAccount, Debiting, Untorn, Unspoiled, Busy

LEMMA WriteFailsStep ==
  ASSUME DebitInv, NEW s \in {"header", "A", "B"}, WriteFails(s), Types'
  PROVE  DebitInv'
<1>1. /\ Busy /\ page # file /\ torn' = torn /\ Return(FALSE)
      /\ \/ page' = page
         \/ page' = Put(page, NextSegment(page, file), file)
  BY DEF WriteFails, Writing, Busy
<1>2. torn = 0 => Whole(page')
  BY <1>1, PutStep DEF DebitInv, Untorn
<1>3. ~spoiled => Sound(page', before, after)
  BY <1>1, PutStep DEF DebitInv, Unspoiled
<1>4. ~spoiled /\ by # "recover" => page' = file \/ Half(page', oldAcct, after)
  BY <1>1, PutStep DEF DebitInv, Unspoiled
<1>5. Untorn'
  BY <1>1, <1>2 DEF DebitInv, Untorn, Return, history
<1> QED  BY <1>1, <1>3, <1>4, <1>5, ReturnStep

LEMMA WriteTearsStep ==
  ASSUME DebitInv, NEW s \in {"header", "A", "B"}, WriteTears(s), Types'
  PROVE  DebitInv'
<1>1. /\ Busy /\ page # file /\ torn' = torn + 1 /\ torn \in Nat /\ Return(FALSE)
      /\ page' \in Torn(page, s) /\ s = NextSegment(page, file) /\ page \in Files
  BY DEF WriteTears, Writing, Busy, DebitInv, Types
<1>2. AnyTorn(page')
  BY <1>1, TornType
<1>3. ~spoiled => Sound(page', before, after)
  BY <1>1, TornStep
<1>4. Untorn'
  BY <1>1 DEF Untorn
<1>5. torn' > 0
  BY <1>1
<1> QED  BY <1>1, <1>2, <1>3, <1>4, <1>5, ReturnStep

LEMMA InvStep ==
  ASSUME DebitInv, [Next]_vars
  PROVE  DebitInv'
<1>0. Types'
  BY TypesStep DEF DebitInv
<1>1. CASE UNCHANGED vars
  BY <1>0, <1>1
  DEF vars, locals, history, DebitInv, Ready, OnItsWay, OldAccount, Debiting, Untorn,
      Unspoiled, Busy
<1>2. CASE Accept
  BY <1>0, <1>2
  DEF Accept, locals, history, DebitInv, Ready, OnItsWay, OldAccount, Debiting, Untorn,
      Unspoiled, Busy
<1>3. CASE Reject
  BY <1>0, <1>3
  DEF Reject, locals, history, DebitInv, Ready, OnItsWay, OldAccount, Debiting, Untorn,
      Unspoiled, Busy
<1>4. CASE NoMoney \/ Leave
  <2>1. pc' = "away" /\ page' = page /\ before' = before /\ after' = after
        /\ spoiled' = spoiled /\ torn' = torn
    BY <1>4 DEF NoMoney, Leave, history
  <2> QED  BY <1>0, <2>1, AwayStep DEF DebitInv, Untorn, Unspoiled
<1>5. CASE ReadPage
  BY <1>0, <1>5
  DEF ReadPage, locals, history, DebitInv, Ready, OnItsWay, OldAccount, Debiting, Untorn,
      Unspoiled, Busy
<1>6. CASE LooksRight \/ NotUpdated
  <2>1. pc' = "away" /\ page' = page /\ before' = before /\ after' = after
        /\ spoiled' = spoiled /\ torn' = torn
    BY <1>6 DEF LooksRight, NotUpdated, history
  <2> QED  BY <1>0, <2>1, AwayStep DEF DebitInv, Untorn, Unspoiled
<1>7. CASE VerifyFails
  <2>1. pc' \in {"away", "check"} /\ pc = "check"
    BY <1>7 DEF VerifyFails, Again
  <2> QED  BY <1>0, <1>7, <2>1
  DEF VerifyFails, history, DebitInv, Ready, OnItsWay, OldAccount, Debiting, Untorn,
      Unspoiled, Busy
<1>8. CASE ReadFails
  <2>1. Busy /\ Return(FALSE) /\ page' = page /\ torn' = torn
    BY <1>8 DEF ReadFails, Busy
  <2>2. Untorn'
    BY <2>1 DEF DebitInv, Untorn, Return, history
  <2> QED  BY <1>0, <2>1, <2>2, ReturnStep DEF DebitInv, Unspoiled
<1>9. CASE Written
  <2>1. Busy /\ Return(TRUE) /\ page' = page /\ page = file /\ torn' = torn
    BY <1>9 DEF Written, Busy
  <2>2. Untorn'
    BY <2>1 DEF DebitInv, Untorn, Return, history
  <2> QED  BY <1>0, <2>1, <2>2, ReturnStep DEF DebitInv, Unspoiled
<1> QED
  BY <1>0, <1>1, <1>2, <1>3, <1>4, <1>5, <1>6, <1>7, <1>8, <1>9, RecoverStep,
     RefreshStep, ExecuteStep, RetryStep, WriteSegmentStep, WriteFailsStep, WriteTearsStep
  DEF Next

\* Whatever the balances, the number of retries and the segments torn: pages,
\* accounts and locals stay in their types, and a debit that nothing has
\* spoiled keeps the record it started from.
THEOREM DebitInvariant == Spec => []DebitInv
<1>1. DebitInv /\ [Next]_vars => DebitInv'
  BY InvStep
<1> QED  BY <1>1, InitInv, PTL DEF Spec

----------------------------------------------------------------------------
(* Atomic *)

\* A debit that is cut off leaves the balance from before it or the one from
\* after it, for every range of balances and any number of retries.
THEOREM DebitAtomic == Spec => []Atomic
<1>1. ASSUME DebitInv  PROVE Atomic
  <2>1. /\ page \in Files /\ before \in Balances /\ after \in Balances /\ torn \in Nat
        /\ torn = 0 => Whole(page) /\ ~spoiled
        /\ ~spoiled => Sound(page, before, after)
    BY <1>1 DEF DebitInv, Types, Untorn, Unspoiled
  <2>2. torn # 0 => torn > 0
    BY <2>1
  <2> QED  BY <2>1, <2>2, SoundFound DEF Atomic
<1> QED  BY <1>1, DebitInvariant, PTL

----------------------------------------------------------------------------
(* TellsTruth *)

\* The result of a transaction is true of the page it leaves, for every range
\* of balances and any number of retries and torn segments.
THEOREM DebitTellsTruth == Spec => TellsTruth
<1> DEFINE True == result' # result =>
             /\ result' \in {"TRUE", "FALSE"} => Found(page') = after \/ spoiled
             /\ result' = "not updated" => Found(page') = before
<1>1. ASSUME DebitInv, Next  PROVE True
  <2>0. /\ page \in Files /\ oldAcct \in Files /\ newAcct \in Files /\ file \in Files
        /\ after \in Balances
    BY <1>1 DEF DebitInv, Types
  <2>1. ASSUME NEW ok \in BOOLEAN, Return(ok), Busy, ok => page' = page /\ page = file
        PROVE  True
    <3>1. result' = result \/ result' = "catastrophic" \/ (by = "debit" /\ ok /\ result' = "TRUE")
      BY <2>1 DEF Return, Again, locals
    <3>2. ASSUME by = "debit", ok, ~spoiled  PROVE Found(page') = after
      <4>1. Target(file, oldAcct, after) /\ Valid(oldAcct)
        BY <1>1, <2>1, <3>2 DEF DebitInv, Unspoiled, OldAccount, Debiting
      <4> QED  BY <2>0, <2>1, <3>2, <4>1, TargetFound
    <3> QED  BY <3>1, <3>2
  <2>2. CASE ReadFails \/ Written
    BY <2>1, <2>2 DEF ReadFails, Written, Busy
  <2>3. ASSUME NEW s \in {"header", "A", "B"}, WriteFails(s) \/ WriteTears(s)  PROVE True
    BY <2>1, <2>3 DEF WriteFails, WriteTears, Writing, Busy
  <2>4. CASE LooksRight
    <3>1. ~spoiled => Target(newAcct, oldAcct, after) /\ Valid(oldAcct)
      BY <1>1, <2>4 DEF LooksRight, DebitInv, Unspoiled, OldAccount, Debiting
    <3>2. ~spoiled => Found(page') = after
      BY <2>0, <2>4, <3>1, TargetFound DEF LooksRight
    <3>3. result' # "not updated"
      BY <2>4 DEF LooksRight
    <3> QED  BY <3>2, <3>3
  <2>5. CASE NotUpdated
    <3>1. Valid(oldAcct) /\ GetBalance(oldAcct) = before /\ page' = oldAcct
      BY <1>1, <2>5 DEF NotUpdated, DebitInv, OldAccount, Debiting
    <3>2. Found(page') = before
      BY <2>0, <3>1, FoundCases
    <3>3. result' = "not updated"
      BY <2>5 DEF NotUpdated
    <3> QED  BY <3>2, <3>3
  <2>6. CASE Accept \/ Recover \/ Reject \/ ReadPage \/ Retry
    BY <2>6 DEF Accept, Recover, Reject, ReadPage, Retry
  <2>7. CASE Execute \/ NoMoney \/ Leave
    BY <2>7 DEF Execute, NoMoney, Leave
  <2>8. CASE RefreshTears \/ VerifyFails
    BY <2>8 DEF RefreshTears, VerifyFails, Again
  <2>9. ASSUME NEW s \in {"header", "A", "B"}, WriteSegment(s)  PROVE True
    BY <2>9 DEF WriteSegment
  <2> QED  BY <1>1, <2>2, <2>3, <2>4, <2>5, <2>6, <2>7, <2>8, <2>9 DEF Next
<1>2. ASSUME DebitInv, [Next]_vars  PROVE [True]_vars
  BY <1>1, <1>2
<1> QED  BY <1>2, DebitInvariant, PTL DEF Spec, TellsTruth

----------------------------------------------------------------------------
(* CommitsAtHeader *)

LEMMA UpdateCommits ==
  ASSUME NEW p \in Files, NEW f \in Files, p # f, Updates(p, f),
         NextSegment(p, f) # "header", p.hdr.len # "?", Found(p) # Rejected
  PROVE  Found(Put(p, NextSegment(p, f), f)) = Found(p)
<1> DEFINE s == NextSegment(p, f)
           q == Put(p, s, f)
<1>1. /\ s \in {"A", "B"}
      /\ s = "B" => p.B # f.B
      /\ s = "A" => p.B = f.B /\ p.A # f.A
  BY NextSegmentType
<1> HIDE DEF s
<1>2. /\ q \in Files
      /\ s = "A" => q.hdr = p.hdr /\ q.A = f.A /\ q.B = p.B
      /\ s = "B" => q.hdr = p.hdr /\ q.A = p.A /\ q.B = f.B
  BY <1>1, PutType
<1> HIDE DEF q
<1>3. Valid(p) \/ ValidA(p)
  BY FoundCases
<1>4. p.hdr.kind = "ok"
  BY <1>3 DEF Valid, ValidA, ValidB
<1>5. CASE s = "B"
  <2>1. p.hdr.len = "A"
    BY <1>1, <1>5 DEF Updates
  <2>2. p.A.crc
    BY <1>3, <2>1 DEF Valid, ValidA
  <2>3. Found(p) = p.A.bal
    BY <1>4, <2>1, <2>2, FoundCases DEF Valid, ValidA, GetBalance
  <2>4. Found(q) = q.A.bal
    BY <1>2, <1>4, <1>5, <2>1, <2>2, FoundCases DEF Valid, ValidA, GetBalance
  <2>5. Found(q) = Found(p)
    BY <1>2, <1>5, <2>3, <2>4
  <2> QED  BY <2>5 DEF q, s
<1>6. CASE s = "A"
  <2>1. p.hdr.len = "B" /\ f.A.crc
    BY <1>1, <1>6, HeaderFields DEF Updates
  <2>2. Found(p) = p.B.bal
    BY <1>3, <2>1, FoundCases DEF Valid, GetBalance
  <2>3. q.hdr.len = "B" /\ q.hdr.kind = "ok" /\ ValidA(q)
    BY <1>2, <1>4, <1>6, <2>1 DEF ValidA
  <2>4. Found(q) = q.B.bal
    BY <1>2, <2>3, FoundCases DEF Valid, GetBalance
  <2>5. Found(q) = Found(p)
    BY <1>2, <1>6, <2>2, <2>4
  <2> QED  BY <2>5 DEF q, s
<1> QED  BY <1>1, <1>5, <1>6

LEMMA RecoveryCommits ==
  ASSUME NEW p \in Files, NEW f \in Files, p # f, Fixes(p, f), p.hdr.len # "?"
  PROVE  Found(Put(p, NextSegment(p, f), f)) = Found(p)
<1> DEFINE s == NextSegment(p, f)
           q == Put(p, s, f)
<1>1. /\ s \in {"header", "A", "B"}
      /\ s = "A" => p.A # f.A
      /\ s = "header" => p.hdr # f.hdr
      /\ s = "B" => p.B # f.B
  BY NextSegmentType
<1> HIDE DEF s
<1>2. /\ q \in Files
      /\ s = "B" => q.hdr = p.hdr /\ q.A = p.A /\ q.B = f.B
  BY <1>1, PutType
<1> HIDE DEF q
<1>3. /\ p.hdr.kind = "ok" /\ f.hdr.kind = "ok" /\ p.A.crc /\ f.A = p.A
      /\ p.hdr.len = f.hdr.len
      /\ f.hdr.len = "A" => f.B = p.B
      /\ f.hdr.len = "B" => f.B.bal = p.B.bal /\ ValidB(f)
      /\ f.hdr.len \in {"A", "B"}
  BY DEF Fixes
<1>4. s = "B" /\ f.hdr.len = "B"
  BY <1>1, <1>3, SameHeader
<1>5. ValidA(p) /\ ValidB(q)
  BY <1>2, <1>3, <1>4 DEF ValidA, ValidB
<1>6. Found(p) = p.B.bal
  BY <1>3, <1>4, <1>5, FoundCases DEF Valid, GetBalance
<1>7. Found(q) = q.B.bal
  BY <1>2, <1>3, <1>4, <1>5, FoundCases DEF Valid, GetBalance
<1>8. Found(q) = Found(p)
  BY <1>2, <1>3, <1>4, <1>6, <1>7
<1> QED  BY <1>8 DEF q, s

\* What a terminal would find changes with the header and with nothing else,
\* and a recovery does not change it.
THEOREM DebitCommitsAtHeader == Spec => CommitsAtHeader
<1> DEFINE Commits == Found(page') # Found(page) /\ torn' = torn =>
             \/ Writing("header") /\ by # "recover"
             \/ page.hdr.len = "?" \/ Found(page) = Rejected
<1>1. ASSUME DebitInv, Next  PROVE Commits
  <2>0. page \in Files /\ file \in Files /\ torn \in Nat
    BY <1>1 DEF DebitInv, Types
  <2>1. ASSUME NEW s \in {"header", "A", "B"}, Writing(s),
               page' = page \/ page' = Put(page, s, file)
        PROVE  Commits
    <3>1. Busy /\ page # file /\ s = NextSegment(page, file)
      BY <2>1 DEF Writing, Busy
    <3>2. CASE by = "recover"
      <4>1. Fixes(page, file)
        BY <1>1, <3>1, <3>2 DEF DebitInv, OnItsWay
      <4> QED  BY <2>0, <2>1, <3>1, <4>1, RecoveryCommits
    <3>3. CASE by # "recover"
      <4>1. Updates(page, file)
        BY <1>1, <3>1, <3>3 DEF DebitInv, OnItsWay
      <4>2. CASE s = "header"
        BY <2>1, <3>3, <4>2
      <4>3. CASE s # "header"
        BY <2>0, <2>1, <3>1, <4>1, <4>3, UpdateCommits
      <4> QED  BY <4>2, <4>3
    <3> QED  BY <3>2, <3>3
  <2>2. ASSUME NEW s \in {"header", "A", "B"}, WriteSegment(s) \/ WriteFails(s)
        PROVE  Commits
    BY <2>1, <2>2 DEF WriteSegment, WriteFails
  <2>3. ASSUME torn' = torn + 1  PROVE Commits
    BY <2>0, <2>3
  <2>4. CASE RefreshTears
    BY <2>3, <2>4 DEF RefreshTears
  <2>5. ASSUME NEW s \in {"header", "A", "B"}, WriteTears(s)  PROVE Commits
    BY <2>3, <2>5 DEF WriteTears
  <2>6. ASSUME page' = page  PROVE Commits
    BY <2>6
  <2>7. CASE Accept \/ Recover \/ Reject \/ Execute \/ NoMoney \/ ReadPage
    BY <2>6, <2>7 DEF Accept, Recover, Reject, Execute, NoMoney, ReadPage
  <2>8. CASE ReadFails \/ Written \/ LooksRight \/ NotUpdated \/ Retry \/ VerifyFails \/ Leave
    BY <2>6, <2>8 DEF ReadFails, Written, LooksRight, NotUpdated, Retry, VerifyFails, Leave
  <2> QED  BY <1>1, <2>2, <2>4, <2>5, <2>7, <2>8 DEF Next
<1>2. ASSUME DebitInv, [Next]_vars  PROVE [Commits]_vars
  BY <1>1, <1>2
<1> QED  BY <1>2, DebitInvariant, PTL DEF Spec, CommitsAtHeader
=============================================================================
