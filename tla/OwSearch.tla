------------------------------ MODULE OwSearch ------------------------------
(***************************************************************************)
(* The device search of the SDK (ownetu.c): owFirst and owNext walk the    *)
(* binary tree of the 64-bit ROM codes on the wire, one leaf a call, and   *)
(* keep in three globals where the next walk has to turn.  Devices come    *)
(* and go between two calls.                                               *)
(*                                                                         *)
(* A ROM code is a function from bit positions to {0, 1}; position i is    *)
(* bit i - 1 of the code, so that positions compare with LastDiscrepancy,  *)
(* which is one above a bit number.  The walk itself runs in the bridge    *)
(* (the search accelerator) and on the wire: every device that still       *)
(* agrees sends its bit, and where they disagree the bridge goes the way   *)
(* the host's packet says.                                                 *)
(***************************************************************************)
EXTENDS Integers, FiniteSets

CONSTANTS
  RomBits,     \* bits of a ROM code (64)
  FamilyBits,  \* the first of them, the family code (8)
  CrcBits,     \* the last of them, the CRC (8)
  Roms,        \* ROM codes of the devices there are
  Alarming     \* those of them that have an alarm pending

Bits == 1 .. RomBits
Codes == [Bits -> {0, 1}]

Family(f) == {r \in Roms : \A i \in 1 .. FamilyBits : r[i] = f[i]}

\* The CRC is a function of the bits before it, so that two devices differ
\* in one of those; and no device has the family code 0.
ASSUME SearchAssumption ==
  /\ RomBits \in Nat /\ FamilyBits \in Nat /\ CrcBits \in Nat
  /\ FamilyBits >= 1 /\ CrcBits >= 2 /\ RomBits >= FamilyBits + CrcBits
  /\ Roms \subseteq Codes /\ Roms # {}
  /\ \A r, q \in Roms :
       r # q => \E i \in Bits : i <= RomBits - CrcBits /\ r[i] # q[i]
  /\ \A r \in Roms : \E i \in 1 .. FamilyBits : r[i] = 1
  /\ Alarming \subseteq Roms

VARIABLES
  devs,            \* the devices on the wire
  LastDiscrepancy, LastFamilyDiscrepancy, LastDevice, SerialNum,
  \* history of the running enumeration
  wanted,          \* the devices it is to report; {} once it was disturbed
  began,           \* it has reported a device
  took,            \* the devices that took part in its last search
  since,           \* those that took part in all of its searches
  seen             \* what it has reported

search == <<LastDiscrepancy, LastFamilyDiscrepancy, LastDevice, SerialNum>>
enum   == <<wanted, began, took, since, seen>>
vars   == <<devs, search, enum>>

NoRom == [i \in Bits |-> 0]

NewEnumeration(set) ==
  /\ wanted' = set /\ began' = FALSE
  /\ took' = {} /\ since' = {} /\ seen' = {}

Disturbed == NewEnumeration({})

Init ==
  /\ devs \in SUBSET Roms
  /\ LastDiscrepancy = 0 /\ LastFamilyDiscrepancy = 0 /\ LastDevice = FALSE
  /\ SerialNum = NoRom
  /\ wanted = Roms /\ began = FALSE /\ took = {} /\ since = {} /\ seen = {}

----------------------------------------------------------------------------
(* One walk down the tree *)

\* Do r and q agree before position i?
Agree(r, q, i) == \A k \in Bits : k < i => r[k] = q[k]

\* On the way to r, do the devices D disagree at position i?
Discrepancy(r, D, i) == \E q \in D : Agree(r, q, i) /\ q[i] # r[i]

\* Mutant: bits before the last discrepancy are not carried over.
PathForgets(d, s, i) == IF i = d THEN 1 ELSE 0

\* The direction bits owNext puts into its packet; all 0 when d = 0.
Path(d, s, i) == IF i < d THEN s[i] ELSE IF i = d THEN 1 ELSE 0

\* The codes the walk can end at, one device's: where the devices disagree
\* it goes the way of the path.
Leaves(D, d, s) ==
  {r \in D : \A i \in Bits : Discrepancy(r, D, i) => r[i] = Path(d, s, i)}

\* Mutant: the other branch is taken for the one that is left to do.
OneAt(r, D, i) == Discrepancy(r, D, i) /\ r[i] = 1

\* The host took the 0 branch at i although there was another.
ZeroAt(r, D, i) == Discrepancy(r, D, i) /\ r[i] = 0

\* z is the last position up to n where it did, z0 when there is none.
IsLastZero(z, z0, r, D, n) ==
  \/ /\ z \in Bits /\ z <= n /\ ZeroAt(r, D, z)
     /\ \A i \in Bits : z < i /\ i <= n => ~ZeroAt(r, D, i)
  \/ /\ z = z0 /\ \A i \in Bits : i <= n => ~ZeroAt(r, D, i)

----------------------------------------------------------------------------
(* owFirst, owNext *)

TakesPart(alarm_only) == IF alarm_only THEN devs \cap Alarming ELSE devs

\* A good reply: the code has a CRC that fits and a family code that is not
\* 0, and the host was not at the position it takes for an error.
Report(D, r, d, lfd) ==
  /\ d # RomBits - 1
  /\ \E z \in 0 .. RomBits :
       /\ IsLastZero(z, 0, r, D, RomBits)
       /\ LastDiscrepancy' = z /\ LastDevice' = (z = 0)
  /\ \E z \in 0 .. FamilyBits :
       /\ IsLastZero(z, lfd, r, D, FamilyBits)
       /\ LastFamilyDiscrepancy' = z
  /\ SerialNum' = r

\* The first search of an enumeration has reported r; a later one has, and
\* unless something that answered before is missing the enumeration goes on.
Started(D, r, w) ==
  IF w = {} THEN Disturbed
  ELSE /\ wanted' = w /\ began' = TRUE
       /\ took' = D /\ since' = D /\ seen' = {r}

Continued(D, r) ==
  IF took \subseteq D
  THEN /\ took' = D /\ since' = since \cap D /\ seen' = seen \cup {r}
       /\ UNCHANGED <<wanted, began>>
  ELSE Disturbed

\* owFirst sets the search state back before it walks.
FirstFinds(alarm_only, r) ==
  LET D == TakesPart(alarm_only) IN
  /\ r \in Leaves(D, 0, SerialNum)
  /\ Report(D, r, 0, 0)
  /\ Started(D, r, Roms)
  /\ UNCHANGED devs

NextFinds(alarm_only, r) ==
  LET D == TakesPart(alarm_only) IN
  /\ ~LastDevice
  /\ r \in Leaves(D, LastDiscrepancy, SerialNum)
  /\ Report(D, r, LastDiscrepancy, LastFamilyDiscrepancy)
  /\ IF began THEN Continued(D, r) ELSE Started(D, r, wanted)
  /\ UNCHANGED devs

\* FALSE: the last device was reported before, there is no presence pulse
\* or no device that answers, the reply is garbled or does not come, or the
\* search is at position 63.  The search starts over.
NoneFound ==
  /\ LastDiscrepancy' = 0 /\ LastFamilyDiscrepancy' = 0 /\ LastDevice' = FALSE
  /\ UNCHANGED <<SerialNum, devs>>
  /\ NewEnumeration(Roms)

owFirst(alarm_only) == NoneFound \/ \E r \in Roms : FirstFinds(alarm_only, r)
owNext(alarm_only)  == NoneFound \/ \E r \in Roms : NextFinds(alarm_only, r)

----------------------------------------------------------------------------
(* owFamilySearchSetup, owSkipFamily, owSerialNum *)

\* Mutants: the position counted from 0; one past the end.
FamilySetup63(f) ==
  /\ SerialNum' = [i \in Bits |-> IF i <= FamilyBits THEN f[i] ELSE 0]
  /\ LastDiscrepancy' = RomBits - 1 /\ LastFamilyDiscrepancy' = 0
  /\ LastDevice' = FALSE
  /\ NewEnumeration(Family(f))
  /\ UNCHANGED devs
FamilySetup65(f) ==
  /\ SerialNum' = [i \in Bits |-> IF i <= FamilyBits THEN f[i] ELSE 0]
  /\ LastDiscrepancy' = RomBits + 1 /\ LastFamilyDiscrepancy' = 0
  /\ LastDevice' = FALSE
  /\ NewEnumeration(Family(f))
  /\ UNCHANGED devs

owFamilySearchSetup(f) ==
  /\ SerialNum' = [i \in Bits |-> IF i <= FamilyBits THEN f[i] ELSE 0]
  /\ LastDiscrepancy' = RomBits /\ LastFamilyDiscrepancy' = 0
  /\ LastDevice' = FALSE
  /\ NewEnumeration(Family(f))
  /\ UNCHANGED devs

owSkipFamily ==
  /\ LastDiscrepancy' = LastFamilyDiscrepancy
  /\ LastFamilyDiscrepancy' = 0
  /\ LastDevice' = (LastDevice \/ LastFamilyDiscrepancy = 0)
  /\ Disturbed
  /\ UNCHANGED <<SerialNum, devs>>

\* A caller sets the number to select a device by it.
owSerialNum(r) ==
  /\ SerialNum' = r
  /\ IF r = SerialNum THEN UNCHANGED enum ELSE Disturbed
  /\ UNCHANGED <<LastDiscrepancy, LastFamilyDiscrepancy, LastDevice, devs>>

----------------------------------------------------------------------------
(* owVerify: a search along SerialNum, bit by bit, without the bridge's      *)
(* accelerator.                                                              *)

\* The devices that still answer at position i.
Answering(D, i) == {q \in D : Agree(q, SerialNum, i)}

\* All that answer have the bit of the number.
GoodBit(D, i) == \A q \in Answering(D, i) : q[i] = SerialNum[i]

\* Mutant: silence is not noticed.
VerifySilence(D) ==
  Cardinality({i \in Bits : GoodBit(D, i)}) >= CrcBits

owVerify(D) ==
  /\ \A i \in Bits : Answering(D, i) # {}
  /\ Cardinality({i \in Bits : GoodBit(D, i)}) >= CrcBits

----------------------------------------------------------------------------
(* The wire *)

Arrive(q) == q \notin devs /\ devs' = devs \cup {q} /\ UNCHANGED <<search, enum>>
Leave(q)  == q \in devs /\ devs' = devs \ {q} /\ UNCHANGED <<search, enum>>

Next ==
  \/ \E alarm_only \in BOOLEAN : owFirst(alarm_only) \/ owNext(alarm_only)
  \/ owSkipFamily
  \/ \E f \in Roms : owFamilySearchSetup(f) \/ owSerialNum(f)
  \/ \E q \in Roms : Arrive(q) \/ Leave(q)

Spec == Init /\ [][Next]_vars

----------------------------------------------------------------------------
(* Properties *)

\* Every variable keeps its type.
TypeOK ==
  /\ devs \in SUBSET Roms
  /\ LastDiscrepancy \in 0 .. RomBits
  /\ LastFamilyDiscrepancy \in 0 .. FamilyBits
  /\ LastDevice \in BOOLEAN /\ SerialNum \in Codes
  /\ wanted \in SUBSET Roms /\ began \in BOOLEAN
  /\ took \in SUBSET Roms /\ since \in SUBSET Roms /\ seen \in SUBSET Roms

\* The order of the search: r comes before q.
Before(r, q) == \E i \in Bits : Agree(r, q, i) /\ r[i] = 0 /\ q[i] = 1

\* ownetu.c:177-194, 221-231: as long as nothing that answered is missing
\* when the next search runs, whatever arrives meanwhile, an enumeration goes
\* forward: it never reports a device a second time.
InOrder ==
  [][\A alarm_only \in BOOLEAN, r \in Roms :
       NextFinds(alarm_only, r) /\ began /\ began' => Before(SerialNum, r)]_vars

\* ownetu.c:264-268: and when it says that this was the last device, it has
\* reported every device it was asked for (all, or those of a family) that
\* took part in all of its searches.
Complete ==
  wanted # {} /\ began /\ LastDevice => since \cap wanted \subseteq seen

\* ownetu.c:250: position 63 is taken for an error of the search.  No search
\* of good replies gets there, because the CRC of two devices cannot be
\* where they differ first.
NoFalseError == LastDiscrepancy # RomBits - 1

\* owVerify is right about the device whose number is selected: it finds it
\* exactly if it is there, whoever else is (ownetu.c:450-498).
VerifyExact ==
  SerialNum \in Roms => (owVerify(devs) <=> SerialNum \in devs)
=============================================================================
