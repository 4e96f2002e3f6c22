--------------------------- MODULE OwSearchProofs ---------------------------
(***************************************************************************)
(* What holds of the device search for every length of ROM code and every  *)
(* set of devices: an enumeration goes forward through the codes, and when *)
(* it says that a device was the last one, none was left out; and owVerify *)
(* is right about the device whose number is selected.                     *)
(***************************************************************************)
EXTENDS OwSearch, FiniteSetTheorems, WellFoundedInduction, TLAPS

----------------------------------------------------------------------------
(* Two codes that differ differ first somewhere. *)

LEMMA LeastElement ==
  ASSUME NEW T \in SUBSET Nat, T # {}
  PROVE  \E m \in T : \A k \in T : ~ (k < m)
<1>1. \E m \in T : \A k \in T : ~ (<<k, m>> \in OpToRel(<, Nat))
  BY NatLessThanWellFounded, WFMin
<1>2. PICK m \in T : \A k \in T : ~ (<<k, m>> \in OpToRel(<, Nat))
  BY <1>1
<1>3. ASSUME NEW k \in T, k < m PROVE FALSE
  <2>1. <<k, m>> \in Nat \X Nat /\ <<k, m>>[1] < <<k, m>>[2]
    BY <1>3
  <2>2. <<k, m>> \in OpToRel(<, Nat)
    BY <2>1 DEF OpToRel
  <2> QED
    BY <2>2, <1>2
<1> QED
  BY <1>3

LEMMA FirstDifference ==
  ASSUME NEW r \in Codes, NEW q \in Codes, r # q
  PROVE  \E m \in Bits : Agree(r, q, m) /\ r[m] # q[m]
<1> DEFINE T == {i \in Bits : r[i] # q[i]}
<1>1. T \in SUBSET Nat
  BY SearchAssumption DEF Bits
<1>2. T # {}
  BY DEF Codes
<1>3. PICK m \in T : \A k \in T : ~ (k < m)
  BY <1>1, <1>2, LeastElement
<1>4. \A k \in Bits : k < m => r[k] = q[k]
  BY <1>3
<1> QED
  BY <1>3, <1>4 DEF Agree

LEMMA AgreeFacts ==
  ASSUME NEW r \in Codes, NEW q \in Codes, NEW m \in Bits
  PROVE  /\ Agree(r, q, m) => Agree(q, r, m)
         /\ \A s \in Codes : Agree(r, q, m) /\ Agree(q, s, m) => Agree(r, s, m)
         /\ \A k \in Bits : k <= m /\ Agree(r, q, m) => Agree(r, q, k)
         /\ r[m] \in {0, 1}
  BY SearchAssumption DEF Agree, Bits, Codes

\* Where two devices differ first is not in the last bits.
LEMMA DifferBeforeCrc ==
  ASSUME NEW r \in Roms, NEW q \in Roms, NEW m \in Bits,
         Agree(r, q, m), r[m] # q[m]
  PROVE  m < RomBits - 1
<1>1. r # q
  OBVIOUS
<1>2. PICK i \in Bits : i <= RomBits - CrcBits /\ r[i] # q[i]
  BY <1>1, SearchAssumption
<1>3. ~ (i < m)
  BY <1>2 DEF Agree
<1> QED
  BY <1>2, <1>3, SearchAssumption DEF Bits

----------------------------------------------------------------------------
(* Where a walk over the devices D ends. *)

LEMMA LeafFacts ==
  ASSUME NEW D \in SUBSET Roms, NEW d, NEW s, NEW r \in Leaves(D, d, s),
         NEW q \in D, NEW m \in Bits, Agree(r, q, m), r[m] # q[m]
  PROVE  r[m] = Path(d, s, m)
<1>1. Agree(r, q, m) /\ q[m] # r[m]
  OBVIOUS
<1>2. Discrepancy(r, D, m)
  BY <1>1 DEF Discrepancy
<1> QED
  BY <1>2 DEF Leaves

LEMMA OneIsAfterZero ==
  ASSUME NEW r \in Codes, NEW q \in Codes, NEW m \in Bits,
         Agree(r, q, m), r[m] # q[m], r[m] = 0
  PROVE  Before(r, q)
<1>1. q[m] = 1
  BY DEF Codes
<1> QED
  BY <1>1 DEF Before

\* A walk with no turn ends at the first device.
LEMMA FirstIsLeast ==
  ASSUME NEW D \in SUBSET Roms, NEW s, NEW r \in Leaves(D, 0, s),
         NEW q \in D, q # r
  PROVE  Before(r, q)
<1>1. r \in Codes /\ q \in Codes
  BY SearchAssumption DEF Leaves
<1>2. PICK m \in Bits : Agree(r, q, m) /\ r[m] # q[m]
  BY <1>1, FirstDifference
<1>3. r[m] = Path(0, s, m)
  BY <1>2, LeafFacts
<1>4. r[m] = 0
  BY <1>3, SearchAssumption DEF Path, Bits
<1> QED
  BY <1>1, <1>2, <1>4, OneIsAfterZero

\* A walk that was set up for a family ends at the first device of it.
LEMMA FamilyLeast ==
  ASSUME NEW D \in SUBSET Roms, NEW s \in Codes, NEW r \in Leaves(D, RomBits, s),
         NEW q \in D, q # r,
         \A i \in 1 .. FamilyBits : q[i] = s[i],
         \A i \in Bits : i > FamilyBits => s[i] = 0
  PROVE  Before(r, q)
<1>1. r \in Codes /\ q \in Codes /\ r \in Roms /\ q \in Roms
  BY SearchAssumption DEF Leaves
<1>2. PICK m \in Bits : Agree(r, q, m) /\ r[m] # q[m]
  BY <1>1, FirstDifference
<1>3. m < RomBits - 1
  BY <1>1, <1>2, DifferBeforeCrc
<1>4. r[m] = Path(RomBits, s, m)
  BY <1>2, LeafFacts
<1>5. r[m] = s[m]
  BY <1>3, <1>4, SearchAssumption DEF Path, Bits
<1>6. ~ (m \in 1 .. FamilyBits)
  BY <1>2, <1>5
<1>7. r[m] = 0
  BY <1>5, <1>6, SearchAssumption DEF Bits
<1> QED
  BY <1>1, <1>2, <1>7, OneIsAfterZero

\* A walk that turns at d, where an earlier one over the devices P had gone
\* the way of 0 to s, follows s up to d and takes the other branch there.
LEMMA WalkTurns ==
  ASSUME NEW D \in SUBSET Roms, NEW P \in SUBSET D, NEW d \in Bits,
         NEW s \in P, NEW r \in Leaves(D, d, s), ZeroAt(s, P, d)
  PROVE  Agree(s, r, d) /\ s[d] = 0 /\ r[d] = 1
<1>1. r \in Codes /\ s \in Codes /\ r \in D /\ s \in D
  BY SearchAssumption DEF Leaves
<1>2. Agree(s, r, d)
  <2>1. SUFFICES ASSUME r # s PROVE Agree(s, r, d)
    BY DEF Agree
  <2>2. PICK m \in Bits : Agree(r, s, m) /\ r[m] # s[m]
    BY <1>1, <2>1, FirstDifference
  <2>3. r[m] = Path(d, s, m)
    BY <1>1, <2>2, LeafFacts
  <2>4. ~ (m < d)
    BY <2>2, <2>3 DEF Path
  <2> QED
    BY <2>2, <2>4, <1>1, SearchAssumption DEF Agree, Bits
<1>3. PICK q \in P : Agree(s, q, d) /\ q[d] # s[d]
  BY DEF ZeroAt, Discrepancy
<1>4. s[d] = 0
  BY DEF ZeroAt
<1>5. q \in Codes /\ q \in D
  BY SearchAssumption
<1>6. Agree(r, q, d)
  BY <1>2, <1>3 DEF Agree
<1>7. r[d] = 1
  <2>1. SUFFICES ASSUME r[d] # 1 PROVE FALSE
    OBVIOUS
  <2>2. r[d] # q[d]
    BY <2>1, <1>1, <1>3, <1>4, <1>5 DEF Codes
  <2>3. r[d] = Path(d, s, d)
    BY <1>5, <1>6, <2>2, LeafFacts
  <2> QED
    BY <2>1, <2>3, SearchAssumption DEF Path, Bits
<1> QED
  BY <1>2, <1>4, <1>7

\* And it ends at the first device after s: d is the last position where
\* there was a branch left.
LEMMA NoneBetween ==
  ASSUME NEW D \in SUBSET Roms, NEW P \in SUBSET D, NEW d \in Bits,
         NEW s \in P, NEW r \in Leaves(D, d, s), ZeroAt(s, P, d),
         \A i \in Bits : i > d => ~ZeroAt(s, P, i),
         NEW q \in P, Before(s, q), q # r
  PROVE  Before(r, q)
<1>1. r \in Codes /\ s \in Codes /\ q \in Codes /\ q \in D
  BY SearchAssumption DEF Leaves
<1>2. Agree(s, r, d) /\ r[d] = 1
  BY WalkTurns
<1>3. PICK k \in Bits : Agree(s, q, k) /\ s[k] = 0 /\ q[k] = 1
  BY DEF Before
<1>4. ZeroAt(s, P, k)
  <2>1. Agree(s, q, k) /\ q[k] # s[k]
    BY <1>3
  <2> QED
    BY <1>3, <2>1 DEF ZeroAt, Discrepancy
<1>5. k <= d
  BY <1>4, SearchAssumption DEF Bits
<1>6. CASE k < d
  <2>1. r[k] = 0
    BY <1>2, <1>3, <1>6 DEF Agree
  <2>2. Agree(r, q, k)
    BY <1>2, <1>3, <1>6, SearchAssumption DEF Agree, Bits
  <2> QED
    BY <1>3, <2>1, <2>2 DEF Before
<1>7. CASE k = d
  <2>1. PICK m \in Bits : Agree(r, q, m) /\ r[m] # q[m]
    BY <1>1, FirstDifference
  <2>2. ~ (m < d)
    BY <1>2, <1>3, <1>7, <2>1 DEF Agree
  <2>3. m # d
    BY <1>2, <1>3, <1>7, <2>1
  <2>4. r[m] = Path(d, s, m)
    BY <1>1, <2>1, LeafFacts
  <2>5. r[m] = 0
    BY <2>2, <2>3, <2>4, SearchAssumption DEF Path, Bits
  <2> QED
    BY <1>1, <2>1, <2>5, OneIsAfterZero
<1> QED
  BY <1>5, <1>6, <1>7, SearchAssumption DEF Bits

----------------------------------------------------------------------------
(* The inductive invariant *)

\* Before an enumeration has reported anything, its first walk has no turn,
\* or is the one that was set up for a family.
Fresh ==
  ~began /\ wanted # {} =>
    \/ LastDiscrepancy = 0
    \/ /\ LastDiscrepancy = RomBits
       /\ \A q \in wanted : \A i \in 1 .. FamilyBits : q[i] = SerialNum[i]
       /\ \A i \in Bits : i > FamilyBits => SerialNum[i] = 0

\* LastDiscrepancy is the last position of the last walk with a branch left.
Marked ==
  \A i \in Bits : /\ i = LastDiscrepancy => ZeroAt(SerialNum, took, i)
                  /\ i > LastDiscrepancy => ~ZeroAt(SerialNum, took, i)

\* What was not reported comes later.
Ahead == \A q \in since \cap wanted : q \in seen \/ Before(SerialNum, q)

Running ==
  began => /\ wanted # {} /\ SerialNum \in took /\ since \subseteq took
           /\ LastDevice <=> LastDiscrepancy = 0
           /\ Marked /\ Ahead

SearchInv == TypeOK /\ NoFalseError /\ Fresh /\ Running

\* The position a walk leaves to be turned at.
LEMMA LastZeroFacts ==
  ASSUME NEW D \in SUBSET Roms, NEW r \in D, NEW z,
         IsLastZero(z, 0, r, D, RomBits)
  PROVE  /\ z \in 0 .. RomBits /\ z # RomBits - 1
         /\ \A i \in Bits : i = z => ZeroAt(r, D, i)
         /\ \A i \in Bits : i > z => ~ZeroAt(r, D, i)
<1>1. CASE z = 0 /\ \A i \in Bits : i <= RomBits => ~ZeroAt(r, D, i)
  BY <1>1, SearchAssumption DEF Bits
<1>2. CASE /\ z \in Bits /\ ZeroAt(r, D, z)
           /\ \A i \in Bits : z < i /\ i <= RomBits => ~ZeroAt(r, D, i)
  <2>1. PICK q \in D : Agree(r, q, z) /\ q[z] # r[z]
    BY <1>2 DEF ZeroAt, Discrepancy
  <2>2. z < RomBits - 1
    BY <1>2, <2>1, DifferBeforeCrc
  <2> QED
    BY <1>2, <2>2, SearchAssumption DEF Bits
<1> QED
  BY <1>1, <1>2 DEF IsLastZero

LEMMA TakesPartType ==
  ASSUME TypeOK, NEW alarm_only \in BOOLEAN
  PROVE  TakesPart(alarm_only) \in SUBSET Roms
BY SearchAssumption DEF TypeOK, TakesPart

\* A good reply leaves the search in order, whatever the enumeration.
LEMMA ReportFacts ==
  ASSUME NEW D \in SUBSET Roms, NEW r \in D, NEW d, NEW lfd, Report(D, r, d, lfd)
  PROVE  /\ LastDiscrepancy' \in 0 .. RomBits /\ NoFalseError'
         /\ LastFamilyDiscrepancy' \in 0 .. FamilyBits
         /\ LastDevice' \in BOOLEAN /\ SerialNum' = r /\ r \in Codes
         /\ LastDevice' <=> LastDiscrepancy' = 0
         /\ \A i \in Bits : /\ i = LastDiscrepancy' => ZeroAt(r, D, i)
                            /\ i > LastDiscrepancy' => ~ZeroAt(r, D, i)
<1>1. PICK z \in 0 .. RomBits : /\ IsLastZero(z, 0, r, D, RomBits)
                                /\ LastDiscrepancy' = z /\ LastDevice' = (z = 0)
  BY DEF Report
<1>2. LastFamilyDiscrepancy' \in 0 .. FamilyBits
  BY DEF Report
<1>3. SerialNum' = r /\ r \in Codes
  BY SearchAssumption DEF Report
<1>4. /\ z # RomBits - 1
      /\ \A i \in Bits : i = z => ZeroAt(r, D, i)
      /\ \A i \in Bits : i > z => ~ZeroAt(r, D, i)
  BY <1>1, LastZeroFacts
<1>5. LastDevice' \in BOOLEAN /\ (LastDevice' <=> LastDiscrepancy' = 0)
  BY <1>1
<1> QED
  BY <1>1, <1>2, <1>3, <1>4, <1>5 DEF NoFalseError

LEMMA SearchInitial == Init => SearchInv
<1> SUFFICES ASSUME Init PROVE SearchInv
  OBVIOUS
<1>1. NoRom \in Codes
  BY SearchAssumption DEF NoRom, Codes
<1>2. TypeOK
  <2>1. 0 \in 0 .. RomBits /\ 0 \in 0 .. FamilyBits
    BY SearchAssumption
  <2> QED
    BY <1>1, <2>1 DEF Init, TypeOK
<1>3. NoFalseError
  BY SearchAssumption DEF Init, NoFalseError
<1> QED
  BY <1>2, <1>3 DEF Init, SearchInv, Fresh, Running

\* An enumeration that is disturbed or starts over.
LEMMA NotRunning ==
  ASSUME NEW w \in SUBSET Roms, NewEnumeration(w)
  PROVE  /\ Running' /\ wanted' \in SUBSET Roms /\ began' \in BOOLEAN
         /\ took' \in SUBSET Roms /\ since' \in SUBSET Roms /\ seen' \in SUBSET Roms
BY DEF NewEnumeration, Running

\* The first report of an enumeration: r comes first of all that are wanted.
LEMMA StartedKeeps ==
  ASSUME SearchInv, NEW D \in SUBSET Roms, NEW r \in D, NEW d, NEW lfd,
         NEW w \in SUBSET Roms, Report(D, r, d, lfd), Started(D, r, w),
         devs' = devs, \A q \in D \cap w : q = r \/ Before(r, q)
  PROVE  SearchInv'
<1>0. /\ LastDiscrepancy' \in 0 .. RomBits /\ NoFalseError'
      /\ LastFamilyDiscrepancy' \in 0 .. FamilyBits
      /\ LastDevice' \in BOOLEAN /\ SerialNum' = r /\ r \in Codes
      /\ LastDevice' <=> LastDiscrepancy' = 0
      /\ \A i \in Bits : /\ i = LastDiscrepancy' => ZeroAt(r, D, i)
                         /\ i > LastDiscrepancy' => ~ZeroAt(r, D, i)
  BY ReportFacts
<1>1. CASE w = {}
  <2>1. Disturbed
    BY <1>1 DEF Started
  <2>2. wanted' = {}
    BY <2>1 DEF Disturbed, NewEnumeration
  <2>3. /\ Running' /\ wanted' \in SUBSET Roms /\ began' \in BOOLEAN
        /\ took' \in SUBSET Roms /\ since' \in SUBSET Roms /\ seen' \in SUBSET Roms
    BY <2>1, NotRunning DEF Disturbed
  <2>4. TypeOK'
    BY <1>0, <2>3 DEF SearchInv, TypeOK
  <2> QED
    BY <1>0, <2>2, <2>3, <2>4 DEF SearchInv, Fresh
<1>2. CASE w # {}
  <2>1. wanted' = w /\ began' = TRUE /\ took' = D /\ since' = D /\ seen' = {r}
    BY <1>2 DEF Started
  <2>2. TypeOK'
    BY <1>0, <2>1 DEF SearchInv, TypeOK
  <2>3. Marked'
    BY <1>0, <2>1 DEF Marked, ZeroAt, Discrepancy, Agree
  <2>4. Ahead'
    <3>1. \A q \in since' \cap wanted' : q \in seen' \/ Before(SerialNum', q)
      BY <1>0, <2>1
    <3> QED
      BY <3>1 DEF Ahead, Before, Agree
  <2>5. Running'
    BY <1>0, <1>2, <2>1, <2>3, <2>4 DEF Running
  <2> QED
    BY <1>0, <2>1, <2>2, <2>5 DEF SearchInv, Fresh
<1> QED
  BY <1>1, <1>2

\* A later report: r is the next after the last one, of those that answered
\* before.
LEMMA ContinuedKeeps ==
  ASSUME SearchInv, NEW D \in SUBSET Roms, NEW r, began, ~LastDevice,
         r \in Leaves(D, LastDiscrepancy, SerialNum),
         Report(D, r, LastDiscrepancy, LastFamilyDiscrepancy), Continued(D, r),
         devs' = devs
  PROVE  SearchInv'
<1>1. r \in D
  BY DEF Leaves
<1>2. /\ LastDiscrepancy' \in 0 .. RomBits /\ NoFalseError'
      /\ LastFamilyDiscrepancy' \in 0 .. FamilyBits
      /\ LastDevice' \in BOOLEAN /\ SerialNum' = r /\ r \in Codes
      /\ LastDevice' <=> LastDiscrepancy' = 0
      /\ \A i \in Bits : /\ i = LastDiscrepancy' => ZeroAt(r, D, i)
                         /\ i > LastDiscrepancy' => ~ZeroAt(r, D, i)
  BY <1>1, ReportFacts
<1>3. CASE ~ (took \subseteq D)
  <2>1. Disturbed
    BY <1>3 DEF Continued
  <2>2. wanted' = {}
    BY <2>1 DEF Disturbed, NewEnumeration
  <2>3. /\ Running' /\ wanted' \in SUBSET Roms /\ began' \in BOOLEAN
        /\ took' \in SUBSET Roms /\ since' \in SUBSET Roms /\ seen' \in SUBSET Roms
    BY <2>1, NotRunning DEF Disturbed
  <2>4. TypeOK'
    BY <1>2, <2>3 DEF SearchInv, TypeOK
  <2> QED
    BY <1>2, <2>2, <2>3, <2>4 DEF SearchInv, Fresh
<1>4. CASE took \subseteq D
  <2>1. /\ took' = D /\ since' = since \cap D /\ seen' = seen \cup {r}
        /\ wanted' = wanted /\ began' = began
    BY <1>4 DEF Continued
  <2>2. TypeOK'
    BY <1>1, <1>2, <2>1 DEF SearchInv, TypeOK
  <2>3. Marked'
    BY <1>2, <2>1 DEF Marked, ZeroAt, Discrepancy, Agree
  <2>4. wanted # {} /\ SerialNum \in took /\ since \subseteq took
        /\ LastDiscrepancy # 0 /\ Marked /\ Ahead
    BY DEF SearchInv, Running
  <2>5. /\ took \in SUBSET D /\ LastDiscrepancy \in Bits
        /\ ZeroAt(SerialNum, took, LastDiscrepancy)
        /\ \A i \in Bits : i > LastDiscrepancy => ~ZeroAt(SerialNum, took, i)
    BY <1>4, <2>4, SearchAssumption DEF SearchInv, TypeOK, Bits, Marked
  <2>6. ASSUME NEW q \in took, Before(SerialNum, q), q # r
        PROVE  Before(r, q)
    BY <2>4, <2>5, <2>6, NoneBetween
  <2>7. \A q \in since' \cap wanted' : q \in seen' \/ Before(r, q)
    BY <2>1, <2>4, <2>6 DEF Ahead
  <2>8. Ahead'
    BY <1>2, <2>7 DEF Ahead, Before, Agree
  <2>9. Running'
    BY <1>1, <1>2, <1>4, <2>1, <2>3, <2>4, <2>8 DEF Running
  <2> QED
    BY <1>2, <2>1, <2>2, <2>9 DEF SearchInv, Fresh
<1> QED
  BY <1>3, <1>4

LEMMA FirstFindsKeeps ==
  ASSUME SearchInv, NEW alarm_only \in BOOLEAN, NEW r \in Roms,
         FirstFinds(alarm_only, r)
  PROVE  SearchInv'
<1> DEFINE D == TakesPart(alarm_only)
<1>1. D \in SUBSET Roms
  BY TakesPartType DEF SearchInv
<1>2. /\ r \in Leaves(D, 0, SerialNum) /\ Report(D, r, 0, 0)
      /\ Started(D, r, Roms) /\ devs' = devs
  BY DEF FirstFinds
<1> HIDE DEF D
<1>3. r \in D
  BY <1>2 DEF Leaves
<1>4. \A q \in D \cap Roms : q = r \/ Before(r, q)
  BY <1>1, <1>2, FirstIsLeast
<1> QED
  BY <1>1, <1>2, <1>3, <1>4, StartedKeeps

LEMMA NextFindsKeeps ==
  ASSUME SearchInv, NEW alarm_only \in BOOLEAN, NEW r \in Roms,
         NextFinds(alarm_only, r)
  PROVE  SearchInv'
<1> DEFINE D == TakesPart(alarm_only)
<1>1. D \in SUBSET Roms
  BY TakesPartType DEF SearchInv
<1>2. /\ ~LastDevice /\ r \in Leaves(D, LastDiscrepancy, SerialNum)
      /\ Report(D, r, LastDiscrepancy, LastFamilyDiscrepancy) /\ devs' = devs
      /\ began => Continued(D, r)
      /\ ~began => Started(D, r, wanted)
  BY DEF NextFinds
<1> HIDE DEF D
<1>3. r \in D
  BY <1>2 DEF Leaves
<1>4. CASE began
  BY <1>1, <1>2, <1>4, ContinuedKeeps
<1>5. CASE ~began
  <2>1. SerialNum \in Codes /\ wanted \in SUBSET Roms
    BY DEF SearchInv, TypeOK
  <2>2. ASSUME NEW q \in D \cap wanted, q # r PROVE Before(r, q)
    <3>1. CASE LastDiscrepancy = 0
      BY <1>1, <1>2, <2>2, <3>1, FirstIsLeast
    <3>2. CASE /\ LastDiscrepancy = RomBits
               /\ \A p \in wanted : \A i \in 1 .. FamilyBits : p[i] = SerialNum[i]
               /\ \A i \in Bits : i > FamilyBits => SerialNum[i] = 0
      BY <1>1, <1>2, <2>1, <2>2, <3>2, FamilyLeast
    <3> QED
      BY <1>5, <2>2, <3>1, <3>2 DEF SearchInv, Fresh
  <2> QED
    BY <1>1, <1>2, <1>3, <1>5, <2>1, <2>2, StartedKeeps
<1> QED
  BY <1>4, <1>5

LEMMA NoneFoundKeeps == SearchInv /\ NoneFound => SearchInv'
<1> SUFFICES ASSUME SearchInv, NoneFound PROVE SearchInv'
  OBVIOUS
<1>1. 0 \in 0 .. RomBits /\ 0 \in 0 .. FamilyBits
  BY SearchAssumption
<1>2. /\ Running' /\ wanted' \in SUBSET Roms /\ began' \in BOOLEAN
      /\ took' \in SUBSET Roms /\ since' \in SUBSET Roms /\ seen' \in SUBSET Roms
  BY NotRunning DEF NoneFound
<1>3. TypeOK'
  BY <1>1, <1>2 DEF NoneFound, SearchInv, TypeOK
<1>4. NoFalseError' /\ Fresh'
  BY SearchAssumption DEF NoneFound, NoFalseError, Fresh
<1> QED
  BY <1>2, <1>3, <1>4 DEF SearchInv

LEMMA FamilySetupKeeps ==
  ASSUME SearchInv, NEW f \in Roms, owFamilySearchSetup(f)
  PROVE  SearchInv'
<1>1. SerialNum' \in Codes
  <2>1. f \in Codes
    BY SearchAssumption
  <2>2. [i \in Bits |-> IF i <= FamilyBits THEN f[i] ELSE 0] \in Codes
    BY <2>1 DEF Codes
  <2> QED
    BY <2>2 DEF owFamilySearchSetup
<1>2. RomBits \in 0 .. RomBits /\ 0 \in 0 .. FamilyBits /\ RomBits # RomBits - 1
  BY SearchAssumption
<1>3. Family(f) \in SUBSET Roms
  BY DEF Family
<1>4. /\ Running' /\ wanted' \in SUBSET Roms /\ began' \in BOOLEAN
      /\ took' \in SUBSET Roms /\ since' \in SUBSET Roms /\ seen' \in SUBSET Roms
  BY <1>3, NotRunning DEF owFamilySearchSetup
<1>5. TypeOK'
  BY <1>1, <1>2, <1>4 DEF owFamilySearchSetup, SearchInv, TypeOK
<1>6. NoFalseError'
  BY <1>2 DEF owFamilySearchSetup, NoFalseError
<1>7. /\ \A q \in wanted' : \A i \in 1 .. FamilyBits : q[i] = SerialNum'[i]
      /\ \A i \in Bits : i > FamilyBits => SerialNum'[i] = 0
      /\ LastDiscrepancy' = RomBits
  BY SearchAssumption DEF owFamilySearchSetup, NewEnumeration, Family, Bits
<1>8. Fresh'
  BY <1>7 DEF Fresh
<1> QED
  BY <1>4, <1>5, <1>6, <1>8 DEF SearchInv

LEMMA SkipFamilyKeeps == SearchInv /\ owSkipFamily => SearchInv'
<1> SUFFICES ASSUME SearchInv, owSkipFamily PROVE SearchInv'
  OBVIOUS
<1>1. /\ LastFamilyDiscrepancy \in 0 .. RomBits
      /\ LastFamilyDiscrepancy # RomBits - 1 /\ 0 \in 0 .. FamilyBits
  BY SearchAssumption DEF SearchInv, TypeOK
<1>2. /\ Running' /\ wanted' \in SUBSET Roms /\ began' \in BOOLEAN
      /\ took' \in SUBSET Roms /\ since' \in SUBSET Roms /\ seen' \in SUBSET Roms
  BY NotRunning DEF owSkipFamily, Disturbed
<1>3. LastDevice' \in BOOLEAN
  BY DEF owSkipFamily
<1>4. TypeOK'
  BY <1>1, <1>2, <1>3 DEF owSkipFamily, SearchInv, TypeOK
<1>5. NoFalseError' /\ Fresh'
  BY <1>1 DEF owSkipFamily, Disturbed, NewEnumeration, NoFalseError, Fresh
<1> QED
  BY <1>2, <1>4, <1>5 DEF SearchInv

\* Steps that leave the enumeration alone.
LEMMA EnumKept ==
  ASSUME SearchInv, devs' \in SUBSET Roms, UNCHANGED <<search, enum>>
  PROVE  SearchInv'
<1>1. TypeOK' /\ NoFalseError' /\ Fresh'
  BY DEF search, enum, SearchInv, TypeOK, NoFalseError, Fresh
<1>2. Running'
  BY DEF search, enum, SearchInv, Running, Marked, Ahead, ZeroAt, Discrepancy,
         Agree, Before
<1> QED
  BY <1>1, <1>2 DEF SearchInv

LEMMA SerialNumKeeps ==
  ASSUME SearchInv, NEW r \in Roms, owSerialNum(r)
  PROVE  SearchInv'
<1>1. CASE r = SerialNum
  BY <1>1, EnumKept DEF owSerialNum, search, SearchInv, TypeOK
<1>2. CASE r # SerialNum
  <2>1. /\ Running' /\ wanted' \in SUBSET Roms /\ began' \in BOOLEAN
        /\ took' \in SUBSET Roms /\ since' \in SUBSET Roms /\ seen' \in SUBSET Roms
    BY <1>2, NotRunning DEF owSerialNum, Disturbed
  <2>2. TypeOK'
    BY <2>1, SearchAssumption DEF owSerialNum, SearchInv, TypeOK
  <2>3. NoFalseError' /\ Fresh'
    BY <1>2 DEF owSerialNum, Disturbed, NewEnumeration, SearchInv, NoFalseError, Fresh
  <2> QED
    BY <2>1, <2>2, <2>3 DEF SearchInv
<1> QED
  BY <1>1, <1>2

LEMMA SearchInductive == SearchInv /\ [Next]_vars => SearchInv'
<1> SUFFICES ASSUME SearchInv, [Next]_vars PROVE SearchInv'
  OBVIOUS
<1>1. ASSUME NEW alarm_only \in BOOLEAN, owFirst(alarm_only) PROVE SearchInv'
  BY <1>1, NoneFoundKeeps, FirstFindsKeeps DEF owFirst
<1>2. ASSUME NEW alarm_only \in BOOLEAN, owNext(alarm_only) PROVE SearchInv'
  BY <1>2, NoneFoundKeeps, NextFindsKeeps DEF owNext
<1>3. ASSUME owSkipFamily PROVE SearchInv'
  BY <1>3, SkipFamilyKeeps
<1>4. ASSUME NEW f \in Roms, owFamilySearchSetup(f) PROVE SearchInv'
  BY <1>4, FamilySetupKeeps
<1>5. ASSUME NEW f \in Roms, owSerialNum(f) PROVE SearchInv'
  BY <1>5, SerialNumKeeps
<1>6. ASSUME NEW q \in Roms, Arrive(q) PROVE SearchInv'
  BY <1>6, EnumKept DEF Arrive, SearchInv, TypeOK
<1>7. ASSUME NEW q \in Roms, Leave(q) PROVE SearchInv'
  BY <1>7, EnumKept DEF Leave, SearchInv, TypeOK
<1>8. ASSUME UNCHANGED vars PROVE SearchInv'
  BY <1>8, EnumKept DEF vars, SearchInv, TypeOK
<1> QED
  BY <1>1, <1>2, <1>3, <1>4, <1>5, <1>6, <1>7, <1>8 DEF Next

LEMMA SearchAlways == Spec => []SearchInv
BY SearchInitial, SearchInductive, PTL DEF Spec

----------------------------------------------------------------------------
(* owVerify *)

\* A device that agrees with the number r up to the CRC is r itself.
LEMMA SameBeforeCrc ==
  ASSUME NEW r \in Roms, NEW q \in Roms, NEW m \in Bits,
         Agree(r, q, m), m > RomBits - CrcBits
  PROVE  q = r
<1> SUFFICES ASSUME q # r PROVE FALSE
  OBVIOUS
<1>1. PICK i \in Bits : i <= RomBits - CrcBits /\ r[i] # q[i]
  BY SearchAssumption
<1> QED
  BY <1>1, SearchAssumption DEF Agree, Bits

\* At the positions of the CRC only the device that is looked for answers.
LEMMA CrcBitsAreGood ==
  ASSUME SerialNum \in Roms, NEW D \in SUBSET Roms, SerialNum \in D
  PROVE  Cardinality({i \in Bits : GoodBit(D, i)}) >= CrcBits
<1> DEFINE Good == {i \in Bits : GoodBit(D, i)}
           Crc  == (RomBits - CrcBits + 1) .. RomBits
<1>1. ASSUME NEW i \in Crc PROVE i \in Good
  <2>1. i \in Bits /\ i > RomBits - CrcBits
    BY SearchAssumption DEF Bits
  <2>2. ASSUME NEW q \in Answering(D, i) PROVE q = SerialNum
    <3>1. q \in Roms /\ Agree(SerialNum, q, i)
      BY DEF Answering, Agree
    <3> QED
      BY <2>1, <3>1, SameBeforeCrc
  <2> QED
    BY <2>1, <2>2 DEF GoodBit
<1>2. IsFiniteSet(Bits) /\ Cardinality(Crc) = CrcBits
  <2>1. /\ 1 \in Int /\ RomBits \in Int /\ RomBits - CrcBits + 1 \in Int
        /\ ~ (RomBits - CrcBits + 1 > RomBits)
        /\ RomBits - (RomBits - CrcBits + 1) + 1 = CrcBits
    BY SearchAssumption
  <2>2. IsFiniteSet(Bits)
    BY <2>1, FS_Interval DEF Bits
  <2>3. Cardinality(Crc) = RomBits - (RomBits - CrcBits + 1) + 1
    BY <2>1, FS_Interval
  <2> QED
    BY <2>1, <2>2, <2>3
<1>3. IsFiniteSet(Good)
  <2>1. Good \subseteq Bits
    OBVIOUS
  <2> QED
    BY <1>2, <2>1, FS_Subset
<1>4. Crc \subseteq Good
  BY <1>1
<1>5. Cardinality(Crc) <= Cardinality(Good)
  BY <1>3, <1>4, FS_Subset
<1> QED
  BY <1>2, <1>5

\* Whoever answers up to the last position is the device that is looked for.
LEMMA VerifiedIsThere ==
  ASSUME SerialNum \in Roms, NEW D \in SUBSET Roms, owVerify(D)
  PROVE  SerialNum \in D
<1>1. RomBits \in Bits /\ RomBits > RomBits - CrcBits
  BY SearchAssumption DEF Bits
<1>2. PICK q \in D : Agree(SerialNum, q, RomBits)
  BY <1>1 DEF owVerify, Answering, Agree
<1>3. q = SerialNum
  BY <1>1, <1>2, SameBeforeCrc
<1> QED
  BY <1>3

----------------------------------------------------------------------------
(* The theorems *)

\* Every variable keeps its type; LastDiscrepancy in particular never leaves
\* the positions of a code (ownetu.c:110-266, 340-372).
THEOREM SearchTypeCorrect == Spec => []TypeOK
<1>1. SearchInv => TypeOK
  BY DEF SearchInv
<1> QED
  BY <1>1, SearchAlways, PTL

\* The search never runs into what it takes for an error (ownetu.c:219).
THEOREM SearchNoFalseError == Spec => []NoFalseError
<1>1. SearchInv => NoFalseError
  BY DEF SearchInv
<1> QED
  BY <1>1, SearchAlways, PTL

\* When the search says that a device was the last one, none that answered
\* all along was left out (ownetu.c:234-242).
THEOREM SearchComplete == Spec => []Complete
<1>1. SearchInv => Complete
  <2> SUFFICES ASSUME SearchInv, wanted # {}, began, LastDevice,
                      NEW q \in since \cap wanted, q \notin seen
               PROVE  FALSE
    BY DEF Complete
  <2>1. /\ LastDiscrepancy = 0 /\ Marked /\ q \in took /\ Before(SerialNum, q)
    BY DEF SearchInv, Running, Ahead
  <2>2. PICK i \in Bits : Agree(SerialNum, q, i) /\ SerialNum[i] = 0 /\ q[i] = 1
    BY <2>1 DEF Before
  <2>3. Agree(SerialNum, q, i) /\ q[i] # SerialNum[i]
    BY <2>2
  <2>4. ZeroAt(SerialNum, took, i)
    BY <2>1, <2>2, <2>3 DEF ZeroAt, Discrepancy
  <2>5. i > 0
    BY SearchAssumption DEF Bits
  <2> QED
    BY <2>1, <2>4, <2>5 DEF Marked
<1> QED
  BY <1>1, SearchAlways, PTL

\* As long as nothing that answered is missing, the search goes forward
\* through the codes, and so reports no device twice (ownetu.c:146-166).
THEOREM SearchInOrder == Spec => InOrder
<1>1. ASSUME SearchInv, NEW alarm_only \in BOOLEAN, NEW r \in Roms,
             NextFinds(alarm_only, r), began, began'
      PROVE  Before(SerialNum, r)
  <2> DEFINE D == TakesPart(alarm_only)
  <2>1. D \in SUBSET Roms
    BY <1>1, TakesPartType DEF SearchInv
  <2>2. ~LastDevice /\ r \in Leaves(D, LastDiscrepancy, SerialNum) /\ Continued(D, r)
    BY <1>1 DEF NextFinds
  <2> HIDE DEF D
  <2>3. took \in SUBSET D
    BY <1>1, <2>2 DEF Continued, Disturbed, NewEnumeration
  <2>4. SerialNum \in took /\ LastDiscrepancy # 0 /\ Marked
    BY <1>1, <2>2 DEF SearchInv, Running
  <2>5. LastDiscrepancy \in Bits /\ ZeroAt(SerialNum, took, LastDiscrepancy)
    BY <1>1, <2>4, SearchAssumption DEF SearchInv, TypeOK, Bits, Marked
  <2>6. /\ Agree(SerialNum, r, LastDiscrepancy)
        /\ SerialNum[LastDiscrepancy] = 0 /\ r[LastDiscrepancy] = 1
    BY <2>1, <2>2, <2>3, <2>4, <2>5, WalkTurns
  <2> QED
    BY <2>5, <2>6 DEF Before
<1>2. SearchInv /\ [Next]_vars =>
        [\A alarm_only \in BOOLEAN, r \in Roms :
           NextFinds(alarm_only, r) /\ began /\ began' => Before(SerialNum, r)]_vars
  BY <1>1
<1> QED
  BY <1>2, SearchAlways, PTL DEF Spec, InOrder

\* owVerify finds the device whose number is selected exactly if it is there:
\* the CRC, where nobody else can still answer, is as long as the count of
\* good bits it asks for (ownetu.c:450-498).
THEOREM SearchVerifyExact == Spec => []VerifyExact
<1>1. SearchInv => VerifyExact
  <2> SUFFICES ASSUME SearchInv, SerialNum \in Roms
               PROVE  owVerify(devs) <=> SerialNum \in devs
    BY DEF VerifyExact
  <2>1. devs \in SUBSET Roms
    BY DEF SearchInv, TypeOK
  <2>2. ASSUME SerialNum \in devs PROVE owVerify(devs)
    <3>1. \A i \in Bits : SerialNum \in Answering(devs, i)
      BY <2>2 DEF Answering, Agree
    <3>2. Cardinality({i \in Bits : GoodBit(devs, i)}) >= CrcBits
      BY <2>1, <2>2, CrcBitsAreGood
    <3> QED
      BY <3>1, <3>2 DEF owVerify
  <2> QED
    BY <2>1, <2>2, VerifiedIsThere
<1> QED
  BY <1>1, SearchAlways, PTL
=============================================================================
