---------------------------- MODULE OwFileProofs ----------------------------
(***************************************************************************)
(* What holds of the file system for a part of any number of pages, any    *)
(* names, sizes of files, handles and depth of directories, and any number *)
(* of calls and of losses of contact, whatever is on the part, a chain     *)
(* that loops and a directory that is none included: its types, and which  *)
(* pages a call may write.                                                 *)
(*                                                                         *)
(* The work is in the functions.  Goes(c, e, S) says that a call went from *)
(* c to e and wrote at most the pages S; it composes (GoesThen), so each   *)
(* function of the code has one lemma <name>Goes with the pages it may     *)
(* write.  The recursive functions (Walk, ExtWrite, Along, DirsOf) exist   *)
(* and stay in a set that their step keeps by Recursion and Upto, and      *)
(* Walk is known by what leads from page to page in it (Leads).            *)
(***************************************************************************)
EXTENDS OwFile, WellFoundedInduction, TLAPS

----------------------------------------------------------------------------
(* The least and the greatest of a set, and induction up to a number. *)

LEMMA MinIn ==
  ASSUME NEW S \in SUBSET Nat, S # {}
  PROVE  Min(S) \in S /\ \A y \in S : Min(S) <= y
<1>1. \E m \in S : \A k \in S : ~ (<<k, m>> \in OpToRel(<, Nat))
  <2>1. S \subseteq Nat
    OBVIOUS
  <2> QED
    BY <2>1, NatLessThanWellFounded, WFMin
<1>2. PICK m \in S : \A k \in S : ~ (<<k, m>> \in OpToRel(<, Nat))
  BY <1>1
<1>3. ASSUME NEW k \in S PROVE m <= k
  <2>0. k \in Nat /\ m \in Nat
    BY <1>2
  <2>1. SUFFICES ASSUME k < m PROVE FALSE
    BY <2>0
  <2>2. <<k, m>> \in Nat \X Nat /\ <<k, m>>[1] < <<k, m>>[2]
    BY <2>0, <2>1
  <2>3. <<k, m>> \in OpToRel(<, Nat)
    BY <2>2 DEF OpToRel
  <2> QED
    BY <2>3, <1>2
<1> QED
  BY <1>2, <1>3 DEF Min

LEMMA MaxIn ==
  ASSUME NEW n \in Nat, NEW S \in SUBSET (0 .. n), S # {}
  PROVE  Max(S) \in S /\ \A y \in S : y <= Max(S)
<1> DEFINE T == {n - k : k \in S}
           t == Min(T)
<1>1. T \in SUBSET Nat /\ T # {}
  <2>1. \A k \in S : n - k \in Nat
    OBVIOUS
  <2> QED
    BY <2>1
<1>2. t \in T /\ \A y \in T : t <= y
  <2> HIDE DEF T
  <2> QED
    BY <1>1, MinIn
<1>3. PICK m \in S : t = n - m
  BY <1>2
<1>4. ASSUME NEW y \in S PROVE m >= y
  <2>1. n - y \in T
    OBVIOUS
  <2>2. t <= n - y
    BY <2>1, <1>2
  <2> HIDE DEF t, T
  <2> QED
    BY <2>2, <1>3
<1> QED
  BY <1>3, <1>4 DEF Max

\* What holds at 0 and passes from k - 1 to k holds up to n.
LEMMA Upto ==
  ASSUME NEW n \in Nat, NEW S, 0 \in S,
         \A k \in 0 .. n : k # 0 /\ k - 1 \in S => k \in S
  PROVE  \A k \in 0 .. n : k \in S
<1> DEFINE T == {k \in 0 .. n : k \notin S}
<1>1. SUFFICES ASSUME T # {} PROVE FALSE
  OBVIOUS
<1>2. T \in SUBSET Nat
  OBVIOUS
<1>3. Min(T) \in T /\ \A y \in T : Min(T) <= y
  BY <1>1, <1>2, MinIn
<1>4. PICK m \in T : \A y \in T : m <= y
  BY <1>3
<1>5. m \in 0 .. n /\ m \notin S /\ m # 0
  OBVIOUS
<1>6. m - 1 \in T
  BY <1>5
<1> QED
  BY <1>4, <1>5, <1>6

----------------------------------------------------------------------------
(* Types *)

Places == 0 .. Stray
Entries == [name : Names, spage : Places, attr : BOOLEAN]
Listed == [name : Names \cup {NoName}, spage : Places, attr : BOOLEAN]
Infos == [e : Listed, dpage : Pages, pdpage : Pages, pos : Nat]
Devs == [Pages -> PageType]
Open(names) == [name : names \cup {NoName}, spage : Places, dpage : Places,
                pos : Nat, attr : BOOLEAN]
Hans == {han \in [Handles \cup {0} -> Open(Names)] : \A h \in Handles : han[h] \in Open(Files)}
Calls ==
  [dev : Devs, han : Hans, cd : Seq(Places), internal : BOOLEAN, bm : SUBSET Pages,
   info : Infos, spot : Pages, dbuf : PageType, newpg : PageType,
   left : Nat, torn : BOOLEAN, lost : BOOLEAN, blind : BOOLEAN, ok : BOOLEAN, hung : BOOLEAN]

LEMMA Constants ==
  /\ MaxP \in Nat /\ MaxP # 0 /\ Stray = MaxP + 1 /\ Stray \in Places
  /\ Pages \subseteq Places /\ 0 \in Pages /\ 0 \in Places /\ Stray \notin Pages
  /\ Handles \subseteq 1 .. 4 /\ 0 \notin Handles
  /\ Files \subseteq Names /\ Dirs \subseteq Names
<1> QED
  BY FileAssumption DEF Pages, Places, Stray, Names

LEMMA PageFields ==
  ASSUME NEW page \in PageType
  PROVE  /\ page.head \in {"root", "sub", "none", "blank"} /\ page.bm \in SUBSET Pages
         /\ page.next \in Places /\ page.slots \in Seq(Entries)
         /\ page = [head |-> page.head, bm |-> page.bm, slots |-> page.slots,
                    data |-> page.data, next |-> page.next]
<1> QED
  BY DEF PageType, Entries, Places

LEMMA PageSame ==
  /\ Blank \in PageType /\ RootPage \in PageType /\ DirPage \in PageType
  /\ \A page \in PageType, next \in Places : [page EXCEPT !.next = next] \in PageType
  /\ \A page \in PageType, bm \in SUBSET Pages : [page EXCEPT !.bm = bm] \in PageType
  /\ \A page \in PageType, slots \in Seq(Entries) : [page EXCEPT !.slots = slots] \in PageType
  /\ \A page \in PageType : [page EXCEPT !.data = Garbled] \in PageType
  /\ \A page \in PageType : [page EXCEPT !.head = "none"] \in PageType
<1> DEFINE Datas == {<<>>, Garbled} \cup {<<f, k, n>> : f \in Files, k \in 1 .. Max(Sizes), n \in Sizes}
           Slots == Seq(Entries)
           e == <<>>
<1>1. PageType = [head : {"root", "sub", "none", "blank"}, bm : SUBSET Pages, next : Places,
                  slots : Slots, data : Datas]
  BY DEF PageType, Entries, Places
<1>2. e \in Slots /\ <<>> \in Datas /\ Garbled \in Datas
  OBVIOUS
<1>3. Blank = [head |-> "blank", bm |-> {}, slots |-> e, data |-> <<>>, next |-> 0]
  BY DEF Blank
<1> HIDE DEF Datas, Slots, e
<1>4. Blank \in PageType
  BY <1>1, <1>2, <1>3, Constants
<1>5. RootPage \in PageType /\ DirPage \in PageType
  BY <1>1, <1>4, Constants DEF RootPage, DirPage
<1>6. \A page \in PageType, next \in Places : [page EXCEPT !.next = next] \in PageType
  BY <1>1
<1>7. \A page \in PageType, bm \in SUBSET Pages : [page EXCEPT !.bm = bm] \in PageType
  BY <1>1
<1>8. \A page \in PageType, slots \in Slots : [page EXCEPT !.slots = slots] \in PageType
  BY <1>1
<1>9. \A page \in PageType : [page EXCEPT !.data = Garbled] \in PageType
  BY <1>1, <1>2
<1>10. \A page \in PageType : [page EXCEPT !.head = "none"] \in PageType
  BY <1>1
<1> QED
  BY <1>4, <1>5, <1>6, <1>7, <1>8, <1>9, <1>10 DEF Slots

LEMMA AtType ==
  ASSUME NEW d \in Devs, NEW p
  PROVE  At(d, p) \in PageType /\ (Readable(At(d, p)) => p \in Pages /\ At(d, p) = d[p])
                               /\ (p \in Pages => At(d, p) = d[p])
<1> QED
  BY PageSame DEF At, Devs, Readable, Blank

LEMMA AvailType ==
  ASSUME NEW bm \in SUBSET Pages
  PROVE  /\ Avail(bm) \in Pages /\ (Avail(bm) # 0 => Avail(bm) \notin bm)
         /\ Behind(bm) \in Pages
<1>1. ASSUME NEW b \in SUBSET Pages PROVE Avail(b) \in Pages /\ (Avail(b) # 0 => Avail(b) \notin b)
  <2>1. CASE Pages \subseteq b
    BY <2>1, Constants DEF Avail
  <2>2. CASE ~(Pages \subseteq b)
    <3>1. Pages \ b \in SUBSET Nat /\ Pages \ b # {}
      BY <2>2, Constants DEF Pages
    <3>2. Min(Pages \ b) \in Pages \ b
      BY <3>1, MinIn
    <3> QED
      BY <2>2, <3>2 DEF Avail
  <2> QED
    BY <2>1, <2>2
<1>2. bm \cup {Avail(bm)} \in SUBSET Pages
  BY <1>1
<1> QED
  BY <1>1, <1>2 DEF Behind

----------------------------------------------------------------------------
(* Recursive functions are defined, and stay in a set their steps keep. *)

RecursiveIn(g, n, T, init, F) ==
  /\ g \in [0 .. n -> T]
  /\ \A k \in 0 .. n : g[k] = IF k = 0 THEN init ELSE F[<<k, g[k - 1]>>]

LEMMA Recursion ==
  ASSUME NEW n \in Nat, NEW T, NEW init \in T, NEW F \in [(0 .. n) \X T -> T]
  PROVE  \E g : RecursiveIn(g, n, T, init, F)
<1> DEFINE Good(m, g) == /\ g \in [0 .. m -> T]
                         /\ \A k \in 0 .. m : g[k] = IF k = 0 THEN init ELSE F[<<k, g[k - 1]>>]
           S == {m \in 0 .. n : \E g : Good(m, g)}
<1>1. 0 \in S
  <2>1. Good(0, [k \in 0 .. 0 |-> init])
    OBVIOUS
  <2> HIDE DEF Good
  <2> QED
    BY <2>1
<1>2. ASSUME NEW m \in 0 .. n, m # 0, m - 1 \in S PROVE m \in S
  <2>1. PICK g : Good(m - 1, g)
    BY <1>2
  <2>2. m - 1 \in 0 .. (m - 1) /\ g[m - 1] \in T
    BY <1>2, <2>1
  <2> DEFINE v == F[<<m, g[m - 1]>>]
             h == [k \in 0 .. m |-> IF k = m THEN v ELSE g[k]]
  <2>3. v \in T
    BY <2>2
  <2>4. h[m] = v /\ \A k \in 0 .. m : k # m => h[k] = g[k] /\ k \in 0 .. (m - 1)
    BY <1>2
  <2>5. h \in [0 .. m -> T]
    <3>1. \A k \in 0 .. m : h[k] \in T
      BY <2>3, <2>4, <2>1
    <3> QED
      BY <3>1
  <2> HIDE DEF h
  <2>6. ASSUME NEW k \in 0 .. m PROVE h[k] = IF k = 0 THEN init ELSE F[<<k, h[k - 1]>>]
    <3>1. CASE k = m
      <4>1. h[k - 1] = g[k - 1]
        BY <3>1, <1>2, <2>4
      <4> QED
        BY <4>1, <3>1, <1>2, <2>4
    <3>2. CASE k # m /\ k # 0
      <4>1. h[k] = g[k] /\ k \in 0 .. (m - 1) /\ h[k - 1] = g[k - 1]
        BY <3>2, <2>4
      <4> QED
        BY <4>1, <3>2, <2>1
    <3>3. CASE k # m /\ k = 0
      BY <3>3, <2>4, <2>1
    <3> QED
      BY <3>1, <3>2, <3>3
  <2>7. Good(m, h)
    BY <2>5, <2>6
  <2> HIDE DEF Good
  <2> QED
    BY <2>7
<1>3. \E g : Good(n, g)
  <2>1. \A m \in 0 .. n : m # 0 /\ m - 1 \in S => m \in S
    BY <1>2
  <2> HIDE DEF S
  <2>2. \A m \in 0 .. n : m \in S
    BY <1>1, <2>1, Upto
  <2>3. n \in S
    BY <2>2
  <2> QED
    BY <2>3 DEF S
<1> QED
  BY <1>3 DEF RecursiveIn

\* A sequence in pieces: all of it is in the pieces, and nothing else.
LEMMA FlattenType ==
  ASSUME NEW S, NEW seqs \in Seq(Seq(S))
  PROVE  FlattenSeq(seqs) \in Seq(S)
<1> DEFINE n == Len(seqs)
           e == <<>>
           T == Seq(S)
<1>1. n \in Nat /\ e \in T /\ seqs \in [1 .. n -> T]
  OBVIOUS
<1>2. CASE n = 0
  <2>1. seqs = e
    BY <1>2
  <2> QED
    BY <1>1, <1>2, <2>1 DEF FlattenSeq
<1>3. CASE n # 0
  <2> DEFINE F == [p \in (0 .. n) \X T |-> IF p[1] = 0 THEN e ELSE IF p[1] = 1 THEN seqs[1] ELSE p[2] \o seqs[p[1]]]
             Good(g) == g = [i \in 1 .. n |-> IF i = 1 THEN seqs[i] ELSE g[i - 1] \o seqs[i]]
  <2>1. F \in [(0 .. n) \X T -> T]
    <3>1. ASSUME NEW k \in 0 .. n, NEW x \in T PROVE F[<<k, x>>] \in T
      <4>1. k = 0 \/ seqs[k] \in T
        BY <1>1
      <4>2. 1 \in 1 .. n
        BY <1>1, <1>3
      <4> QED
        BY <4>1, <4>2, <1>1
    <3> HIDE DEF T
    <3> QED
      BY <3>1
  <2>2. PICK g : RecursiveIn(g, n, T, e, F)
    <3> HIDE DEF F, T, e, n
    <3> QED
      BY <2>1, <1>1, Recursion
  <2> DEFINE h == [i \in 1 .. n |-> g[i]]
  <2>3. Good(h)
    <3>1. ASSUME NEW i \in 1 .. n PROVE h[i] = IF i = 1 THEN seqs[i] ELSE h[i - 1] \o seqs[i]
      <4>1. g[i] = F[<<i, g[i - 1]>>] /\ i - 1 \in 0 .. n /\ i \in 0 .. n /\ g[i - 1] \in T
        <5>1. i \in 0 .. n /\ i - 1 \in 0 .. n /\ i # 0
          BY <1>1
        <5> HIDE DEF F, T, e, n
        <5> QED
          BY <5>1, <2>2 DEF RecursiveIn
      <4>2. F[<<i, g[i - 1]>>] = IF i = 1 THEN seqs[1] ELSE g[i - 1] \o seqs[i]
        <5> HIDE DEF T
        <5> QED
          BY <4>1
      <4>3. i # 1 => i - 1 \in 1 .. n
        BY <1>1
      <4>4. i # 1 => h[i - 1] = g[i - 1]
        BY <4>3
      <4> QED
        BY <4>1, <4>2, <4>4
    <3> QED
      BY <3>1
  <2> DEFINE f == CHOOSE x : Good(x)
  <2>4. Good(f)
    <3>1. \E x : Good(x)
      BY <2>3
    <3> HIDE DEF Good
    <3> QED
      BY <3>1
  <2>5. FlattenSeq(seqs) = f[n]
    BY <1>3 DEF FlattenSeq
  <2> HIDE DEF f
  <2> DEFINE K == {k \in 0 .. n : k = 0 \/ f[k] \in T}
  <2>6. 0 \in K
    BY <1>1
  <2>7. ASSUME NEW k \in 0 .. n, k # 0, k - 1 \in K PROVE k \in K
    <3>1. k \in 1 .. n /\ seqs[k] \in T
      BY <2>7, <1>1
    <3>2. f[k] = IF k = 1 THEN seqs[k] ELSE f[k - 1] \o seqs[k]
      BY <2>4, <3>1
    <3>3. k # 1 => f[k - 1] \in T
      BY <2>7, <1>1
    <3>4. f[k] \in T
      BY <3>1, <3>2, <3>3
    <3> QED
      BY <3>4
  <2>8. n \in K
    <3>1. \A k \in 0 .. n : k # 0 /\ k - 1 \in K => k \in K
      BY <2>7
    <3> HIDE DEF K
    <3>2. \A k \in 0 .. n : k \in K
      BY <1>1, <2>6, <3>1, Upto
    <3> QED
      BY <3>2, <1>1
  <2> QED
    BY <2>8, <2>5, <1>3
<1> QED
  BY <1>2, <1>3

----------------------------------------------------------------------------
(* Chains of pages *)

\* Every page of a chain but the last can be read.
Leads(d, s) ==
  {w \in Seq(Places) : /\ Len(w) # 0 /\ w[1] = s
                       /\ \A k \in 1 .. Len(w) - 1 : Readable(At(d, w[k]))}

LEMMA GrownLeads ==
  ASSUME NEW d \in Devs, NEW s \in Places, NEW w \in Leads(d, s)
  PROVE  Grown(d, w) \in Leads(d, s)
<1> DEFINE page == At(d, Last(w))
<1>1. page \in PageType /\ page.next \in Places
  BY AtType, PageFields
<1>2. CASE Grown(d, w) = w
  BY <1>2
<1>3. CASE Grown(d, w) # w
  <2>1. Readable(page) /\ Grown(d, w) = Append(w, page.next)
    BY <1>3 DEF Grown, Longer
  <2>2. w \in Seq(Places) /\ Len(w) \in Nat /\ Len(w) # 0 /\ w[1] = s
    BY DEF Leads
  <2> DEFINE v == Append(w, page.next)
             n == Len(w)
  <2>3. v \in Seq(Places) /\ Len(v) = n + 1 /\ \A k \in 1 .. n : v[k] = w[k]
    BY <1>1, <2>2
  <2>4. n \in Nat /\ n # 0
    BY <2>2
  <2>5. ASSUME NEW k \in 1 .. Len(v) - 1 PROVE Readable(At(d, v[k]))
    <3>1. k \in 1 .. n /\ v[k] = w[k]
      BY <2>3, <2>4
    <3>2. CASE k = n
      BY <3>1, <3>2, <2>1 DEF Last
    <3>3. CASE k # n
      <4>1. k \in 1 .. n - 1
        BY <3>1, <3>3, <2>4
      <4> QED
        BY <4>1, <3>1 DEF Leads
    <3> QED
      BY <3>2, <3>3
  <2>6. Len(v) # 0 /\ v[1] = s
    BY <2>3, <2>4, <2>2
  <2> QED
    BY <2>1, <2>3, <2>5, <2>6 DEF Leads
<1> QED
  BY <1>2, <1>3

LEMMA WalkLeads ==
  ASSUME NEW d \in Devs, NEW s \in Places
  PROVE  Walk(d, s) \in Leads(d, s)
<1> DEFINE n == MaxP + 1
           e == <<s>>
           T == Leads(d, s)
           F == [p \in (0 .. n) \X T |-> Grown(d, p[2])]
           Good(g) == g = [k \in 0 .. n |-> IF k = 0 THEN e ELSE Grown(d, g[k - 1])]
<1>1. n \in Nat
  BY Constants
<1>2. e \in T
  <2>1. e \in Seq(Places) /\ Len(e) = 1 /\ e[1] = s
    OBVIOUS
  <2> HIDE DEF e
  <2>2. \A k \in 1 .. Len(e) - 1 : Readable(At(d, e[k]))
    BY <2>1
  <2>3. Len(e) # 0
    BY <2>1
  <2> QED
    BY <2>1, <2>2, <2>3 DEF Leads
<1>3. F \in [(0 .. n) \X T -> T]
  <2>1. \A k \in 0 .. n, x \in T : F[<<k, x>>] = Grown(d, x) /\ F[<<k, x>>] \in T
    <3>1. ASSUME NEW k \in 0 .. n, NEW x \in T PROVE F[<<k, x>>] = Grown(d, x)
      <4> HIDE DEF T
      <4> QED
        OBVIOUS
    <3>2. \A x \in T : Grown(d, x) \in T
      BY GrownLeads
    <3> HIDE DEF F, T
    <3> QED
      BY <3>1, <3>2
  <2>2. F = [p \in (0 .. n) \X T |-> F[p]]
    OBVIOUS
  <2> HIDE DEF F, T
  <2> QED
    BY <2>1, <2>2
<1>4. PICK g : RecursiveIn(g, n, T, e, F)
  <2> HIDE DEF F, T, e, n
  <2> QED
    BY <1>1, <1>2, <1>3, Recursion
<1>5. Good(g)
  <2> HIDE DEF T, e
  <2>1. g = [k \in 0 .. n |-> g[k]]
    BY <1>4 DEF RecursiveIn
  <2>2. ASSUME NEW k \in 0 .. n PROVE g[k] = IF k = 0 THEN e ELSE Grown(d, g[k - 1])
    <3>1. k # 0 => k - 1 \in 0 .. n
      BY <1>1
    <3>2. k # 0 => g[k - 1] \in T /\ g[k] = F[<<k, g[k - 1]>>]
      <4> HIDE DEF F, n
      <4> QED
        BY <3>1, <1>4 DEF RecursiveIn
    <3>3. k = 0 => g[k] = e
      <4> HIDE DEF F, n
      <4> QED
        BY <1>4 DEF RecursiveIn
    <3> QED
      BY <3>2, <3>3
  <2> HIDE DEF F, n
  <2> QED
    BY <2>1, <2>2
<1> DEFINE W == CHOOSE x : Good(x)
<1>6. Good(W)
  <2>1. \E x : Good(x)
    BY <1>5
  <2> HIDE DEF Good
  <2> QED
    BY <2>1
<1>7. Walk(d, s) = W[n]
  BY DEF Walk
<1> HIDE DEF W
<1> DEFINE K == {k \in 0 .. n : W[k] \in T}
<1>8. 0 \in K
  BY <1>1, <1>2, <1>6
<1>9. ASSUME NEW k \in 0 .. n, k # 0, k - 1 \in K PROVE k \in K
  <2>1. W[k] = Grown(d, W[k - 1]) /\ W[k - 1] \in T
    BY <1>6, <1>9
  <2>2. Grown(d, W[k - 1]) \in T
    BY <2>1, GrownLeads
  <2> QED
    BY <2>1, <2>2
<1>10. n \in K
  <2>1. \A k \in 0 .. n : k # 0 /\ k - 1 \in K => k \in K
    BY <1>9
  <2> HIDE DEF K
  <2>2. \A k \in 0 .. n : k \in K
    BY <1>1, <1>8, <2>1, Upto
  <2> QED
    BY <2>2, <1>1
<1> QED
  BY <1>10, <1>7

\* What is known of a chain: it is made of pages, but for the last one.
LEMMA WalkType ==
  ASSUME NEW d \in Devs, NEW s \in Places
  PROVE  /\ Walk(d, s) \in Seq(Places) /\ Len(Walk(d, s)) \in Nat \ {0} /\ Walk(d, s)[1] = s
         /\ \A k \in 1 .. Len(Walk(d, s)) : Walk(d, s)[k] \in Places
         /\ \A k \in 1 .. Len(Walk(d, s)) - 1 :
              Readable(At(d, Walk(d, s)[k])) /\ Walk(d, s)[k] \in Pages
<1> DEFINE w == Walk(d, s)
<1>1. w \in Leads(d, s)
  BY WalkLeads
<1> HIDE DEF w
<1>2. w \in Seq(Places) /\ Len(w) # 0 /\ w[1] = s
      /\ \A k \in 1 .. Len(w) - 1 : Readable(At(d, w[k]))
  BY <1>1 DEF Leads
<1>3. Len(w) \in Nat /\ \A k \in 1 .. Len(w) : w[k] \in Places
  BY <1>2
<1>4. \A k \in 1 .. Len(w) - 1 : w[k] \in Pages
  BY <1>2, AtType
<1> QED
  BY <1>2, <1>3, <1>4 DEF w

----------------------------------------------------------------------------
(* Directories *)

\* An entry of the directory in the chain w, with the places it is found by.
Entered(d, w) ==
  {x \in Infos : /\ x.dpage \in ToSet(w) /\ x.pdpage \in ToSet(w)
                 /\ x.pos \in 1 .. Len(Items(d[x.dpage]))
                 /\ x.e = Items(d[x.dpage])[x.pos]}

LEMMA ItemsType ==
  ASSUME NEW page \in PageType
  PROVE  /\ Items(page) \in Seq(Listed) /\ Len(Items(page)) \in Nat
         /\ Len(page.slots) \in Nat
         /\ IsDir(page) => Len(Items(page)) = Len(page.slots) + 1
         /\ ~IsDir(page) => Len(Items(page)) = Len(page.slots)
<1> DEFINE e == <<>>
           h == <<Header>>
           s == page.slots
<1>1. s \in Seq(Entries)
  BY PageFields
<1>2. Entries \subseteq Listed /\ Header \in Listed
  BY Constants DEF Entries, Listed, Header
<1> HIDE DEF s
<1>3. s \in Seq(Listed)
  BY <1>1, <1>2
<1>4. h \in Seq(Listed) /\ e \in Seq(Listed) /\ Len(h) = 1 /\ Len(e) = 0 /\ e \o s = s
  BY <1>2, <1>3
<1>5. Items(page) = IF IsDir(page) THEN h \o s ELSE e \o s
  BY DEF Items, s
<1> HIDE DEF h, e
<1>6. Len(s) \in Nat /\ h \o s \in Seq(Listed) /\ Len(h \o s) = Len(h) + Len(s)
  <2>1. h \in Seq(Listed)
    BY <1>4
  <2>2. Len(s) \in Nat /\ h \o s \in Seq(Listed)
    BY <1>3, <2>1
  <2>3. Len(h \o s) = Len(h) + Len(s)
    BY <1>3, <2>1
  <2> QED
    BY <2>2, <2>3
<1>7. CASE IsDir(page)
  <2>1. Items(page) = h \o s
    BY <1>5, <1>7
  <2> QED
    BY <1>4, <1>6, <1>7, <2>1 DEF s
<1>8. CASE ~IsDir(page)
  <2>1. Items(page) = s
    BY <1>4, <1>5, <1>8
  <2> QED
    BY <1>3, <1>6, <1>8, <2>1 DEF s
<1> QED
  BY <1>7, <1>8

LEMMA SpreadType ==
  ASSUME NEW d \in Devs, NEW w \in Seq(Places), NEW k \in DOMAIN w, NEW i \in DOMAIN w,
         NEW header \in {0, 1}, i = k \/ w[i] \in Pages
  PROVE  Spread(Items(At(d, w[k])), w[k], w[i], header) \in Seq(Entered(d, w))
<1> DEFINE items == Items(At(d, w[k]))
           n == Len(items)
<1>1. items \in Seq(Listed) /\ n \in Nat
  BY AtType, ItemsType
<1>2. w[k] \in Places /\ w[i] \in Places /\ w[k] \in ToSet(w) /\ w[i] \in ToSet(w)
  BY DEF ToSet
<1>3. ASSUME n # 0 PROVE w[k] \in Pages /\ At(d, w[k]) = d[w[k]] /\ w[i] \in Pages
  <2>1. ASSUME w[k] \notin Pages PROVE FALSE
    <3>1. At(d, w[k]) = Blank
      BY <2>1 DEF At
    <3> DEFINE b == Blank
    <3>2. ~IsDir(b) /\ b.slots = <<>> /\ b \in PageType
      BY PageSame DEF IsDir, Blank
    <3>4. Len(b.slots) = 0
      BY <3>2
    <3> HIDE DEF b
    <3>3. Len(Items(b)) = 0
      BY <3>2, <3>4, ItemsType
    <3>5. items = Items(b)
      BY <3>1 DEF b
    <3> QED
      BY <3>3, <3>5, <1>3
  <2> QED
    BY <2>1 DEF At
<1> DEFINE E == Entered(d, w)
           item(j) == [e |-> items[j + header], dpage |-> w[k], pdpage |-> w[i], pos |-> j + header]
<1>4. ASSUME NEW j \in 1 .. n - header PROVE item(j) \in E
  <2>1. n # 0 /\ j + header \in 1 .. n /\ j + header \in Nat
    BY <1>1
  <2>2. items[j + header] \in Listed
    BY <2>1, <1>1
  <2>3. item(j) \in Infos
    BY <2>1, <2>2, <1>3 DEF Infos
  <2>4. items = Items(d[w[k]])
    BY <2>1, <1>3
  <2> HIDE DEF items
  <2> QED
    BY <2>1, <2>3, <2>4, <1>2 DEF Entered
<1>5. Spread(items, w[k], w[i], header) = [j \in 1 .. n - header |-> item(j)]
  BY DEF Spread
<1> HIDE DEF item, E, items
<1>6. [j \in 1 .. n - header |-> item(j)] \in Seq(E)
  <2>1. CASE n - header \in Nat
    <3> DEFINE m == n - header
    <3>1. m \in Nat /\ \A j \in 1 .. m : item(j) \in E
      BY <2>1, <1>4
    <3> HIDE DEF m
    <3>2. [j \in 1 .. m |-> item(j)] \in Seq(E)
      BY <3>1
    <3> QED
      BY <3>2 DEF m
  <2>2. CASE n - header \notin Nat
    <3>1. 1 .. n - header = {}
      BY <1>1, <2>2
    <3> DEFINE m == 0
               D == 1 .. n - header
    <3>2. D = 1 .. m
      BY <3>1
    <3>3. m \in Nat /\ \A j \in 1 .. m : item(j) \in E
      OBVIOUS
    <3> HIDE DEF m
    <3>4. [j \in 1 .. m |-> item(j)] \in Seq(E)
      BY <3>3
    <3> QED
      BY <3>2, <3>4
  <2> QED
    BY <2>1, <2>2
<1> QED
  BY <1>5, <1>6 DEF items, E

LEMMA ListingType ==
  ASSUME NEW d \in Devs, NEW s \in Places
  PROVE  Listing(d, Walk(d, s)) \in Seq(Entered(d, Walk(d, s)))
<1> DEFINE w == Walk(d, s)
           E == Entered(d, w)
           one == 1
           zero == 0
           piece(k) == IF k = 1 THEN Spread(Items(At(d, w[1])), w[1], w[1], 1)
                       ELSE Spread(Items(At(d, w[k])), w[k], w[k - 1], 0)
<1>1. w \in Seq(Places) /\ Len(w) \in Nat \ {0} /\ \A k \in 1 .. Len(w) - 1 : w[k] \in Pages
  BY WalkType
<1> HIDE DEF w
<1>2. DOMAIN w = 1 .. Len(w)
  BY <1>1
<1>3. ASSUME NEW k \in DOMAIN w PROVE piece(k) \in Seq(E)
  <2>1. CASE k = 1
    <3>1. one \in {0, 1}
      OBVIOUS
    <3> HIDE DEF one
    <3>2. Spread(Items(At(d, w[k])), w[k], w[k], one) \in Seq(E)
      BY <3>1, <1>1, SpreadType
    <3> QED
      BY <3>2, <2>1 DEF one
  <2>2. CASE k # 1
    <3>1. zero \in {0, 1} /\ k - 1 \in DOMAIN w /\ k - 1 \in 1 .. Len(w) - 1
      BY <1>1, <1>2, <2>2
    <3> DEFINE i == k - 1
    <3>2. i \in DOMAIN w /\ w[i] \in Pages
      BY <3>1, <1>1
    <3> HIDE DEF zero, i
    <3>3. Spread(Items(At(d, w[k])), w[k], w[i], zero) \in Seq(E)
      BY <3>1, <3>2, <1>1, SpreadType
    <3> QED
      BY <3>3, <2>2 DEF zero, i
  <2> QED
    BY <2>1, <2>2
<1> DEFINE seqs == [k \in DOMAIN w |-> piece(k)]
<1>4. seqs \in Seq(Seq(E))
  <2> DEFINE n == Len(w)
  <2>1. n \in Nat /\ seqs = [k \in 1 .. n |-> piece(k)] /\ \A k \in 1 .. n : piece(k) \in Seq(E)
    BY <1>1, <1>2, <1>3
  <2> HIDE DEF piece, n, E, seqs
  <2>2. [k \in 1 .. n |-> piece(k)] \in Seq(Seq(E))
    BY <2>1
  <2> QED
    BY <2>1, <2>2
<1>5. Listing(d, w) = FlattenSeq(seqs)
  BY DEF Listing
<1> HIDE DEF seqs, E
<1>6. FlattenSeq(seqs) \in Seq(E)
  BY <1>4, FlattenType
<1> QED
  BY <1>5, <1>6 DEF E, w

\* What a search finds: an entry of that name, or nothing.
LEMMA NamedType ==
  ASSUME NEW d \in Devs, NEW s \in Places, NEW name
  PROVE  LET list == Listing(d, Walk(d, s))
         IN  /\ FirstNamed(list, name) = NoInfo
                \/ (FirstNamed(list, name) \in ToSet(list) /\ FirstNamed(list, name).e.name = name)
             /\ LastNamed(list, name) = NoInfo
                \/ (LastNamed(list, name) \in ToSet(list) /\ LastNamed(list, name).e.name = name)
<1> DEFINE list == Listing(d, Walk(d, s))
           n == Len(list)
           H == Having(list, name)
<1>1. n \in Nat /\ DOMAIN list = 1 .. n
  BY ListingType
<1> HIDE DEF list
<1>2. H \in SUBSET (0 .. n) /\ H \in SUBSET Nat /\ H \subseteq DOMAIN list
      /\ \A k \in H : list[k].e.name = name
  BY <1>1 DEF Having
<1>3. ASSUME H = {} PROVE FirstNamed(list, name) = NoInfo /\ LastNamed(list, name) = NoInfo
  BY <1>3 DEF FirstNamed, LastNamed
<1>4. ASSUME H # {}
      PROVE  /\ FirstNamed(list, name) \in ToSet(list) /\ FirstNamed(list, name).e.name = name
             /\ LastNamed(list, name) \in ToSet(list) /\ LastNamed(list, name).e.name = name
  <2> HIDE DEF n, H
  <2>1. Min(H) \in H
    BY <1>2, <1>4, MinIn
  <2>2. Max(H) \in H
    BY <1>1, <1>2, <1>4, MaxIn
  <2>3. FirstNamed(list, name) = list[Min(H)] /\ LastNamed(list, name) = list[Max(H)]
    BY <1>4 DEF FirstNamed, LastNamed, H
  <2> QED
    BY <2>1, <2>2, <2>3, <1>2 DEF ToSet
<1>5. /\ FirstNamed(list, name) = NoInfo
         \/ (FirstNamed(list, name) \in ToSet(list) /\ FirstNamed(list, name).e.name = name)
      /\ LastNamed(list, name) = NoInfo
         \/ (LastNamed(list, name) \in ToSet(list) /\ LastNamed(list, name).e.name = name)
  <2>1. CASE H = {}
    BY <2>1, <1>3
  <2>2. CASE H # {}
    BY <2>2, <1>4
  <2> HIDE DEF H
  <2> QED
    BY <2>1, <2>2
<1> QED
  BY <1>5 DEF list

LEMMA EnteredType ==
  ASSUME NEW d \in Devs, NEW s \in Places, NEW x \in ToSet(Listing(d, Walk(d, s)))
  PROVE  x \in Entered(d, Walk(d, s)) /\ x \in Infos /\ x # NoInfo
<1>1. x \in Entered(d, Walk(d, s))
  <2> DEFINE list == Listing(d, Walk(d, s))
             E == Entered(d, Walk(d, s))
  <2>1. list \in Seq(E)
    BY ListingType
  <2>2. x \in ToSet(list)
    OBVIOUS
  <2> HIDE DEF E, list
  <2>3. \A i \in DOMAIN list : list[i] \in E
    BY <2>1
  <2>4. x \in E
    BY <2>2, <2>3 DEF ToSet
  <2> QED
    BY <2>4 DEF E
<1>2. x.pos # 0
  BY <1>1 DEF Entered
<1> QED
  BY <1>1, <1>2 DEF Entered, NoInfo

LEMMA NoInfoType == NoInfo \in Infos
BY Constants DEF NoInfo, Infos, Listed, Header

----------------------------------------------------------------------------
(* Steps of a call *)

\* e comes after c in a call that may write the pages S: types are kept, the
\* current directory stays or becomes the root, a failure is final, and every
\* other page is as it was.
Goes(c, e, S) ==
  /\ e \in Calls
  /\ e.cd = c.cd \/ e.cd = <<>>
  /\ e.ok => c.ok
  /\ e.lost = c.lost /\ e.blind = c.blind
  /\ \A p \in Pages \ S : e.dev[p] = c.dev[p]

\* What was found and read before is still there.
Keeps(c, e) ==
  /\ e.han = c.han /\ e.info = c.info /\ e.spot = c.spot
  /\ e.dbuf = c.dbuf /\ e.newpg = c.newpg

LEMMA CallFields ==
  ASSUME NEW c \in Calls
  PROVE  /\ c.dev \in Devs /\ c.han \in Hans /\ c.cd \in Seq(Places) /\ c.internal \in BOOLEAN
         /\ c.bm \in SUBSET Pages /\ c.info \in Infos /\ c.spot \in Pages /\ c.dbuf \in PageType
         /\ c.newpg \in PageType /\ c.left \in Nat /\ c.torn \in BOOLEAN /\ c.lost \in BOOLEAN
         /\ c.blind \in BOOLEAN /\ c.ok \in BOOLEAN /\ c.hung \in BOOLEAN
BY DEF Calls

LEMMA GoesThen ==
  ASSUME NEW S, NEW c \in Calls, NEW d, NEW e, Goes(c, d, S), Goes(d, e, S)
  PROVE  Goes(c, e, S)
BY DEF Goes

LEMMA GoesNothing ==
  ASSUME NEW S, NEW c \in Calls
  PROVE  Goes(c, c, S) /\ Keeps(c, c)
BY DEF Goes, Keeps

LEMMA GoesMore ==
  ASSUME NEW S, NEW T, S \subseteq T, NEW c, NEW e, Goes(c, e, S)
  PROVE  Goes(c, e, T)
BY DEF Goes

LEMMA KeepsThen ==
  ASSUME NEW c, NEW d, NEW e, Keeps(c, d), Keeps(d, e)
  PROVE  Keeps(c, e)
BY DEF Keeps

LEMMA FailGoes ==
  ASSUME NEW S, NEW c \in Calls
  PROVE  /\ Goes(c, Fail(c), S) /\ Keeps(c, Fail(c)) /\ ~Fail(c).ok
         /\ Fail(c).dev = c.dev /\ Fail(c).bm = c.bm /\ Fail(c).cd = c.cd
         /\ Goes(c, Hang(c), S) /\ Keeps(c, Hang(c)) /\ ~Hang(c).ok
         /\ Hang(c).dev = c.dev /\ Hang(c).bm = c.bm /\ Hang(c).cd = c.cd
BY DEF Fail, Hang, Goes, Keeps, Calls

LEMMA RequireGoes ==
  ASSUME NEW S, NEW c \in Calls, NEW condition \in BOOLEAN
  PROVE  /\ Goes(c, Require(c, condition), S) /\ Keeps(c, Require(c, condition))
         /\ Require(c, condition).dev = c.dev /\ Require(c, condition).bm = c.bm
         /\ Require(c, condition).cd = c.cd
         /\ Require(c, condition).ok => condition
BY FailGoes, GoesNothing DEF Require

LEMMA WriteGoes ==
  ASSUME NEW S, NEW c \in Calls, NEW p \in Places, NEW page \in PageType, c.ok => p \in S
  PROVE  /\ Goes(c, Write_Page(c, p, page), S) /\ Keeps(c, Write_Page(c, p, page))
         /\ Write_Page(c, p, page).bm = c.bm /\ Write_Page(c, p, page).cd = c.cd
<1> DEFINE d == [c.dev EXCEPT ![p] = page]
           done == [c EXCEPT !.dev = d, !.left = @ - 1]
           torn == [c EXCEPT !.dev = d, !.ok = FALSE]
<1>1. d \in Devs /\ (p \in S => \A q \in Pages \ S : d[q] = c.dev[q])
  BY CallFields DEF Devs
<1>2. Write_Page(c, p, page) = IF ~c.ok THEN c ELSE IF c.left > 0 THEN done
                               ELSE IF c.torn THEN torn ELSE Fail(c)
  BY DEF Write_Page
<1>3. CASE ~c.ok
  BY <1>2, <1>3, GoesNothing
<1>4. CASE c.ok /\ c.left > 0
  <2>1. c.left - 1 \in Nat
    BY <1>4, CallFields
  <2> HIDE DEF d
  <2>2. Write_Page(c, p, page) = done
    BY <1>2, <1>4
  <2>3. /\ done \in Calls /\ done.dev = d /\ done.ok = c.ok /\ done.cd = c.cd /\ done.bm = c.bm
        /\ done.lost = c.lost /\ done.blind = c.blind
    BY <1>1, <2>1 DEF Calls
  <2>4. Keeps(c, done)
    BY DEF Keeps, Calls
  <2> HIDE DEF done
  <2> QED
    BY <1>1, <1>4, <2>2, <2>3, <2>4 DEF Goes
<1>5. CASE c.ok /\ ~(c.left > 0) /\ c.torn
  <2> HIDE DEF d
  <2>1. Write_Page(c, p, page) = torn
    BY <1>2, <1>5
  <2>2. /\ torn \in Calls /\ torn.dev = d /\ torn.ok = FALSE /\ torn.cd = c.cd /\ torn.bm = c.bm
        /\ torn.lost = c.lost /\ torn.blind = c.blind
    BY <1>1 DEF Calls
  <2>3. Keeps(c, torn)
    BY DEF Keeps, Calls
  <2> HIDE DEF torn
  <2> QED
    BY <1>1, <1>5, <2>1, <2>2, <2>3 DEF Goes
<1>6. CASE c.ok /\ ~(c.left > 0) /\ ~c.torn
  BY <1>2, <1>6, FailGoes
<1> QED
  BY <1>3, <1>4, <1>5, <1>6, CallFields

LEMMA MarkGoes ==
  ASSUME NEW S, NEW c \in Calls, NEW p
  PROVE  /\ Goes(c, Mark(c, p), S) /\ Keeps(c, Mark(c, p)) /\ c.bm \subseteq Mark(c, p).bm
         /\ Mark(c, p).dev = c.dev /\ Mark(c, p).cd = c.cd
         /\ Goes(c, Clear(c, p), S) /\ Keeps(c, Clear(c, p)) /\ Clear(c, p).dev = c.dev
         /\ Clear(c, p).cd = c.cd
<1>1. CASE c.ok /\ p \in Pages
  <2>1. c.bm \cup {p} \in SUBSET Pages /\ c.bm \ {p} \in SUBSET Pages
    BY <1>1, CallFields
  <2> QED
    BY <1>1, <2>1 DEF Mark, Clear, Goes, Keeps, Calls
<1>2. CASE ~(c.ok /\ p \in Pages)
  BY <1>2, FailGoes DEF Mark, Clear
<1> QED
  BY <1>1, <1>2

LEMMA ReadBitMapGoes ==
  ASSUME NEW S, NEW c \in Calls
  PROVE  /\ Goes(c, ReadBitMap(c), S) /\ Keeps(c, ReadBitMap(c)) /\ ReadBitMap(c).dev = c.dev
         /\ ReadBitMap(c).cd = c.cd
         /\ ReadBitMap(c).ok => ReadBitMap(c).bm = c.dev[0].bm /\ c.dev[0].head = "root"
<1>1. c.dev[0] \in PageType
  BY CallFields, Constants DEF Devs
<1>2. CASE c.ok /\ c.dev[0].head = "root"
  <2>1. c.dev[0].bm \in SUBSET Pages
    BY <1>1, PageFields
  <2> QED
    BY <1>2, <2>1 DEF ReadBitMap, Goes, Keeps, Calls
<1>3. CASE ~(c.ok /\ c.dev[0].head = "root")
  BY <1>3, FailGoes DEF ReadBitMap
<1> QED
  BY <1>2, <1>3

LEMMA WriteBitMapGoes ==
  ASSUME NEW S, NEW c \in Calls, 0 \in S
  PROVE  /\ Goes(c, WriteBitMap(c), S) /\ Keeps(c, WriteBitMap(c)) /\ WriteBitMap(c).bm = c.bm
         /\ WriteBitMap(c).cd = c.cd
<1> DEFINE page == [c.dev[0] EXCEPT !.bm = c.bm]
           z == 0
<1>1. page \in PageType
  BY CallFields, Constants, PageSame DEF Devs
<1>2. z \in S /\ z \in Places
  BY Constants
<1>3. WriteBitMap(c) = IF c.dev[0].head = "root" THEN Write_Page(c, z, page) ELSE Fail(c)
  BY DEF WriteBitMap
<1> HIDE DEF page, z
<1>4. /\ Goes(c, Write_Page(c, z, page), S) /\ Keeps(c, Write_Page(c, z, page))
      /\ Write_Page(c, z, page).bm = c.bm /\ Write_Page(c, z, page).cd = c.cd
  BY <1>1, <1>2, WriteGoes
<1> QED
  BY <1>3, <1>4, FailGoes

----------------------------------------------------------------------------
(* Searches *)

\* Only what was found is new, and only if there was no failure.
Looks(c, e) ==
  /\ e.dev = c.dev /\ e.bm = c.bm /\ e.cd = c.cd /\ e.han = c.han
  /\ e.internal = c.internal

\* What a search of the chain from s for a name may leave.
Sought(d, s, name, info) ==
  \/ info = NoInfo
  \/ /\ info \in ToSet(Listing(d, Walk(d, s)))
     /\ info.e.name = name

LEMMA FindGoes ==
  ASSUME NEW S, NEW c \in Calls, NEW s \in Places, NEW name
  PROVE  /\ Goes(c, FindDirectoryInfo(c, s, name), S) /\ Looks(c, FindDirectoryInfo(c, s, name))
         /\ FindDirectoryInfo(c, s, name).ok =>
              Sought(c.dev, s, name, FindDirectoryInfo(c, s, name).info)
<1> DEFINE list == Listing(c.dev, Walk(c.dev, s))
           info == FirstNamed(list, name)
           e == FindDirectoryInfo(c, s, name)
<1>1. c.dev \in Devs
  BY CallFields
<1>2. Sought(c.dev, s, name, info)
  BY <1>1, NamedType DEF Sought
<1>3. info \in Infos
  BY <1>1, <1>2, EnteredType, NoInfoType DEF Sought
<1>4. CASE ~c.ok
  BY <1>4, GoesNothing DEF FindDirectoryInfo, Looks
<1>5. CASE c.ok /\ (~IsDir(At(c.dev, s)) \/ c.blind)
  <2>1. e = [c EXCEPT !.info = NoInfo]
    BY <1>5 DEF FindDirectoryInfo
  <2> HIDE DEF e
  <2>2. Goes(c, e, S) /\ Looks(c, e) /\ e.info = NoInfo
    BY <2>1, NoInfoType DEF Goes, Looks, Calls
  <2> QED
    BY <2>2 DEF Sought, e
<1>6. CASE c.ok /\ ~(~IsDir(At(c.dev, s)) \/ c.blind)
  <2>1. e = Found(c, info, Loops(c.dev, Walk(c.dev, s)))
    BY <1>6 DEF FindDirectoryInfo
  <2>2. CASE e = Hang(c)
    <3>1. Looks(c, Hang(c))
      BY DEF Looks, Hang, Calls
    <3> QED
      BY <2>2, <3>1, FailGoes
  <2>3. CASE e = [c EXCEPT !.info = info]
    <3> HIDE DEF e, info
    <3>1. Goes(c, e, S) /\ Looks(c, e) /\ e.info = info
      BY <2>3, <1>3 DEF Goes, Looks, Calls
    <3> QED
      BY <3>1, <1>2 DEF e
  <2> QED
    BY <2>1, <2>2, <2>3 DEF Found
<1> QED
  BY <1>4, <1>5, <1>6

LEMMA CdPageType ==
  ASSUME NEW c \in Calls
  PROVE  CdPage(c.cd) \in Places
<1>1. c.cd \in Seq(Places)
  BY CallFields
<1>2. CASE c.cd = <<>>
  BY <1>2, Constants DEF CdPage
<1>3. CASE c.cd # <<>>
  BY <1>1, <1>3 DEF CdPage, Last
<1> QED
  BY <1>2, <1>3

LEMMA SpottedGoes ==
  ASSUME NEW S, NEW c \in Calls, NEW w \in Seq(Places), NEW k \in 0 .. Len(w)
  PROVE  /\ Goes(c, Spotted(c, w, k), S) /\ Looks(c, Spotted(c, w, k))
         /\ Spotted(c, w, k).info = c.info
         /\ Spotted(c, w, k).ok => Spotted(c, w, k).spot \in ToSet(w)
<1>1. Looks(c, Fail(c)) /\ Looks(c, Hang(c))
  BY DEF Looks, Fail, Hang, Calls
<1>2. CASE Spotted(c, w, k) \in {Fail(c), Hang(c)}
  BY <1>1, <1>2, FailGoes DEF Keeps
<1>3. CASE Spotted(c, w, k) \notin {Fail(c), Hang(c)}
  <2>1. k # 0 /\ Readable(At(c.dev, w[k]))
        /\ Spotted(c, w, k) = [c EXCEPT !.spot = w[k], !.dbuf = c.dev[w[k]]]
    BY <1>3 DEF Spotted
  <2>2. w[k] \in Pages /\ c.dev[w[k]] \in PageType
    <3>1. w[k] \in Pages
      BY <2>1, CallFields, AtType
    <3> QED
      BY <3>1, CallFields DEF Devs
  <2>3. w[k] \in ToSet(w)
    <3>1. k \in DOMAIN w
      BY <2>1
    <3> QED
      BY <3>1 DEF ToSet
  <2> DEFINE p == w[k]
             page == c.dev[w[k]]
             e == [c EXCEPT !.spot = p, !.dbuf = page]
  <2>4. Spotted(c, w, k) = e /\ p \in Pages /\ page \in PageType /\ p \in ToSet(w)
    BY <2>1, <2>2, <2>3
  <2> HIDE DEF p, page
  <2>5. Goes(c, e, S) /\ Looks(c, e) /\ e.info = c.info /\ e.spot = p
    BY <2>4 DEF Goes, Looks, Calls
  <2> HIDE DEF e
  <2> QED
    BY <2>4, <2>5
<1> QED
  BY <1>2, <1>3

LEMMA FindSpotGoes ==
  ASSUME NEW S, NEW c \in Calls, NEW w \in Seq(Places)
  PROVE  /\ Goes(c, FindSpot(c, w), S) /\ Looks(c, FindSpot(c, w))
         /\ FindSpot(c, w).info = c.info
         /\ FindSpot(c, w).ok => FindSpot(c, w).spot \in ToSet(w)
<1> DEFINE I == {i \in 1 .. Len(w) : ~Full(At(c.dev, w[i])) \/ ~LoopsIn(At(c.dev, w[i]))}
           k == IF I # {} THEN Min(I) ELSE 0
<1>1. FindSpot(c, w) = Spotted(c, w, k)
  BY DEF FindSpot, SelectInSeq
<1>2. k \in 0 .. Len(w)
  <2> DEFINE n == Len(w)
  <2>1. n \in Nat
    OBVIOUS
  <2>2. I \subseteq 1 .. n
    OBVIOUS
  <2> HIDE DEF I, n
  <2>3. CASE I = {}
    BY <2>1, <2>3
  <2>4. CASE I # {}
    <3>1. I \in SUBSET Nat
      BY <2>1, <2>2
    <3>2. Min(I) \in I
      BY <2>4, <3>1, MinIn
    <3>3. Min(I) \in 1 .. n
      BY <2>2, <3>2
    <3>4. Min(I) \in 0 .. n
      BY <2>1, <3>3
    <3> QED
      BY <2>4, <3>4 DEF n
  <2> QED
    BY <2>3, <2>4
<1> HIDE DEF k
<1> QED
  BY <1>1, <1>2, SpottedGoes

----------------------------------------------------------------------------
(* Handles *)

LEMMA HansWith ==
  ASSUME NEW han \in Hans, NEW h \in Handles \cup {0}, NEW open \in Open(Names),
         h \in Handles => open \in Open(Files)
  PROVE  [han EXCEPT ![h] = open] \in Hans
BY DEF Hans

LEMMA HanFields ==
  ASSUME NEW han \in Hans, NEW h \in Handles \cup {0}
  PROVE  /\ han[h] \in Open(Names) /\ (h \in Handles => han[h] \in Open(Files))
         /\ han[h].spage \in Places /\ han[h].dpage \in Places /\ han[h].pos \in Nat
         /\ han[h].attr \in BOOLEAN /\ han[h].name \in Names \cup {NoName}
BY DEF Hans, Open

\* A new record for a handle.
LEMMA HandleGoes ==
  ASSUME NEW S, NEW c \in Calls, NEW h \in Handles \cup {0}, NEW open \in Open(Names),
         h \in Handles => open \in Open(Files)
  PROVE  Goes(c, [c EXCEPT !.han = [@ EXCEPT ![h] = open]], S)
<1> DEFINE han == [c.han EXCEPT ![h] = open]
<1>1. han \in Hans
  BY CallFields, HansWith
<1> HIDE DEF han
<1>2. Goes(c, [c EXCEPT !.han = han], S)
  BY <1>1 DEF Goes, Calls
<1> QED
  BY <1>2 DEF han

----------------------------------------------------------------------------
(* Writing the pages of a file *)

\* A write keeps what was read, and marks more pages.
Writes(c, e, S) == Goes(c, e, S) /\ Keeps(c, e) /\ c.bm \subseteq e.bm /\ e.cd = c.cd

\* The pages that are not marked may be written.
FreeIn(c, S) == c.ok => Pages \ c.bm \subseteq S

LEMMA WritesThen ==
  ASSUME NEW S, NEW c \in Calls, NEW d, NEW e, Writes(c, d, S), Writes(d, e, S)
  PROVE  Writes(c, e, S) /\ (FreeIn(c, S) => FreeIn(e, S)) /\ e \in Calls
<1>1. Goes(c, e, S) /\ Keeps(c, e)
  BY GoesThen, KeepsThen DEF Writes
<1> QED
  BY <1>1 DEF Writes, FreeIn, Goes

LEMMA ChunkWrites ==
  ASSUME NEW S, NEW c \in Calls, NEW at \in Places, NEW page \in PageType, NEW next \in Places,
         c.ok => at \in S
  PROVE  Writes(c, Chunk(c, at, page, next), S)
<1> DEFINE pg == [page EXCEPT !.next = next]
           d == Write_Page(c, at, pg)
           e == Mark(d, at)
<1>1. pg \in PageType
  BY PageSame
<1> HIDE DEF pg
<1>2. Goes(c, d, S) /\ Keeps(c, d) /\ d.bm = c.bm /\ d.cd = c.cd
  BY <1>1, WriteGoes
<1>3. d \in Calls
  BY <1>2 DEF Goes
<1> HIDE DEF d
<1>4. Goes(d, e, S) /\ Keeps(d, e) /\ d.bm \subseteq e.bm /\ e.cd = d.cd
  BY <1>3, MarkGoes
<1>5. Goes(c, e, S) /\ Keeps(c, e)
  <2> HIDE DEF e
  <2> QED
    BY <1>2, <1>4, GoesThen, KeepsThen
<1>6. Chunk(c, at, page, next) = e
  BY DEF Chunk, d, pg
<1> HIDE DEF e
<1> QED
  BY <1>2, <1>4, <1>5, <1>6 DEF Writes

\* A free page is there, and may be written.
LEMMA FreeWrites ==
  ASSUME NEW S, NEW c \in Calls, FreeIn(c, S)
  PROVE  LET r == Require(c, Avail(c.bm) # 0)
         IN  /\ Writes(c, r, S) /\ r \in Calls /\ r.bm = c.bm
             /\ r.ok => Avail(c.bm) \in S
<1> DEFINE r == Require(c, Avail(c.bm) # 0)
<1>1. Goes(c, r, S) /\ Keeps(c, r) /\ r.bm = c.bm /\ r.cd = c.cd /\ (r.ok => Avail(c.bm) # 0)
  BY RequireGoes
<1>2. Avail(c.bm) \in Pages /\ (Avail(c.bm) # 0 => Avail(c.bm) \notin c.bm)
  BY CallFields, AvailType
<1> HIDE DEF r
<1>3. Writes(c, r, S) /\ r \in Calls /\ (r.ok => c.ok)
  BY <1>1 DEF Writes, Goes
<1>4. r.ok => Avail(c.bm) \in S
  BY <1>1, <1>2, <1>3 DEF FreeIn
<1> QED
  BY <1>1, <1>3, <1>4 DEF r

LEMMA NextChunkWrites ==
  ASSUME NEW S, NEW c \in Calls, NEW page \in PageType, NEW final \in BOOLEAN, FreeIn(c, S)
  PROVE  Writes(c, NextChunk(c, page, final), S)
<1> DEFINE r == Require(c, Avail(c.bm) # 0)
           at == Avail(c.bm)
           next == IF final THEN 0 ELSE Behind(c.bm)
<1>1. Writes(c, r, S) /\ r \in Calls /\ (r.ok => at \in S)
  BY FreeWrites
<1>2. at \in Places /\ next \in Places
  BY CallFields, AvailType, Constants
<1>3. NextChunk(c, page, final) = Chunk(r, at, page, next)
  BY DEF NextChunk
<1> HIDE DEF r, at, next
<1>4. Writes(r, Chunk(r, at, page, next), S)
  BY <1>1, <1>2, ChunkWrites
<1> QED
  BY <1>1, <1>3, <1>4, WritesThen

LEMMA FirstChunkWrites ==
  ASSUME NEW S, NEW c \in Calls, NEW strt \in Places, NEW page \in PageType,
         NEW next \in Places, c.ok => strt \in S, FreeIn(c, S)
  PROVE  Writes(c, Chunk(Require(c, Avail(c.bm) # 0), strt, page, next), S)
<1> DEFINE r == Require(c, Avail(c.bm) # 0)
<1>1. Writes(c, r, S) /\ r \in Calls
  BY FreeWrites
<1>2. r.ok => strt \in S
  BY <1>1 DEF Writes, Goes
<1> HIDE DEF r
<1>3. Writes(r, Chunk(r, strt, page, next), S)
  BY <1>1, <1>2, ChunkWrites
<1>4. Writes(c, Chunk(r, strt, page, next), S)
  BY <1>1, <1>3, WritesThen
<1> QED
  BY <1>4 DEF r

LEMMA ExtWriteWrites ==
  ASSUME NEW S, NEW c \in Calls, NEW strt \in Places, NEW chunks \in Seq(PageType),
         c.ok => strt \in S, FreeIn(c, S)
  PROVE  Writes(c, ExtWrite(c, strt, chunks), S)
<1> DEFINE n == Len(chunks)
           T == {e \in Calls : Writes(c, e, S) /\ FreeIn(e, S)}
           next == IF n = 1 THEN 0 ELSE Avail(c.bm)
           first == Chunk(Require(c, Avail(c.bm) # 0), strt, chunks[1], next)
           F == [p \in (0 .. n) \X T |-> IF p[1] = 0 THEN c ELSE IF p[1] = 1 THEN first
                                         ELSE NextChunk(p[2], chunks[p[1]], p[1] = n)]
           Good(g) == g = [k \in 1 .. n |-> IF k = 1 THEN first
                                            ELSE NextChunk(g[k - 1], chunks[k], k = n)]
<1>1. n \in Nat /\ \A k \in 1 .. n : chunks[k] \in PageType
  OBVIOUS
<1>2. c \in T
  BY GoesNothing DEF Writes
<1>3. CASE n = 0
  <2>1. ExtWrite(c, strt, chunks) = Mark(c, strt)
    BY <1>3 DEF ExtWrite
  <2> QED
    BY <2>1, MarkGoes DEF Writes
<1>4. CASE n # 0
  <2>1. next \in Places
    BY CallFields, AvailType, Constants
  <2>2. first \in T
    <3>1. chunks[1] \in PageType
      BY <1>1, <1>4
    <3> HIDE DEF next
    <3>2. Writes(c, first, S)
      BY <2>1, <3>1, FirstChunkWrites
    <3>3. first \in Calls
      BY <3>2 DEF Writes, Goes
    <3> HIDE DEF first
    <3>4. FreeIn(first, S)
      BY <3>2, <3>3 DEF Writes, Goes, FreeIn
    <3> QED
      BY <3>2, <3>3, <3>4
  <2> HIDE DEF first, next
  <2>3. ASSUME NEW k \in 1 .. n, NEW x \in T PROVE NextChunk(x, chunks[k], k = n) \in T
    <3> DEFINE y == NextChunk(x, chunks[k], k = n)
    <3>1. x \in Calls /\ Writes(c, x, S) /\ FreeIn(x, S)
      OBVIOUS
    <3>2. chunks[k] \in PageType /\ (k = n) \in BOOLEAN
      BY <1>1
    <3>3. Writes(x, y, S)
      BY <3>1, <3>2, NextChunkWrites
    <3> HIDE DEF y
    <3>4. Writes(c, y, S) /\ FreeIn(y, S) /\ y \in Calls
      BY <3>1, <3>3, WritesThen
    <3> QED
      BY <3>4 DEF y
  <2>4. F \in [(0 .. n) \X T -> T]
    <3> DEFINE v(k, x) == IF k = 0 THEN c ELSE IF k = 1 THEN first ELSE NextChunk(x, chunks[k], k = n)
    <3>1. ASSUME NEW k \in 0 .. n, NEW x \in T PROVE v(k, x) \in T
      <4>1. k # 0 => k \in 1 .. n
        BY <1>1
      <4> HIDE DEF T
      <4> QED
        BY <4>1, <1>2, <2>2, <2>3
    <3> HIDE DEF T, v
    <3>2. \A p \in (0 .. n) \X T : v(p[1], p[2]) \in T
      BY <3>1
    <3>3. F = [p \in (0 .. n) \X T |-> v(p[1], p[2])]
      BY DEF v
    <3> HIDE DEF F
    <3> QED
      BY <3>2, <3>3
  <2>5. PICK g : RecursiveIn(g, n, T, c, F)
    <3> HIDE DEF F, T, n
    <3> QED
      BY <1>1, <1>2, <2>4, Recursion
  <2> DEFINE h == [k \in 1 .. n |-> g[k]]
  <2>6. Good(h)
    <3>1. ASSUME NEW k \in 1 .. n
          PROVE  h[k] = IF k = 1 THEN first ELSE NextChunk(h[k - 1], chunks[k], k = n)
      <4>1. k \in 0 .. n /\ k - 1 \in 0 .. n /\ k # 0 /\ (k # 1 => k - 1 \in 1 .. n)
        BY <1>1
      <4>2. g[k] = F[<<k, g[k - 1]>>] /\ g[k - 1] \in T
        <5> HIDE DEF F, T, n
        <5> QED
          BY <4>1, <2>5 DEF RecursiveIn
      <4>3. F[<<k, g[k - 1]>>] = IF k = 1 THEN first ELSE NextChunk(g[k - 1], chunks[k], k = n)
        <5> HIDE DEF T, n
        <5> QED
          BY <4>1, <4>2
      <4>4. k # 1 => h[k - 1] = g[k - 1]
        BY <4>1
      <4>5. h[k] = g[k]
        OBVIOUS
      <4> HIDE DEF h, F, T, n
      <4> QED
        BY <4>2, <4>3, <4>4, <4>5
    <3> QED
      BY <3>1
  <2> DEFINE X == CHOOSE x : Good(x)
  <2>7. Good(X)
    <3>1. \E x : Good(x)
      BY <2>6
    <3> HIDE DEF Good
    <3> QED
      BY <3>1
  <2>8. ExtWrite(c, strt, chunks) = X[n]
    BY <1>4 DEF ExtWrite, first, next
  <2> HIDE DEF X
  <2> DEFINE K == {k \in 0 .. n : k = 0 \/ X[k] \in T}
  <2>9. 0 \in K
    BY <1>1
  <2>10. ASSUME NEW k \in 0 .. n, k # 0, k - 1 \in K PROVE k \in K
    <3>1. k \in 1 .. n /\ (k # 1 => k - 1 # 0)
      BY <2>10, <1>1
    <3>2. X[k] = IF k = 1 THEN first ELSE NextChunk(X[k - 1], chunks[k], k = n)
      BY <2>7, <3>1
    <3>3. k # 1 => X[k - 1] \in T
      BY <2>10, <3>1
    <3>4. X[k] \in T
      <4> HIDE DEF T
      <4> QED
        BY <3>1, <3>2, <3>3, <2>2, <2>3
    <3> QED
      BY <3>4
  <2>11. n \in K
    <3>1. \A k \in 0 .. n : k # 0 /\ k - 1 \in K => k \in K
      BY <2>10
    <3> HIDE DEF K
    <3>2. \A k \in 0 .. n : k \in K
      BY <1>1, <2>9, <3>1, Upto
    <3> QED
      BY <3>2, <1>1
  <2> QED
    BY <2>11, <2>8, <1>4
<1> QED
  BY <1>3, <1>4

----------------------------------------------------------------------------
(* owWriteFile *)

\* Nothing is written yet.
Reads(c, e, S) == Goes(c, e, S) /\ e.dev = c.dev /\ e.cd = c.cd

LEMMA ReadsThen ==
  ASSUME NEW S, NEW c \in Calls, NEW d, NEW e, Reads(c, d, S), Reads(d, e, S)
  PROVE  Reads(c, e, S)
BY GoesThen DEF Reads

LEMMA RoomyGoes ==
  ASSUME NEW S, NEW c \in Calls, NEW full, NEW n
  PROVE  /\ Reads(c, Roomy(c, full, n), S) /\ Keeps(c, Roomy(c, full, n))
         /\ Roomy(c, full, n).bm = c.bm
<1> DEFINE room == Room(c, full) > 0 /\ n <= Room(c, full)
<1>1. Roomy(c, full, n) = Require(c, c.ok /\ room)
  BY DEF Roomy
<1>2. (c.ok /\ room) \in BOOLEAN
  OBVIOUS
<1> HIDE DEF room
<1> QED
  BY <1>1, <1>2, RequireGoes DEF Reads

\* The handle takes the place of what was found in the root.
TakenAs(c, e, h, info) ==
  /\ e.bm = c.bm /\ e.spot = c.spot /\ e.info = info /\ e.dbuf = c.dbuf
  /\ e.han[h].name = c.han[h].name
  /\ info # NoInfo => e.han[h].spage = info.e.spage

LEMMA TakenGoes ==
  ASSUME NEW S, NEW c \in Calls, NEW h \in Handles \cup {0}, NEW info \in Infos
  PROVE  Reads(c, Taken(c, h, info), S) /\ TakenAs(c, Taken(c, h, info), h, info)
<1>1. CASE info = NoInfo
  BY <1>1 DEF Taken, Reads, Goes, TakenAs, Calls
<1>2. CASE info # NoInfo
  <2> DEFINE open == [c.han[h] EXCEPT !.spage = info.e.spage, !.attr = info.e.attr,
                                      !.dpage = c.spot, !.pos = info.pos]
             han == [c.han EXCEPT ![h] = open]
             pg == c.dev[info.dpage]
             e == [c EXCEPT !.info = info, !.newpg = pg, !.han = han]
  <2>1. pg \in PageType
    BY CallFields DEF Infos, Devs
  <2>2. /\ info.e.spage \in Places /\ info.e.attr \in BOOLEAN /\ info.pos \in Nat
        /\ c.spot \in Places
    BY CallFields, Constants DEF Infos, Listed
  <2>3. open \in Open(Names) /\ (h \in Handles => open \in Open(Files))
        /\ open.name = c.han[h].name /\ open.spage = info.e.spage
    <3>1. c.han \in Hans
      BY CallFields
    <3>2. c.han[h] \in Open(Names) /\ (h \in Handles => c.han[h] \in Open(Files))
      BY <3>1, HanFields
    <3> QED
      BY <2>2, <3>2 DEF Open
  <2>4. c.han \in [Handles \cup {0} -> Open(Names)]
    BY CallFields DEF Hans
  <2>5. Taken(c, h, info) = e
    BY <1>2 DEF Taken
  <2> HIDE DEF open
  <2>6. han \in Hans
    BY <2>3, CallFields, HansWith
  <2>7. han[h] = open
    BY <2>4
  <2> HIDE DEF han, pg
  <2>8. Reads(c, e, S) /\ e.han = han /\ e.info = info /\ e.bm = c.bm /\ e.spot = c.spot
        /\ e.dbuf = c.dbuf
    BY <2>1, <2>6 DEF Reads, Goes, Calls
  <2> QED
    BY <2>3, <2>5, <2>7, <2>8 DEF TakenAs
<1> QED
  BY <1>1, <1>2

LEMMA ToTheEndGoes ==
  ASSUME NEW S, NEW c \in Calls, NEW w
  PROVE  /\ Reads(c, ToTheEnd(c, w), S) /\ Keeps(c, ToTheEnd(c, w))
         /\ ToTheEnd(c, w).bm = c.bm
<1>1. Ends(c.dev, w) \in BOOLEAN
  BY DEF Ends, EndsIn
<1>2. /\ Goes(c, Require(c, Ends(c.dev, w)), S) /\ Keeps(c, Require(c, Ends(c.dev, w)))
      /\ Require(c, Ends(c.dev, w)).dev = c.dev /\ Require(c, Ends(c.dev, w)).bm = c.bm
      /\ Require(c, Ends(c.dev, w)).cd = c.cd
  BY <1>1, RequireGoes
<1> QED
  BY <1>2, FailGoes DEF ToTheEnd, Reads

LEMMA LocatedGoes ==
  ASSUME NEW S, NEW c \in Calls, NEW h \in Handles \cup {0}
  PROVE  LET e == Located(c, h, Walk(c.dev, 0))
         IN  /\ Reads(c, e, S)
             /\ e.ok => /\ Sought(c.dev, 0, c.han[h].name, e.info)
                        /\ TakenAs(c, e, h, e.info)
<1> DEFINE w == Walk(c.dev, 0)
           info == LastNamed(Listing(c.dev, w), c.han[h].name)
           d == Taken(c, h, info)
           e == ToTheEnd(d, w)
           r == Located(c, h, w)
<1>1. CASE ~c.ok
  <2>1. r = c
    BY <1>1 DEF Located
  <2> QED
    BY <1>1, <2>1, GoesNothing DEF Reads
<1>2. CASE c.ok
  <2>1. r = e
    BY <1>2 DEF Located
  <2>2. Sought(c.dev, 0, c.han[h].name, info)
    <3> DEFINE z == 0
               name == c.han[h].name
    <3>1. c.dev \in Devs /\ z \in Places
      BY CallFields, Constants
    <3> HIDE DEF z, name
    <3>2. Sought(c.dev, z, name, LastNamed(Listing(c.dev, Walk(c.dev, z)), name))
      BY <3>1, NamedType DEF Sought
    <3> QED
      BY <3>2 DEF z, name
  <2>3. info \in Infos
    BY <2>2, CallFields, Constants, EnteredType, NoInfoType DEF Sought
  <2> HIDE DEF info
  <2>4. Reads(c, d, S) /\ TakenAs(c, d, h, info)
    BY <2>3, TakenGoes
  <2>5. d \in Calls
    BY <2>4 DEF Reads, Goes
  <2> HIDE DEF d, w
  <2>6. Reads(d, e, S) /\ Keeps(d, e) /\ e.bm = d.bm
    BY <2>5, ToTheEndGoes
  <2> HIDE DEF e
  <2>7. Reads(c, e, S)
    BY <2>4, <2>6, ReadsThen
  <2>8. e.info = info /\ TakenAs(c, e, h, e.info)
    BY <2>4, <2>6 DEF TakenAs, Keeps
  <2> HIDE DEF r
  <2>9. Reads(c, r, S) /\ Sought(c.dev, 0, c.han[h].name, r.info) /\ TakenAs(c, r, h, r.info)
    BY <2>1, <2>2, <2>7, <2>8
  <2> QED
    BY <2>9 DEF r, w
<1> QED
  BY <1>1, <1>2

\* What a call is to write is found: the page of the directory that takes a
\* new entry, or the entry there is.
Prepares(c, e, h) ==
  /\ e.bm = c.dev[0].bm /\ e.spot \in ToSet(Walk(c.dev, CdPage(c.cd)))
  /\ Sought(c.dev, 0, c.han[h].name, e.info)
  /\ e.info # NoInfo => e.han[h].spage = e.info.e.spage
  /\ e.han[h].name = c.han[h].name /\ c.han[h].name # NoName

LEMMA PreparedGoes ==
  ASSUME NEW S, NEW c \in Calls, NEW h \in Handles \cup {0}, NEW n
  PROVE  LET e == Prepared(c, h, n)
         IN  Reads(c, e, S) /\ (e.ok => Prepares(c, e, h))
<1> DEFINE named == c.han[h].name # NoName
           r1 == Require(c, named)
           r2 == ReadBitMap(r1)
           r3 == Roomy(r2, FALSE, n)
           w == Walk(c.dev, CdPage(c.cd))
           r4 == FindSpot(r3, w)
           r5 == Located(r4, h, Walk(c.dev, 0))
           full == Full(r5.dbuf)
           r6 == Roomy(r5, full, n)
<1>1. /\ Goes(c, r1, S) /\ Keeps(c, r1) /\ r1.dev = c.dev /\ r1.bm = c.bm /\ r1.cd = c.cd
      /\ r1.ok => named
  BY RequireGoes
<1>2. r1 \in Calls
  BY <1>1 DEF Goes
<1> HIDE DEF r1
<1>3. /\ Goes(r1, r2, S) /\ Keeps(r1, r2) /\ r2.dev = r1.dev /\ r2.cd = r1.cd
      /\ r2.ok => r2.bm = r1.dev[0].bm
  BY <1>2, ReadBitMapGoes
<1>4. r2 \in Calls
  BY <1>3 DEF Goes
<1> HIDE DEF r2
<1>5. Reads(r2, r3, S) /\ Keeps(r2, r3) /\ r3.bm = r2.bm
  BY <1>4, RoomyGoes
<1>6. r3 \in Calls
  BY <1>5 DEF Reads, Goes
<1>7. w \in Seq(Places)
  BY CdPageType, CallFields, WalkType
<1> HIDE DEF r3, w
<1>8. Goes(r3, r4, S) /\ Looks(r3, r4) /\ (r4.ok => r4.spot \in ToSet(w))
  BY <1>6, <1>7, FindSpotGoes
<1>9. r4 \in Calls
  BY <1>8 DEF Goes
<1> HIDE DEF r4
<1>10. r4.dev = c.dev /\ r4.cd = c.cd /\ r4.han = c.han
  BY <1>1, <1>3, <1>5, <1>8 DEF Reads, Keeps, Looks
<1>11. /\ Reads(r4, r5, S)
       /\ r5.ok => Sought(r4.dev, 0, r4.han[h].name, r5.info) /\ TakenAs(r4, r5, h, r5.info)
  BY <1>9, <1>10, LocatedGoes
<1>12. r5 \in Calls
  BY <1>11 DEF Reads, Goes
<1> HIDE DEF r5
<1>13. Reads(r5, r6, S) /\ Keeps(r5, r6) /\ r6.bm = r5.bm
  BY <1>12, RoomyGoes
<1>14. Prepared(c, h, n) = r6
  BY DEF Prepared, RoomyFor, r1, r2, r3, r4, r5, w
<1> HIDE DEF r6
<1>15. Reads(c, r6, S)
  <2>1. Reads(c, r1, S) /\ Reads(r1, r2, S) /\ Reads(r3, r4, S)
    BY <1>1, <1>3, <1>8 DEF Reads, Looks
  <2>2. Reads(c, r2, S)
    BY <2>1, ReadsThen
  <2>3. Reads(c, r3, S)
    BY <2>2, <1>5, ReadsThen
  <2>4. Reads(c, r4, S)
    BY <2>1, <2>3, ReadsThen
  <2>5. Reads(c, r5, S)
    BY <2>4, <1>11, ReadsThen
  <2> QED
    BY <2>5, <1>13, ReadsThen
<1>16. ASSUME r6.ok PROVE Prepares(c, r6, h)
  <2>1. r5.ok /\ r4.ok /\ r3.ok /\ r2.ok /\ r1.ok
    BY <1>16, <1>13, <1>11, <1>8, <1>5, <1>3 DEF Reads, Goes
  <2>2. r6.info = r5.info /\ r6.han = r5.han /\ r6.spot = r5.spot /\ r6.bm = r5.bm
    BY <1>13 DEF Keeps
  <2>3. Sought(c.dev, 0, c.han[h].name, r6.info) /\ TakenAs(r4, r5, h, r6.info)
    BY <2>1, <2>2, <1>10, <1>11
  <2>4. r6.spot \in ToSet(w) /\ r6.bm = c.dev[0].bm
    BY <2>1, <2>2, <2>3, <1>1, <1>3, <1>5, <1>8 DEF TakenAs, Looks
  <2> QED
    BY <2>1, <2>2, <2>3, <2>4, <1>1, <1>10 DEF Prepares, TakenAs, w
<1> QED
  BY <1>14, <1>15, <1>16

\* The pages a file of that name may be written to.
Writable(d, cd, name) ==
  {0} \cup (Pages \ d[0].bm) \cup ToSet(Walk(d, CdPage(cd))) \cup ToSet(Walk(d, 0))
  \cup {x.e.spage : x \in {y \in ToSet(Listing(d, Walk(d, 0))) : y.e.name = name}}
WriteSet(c, h) == Writable(c.dev, c.cd, c.han[h].name)

\* All that is to be written is in S.
Ready(c, h, S) ==
  /\ 0 \in S /\ c.spot \in S /\ c.han[h].spage \in S /\ Pages \ c.bm \subseteq S
  /\ c.info # NoInfo => c.info.dpage \in S
  /\ c.han[h].name # NoName

LEMMA PlacedGoes ==
  ASSUME NEW c \in Calls, NEW h \in Handles \cup {0}, NEW n, NEW S, S = WriteSet(c, h)
  PROVE  LET e == Placed(Prepared(c, h, n), h)
         IN  Reads(c, e, S) /\ e \in Calls /\ (e.ok => Ready(e, h, S))
<1> DEFINE d == Prepared(c, h, n)
           e == Placed(d, h)
<1>1. Reads(c, d, S) /\ d \in Calls /\ (d.ok => Prepares(c, d, h))
  <2>1. Reads(c, d, S) /\ (d.ok => Prepares(c, d, h))
    BY PreparedGoes
  <2> HIDE DEF d
  <2> QED
    BY <2>1 DEF Reads, Goes
<1> HIDE DEF d
<1>2. CASE ~(d.ok /\ d.info = NoInfo)
  <2>1. e = d
    BY <1>2 DEF Placed
  <2>2. ASSUME d.ok PROVE Ready(d, h, S)
    <3>1. /\ d.info \in ToSet(Listing(c.dev, Walk(c.dev, 0))) /\ d.info.e.name = c.han[h].name
          /\ d.han[h].spage = d.info.e.spage
      BY <1>1, <1>2, <2>2 DEF Prepares, Sought
    <3>2. d.info.dpage \in ToSet(Walk(c.dev, 0))
      BY <3>1, CallFields, Constants, EnteredType DEF Entered
    <3> QED
      BY <1>1, <2>2, <3>1, <3>2 DEF WriteSet, Writable, Prepares, Ready
  <2>3. Reads(c, e, S) /\ e \in Calls /\ (e.ok => Ready(e, h, S))
    BY <1>1, <2>1, <2>2
  <2> QED
    BY <2>3 DEF d
<1>3. CASE d.ok /\ d.info = NoInfo
  <2> DEFINE avail == Avail(d.bm)
             open == [d.han[h] EXCEPT !.spage = avail]
             han == [d.han EXCEPT ![h] = open]
  <2>1. avail \in Pages /\ avail \in Places /\ (avail # 0 => avail \notin d.bm)
    BY <1>1, CallFields, AvailType, Constants
  <2> HIDE DEF avail
  <2>2. open \in Open(Names) /\ (h \in Handles => open \in Open(Files))
        /\ open.spage = avail /\ open.name = d.han[h].name
    <3>1. d.han \in Hans
      BY <1>1, CallFields
    <3>2. d.han[h] \in Open(Names) /\ (h \in Handles => d.han[h] \in Open(Files))
      BY <3>1, HanFields
    <3> QED
      BY <2>1, <3>2 DEF Open
  <2>3. e = [d EXCEPT !.han = han]
    BY <1>3 DEF Placed, avail
  <2> HIDE DEF open, e
  <2>4. han \in Hans /\ han[h] = open
    <3>1. d.han \in Hans /\ h \in DOMAIN d.han
      BY <1>1, CallFields DEF Hans
    <3> HIDE DEF open
    <3>2. han \in Hans
      BY <3>1, <2>2, HansWith
    <3>3. han[h] = open
      BY <3>1
    <3> QED
      BY <3>2, <3>3
  <2> HIDE DEF han
  <2>5. Reads(d, e, S) /\ e.han = han /\ e.info = d.info /\ e.bm = d.bm /\ e.spot = d.spot
    BY <1>1, <2>3, <2>4 DEF Reads, Goes, Calls
  <2>6. Ready(e, h, S)
    BY <1>1, <1>3, <2>1, <2>2, <2>4, <2>5 DEF WriteSet, Writable, Prepares, Ready
  <2>7. Reads(c, e, S) /\ e \in Calls
    BY <1>1, <2>5, ReadsThen DEF Reads, Goes
  <2> QED
    BY <2>6, <2>7 DEF e, d
<1> QED
  BY <1>2, <1>3 DEF d

LEMMA BitsGoes ==
  ASSUME NEW S, NEW c \in Calls, 0 \in S
  PROVE  /\ Goes(c, Bits(c), S) /\ Keeps(c, Bits(c)) /\ Bits(c).bm = c.bm
         /\ Bits(c).cd = c.cd /\ Bits(c) \in Calls
<1>1. /\ Goes(c, Bits(c), S) /\ Keeps(c, Bits(c)) /\ Bits(c).bm = c.bm /\ Bits(c).cd = c.cd
  BY GoesNothing, WriteBitMapGoes DEF Bits
<1> QED
  BY <1>1 DEF Goes

\* A page of the directory and page 0 are written.
LEMMA WriteSpotGoes ==
  ASSUME NEW S, NEW c \in Calls, 0 \in S, NEW p \in S, p \in Places, NEW page \in PageType
  PROVE  Goes(c, Write_Page(Bits(c), p, page), S)
<1> DEFINE d == Bits(c)
<1>1. Goes(c, d, S) /\ d \in Calls
  BY BitsGoes
<1> HIDE DEF d
<1>2. Goes(d, Write_Page(d, p, page), S)
  BY <1>1, WriteGoes
<1>3. Goes(c, Write_Page(d, p, page), S)
  BY <1>1, <1>2, GoesThen
<1> QED
  BY <1>3 DEF d

LEMMA WithBitsType ==
  ASSUME NEW c \in Calls, NEW page \in PageType
  PROVE  WithBits(c, page) \in PageType
BY CallFields, PageSame DEF WithBits

LEMMA OneSlot ==
  ASSUME NEW entry \in Entries
  PROVE  [Blank EXCEPT !.head = "none", !.slots = <<entry>>] \in PageType
<1> DEFINE s == <<entry>>
           none == [Blank EXCEPT !.head = "none"]
<1>1. s \in Seq(Entries)
  OBVIOUS
<1>2. none \in PageType
  BY PageSame
<1> HIDE DEF s
<1>3. [none EXCEPT !.slots = s] \in PageType
  <2> HIDE DEF none
  <2> QED
    BY <1>1, <1>2, PageSame
<1>4. [none EXCEPT !.slots = s] = [Blank EXCEPT !.head = "none", !.slots = s]
  BY DEF Blank
<1> QED
  BY <1>3, <1>4 DEF s

LEMMA AddedType ==
  ASSUME NEW page \in PageType, NEW entry \in Entries
  PROVE  Added(page, entry) \in PageType
<1>1. Append(page.slots, entry) \in Seq(Entries)
  BY PageFields
<1> QED
  BY <1>1, PageSame DEF Added

LEMMA AddInGoes ==
  ASSUME NEW S, NEW c \in Calls, 0 \in S, c.spot \in S, NEW entry \in Entries
  PROVE  Goes(c, AddIn(c, entry), S)
<1> DEFINE page == WithBits(c, Added(c.dbuf, entry))
           p == c.spot
<1>1. page \in PageType
  BY CallFields, AddedType, WithBitsType
<1>2. p \in S /\ p \in Places
  BY CallFields, Constants
<1> HIDE DEF page, p
<1>3. Goes(c, Write_Page(Bits(c), p, page), S)
  BY <1>1, <1>2, WriteSpotGoes
<1> QED
  BY <1>3 DEF AddIn, page, p

LEMMA AddBehindGoes ==
  ASSUME NEW S, NEW c \in Calls, 0 \in S, c.spot \in S, NEW avail \in Places
  PROVE  Goes(c, AddBehind(c, avail), S)
<1> DEFINE page == WithBits(c, [c.dbuf EXCEPT !.next = avail])
           p == c.spot
<1>1. page \in PageType
  BY CallFields, PageSame, WithBitsType
<1>2. p \in S /\ p \in Places
  BY CallFields, Constants
<1> HIDE DEF page, p
<1>3. Goes(c, Write_Page(Bits(c), p, page), S)
  BY <1>1, <1>2, WriteSpotGoes
<1> QED
  BY <1>3 DEF AddBehind, page, p

LEMMA AddPageGoes ==
  ASSUME NEW S, NEW c \in Calls, 0 \in S, c.spot \in S, NEW entry \in Entries,
         NEW avail \in Places, avail \in S
  PROVE  Goes(c, AddPage(c, entry, avail), S)
<1> DEFINE page == [Blank EXCEPT !.head = "none", !.slots = <<entry>>]
           d == Write_Page(c, avail, page)
           e == Mark(d, avail)
<1>1. page \in PageType
  BY OneSlot
<1> HIDE DEF page
<1>2. Goes(c, d, S) /\ Keeps(c, d)
  BY <1>1, WriteGoes
<1>3. d \in Calls
  BY <1>2 DEF Goes
<1> HIDE DEF d
<1>4. Goes(d, e, S) /\ Keeps(d, e)
  BY <1>3, MarkGoes
<1> HIDE DEF e
<1>5. Goes(c, e, S) /\ e.spot = c.spot /\ e \in Calls
  <2>1. Goes(c, e, S)
    BY <1>2, <1>4, GoesThen
  <2> QED
    BY <2>1, <1>2, <1>4 DEF Goes, Keeps
<1>6. Goes(e, AddBehind(e, avail), S)
  BY <1>5, AddBehindGoes
<1>7. Goes(c, AddBehind(e, avail), S)
  BY <1>5, <1>6, GoesThen
<1> QED
  BY <1>7 DEF AddPage, d, e, page

LEMMA RecordedGoes ==
  ASSUME NEW S, NEW c \in Calls, NEW h \in Handles \cup {0}, c.ok => Ready(c, h, S)
  PROVE  Goes(c, Recorded(c, h), S)
<1>1. CASE ~c.ok
  BY <1>1, GoesNothing DEF Recorded
<1>2. CASE c.ok /\ c.info # NoInfo
  <2>1. c.info.dpage \in Places /\ c.info.dpage \in S /\ 0 \in S /\ c.newpg \in PageType
    BY <1>2, CallFields, Constants DEF Infos, Ready
  <2>2. Recorded(c, h) = Write_Page(Bits(c), c.info.dpage, c.newpg)
    BY <1>2 DEF Recorded
  <2> QED
    BY <2>1, <2>2, WriteSpotGoes
<1>3. CASE c.ok /\ c.info = NoInfo
  <2> DEFINE open == [c.han[h] EXCEPT !.attr = FALSE]
             han == [c.han EXCEPT ![h] = open]
             d == [c EXCEPT !.han = han]
             entry == [name |-> c.han[h].name, spage |-> c.han[h].spage, attr |-> FALSE]
             avail == Avail(c.bm)
  <2>1. c.han \in Hans /\ h \in DOMAIN c.han
    BY CallFields DEF Hans
  <2>2. c.han[h] \in Open(Names) /\ (h \in Handles => c.han[h] \in Open(Files))
        /\ c.han[h].name \in Names /\ c.han[h].spage \in Places
    BY <1>3, <2>1, HanFields DEF Ready
  <2>3. open \in Open(Names) /\ (h \in Handles => open \in Open(Files))
    BY <2>2 DEF Open
  <2>4. entry \in Entries
    BY <2>2 DEF Entries
  <2>5. Recorded(c, h) = IF Full(c.dbuf) THEN AddPage(d, entry, avail) ELSE AddIn(d, entry)
    BY <1>3 DEF Recorded, AddEntry
  <2> HIDE DEF open
  <2>6. han \in Hans
    BY <2>1, <2>3, HansWith
  <2> HIDE DEF han, entry
  <2>7. Goes(c, d, S) /\ d.spot = c.spot /\ d.bm = c.bm /\ d \in Calls
    BY <2>6 DEF Goes, Calls
  <2>8. 0 \in S /\ d.spot \in S /\ avail \in Places /\ avail \in S
    <3>1. avail \in Pages /\ (avail # 0 => avail \notin c.bm)
      BY CallFields, AvailType
    <3> HIDE DEF avail
    <3> QED
      BY <3>1, <2>7, <1>3, Constants DEF Ready
  <2> HIDE DEF d, avail
  <2>9. Goes(d, AddPage(d, entry, avail), S) /\ Goes(d, AddIn(d, entry), S)
    BY <2>4, <2>7, <2>8, AddPageGoes, AddInGoes
  <2> QED
    BY <2>5, <2>7, <2>9, GoesThen
<1> QED
  BY <1>1, <1>2, <1>3

LEMMA ReleasedGoes ==
  ASSUME NEW S, NEW c \in Calls, NEW h \in Handles \cup {0}
  PROVE  /\ Goes(c, Released(c, h), S) /\ Released(c, h).dev = c.dev
         /\ Released(c, h).info = c.info /\ Released(c, h).cd = c.cd
         /\ Released(c, h).ok = c.ok /\ Released(c, h).bm = c.bm
<1> DEFINE open == [c.han[h] EXCEPT !.name = NoName]
           han == [c.han EXCEPT ![h] = open]
<1>1. c.han \in Hans
  BY CallFields
<1>2. open \in Open(Names) /\ (h \in Handles => open \in Open(Files))
  <2>1. c.han[h] \in Open(Names) /\ (h \in Handles => c.han[h] \in Open(Files))
    BY <1>1, HanFields
  <2> QED
    BY <2>1 DEF Open
<1>3. Released(c, h) = [c EXCEPT !.han = han]
  BY DEF Released
<1> HIDE DEF open
<1>4. han \in Hans
  BY <1>1, <1>2, HansWith
<1> HIDE DEF han
<1> QED
  BY <1>3, <1>4 DEF Goes, Calls

LEMMA ReleasedIfGoes ==
  ASSUME NEW S, NEW c \in Calls, NEW h \in Handles \cup {0}, NEW condition
  PROVE  Goes(c, ReleasedIf(c, h, condition), S)
BY ReleasedGoes, GoesNothing DEF ReleasedIf

LEMMA WriteFileGoes ==
  ASSUME NEW S, NEW c \in Calls, NEW h \in Handles \cup {0}, NEW chunks \in Seq(PageType),
         WriteSet(c, h) \subseteq S
  PROVE  Goes(c, owWriteFile(c, h, chunks), S)
<1> DEFINE W == WriteSet(c, h)
           n == Len(chunks)
           d == Placed(Prepared(c, h, n), h)
           strt == d.han[h].spage
           e == ExtWrite(d, strt, chunks)
           r == Recorded(e, h)
           f == ReleasedIf(r, h, r.ok /\ n > 0)
<1>1. Reads(c, d, W) /\ d \in Calls /\ (d.ok => Ready(d, h, W))
  BY PlacedGoes
<1>2. owWriteFile(c, h, chunks) = f
  BY DEF owWriteFile, Filled, LetGo
<1> HIDE DEF d, n, W
<1>3. strt \in Places
  BY <1>1, CallFields, HanFields
<1>4. (d.ok => strt \in W) /\ FreeIn(d, W)
  BY <1>1 DEF Ready, FreeIn
<1> HIDE DEF strt
<1>5. Writes(d, e, W)
  BY <1>1, <1>3, <1>4, ExtWriteWrites
<1>6. e \in Calls /\ (e.ok => d.ok)
  BY <1>5 DEF Writes, Goes
<1> HIDE DEF e
<1>7. e.ok => Ready(e, h, W)
  BY <1>1, <1>5, <1>6 DEF Ready, Writes, Keeps
<1>8. Goes(e, r, W)
  BY <1>6, <1>7, RecordedGoes
<1>9. r \in Calls
  BY <1>8 DEF Goes
<1> HIDE DEF r
<1>10. Goes(r, f, W)
  BY <1>9, ReleasedIfGoes
<1> HIDE DEF f
<1>11. Goes(c, d, W) /\ Goes(d, e, W)
  BY <1>1, <1>5 DEF Reads, Writes
<1>12. Goes(c, e, W)
  BY <1>11, GoesThen
<1>13. Goes(c, r, W)
  BY <1>8, <1>12, GoesThen
<1>14. Goes(c, f, W)
  BY <1>10, <1>13, GoesThen
<1> QED
  BY <1>2, <1>14, GoesMore DEF W

----------------------------------------------------------------------------
(* Pages with an entry changed or taken out *)

LEMMA RemoveAtType ==
  ASSUME NEW T, NEW s \in Seq(T), NEW i \in 0 .. Len(s)
  PROVE  RemoveAt(s, i) \in Seq(T)
<1> DEFINE n == Len(s)
           one == 1
           l == i - 1
           r == i + 1
<1>1. n \in Nat /\ i \in 0 .. n /\ one \in 1 .. n + 1 /\ r \in 1 .. n + 1
      /\ l \in (-1) .. n
  OBVIOUS
<1>2. SubSeq(s, one, l) \in Seq(T)
  <2>1. CASE l \in {-1, 0}
    <3>1. SubSeq(s, one, l) = <<>>
      BY <2>1
    <3> DEFINE empty == <<>>
    <3>2. empty \in Seq(T)
      OBVIOUS
    <3> QED
      BY <3>1, <3>2
  <2>2. CASE l \notin {-1, 0}
    <3>1. l \in 1 .. n
      BY <1>1, <2>2
    <3>2. \A k \in one .. l : s[k] \in T
      BY <3>1
    <3> QED
      BY <3>1, <3>2
  <2> QED
    BY <2>1, <2>2
<1>3. SubSeq(s, r, n) \in Seq(T)
  <2>1. \A k \in r .. n : s[k] \in T
    BY <1>1
  <2> HIDE DEF r
  <2> QED
    BY <1>1, <2>1
<1>4. RemoveAt(s, i) = SubSeq(s, one, l) \o SubSeq(s, r, n)
  BY DEF RemoveAt
<1> HIDE DEF one, l, r, n
<1> QED
  BY <1>2, <1>3, <1>4

LEMMA SlotType ==
  ASSUME NEW page \in PageType, NEW pos \in 1 .. Len(Items(page))
  PROVE  Slot(page, pos) \in 0 .. Len(page.slots)
<1>1. CASE IsDir(page)
  <2>1. Slot(page, pos) = pos - 1
    BY <1>1 DEF Slot
  <2>2. Len(page.slots) \in Nat /\ Len(Items(page)) = Len(page.slots) + 1
    BY <1>1, ItemsType
  <2> QED
    BY <2>1, <2>2
<1>2. CASE ~IsDir(page)
  <2>1. Slot(page, pos) = pos - 0
    BY <1>2 DEF Slot
  <2>2. Len(page.slots) \in Nat /\ Len(Items(page)) = Len(page.slots)
    BY <1>2, ItemsType
  <2> QED
    BY <2>1, <2>2
<1> QED
  BY <1>1, <1>2

LEMMA WithoutType ==
  ASSUME NEW page \in PageType, NEW pos \in 1 .. Len(Items(page))
  PROVE  Without(page, pos) \in PageType
<1> DEFINE i == Slot(page, pos)
           s == page.slots
           t == RemoveAt(s, i)
<1>1. i \in 0 .. Len(s) /\ s \in Seq(Entries)
  BY SlotType, PageFields
<1> HIDE DEF i, s
<1>2. t \in Seq(Entries)
  BY <1>1, RemoveAtType
<1>3. Without(page, pos) = [page EXCEPT !.slots = t]
  BY DEF Without, i, s
<1> HIDE DEF t
<1> QED
  BY <1>2, <1>3, PageSame

LEMMA EntryWith ==
  ASSUME NEW s \in Seq(Entries), NEW i, NEW attr \in BOOLEAN
  PROVE  /\ [s EXCEPT ![i].attr = attr] \in Seq(Entries)
         /\ \A name \in Names :
              [s EXCEPT ![i] = [@ EXCEPT !.name = name, !.attr = attr]] \in Seq(Entries)
<1> DEFINE n == Len(s)
<1>1. n \in Nat /\ s \in [1 .. n -> Entries]
  OBVIOUS
<1>2. ASSUME NEW name \in Names
      PROVE  [s EXCEPT ![i] = [@ EXCEPT !.name = name, !.attr = attr]] \in [1 .. n -> Entries]
  <2> DEFINE new(x) == [x EXCEPT !.name = name, !.attr = attr]
  <2>1. \A x \in Entries : new(x) \in Entries
    BY DEF Entries
  <2> HIDE DEF new
  <2>2. [s EXCEPT ![i] = new(s[i])] \in [1 .. n -> Entries]
    BY <1>1, <2>1
  <2> QED
    BY <2>2 DEF new
<1>3. [s EXCEPT ![i].attr = attr] \in [1 .. n -> Entries]
  BY <1>1 DEF Entries
<1>4. \A f \in [1 .. n -> Entries] : f \in Seq(Entries)
  BY <1>1
<1> HIDE DEF n
<1> QED
  BY <1>2, <1>3, <1>4

----------------------------------------------------------------------------
(* The functions that take an entry out or change it *)

\* The pages of the directory that starts in s, and page 0.
DirSet(d, s) == {0} \cup ToSet(Walk(d, s))

\* The entry that was found is still where it was found.
Holds(c, w) == c.info \in Entered(c.dev, w)

LEMMA FoundHolds ==
  ASSUME NEW c \in Calls, NEW s \in Places, NEW name,
         Sought(c.dev, s, name, c.info), c.info # NoInfo
  PROVE  Holds(c, Walk(c.dev, s))
BY CallFields, EnteredType DEF Sought, Holds

LEMMA HoldsPages ==
  ASSUME NEW c \in Calls, NEW w, Holds(c, w)
  PROVE  /\ c.info.dpage \in Pages /\ c.info.pdpage \in Pages
         /\ c.info.dpage \in Places /\ c.info.pdpage \in Places
         /\ c.info.dpage \in ToSet(w) /\ c.info.pdpage \in ToSet(w)
         /\ At(c.dev, c.info.dpage) = c.dev[c.info.dpage]
         /\ c.dev[c.info.dpage] \in PageType /\ c.dev[c.info.pdpage] \in PageType
         /\ c.info.pos \in 1 .. Len(Items(c.dev[c.info.dpage]))
         /\ c.info.e.spage \in Places
<1>1. c.info \in Infos /\ c.dev \in Devs
  BY CallFields
<1>2. c.info.dpage \in Pages /\ c.info.pdpage \in Pages /\ c.info.e.spage \in Places
  BY <1>1 DEF Infos, Listed
<1>3. c.dev[c.info.dpage] \in PageType /\ c.dev[c.info.pdpage] \in PageType
  BY <1>1, <1>2 DEF Devs
<1> QED
  BY <1>1, <1>2, <1>3, AtType, Constants DEF Holds, Entered

LEMMA UnlinkGoes ==
  ASSUME NEW S, NEW c \in Calls, NEW w, Holds(c, w), ToSet(w) \subseteq S
  PROVE  Goes(c, Unlink(c, c.info), S) /\ Unlink(c, c.info) \in Calls
<1> DEFINE i == c.info
           page == c.dev[i.dpage]
           before == c.dev[i.pdpage]
           linked == [before EXCEPT !.next = page.next]
           d == Clear(c, i.dpage)
           dp == i.dpage
           pp == i.pdpage
           without == Without(page, i.pos)
<1>1. /\ dp \in Places /\ pp \in Places /\ dp \in S /\ pp \in S
      /\ page \in PageType /\ before \in PageType /\ i.pos \in 1 .. Len(Items(page))
      /\ At(c.dev, dp) = page
  BY HoldsPages
<1>2. linked \in PageType /\ without \in PageType
  BY <1>1, PageFields, PageSame, WithoutType
<1>3. Goes(c, d, S) /\ d.dev = c.dev /\ d \in Calls
  BY MarkGoes DEF Goes
<1>4. Unlink(c, i) = IF Len(Items(page)) = 1 THEN Write_Page(d, pp, linked)
                     ELSE Write_Page(c, dp, without)
  <2>1. At(c.dev, i.dpage) = page
    BY <1>1
  <2> QED
    BY <2>1 DEF Unlink
<1> HIDE DEF linked, without, d, dp, pp
<1>5. Goes(d, Write_Page(d, pp, linked), S) /\ Goes(c, Write_Page(c, dp, without), S)
  BY <1>1, <1>2, <1>3, WriteGoes
<1>6. Goes(c, Write_Page(d, pp, linked), S)
  BY <1>3, <1>5, GoesThen
<1>7. Goes(c, Unlink(c, i), S)
  BY <1>4, <1>5, <1>6
<1> QED
  BY <1>7 DEF Goes

LEMMA ToRootGoes ==
  ASSUME NEW S, NEW c \in Calls
  PROVE  Goes(c, ToRoot(c), S) /\ ToRoot(c).dev = c.dev /\ ToRoot(c).ok = c.ok
<1> DEFINE e == <<>>
<1>1. e \in Seq(Places)
  OBVIOUS
<1>2. ToRoot(c) = IF c.ok THEN [c EXCEPT !.cd = e] ELSE c
  BY DEF ToRoot
<1>3. CASE ~c.ok
  BY <1>2, <1>3, GoesNothing
<1>4. CASE c.ok
  <2>1. e = <<>>
    OBVIOUS
  <2> HIDE DEF e
  <2>2. ToRoot(c) \in Calls /\ ToRoot(c).cd = e /\ ToRoot(c).dev = c.dev /\ ToRoot(c).ok = c.ok
        /\ ToRoot(c).lost = c.lost /\ ToRoot(c).blind = c.blind
    BY <1>1, <1>2, <1>4 DEF Calls
  <2> QED
    BY <2>1, <2>2 DEF Goes
<1> QED
  BY <1>3, <1>4

LEMMA ErasedGoes ==
  ASSUME NEW S, NEW c \in Calls, NEW w, c.ok => Holds(c, w), ToSet(w) \subseteq S, 0 \in S
  PROVE  Goes(c, Erased(c), S)
<1>1. CASE ~c.ok
  BY <1>1, GoesNothing DEF Erased
<1>2. CASE c.ok
  <2> DEFINE d == Unlink(c, c.info)
             e == Clear(d, c.info.e.spage)
             f == WriteBitMap(e)
             g == ToRoot(f)
  <2>1. Goes(c, d, S) /\ d \in Calls
    BY <1>2, UnlinkGoes
  <2>2. Erased(c) = g
    BY <1>2 DEF Erased
  <2> HIDE DEF d
  <2>3. Goes(d, e, S)
    BY <2>1, MarkGoes
  <2>4. e \in Calls
    BY <2>3 DEF Goes
  <2> HIDE DEF e
  <2>5. Goes(e, f, S)
    BY <2>4, WriteBitMapGoes
  <2>6. f \in Calls
    BY <2>5 DEF Goes
  <2> HIDE DEF f
  <2>7. Goes(f, g, S)
    BY <2>6, ToRootGoes
  <2> HIDE DEF g
  <2>8. Goes(c, e, S)
    BY <2>1, <2>3, GoesThen
  <2>9. Goes(c, f, S)
    BY <2>5, <2>8, GoesThen
  <2>10. Goes(c, g, S)
    BY <2>7, <2>9, GoesThen
  <2> QED
    BY <2>2, <2>10
<1> QED
  BY <1>1, <1>2

\* Freeing the pages of a file in the bitmap.
LEMMA ExtReadGoes ==
  ASSUME NEW S, NEW c \in Calls, NEW s
  PROVE  /\ Goes(c, ExtRead(c, s), S) /\ ExtRead(c, s).dev = c.dev
         /\ ExtRead(c, s).info = c.info /\ ExtRead(c, s).cd = c.cd
<1> DEFINE w == Walk(c.dev, s)
           bm == c.bm \ {p \in ToSet(w) : Readable(At(c.dev, p))}
           ends == Ends(c.dev, w)
<1>1. bm \in SUBSET Pages
  BY CallFields
<1>2. ends \in BOOLEAN
  BY DEF Ends, EndsIn
<1>3. ExtRead(c, s) = IF ~c.ok THEN c ELSE IF Loops(c.dev, w) THEN Hang(c)
                      ELSE [c EXCEPT !.bm = bm, !.ok = ends]
  BY DEF ExtRead, Freed
<1> HIDE DEF bm, ends
<1>4. CASE ~c.ok
  BY <1>3, <1>4, GoesNothing
<1>5. CASE c.ok /\ Loops(c.dev, w)
  BY <1>3, <1>5, FailGoes DEF Keeps
<1>6. CASE c.ok /\ ~Loops(c.dev, w)
  BY <1>1, <1>2, <1>3, <1>6 DEF Goes, Calls
<1> QED
  BY <1>4, <1>5, <1>6

LEMMA FreeingGoes ==
  ASSUME NEW S, NEW c \in Calls, NEW s
  PROVE  /\ Goes(c, Freeing(c, s), S) /\ Freeing(c, s).dev = c.dev
         /\ Freeing(c, s).info = c.info /\ Freeing(c, s).cd = c.cd
<1> DEFINE d == ExtRead(c, s)
           again == [d EXCEPT !.ok = TRUE]
<1>1. Goes(c, d, S) /\ d.dev = c.dev /\ d.info = c.info /\ d.cd = c.cd
  BY ExtReadGoes
<1>2. Freeing(c, s) = IF c.ok /\ ~d.ok /\ ~d.hung THEN Clear(again, s) ELSE d
  BY DEF Freeing, Forgiven
<1> HIDE DEF d
<1>3. d \in Calls
  BY <1>1 DEF Goes
<1>4. CASE c.ok
  <2>1. /\ again \in Calls /\ again.dev = d.dev /\ again.info = d.info /\ again.cd = d.cd
        /\ again.lost = d.lost /\ again.blind = d.blind
    BY <1>3 DEF Calls
  <2> HIDE DEF again
  <2>2. Goes(again, Clear(again, s), S) /\ Keeps(again, Clear(again, s))
        /\ Clear(again, s).dev = again.dev /\ Clear(again, s).cd = again.cd
    BY <2>1, MarkGoes
  <2>3. Goes(c, Clear(again, s), S)
    BY <1>1, <1>4, <2>1, <2>2 DEF Goes
  <2> QED
    BY <1>1, <1>2, <2>1, <2>2, <2>3 DEF Keeps
<1>5. CASE ~c.ok
  BY <1>1, <1>2, <1>5
<1> QED
  BY <1>4, <1>5

LEMMA CloseGoes ==
  ASSUME NEW S, NEW c \in Calls, NEW open \in SUBSET Handles
  PROVE  /\ Goes(c, Close(c, open), S) /\ Close(c, open).dev = c.dev
         /\ Close(c, open).info = c.info /\ Close(c, open).cd = c.cd
         /\ Close(c, open).ok = c.ok
<1>1. CASE open = {}
  BY <1>1, GoesNothing DEF Close
<1>2. CASE open # {}
  <2>1. open \in SUBSET Nat
    BY Constants
  <2>2. Min(open) \in open
    BY <1>2, <2>1, MinIn
  <2> QED
    BY <1>2, <2>2, ReleasedGoes DEF Close
<1> QED
  BY <1>1, <1>2

LEMMA DeleteGoes ==
  ASSUME NEW S, NEW c \in Calls, NEW name, NEW w, ToSet(w) \subseteq S, 0 \in S,
         c.ok /\ c.info # NoInfo => Holds(c, w)
  PROVE  Goes(c, Delete(c, name), S)
<1> DEFINE open == OpenOn(c.han, name)
           spage == c.info.e.spage
           a == Close(c, open)
           b == ReadBitMap(a)
           f == Freeing(b, spage)
           g == Erased(f)
<1>1. CASE Delete(c, name) = Fail(c)
  BY <1>1, FailGoes
<1>2. CASE Delete(c, name) # Fail(c)
  <2>1. Delete(c, name) = g /\ c.ok /\ c.info # NoInfo
    BY <1>2 DEF Delete
  <2>2. Goes(c, a, S) /\ a.dev = c.dev /\ a.info = c.info
    BY CloseGoes DEF OpenOn
  <2> HIDE DEF a, spage
  <2>3. a \in Calls
    BY <2>2 DEF Goes
  <2>4. Goes(a, b, S) /\ Keeps(a, b) /\ b.dev = a.dev
    BY <2>3, ReadBitMapGoes
  <2> HIDE DEF b
  <2>5. b \in Calls
    BY <2>4 DEF Goes
  <2>6. Goes(b, f, S) /\ f.dev = b.dev /\ f.info = b.info
    BY <2>5, FreeingGoes
  <2> HIDE DEF f
  <2>7. f \in Calls
    BY <2>6 DEF Goes
  <2>8. Holds(f, w)
    BY <2>1, <2>2, <2>4, <2>6 DEF Holds, Keeps
  <2>9. Goes(f, g, S)
    BY <2>7, <2>8, ErasedGoes
  <2> HIDE DEF g
  <2>10. Goes(c, b, S)
    BY <2>2, <2>4, GoesThen
  <2>11. Goes(c, f, S)
    BY <2>6, <2>10, GoesThen
  <2>12. Goes(c, g, S)
    BY <2>9, <2>11, GoesThen
  <2> QED
    BY <2>1, <2>12
<1> QED
  BY <1>1, <1>2

LEMMA NewAttrGoes ==
  ASSUME NEW S, NEW c \in Calls, NEW attr \in BOOLEAN, NEW w, ToSet(w) \subseteq S,
         c.ok /\ c.info # NoInfo => Holds(c, w)
  PROVE  Goes(c, NewAttr(c, attr), S)
<1> DEFINE p == c.info.dpage
           page == c.dev[p]
           i == Slot(page, c.info.pos)
           s == page.slots
           t == [s EXCEPT ![i].attr = attr]
           new == [page EXCEPT !.slots = t]
<1>1. CASE ~c.ok \/ c.info = NoInfo
  BY <1>1, FailGoes DEF NewAttr
<1>2. CASE c.ok /\ c.info # NoInfo /\ c.info.e.attr = attr
  BY <1>2, GoesNothing DEF NewAttr
<1>3. CASE c.ok /\ c.info # NoInfo /\ c.info.e.attr # attr
  <2>1. p \in Places /\ p \in S /\ page \in PageType
    BY <1>3, HoldsPages
  <2>2. s \in Seq(Entries)
    BY <2>1, PageFields
  <2>3. NewAttr(c, attr) = Write_Page(c, p, new)
    BY <1>3 DEF NewAttr
  <2> HIDE DEF i, s
  <2>4. t \in Seq(Entries)
    BY <2>2, EntryWith
  <2> HIDE DEF t, p
  <2>5. new \in PageType
    BY <2>1, <2>4, PageSame
  <2> HIDE DEF new
  <2> QED
    BY <2>1, <2>3, <2>5, WriteGoes
<1>4. \/ ~c.ok \/ c.info = NoInfo
      \/ c.ok /\ c.info # NoInfo /\ c.info.e.attr = attr
      \/ c.ok /\ c.info # NoInfo /\ c.info.e.attr # attr
  OBVIOUS
<1> HIDE DEF t, s, i, page, new
<1> QED
  BY <1>1, <1>2, <1>3, <1>4

----------------------------------------------------------------------------
(* The name that goes where a handle says *)

LEMMA HeaderRenamedType ==
  ASSUME NEW page \in PageType, NEW name \in Names, NEW attr \in BOOLEAN
  PROVE  HeaderRenamed(page, name, attr) \in PageType
<1> DEFINE s == page.slots
           spage == IF page.head = "root" THEN 0 ELSE Stray
           header == <<[name |-> name, spage |-> spage, attr |-> attr]>>
           t == header \o s
           e == {}
           p1 == [page EXCEPT !.head = "none"]
           p2 == [p1 EXCEPT !.bm = e]
           p3 == [p2 EXCEPT !.slots = t]
<1>1. s \in Seq(Entries)
  BY PageFields
<1>2. t \in Seq(Entries)
  <2>1. spage \in Places
    BY Constants
  <2> HIDE DEF spage
  <2>2. header \in Seq(Entries)
    BY <2>1 DEF Entries
  <2> HIDE DEF header, s
  <2> QED
    BY <1>1, <2>2
<1>3. HeaderRenamed(page, name, attr) = p3
  BY PageFields DEF HeaderRenamed
<1> HIDE DEF t
<1>4. p1 \in PageType
  BY PageSame
<1> HIDE DEF p1
<1>5. p2 \in PageType
  BY <1>4, PageSame
<1> HIDE DEF p2
<1>6. p3 \in PageType
  BY <1>2, <1>5, PageSame
<1> HIDE DEF p3
<1> QED
  BY <1>3, <1>6

LEMMA RenamedType ==
  ASSUME NEW page \in PageType, NEW pos \in Nat, NEW name \in Names, NEW attr \in BOOLEAN
  PROVE  Renamed(page, pos, name, attr) \in PageType
<1> DEFINE n == Len(Items(page))
           slot == SlotRenamed(page, Slot(page, pos), name, attr)
           A == page.data # <<>>
           B == pos = 1 /\ IsDir(page)
<1>1. page.slots \in Seq(Entries) /\ n \in Nat
  BY PageFields, ItemsType
<1>2. slot \in PageType
  <2> DEFINE i == Slot(page, pos)
             t == [page.slots EXCEPT ![i] = [@ EXCEPT !.name = name, !.attr = attr]]
  <2>1. slot = [page EXCEPT !.slots = t]
    BY DEF SlotRenamed
  <2> HIDE DEF i
  <2>2. t \in Seq(Entries)
    BY <1>1, EntryWith
  <2> HIDE DEF t, slot
  <2> QED
    BY <2>1, <2>2, PageSame
<1>3. HeaderRenamed(page, name, attr) \in PageType
  BY HeaderRenamedType
<1>4. [page EXCEPT !.next = Stray] \in PageType
  BY PageSame, Constants
<1>5. CASE A
  BY <1>5, PageSame DEF Renamed
<1>6. CASE ~A /\ B
  <2>1. n >= 1
    BY <1>6, ItemsType
  <2> QED
    BY <1>1, <1>3, <1>6, <2>1 DEF Renamed
<1>7. CASE ~A /\ ~B /\ pos <= n
  BY <1>1, <1>2, <1>7 DEF Renamed
<1>8. CASE ~A /\ ~B /\ pos = n + 1
  BY <1>1, <1>4, <1>8 DEF Renamed
<1>9. CASE ~A /\ ~B /\ pos > n + 1
  BY <1>1, <1>9 DEF Renamed
<1> QED
  BY <1>1, <1>5, <1>6, <1>7, <1>8, <1>9

LEMMA RenameGoes ==
  ASSUME NEW S, NEW c \in Calls, NEW h \in Handles, NEW name \in Names, c.han[h].dpage \in S
  PROVE  Goes(c, Rename(c, h, name), S)
<1> DEFINE p == c.han[h].dpage
           new == Renamed(c.dev[p], c.han[h].pos, name, c.han[h].attr)
           r == Released(c, h)
<1>1. Goes(c, r, S) /\ r \in Calls
  BY ReleasedGoes DEF Goes
<1>2. Goes(c, Fail(r), S)
  <2> HIDE DEF r
  <2>1. Goes(r, Fail(r), S)
    BY <1>1, FailGoes
  <2> QED
    BY <1>1, <2>1, GoesThen
<1>3. CASE ~c.ok
  BY <1>3, GoesNothing DEF Rename
<1>4. CASE c.ok /\ c.info # NoInfo
  BY <1>2, <1>4 DEF Rename
<1>5. CASE c.ok /\ c.info = NoInfo /\ ~Readable(At(c.dev, p))
  BY <1>5, FailGoes DEF Rename
<1>6. CASE c.ok /\ c.info = NoInfo /\ Readable(At(c.dev, p))
  <2>1. p \in Pages /\ p \in Places /\ c.dev[p] \in PageType
    <3>1. p \in Pages
      BY <1>6, CallFields, AtType
    <3> QED
      BY <3>1, CallFields, Constants DEF Devs
  <2>2. c.han[h].pos \in Nat /\ c.han[h].attr \in BOOLEAN
    <3>1. c.han \in Hans
      BY CallFields
    <3> QED
      BY <3>1, HanFields
  <2>3. new \in PageType
    BY <2>1, <2>2, RenamedType
  <2>4. Rename(c, h, name) = Write_Page(c, p, new)
    BY <1>6 DEF Rename
  <2> HIDE DEF new, p
  <2>5. p \in S
    BY DEF p
  <2>6. Goes(c, Write_Page(c, p, new), S)
    BY <2>1, <2>3, <2>5, WriteGoes
  <2> QED
    BY <2>4, <2>6
<1> QED
  BY <1>3, <1>4, <1>5, <1>6

----------------------------------------------------------------------------
(* The functions of the file system *)

LEMMA CreateFileGoes ==
  ASSUME NEW S, NEW c \in Calls, NEW h \in Handles, NEW name \in Files,
         Writable(c.dev, c.cd, name) \subseteq S
  PROVE  Goes(c, owCreateFile(c, h, name), S)
<1> DEFINE open == [c.han[h] EXCEPT !.name = name, !.spage = 0, !.attr = FALSE]
           han == [c.han EXCEPT ![h] = open]
           d == [c EXCEPT !.han = han]
           s == CdPage(c.cd)
           f == FindDirectoryInfo(d, s, name)
           b == ReadBitMap(f)
           new == f.info = NoInfo
           r == Require(b, new)
           e == <<>>
           w == owWriteFile(r, h, e)
           o == ReleasedIf(w, h, ~w.ok)
<1>1. c.han \in Hans /\ h \in DOMAIN c.han
  BY CallFields DEF Hans
<1>2. open \in Open(Names) /\ open \in Open(Files) /\ open.name = name
  <2>1. c.han[h] \in Open(Files) /\ name \in Names
    BY <1>1, HanFields, Constants
  <2> QED
    BY <2>1, Constants DEF Open
<1>3. owCreateFile(c, h, name) = o
  <2>1. d = [c EXCEPT !.han[h] = [@ EXCEPT !.name = name, !.spage = 0, !.attr = FALSE]]
    OBVIOUS
  <2>2. b.info = f.info
    BY DEF ReadBitMap, Fail
  <2> QED
    BY <2>1 DEF owCreateFile, Create, OrRelease
<1> HIDE DEF open
<1>4. han \in Hans /\ han[h] = open
  <2>1. han \in Hans
    BY <1>1, <1>2, HansWith
  <2> QED
    BY <1>1, <2>1
<1> HIDE DEF han
<1>5. Goes(c, d, S) /\ d \in Calls /\ d.dev = c.dev /\ d.cd = c.cd /\ d.han = han
  BY <1>4 DEF Goes, Calls
<1>6. s \in Places
  BY CdPageType
<1> HIDE DEF d, s
<1>7. Goes(d, f, S) /\ Looks(d, f)
  BY <1>5, <1>6, FindGoes
<1>8. f \in Calls
  BY <1>7 DEF Goes
<1> HIDE DEF f
<1>9. Goes(f, b, S) /\ Keeps(f, b) /\ b.dev = f.dev /\ b.cd = f.cd
  BY <1>8, ReadBitMapGoes
<1>10. b \in Calls /\ new \in BOOLEAN
  BY <1>9 DEF Goes
<1> HIDE DEF b, new
<1>11. Goes(b, r, S) /\ Keeps(b, r) /\ r.dev = b.dev /\ r.cd = b.cd
  BY <1>10, RequireGoes
<1>12. r \in Calls
  BY <1>11 DEF Goes
<1> HIDE DEF r
<1>13. r.dev = c.dev /\ r.cd = c.cd /\ r.han[h].name = name
  BY <1>2, <1>4, <1>5, <1>7, <1>9, <1>11 DEF Looks, Keeps
<1>14. WriteSet(r, h) \subseteq S
  BY <1>13 DEF WriteSet
<1>15. e \in Seq(PageType)
  OBVIOUS
<1> HIDE DEF e
<1>16. Goes(r, w, S)
  BY <1>12, <1>14, <1>15, WriteFileGoes
<1>17. w \in Calls
  BY <1>16 DEF Goes
<1> HIDE DEF w
<1>18. Goes(w, o, S)
  BY <1>17, ReleasedIfGoes
<1> HIDE DEF o
<1>19. Goes(c, f, S)
  BY <1>5, <1>7, GoesThen
<1>20. Goes(c, b, S)
  BY <1>9, <1>19, GoesThen
<1>21. Goes(c, r, S)
  BY <1>11, <1>20, GoesThen
<1>22. Goes(c, w, S)
  BY <1>16, <1>21, GoesThen
<1>23. Goes(c, o, S)
  BY <1>18, <1>22, GoesThen
<1> QED
  BY <1>3, <1>23

\* After a search, what was found is held by the directory.
LEMMA FindHolds ==
  ASSUME NEW S, NEW c \in Calls, NEW s \in Places, NEW name
  PROVE  LET f == FindDirectoryInfo(c, s, name)
         IN  /\ Goes(c, f, S) /\ Looks(c, f) /\ f \in Calls
             /\ f.ok /\ f.info # NoInfo => Holds(f, Walk(c.dev, s))
<1> DEFINE f == FindDirectoryInfo(c, s, name)
<1>1. Goes(c, f, S) /\ Looks(c, f) /\ (f.ok => Sought(c.dev, s, name, f.info))
  BY FindGoes
<1>2. f \in Calls /\ f.dev = c.dev
  BY <1>1 DEF Goes, Looks
<1> HIDE DEF f
<1>3. f.ok /\ f.info # NoInfo => Holds(f, Walk(c.dev, s))
  BY <1>1, <1>2, FoundHolds
<1> QED
  BY <1>1, <1>2, <1>3 DEF f

LEMMA OpenFileGoes ==
  ASSUME NEW S, NEW c \in Calls, NEW h \in Handles, NEW name \in Files
  PROVE  Goes(c, owOpenFile(c, h, name), S) /\ owOpenFile(c, h, name).dev = c.dev
<1> DEFINE s == CdPage(c.cd)
           f == FindDirectoryInfo(c, s, name)
           open == [name |-> name, spage |-> f.info.e.spage, attr |-> f.info.e.attr,
                    dpage |-> f.info.dpage, pos |-> f.info.pos]
           han == [f.han EXCEPT ![h] = open]
           o == IF ~f.ok \/ f.info = NoInfo THEN Fail(f) ELSE [f EXCEPT !.han = han]
<1>1. s \in Places
  BY CdPageType
<1>2. owOpenFile(c, h, name) = o
  BY DEF owOpenFile, Opened
<1> HIDE DEF s
<1>3. Goes(c, f, S) /\ Looks(c, f) /\ f \in Calls
  BY <1>1, FindHolds
<1> HIDE DEF f
<1>4. open \in Open(Files) /\ open \in Open(Names)
  <2>1. /\ f.info.e.spage \in Places /\ f.info.e.attr \in BOOLEAN /\ f.info.pos \in Nat
        /\ f.info.dpage \in Places /\ name \in Names
    BY <1>3, CallFields, Constants DEF Infos, Listed
  <2> QED
    BY <2>1 DEF Open
<1> HIDE DEF open
<1>5. han \in Hans
  BY <1>3, <1>4, CallFields, HansWith
<1> HIDE DEF han
<1>6. Goes(f, [f EXCEPT !.han = han], S) /\ [f EXCEPT !.han = han].dev = f.dev
  BY <1>3, <1>5 DEF Goes, Calls
<1>7. Goes(f, o, S) /\ o.dev = f.dev
  BY <1>3, <1>6, FailGoes
<1> HIDE DEF o
<1>8. Goes(c, o, S)
  BY <1>3, <1>7, GoesThen
<1> QED
  BY <1>2, <1>3, <1>7, <1>8 DEF Looks

LEMMA DeleteFileGoes ==
  ASSUME NEW S, NEW c \in Calls, NEW name, DirSet(c.dev, CdPage(c.cd)) \subseteq S
  PROVE  Goes(c, owDeleteFile(c, name), S)
<1> DEFINE s == CdPage(c.cd)
           may == name \in Files \/ c.internal
           r == Require(c, may)
           f == FindDirectoryInfo(r, s, name)
           w == Walk(c.dev, s)
           e == Delete(f, name)
<1>1. s \in Places /\ ToSet(w) \subseteq S /\ 0 \in S
  BY CdPageType DEF DirSet
<1>2. owDeleteFile(c, name) = e
  BY DEF owDeleteFile
<1>3. may \in BOOLEAN
  BY CallFields
<1> HIDE DEF may, s
<1>4. Goes(c, r, S) /\ r.dev = c.dev
  BY <1>3, RequireGoes
<1>5. r \in Calls
  BY <1>4 DEF Goes
<1> HIDE DEF r
<1>6. Goes(r, f, S) /\ f \in Calls /\ (f.ok /\ f.info # NoInfo => Holds(f, w))
  BY <1>1, <1>4, <1>5, FindHolds
<1> HIDE DEF f, w
<1>7. Goes(f, e, S)
  BY <1>1, <1>6, DeleteGoes
<1> HIDE DEF e
<1>8. Goes(c, f, S)
  BY <1>4, <1>6, GoesThen
<1>9. Goes(c, e, S)
  BY <1>7, <1>8, GoesThen
<1> QED
  BY <1>2, <1>9

LEMMA AttributeGoes ==
  ASSUME NEW S, NEW c \in Calls, NEW name, NEW attr \in BOOLEAN,
         ToSet(Walk(c.dev, CdPage(c.cd))) \subseteq S
  PROVE  Goes(c, owAttribute(c, name, attr), S)
<1> DEFINE s == CdPage(c.cd)
           f == FindDirectoryInfo(c, s, name)
           w == Walk(c.dev, s)
           e == NewAttr(f, attr)
<1>1. s \in Places /\ ToSet(w) \subseteq S
  BY CdPageType
<1>2. owAttribute(c, name, attr) = e
  BY DEF owAttribute
<1> HIDE DEF s
<1>3. Goes(c, f, S) /\ f \in Calls /\ (f.ok /\ f.info # NoInfo => Holds(f, w))
  BY <1>1, FindHolds
<1> HIDE DEF f, w
<1>4. Goes(f, e, S)
  BY <1>1, <1>3, NewAttrGoes
<1> HIDE DEF e
<1>5. Goes(c, e, S)
  BY <1>3, <1>4, GoesThen
<1> QED
  BY <1>2, <1>5

LEMMA ReNameFileGoes ==
  ASSUME NEW S, NEW c \in Calls, NEW h \in Handles, NEW name \in Names, c.han[h].dpage \in S
  PROVE  Goes(c, owReNameFile(c, h, name), S)
<1> DEFINE s == CdPage(c.cd)
           f == FindDirectoryInfo(c, s, name)
           e == Rename(f, h, name)
           o == ReleasedIf(e, h, e.ok)
<1>1. s \in Places
  BY CdPageType
<1>2. owReNameFile(c, h, name) = o
  BY DEF owReNameFile, ReleasedWhenDone
<1> HIDE DEF s
<1>3. Goes(c, f, S) /\ Looks(c, f) /\ f \in Calls
  BY <1>1, FindHolds
<1> HIDE DEF f
<1>4. Goes(f, e, S)
  BY <1>3, RenameGoes DEF Looks
<1>5. e \in Calls
  BY <1>4 DEF Goes
<1> HIDE DEF e
<1>6. Goes(e, o, S)
  BY <1>5, ReleasedIfGoes
<1> HIDE DEF o
<1>7. Goes(c, e, S)
  BY <1>3, <1>4, GoesThen
<1>8. Goes(c, o, S)
  BY <1>6, <1>7, GoesThen
<1> QED
  BY <1>2, <1>8

LEMMA FlaggedGoes ==
  ASSUME NEW S, NEW c \in Calls
  PROVE  /\ Goes(c, Flagged(c), S)
         /\ Keeps(c, Flagged(c)) /\ Flagged(c).dev = c.dev /\ Flagged(c).cd = c.cd
         /\ Flagged(c) \in Calls
         /\ Goes(c, Unflagged(c), S) /\ Unflagged(c) \in Calls
BY DEF Flagged, Unflagged, Goes, Keeps, Calls

LEMMA CreateDirGoes ==
  ASSUME NEW S, NEW c \in Calls, NEW name \in Dirs, Writable(c.dev, c.cd, name) \subseteq S
  PROVE  Goes(c, owCreateDir(c, name), S)
<1> DEFINE z == 0
           open == [c.han[z] EXCEPT !.name = name]
           han == [c.han EXCEPT ![z] = open]
           d == [c EXCEPT !.han = han]
           fits == Len(d.cd) # MaxDepth
           r == Require(d, fits)
           s == CdPage(c.cd)
           f == FindDirectoryInfo(r, s, name)
           g == Flagged(f)
           chunks == <<DirPage>>
           w == owWriteFile(g, z, chunks)
           u == Unflagged(w)
           t == ToRoot(u)
           o == IF ~f.ok \/ f.info # NoInfo THEN Fail(f) ELSE t
<1>1. c.han \in Hans /\ z \in DOMAIN c.han /\ z \in Handles \cup {0} /\ z \notin Handles
  BY CallFields, Constants DEF Hans
<1>2. open \in Open(Names) /\ open.name = name
  <2>1. c.han[z] \in Open(Names) /\ name \in Names
    BY <1>1, HanFields, Constants
  <2> QED
    BY <2>1 DEF Open
<1>3. owCreateDir(c, name) = o
  BY DEF owCreateDir, MakeDir, Named
<1> HIDE DEF open, z
<1>4. han \in Hans /\ han[z] = open
  <2>1. han \in Hans
    BY <1>1, <1>2, HansWith
  <2> QED
    BY <1>1, <2>1
<1> HIDE DEF han
<1>5. Goes(c, d, S) /\ d \in Calls /\ d.dev = c.dev /\ d.cd = c.cd /\ d.han = han
  BY <1>4 DEF Goes, Calls
<1>6. s \in Places /\ fits \in BOOLEAN
  BY CdPageType
<1> HIDE DEF d, fits, s
<1>7. Goes(d, r, S) /\ Keeps(d, r) /\ r.dev = d.dev /\ r.cd = d.cd
  BY <1>5, <1>6, RequireGoes
<1>8. r \in Calls
  BY <1>7 DEF Goes
<1> HIDE DEF r
<1>9. Goes(r, f, S) /\ Looks(r, f) /\ f \in Calls
  BY <1>6, <1>8, FindHolds
<1> HIDE DEF f
<1>10. Goes(f, g, S) /\ Keeps(f, g) /\ g.dev = f.dev /\ g.cd = f.cd /\ g \in Calls
  BY <1>9, FlaggedGoes
<1> HIDE DEF g
<1>11. g.dev = c.dev /\ g.cd = c.cd /\ g.han[z].name = name
  BY <1>2, <1>4, <1>5, <1>7, <1>9, <1>10 DEF Looks, Keeps
<1>12. WriteSet(g, z) \subseteq S
  BY <1>11 DEF WriteSet
<1>13. chunks \in Seq(PageType)
  BY PageSame
<1> HIDE DEF chunks
<1>14. Goes(g, w, S)
  BY <1>1, <1>10, <1>12, <1>13, WriteFileGoes
<1>15. w \in Calls
  BY <1>14 DEF Goes
<1> HIDE DEF w
<1>16. Goes(w, u, S) /\ u \in Calls
  BY <1>15, FlaggedGoes
<1> HIDE DEF u
<1>17. Goes(u, t, S)
  BY <1>16, ToRootGoes
<1> HIDE DEF t
<1>18. Goes(f, w, S)
  BY <1>9, <1>10, <1>14, GoesThen
<1>19. Goes(f, u, S)
  BY <1>9, <1>16, <1>18, GoesThen
<1>20. Goes(f, t, S)
  BY <1>9, <1>17, <1>19, GoesThen
<1>21. Goes(f, o, S)
  BY <1>9, <1>20, FailGoes
<1> HIDE DEF o
<1>22. Goes(c, r, S)
  BY <1>5, <1>7, GoesThen
<1>23. Goes(c, f, S)
  BY <1>9, <1>22, GoesThen
<1>24. Goes(c, o, S)
  BY <1>21, <1>23, GoesThen
<1> QED
  BY <1>3, <1>24

LEMMA RemoveDirGoes ==
  ASSUME NEW S, NEW c \in Calls, NEW pg \in Places, NEW name, DirSet(c.dev, pg) \subseteq S
  PROVE  Goes(c, owRemoveDir(c, pg, name), S)
<1> DEFINE f == FindDirectoryInfo(c, pg, name)
           g == Flagged(f)
           b == ReadBitMap(g)
           x == ExtRead(b, f.info.e.spage)
           e == Erased(x)
           u == Unflagged(e)
           w == Walk(c.dev, pg)
<1>1. ToSet(w) \subseteq S /\ 0 \in S
  BY DEF DirSet
<1>2. Goes(c, f, S) /\ f \in Calls /\ (f.ok /\ f.info # NoInfo => Holds(f, w))
  BY FindHolds
<1>3. CASE owRemoveDir(c, pg, name) = Fail(f)
  <2> HIDE DEF f
  <2>1. Goes(c, Fail(f), S)
    BY <1>2, FailGoes, GoesThen
  <2> QED
    BY <1>3, <2>1
<1>4. CASE owRemoveDir(c, pg, name) # Fail(f)
  <2>1. owRemoveDir(c, pg, name) = u /\ f.ok /\ f.info # NoInfo
    <3>1. g.info = f.info /\ b.info = g.info /\ x.info = b.info
      BY <1>2 DEF Flagged, ReadBitMap, Fail, ExtRead, Freed, Hang
    <3> QED
      BY <1>4 DEF owRemoveDir, RemoveEmpty
  <2> HIDE DEF f
  <2>2. Goes(f, g, S) /\ Keeps(f, g) /\ g.dev = f.dev /\ g \in Calls
    BY <1>2, FlaggedGoes
  <2> HIDE DEF g
  <2>3. Goes(g, b, S) /\ Keeps(g, b) /\ b.dev = g.dev
    BY <2>2, ReadBitMapGoes
  <2>4. b \in Calls
    BY <2>3 DEF Goes
  <2> HIDE DEF b
  <2>5. Goes(b, x, S) /\ x.dev = b.dev /\ x.info = b.info
    BY <2>4, ExtReadGoes
  <2>6. x \in Calls
    BY <2>5 DEF Goes
  <2> HIDE DEF x
  <2>7. Holds(x, w)
    BY <1>2, <2>1, <2>2, <2>3, <2>5 DEF Holds, Keeps
  <2>8. Goes(x, e, S)
    BY <1>1, <2>6, <2>7, ErasedGoes
  <2>9. e \in Calls
    BY <2>8 DEF Goes
  <2> HIDE DEF e
  <2>10. Goes(e, u, S)
    BY <2>9, FlaggedGoes
  <2> HIDE DEF u
  <2>11. Goes(c, g, S)
    BY <1>2, <2>2, GoesThen
  <2>12. Goes(c, b, S)
    BY <2>3, <2>11, GoesThen
  <2>13. Goes(c, x, S)
    BY <2>5, <2>12, GoesThen
  <2>14. Goes(c, e, S)
    BY <2>8, <2>13, GoesThen
  <2>15. Goes(c, u, S)
    BY <2>10, <2>14, GoesThen
  <2> QED
    BY <2>1, <2>15
<1> QED
  BY <1>3, <1>4

LEMMA FormatGoes ==
  ASSUME NEW S, NEW c \in Calls, 0 \in S
  PROVE  Goes(c, owFormat(c), S)
<1> DEFINE empty == <<>>
           z == 0
           d == [c EXCEPT !.cd = empty]
           e == Write_Page(d, z, RootPage)
           one == {0}
           f == [e EXCEPT !.bm = one]
           g == WriteBitMap(f)
           o == Closed(g)
<1>1. empty \in Seq(Places) /\ empty = <<>> /\ z \in S /\ z \in Places /\ one \in SUBSET Pages
  BY Constants
<1>2. owFormat(c) = o
  BY DEF owFormat
<1> HIDE DEF empty, z, one
<1>3. Goes(c, d, S) /\ d \in Calls
  BY <1>1 DEF Goes, Calls
<1> HIDE DEF d
<1>4. Goes(d, e, S)
  BY <1>1, <1>3, PageSame, WriteGoes
<1> HIDE DEF e
<1>5. Goes(e, f, S) /\ f \in Calls
  BY <1>1, <1>4 DEF Goes, Calls
<1> HIDE DEF f
<1>6. Goes(f, g, S)
  BY <1>5, WriteBitMapGoes
<1>7. g \in Calls
  BY <1>6 DEF Goes
<1> HIDE DEF g
<1>8. Goes(g, o, S)
  <2> DEFINE han == [h \in DOMAIN g.han |-> [g.han[h] EXCEPT !.name = NoName]]
  <2>1. han \in Hans
    <3> DEFINE shut(open) == [open EXCEPT !.name = NoName]
    <3>1. \A open \in Open(Names) : shut(open) \in Open(Names)
      BY DEF Open
    <3>2. \A open \in Open(Files) : shut(open) \in Open(Files)
      BY DEF Open
    <3>3. han = [h \in DOMAIN g.han |-> shut(g.han[h])]
      OBVIOUS
    <3>4. g.han \in Hans
      BY <1>7, CallFields
    <3> HIDE DEF shut, han
    <3> QED
      BY <3>1, <3>2, <3>3, <3>4 DEF Hans
  <2>2. o = IF g.ok THEN [g EXCEPT !.han = han] ELSE g
    BY DEF Closed
  <2> HIDE DEF han, o
  <2> QED
    BY <1>7, <2>1, <2>2, GoesNothing DEF Goes, Calls
<1> HIDE DEF o
<1>9. Goes(c, e, S)
  BY <1>3, <1>4, GoesThen
<1>10. Goes(c, f, S)
  BY <1>5, <1>9, GoesThen
<1>11. Goes(c, g, S)
  BY <1>6, <1>10, GoesThen
<1>12. Goes(c, o, S)
  BY <1>8, <1>11, GoesThen
<1> QED
  BY <1>2, <1>12

\* One step along a path changes the current directory only.
Enters(c, e) == e \in Calls /\ e.dev = c.dev /\ e.lost = c.lost /\ e.blind = c.blind

LEMMA StepEnters ==
  ASSUME NEW c \in Calls, NEW name
  PROVE  Enters(c, Step(c, name))
<1> DEFINE s == CdPage(c.cd)
           f == FindDirectoryInfo(c, s, name)
           S == {}
<1>1. s \in Places /\ c.cd \in Seq(Places)
  BY CdPageType, CallFields
<1>2. Fail(c) \in Calls /\ Enters(c, Fail(c))
  BY DEF Enters, Fail, Calls
<1>3. CASE name = ".."
  <2> DEFINE cd == Front(c.cd)
  <2>1. c.cd # <<>> => cd \in Seq(Places)
    <3>1. ASSUME c.cd # <<>> PROVE Len(c.cd) \in Nat /\ Len(c.cd) # 0
      BY <1>1, <3>1
    <3> DEFINE n == Len(c.cd) - 1
               one == 1
    <3>2. ASSUME c.cd # <<>> PROVE \A k \in one .. n : c.cd[k] \in Places
      BY <1>1, <3>1, <3>2
    <3>3. cd = SubSeq(c.cd, one, n)
      BY DEF Front
    <3>4. c.cd # <<>> => n \in Nat /\ one \in Nat
      BY <3>1
    <3> HIDE DEF cd, n, one
    <3>5. ASSUME c.cd # <<>> PROVE cd \in Seq(Places)
      BY <3>2, <3>3, <3>4, <3>5
    <3> QED
      BY <3>5
  <2>2. Step(c, name) = IF c.cd = <<>> THEN Fail(c) ELSE [c EXCEPT !.cd = cd]
    BY <1>3 DEF Step
  <2> HIDE DEF cd
  <2> QED
    BY <1>2, <2>1, <2>2 DEF Enters, Calls
<1>4. CASE name # ".."
  <2>1. Step(c, name) = Enter(f)
    BY <1>4 DEF Step
  <2> HIDE DEF s
  <2>2. Goes(c, f, S) /\ Looks(c, f) /\ f \in Calls
    BY <1>1, FindHolds
  <2> HIDE DEF f
  <2> DEFINE cd == Append(f.cd, f.info.e.spage)
  <2>3. cd \in Seq(Places)
    <3>1. f.cd \in Seq(Places) /\ f.info.e.spage \in Places
      BY <2>2, CallFields DEF Infos, Listed
    <3> QED
      BY <3>1
  <2>4. Enter(f) = IF ~f.ok \/ f.info = NoInfo THEN Fail(f) ELSE [f EXCEPT !.cd = cd]
    BY DEF Enter
  <2> HIDE DEF cd
  <2>5. Enters(f, Fail(f))
    BY <2>2 DEF Enters, Fail, Calls
  <2>6. Enters(f, [f EXCEPT !.cd = cd])
    BY <2>2, <2>3 DEF Enters, Calls
  <2>7. Enters(f, Enter(f))
    BY <2>4, <2>5, <2>6
  <2> QED
    BY <2>1, <2>2, <2>7 DEF Goes, Looks, Enters
<1> QED
  BY <1>3, <1>4

\* Step by step along a path.
Steps(c, path, P) ==
  /\ P[0] = c /\ Along(c, path) = P[Len(path)]
  /\ \A k \in 0 .. Len(path) : k # 0 => P[k] = Step(P[k - 1], path[k])

LEMMA AlongSteps ==
  ASSUME NEW c \in Calls, NEW N, NEW path \in Seq(N)
  PROVE  \E P : Steps(c, path, P)
<1> DEFINE n == Len(path)
           T == {e \in Calls : Enters(c, e)}
           F == [p \in (0 .. n) \X T |-> Step(p[2], path[p[1]])]
           Good(g) == g = [k \in 0 .. n |-> IF k = 0 THEN c ELSE Step(g[k - 1], path[k])]
<1>1. n \in Nat /\ c \in T
  BY DEF Enters
<1>2. ASSUME NEW k, NEW x \in T PROVE Step(x, path[k]) \in T
  <2> DEFINE e == Step(x, path[k])
  <2>1. Enters(x, e)
    BY StepEnters
  <2> HIDE DEF e
  <2>2. e \in T
    BY <2>1 DEF Enters
  <2> QED
    BY <2>2 DEF e
<1>3. F \in [(0 .. n) \X T -> T]
  <2> HIDE DEF T
  <2>1. \A p \in (0 .. n) \X T : Step(p[2], path[p[1]]) \in T
    BY <1>2
  <2> QED
    BY <2>1
<1>4. PICK g : RecursiveIn(g, n, T, c, F)
  <2> HIDE DEF F, T, n
  <2> QED
    BY <1>1, <1>3, Recursion
<1>5. Good(g)
  <2>1. g = [k \in 0 .. n |-> g[k]]
    <3> HIDE DEF T
    <3> QED
      BY <1>4 DEF RecursiveIn
  <2>2. ASSUME NEW k \in 0 .. n PROVE g[k] = IF k = 0 THEN c ELSE Step(g[k - 1], path[k])
    <3>1. k # 0 => k - 1 \in 0 .. n
      BY <1>1
    <3>2. /\ k # 0 => g[k - 1] \in T /\ g[k] = F[<<k, g[k - 1]>>]
          /\ k = 0 => g[k] = c
      <4> HIDE DEF F, T, n
      <4> QED
        BY <3>1, <1>4 DEF RecursiveIn
    <3>3. k # 0 => F[<<k, g[k - 1]>>] = Step(g[k - 1], path[k])
      <4> HIDE DEF T, n
      <4> QED
        BY <3>2
    <3> HIDE DEF F, T
    <3> QED
      BY <3>2, <3>3
  <2> HIDE DEF n
  <2> QED
    BY <2>1, <2>2
<1> DEFINE P == CHOOSE x : Good(x)
<1>6. Good(P)
  <2>1. \E x : Good(x)
    BY <1>5
  <2> HIDE DEF Good
  <2> QED
    BY <2>1
<1>7. Along(c, path) = P[n]
  BY DEF Along
<1> HIDE DEF P
<1>8. P[0] = c /\ \A k \in 0 .. n : k # 0 => P[k] = Step(P[k - 1], path[k])
  BY <1>1, <1>6
<1> QED
  BY <1>7, <1>8 DEF Steps

LEMMA AlongEnters ==
  ASSUME NEW c \in Calls, NEW N, NEW path \in Seq(N)
  PROVE  Enters(c, Along(c, path))
<1> DEFINE n == Len(path)
           T == {e \in Calls : Enters(c, e)}
<1>1. n \in Nat /\ c \in T
  BY DEF Enters
<1>2. ASSUME NEW k, NEW x \in T PROVE Step(x, path[k]) \in T
  <2> DEFINE e == Step(x, path[k])
  <2>1. Enters(x, e)
    BY StepEnters
  <2> HIDE DEF e
  <2>2. e \in T
    BY <2>1 DEF Enters
  <2> QED
    BY <2>2 DEF e
<1>3. PICK P : Steps(c, path, P)
  BY AlongSteps
<1> DEFINE K == {k \in 0 .. n : P[k] \in T}
<1>4. 0 \in K
  BY <1>1, <1>3 DEF Steps
<1>5. ASSUME NEW k \in 0 .. n, k # 0, k - 1 \in K PROVE k \in K
  <2>1. P[k] = Step(P[k - 1], path[k]) /\ P[k - 1] \in T
    BY <1>3, <1>5 DEF Steps
  <2> HIDE DEF T
  <2> QED
    BY <1>2, <2>1
<1>6. n \in K
  <2>1. \A k \in 0 .. n : k # 0 /\ k - 1 \in K => k \in K
    BY <1>5
  <2> HIDE DEF K
  <2>2. \A k \in 0 .. n : k \in K
    BY <1>1, <1>4, <2>1, Upto
  <2> QED
    BY <2>2, <1>1
<1> QED
  BY <1>3, <1>6 DEF Steps

LEMMA ChangeDirectoryEnters ==
  ASSUME NEW c \in Calls, NEW N, NEW path \in Seq(N), NEW absolute \in BOOLEAN
  PROVE  Enters(c, owChangeDirectory(c, path, absolute))
<1> DEFINE empty == <<>>
           cd == c.cd
           d == IF absolute THEN [c EXCEPT !.cd = empty] ELSE c
           e == Along(d, path)
           o == IF e.ok THEN e ELSE [e EXCEPT !.cd = cd]
<1>1. empty \in Seq(Places) /\ cd \in Seq(Places)
  BY CallFields
<1>2. owChangeDirectory(c, path, absolute) = o
  BY DEF owChangeDirectory, OrBack
<1> HIDE DEF empty, cd
<1>3. d \in Calls /\ d.dev = c.dev /\ d.lost = c.lost /\ d.blind = c.blind
  BY <1>1 DEF Calls
<1> HIDE DEF d
<1>4. Enters(d, e)
  BY <1>3, AlongEnters
<1> HIDE DEF e
<1>5. Enters(c, o)
  BY <1>1, <1>3, <1>4 DEF Enters, Calls
<1> QED
  BY <1>2, <1>5

----------------------------------------------------------------------------
(* The calls *)

LEMMA SizesType ==
  /\ MaxWrites \in Nat /\ Max(Sizes) \in Nat
  /\ \A n \in Sizes : n \in Nat /\ n # 0 /\ n <= Max(Sizes)
<1>1. PICK longest \in Sizes : \A n \in Sizes : n <= longest
  BY FileAssumption
<1>2. Sizes \subseteq Nat \ {0}
  BY FileAssumption
<1>3. \A n \in Sizes : longest >= n
  BY <1>1, <1>2
<1>4. Max(Sizes) \in Sizes /\ \A n \in Sizes : Max(Sizes) >= n
  BY <1>3 DEF Max
<1>5. Max(Sizes) \in Nat /\ \A n \in Sizes : n \in Nat /\ n # 0 /\ n <= Max(Sizes)
  BY <1>2, <1>4
<1> QED
  BY <1>5 DEF MaxWrites

LEMMA DataType ==
  ASSUME NEW f \in Files, NEW n \in Sizes
  PROVE  Data(f, n) \in Seq(PageType)
<1>1. n \in Nat /\ n # 0 /\ n <= Max(Sizes) /\ Max(Sizes) \in Nat
  BY SizesType
<1> DEFINE page(k) == [Blank EXCEPT !.head = "none", !.data = <<f, k, n>>]
<1>2. ASSUME NEW k \in 1 .. n PROVE page(k) \in PageType
  <2> DEFINE v == <<f, k, n>>
             new == [Blank EXCEPT !.head = "none", !.data = v]
  <2>1. v \in {<<g, j, m>> : g \in Files, j \in 1 .. Max(Sizes), m \in Sizes}
    <3>1. k \in 1 .. Max(Sizes)
      BY <1>1
    <3> QED
      BY <3>1
  <2> DEFINE base == [Blank EXCEPT !.head = "none"]
  <2>2. base \in PageType
    BY PageSame
  <2>3. new = [base EXCEPT !.data = v]
    BY DEF Blank
  <2> HIDE DEF v, base
  <2>4. [base EXCEPT !.data = v] \in PageType
    BY <2>1, <2>2 DEF PageType
  <2> QED
    BY <2>3, <2>4 DEF v
<1>3. Data(f, n) = [k \in 1 .. n |-> page(k)]
  BY DEF Data
<1> HIDE DEF page
<1> QED
  BY <1>1, <1>2, <1>3

\* A call begins with the state as it is.
Begins(c) ==
  /\ c \in Calls /\ c.dev = dev /\ c.cd = CD /\ c.internal = Internal
  /\ \A h \in Handles : c.han[h] = Han[h]
  /\ c.ok

LEMMA CallBegins ==
  ASSUME TypeOK, NEW left \in Nat, NEW torn \in BOOLEAN, NEW lost \in BOOLEAN,
         NEW blind \in BOOLEAN
  PROVE  /\ Begins(Call(left, torn, lost, blind))
         /\ Call(left, torn, lost, blind).lost = lost /\ Call(left, torn, lost, blind).blind = blind
<1> DEFINE han == [h \in Handles \cup {0} |-> IF h = 0 THEN NoFile ELSE Han[h]]
           bm == {}
           z == 0
           c == [dev |-> dev, han |-> han, cd |-> CD, internal |-> Internal, bm |-> bm,
                 info |-> NoInfo, spot |-> z, dbuf |-> Blank, newpg |-> Blank,
                 left |-> left, torn |-> torn, lost |-> lost, blind |-> blind, ok |-> TRUE,
                 hung |-> FALSE]
<1>1. NoFile \in Open(Files) /\ NoFile \in Open(Names)
  BY Constants DEF NoFile, Open
<1>2. Han \in [Handles -> Open(Files)] /\ dev \in Devs /\ CD \in Seq(Places) /\ Internal \in BOOLEAN
  BY DEF TypeOK, Open, Devs, Places
<1>3. \A open \in Open(Files) : open \in Open(Names)
  BY Constants DEF Open
<1>4. han \in Hans /\ \A h \in Handles : han[h] = Han[h]
  <2>1. \A h \in Handles : han[h] = Han[h] /\ Han[h] \in Open(Files)
    BY <1>2, Constants
  <2>2. \A h \in Handles \cup {0} : han[h] \in Open(Names)
    BY <2>1, <1>1, <1>3
  <2> HIDE DEF han
  <2>3. han = [h \in Handles \cup {0} |-> han[h]]
    BY DEF han
  <2> QED
    BY <2>1, <2>2, <2>3 DEF Hans
<1>5. bm \in SUBSET Pages /\ z \in Pages
  BY Constants
<1>6. Call(left, torn, lost, blind) = c
  BY DEF Call
<1> HIDE DEF han, bm, z
<1>7. c \in Calls
  BY <1>2, <1>4, <1>5, PageSame, NoInfoType DEF Calls
<1>8. /\ c.dev = dev /\ c.cd = CD /\ c.internal = Internal /\ c.han = han /\ c.ok
      /\ c.lost = lost /\ c.blind = blind
  OBVIOUS
<1> HIDE DEF c
<1> QED
  BY <1>4, <1>6, <1>7, <1>8 DEF Begins

LEMMA AttemptBegins ==
  ASSUME TypeOK, NEW c \in Attempts
  PROVE  /\ Begins(c) /\ c \in Calls /\ ~hung /\ calls # MaxCalls
         /\ c.lost \/ c.blind => cuts # MaxCuts
<1>1. ~hung /\ calls # MaxCalls
  BY DEF Attempts
<1>2. Begins(Untouched) /\ ~Untouched.lost /\ ~Untouched.blind
  BY CallBegins, SizesType DEF Untouched
<1>3. Begins(Blind)
  BY CallBegins, SizesType DEF Blind
<1>4. ASSUME NEW x \in Lost PROVE Begins(x)
  <2>1. PICK left \in 0 .. MaxWrites - 1, torn \in BOOLEAN : x = Call(left, torn, TRUE, FALSE)
    BY <1>4 DEF Lost
  <2>2. left \in Nat
    BY <2>1, SizesType
  <2> QED
    BY <2>1, <2>2, CallBegins
<1>5. c = Untouched \/ (cuts # MaxCuts /\ (c \in Lost \/ c = Blind))
  BY DEF Attempts
<1> QED
  BY <1>1, <1>2, <1>3, <1>4, <1>5 DEF Begins

LEMMA OutcomeType ==
  ASSUME TypeOK, NEW e \in Calls, NEW op, NEW name, NEW size, NEW h,
         Outcome(e, op, name, size, h), Len(CD') <= MaxDepth,
         (calls \in 0 .. MaxCalls)', (cuts \in 0 .. MaxCuts)', (trusted \in BOOLEAN)'
  PROVE  TypeOK'
<1>1. dev' \in [Pages -> PageType]
  BY CallFields DEF Outcome, Devs
<1>2. Han' \in [Handles -> Open(Files)]
  <2>1. \A k \in Handles : e.han[k] \in Open(Files)
    BY CallFields, HanFields
  <2> QED
    BY <2>1 DEF Outcome
<1>3. CD' \in Seq(0 .. Stray)
  BY CallFields DEF Outcome, Places
<1>4. Internal' \in BOOLEAN /\ hung' \in BOOLEAN
  BY CallFields DEF Outcome
<1> QED
  BY <1>1, <1>2, <1>3, <1>4 DEF TypeOK, Open, Places

LEMMA DepthKept ==
  ASSUME TypeOK, CD' = CD \/ CD' = <<>>
  PROVE  Len(CD') <= MaxDepth
<1>1. CASE CD' = CD
  BY <1>1 DEF TypeOK
<1>2. CASE CD' = <<>>
  <2> DEFINE empty == <<>>
  <2>1. Len(empty) = 0 /\ CD' = empty
    BY <1>2
  <2> HIDE DEF empty
  <2> QED
    BY <2>1, FileAssumption
<1> QED
  BY <1>1, <1>2

LEMMA AfterType ==
  ASSUME TypeOK, NEW c \in Attempts, NEW S, NEW e, Goes(c, e, S),
         NEW op, NEW name, NEW size, NEW h, NEW pg,
         After(e, pg, op, name, size, h)
  PROVE  /\ TypeOK' /\ \A p \in Pages \ S : dev'[p] = dev[p]
         /\ last'.op = op /\ last'.name = name /\ last'.hnd = h /\ last'.ok = e.ok
<1>1. /\ Begins(c) /\ c \in Calls /\ calls # MaxCalls
      /\ c.lost \/ c.blind => cuts # MaxCuts
  BY AttemptBegins
<1>2. /\ e \in Calls /\ (e.cd = c.cd \/ e.cd = <<>>) /\ e.lost = c.lost /\ e.blind = c.blind
      /\ \A p \in Pages \ S : e.dev[p] = c.dev[p]
  BY DEF Goes
<1>3. /\ Outcome(e, op, name, size, h) /\ calls' = calls + 1
      /\ cuts' = cuts + (IF e.lost \/ e.blind THEN 1 ELSE 0)
      /\ (trusted' <=> \/ op = "format" /\ e.ok
                       \/ trusted /\ ~Misuse(e, pg, op, name, size, h))
  BY DEF After
<1>4. CD' = CD \/ CD' = <<>>
  BY <1>1, <1>2, <1>3 DEF Begins, Outcome
<1>5. Len(CD') <= MaxDepth
  BY <1>4, DepthKept
<1>6. calls' \in 0 .. MaxCalls
  BY <1>1, <1>3, FileAssumption DEF TypeOK
<1>7. cuts' \in 0 .. MaxCuts
  <2>1. CASE e.lost \/ e.blind
    BY <1>1, <1>2, <1>3, <2>1, FileAssumption DEF TypeOK
  <2>2. CASE ~(e.lost \/ e.blind)
    BY <1>3, <2>2, FileAssumption DEF TypeOK
  <2> QED
    BY <2>1, <2>2
<1>8. trusted' \in BOOLEAN
  BY DEF After
<1>9. TypeOK'
  BY <1>2, <1>3, <1>5, <1>6, <1>7, <1>8, OutcomeType
<1>10. \A p \in Pages \ S : dev'[p] = dev[p]
  BY <1>1, <1>2, <1>3 DEF Begins, Outcome
<1>11. last'.op = op /\ last'.name = name /\ last'.hnd = h /\ last'.ok = e.ok
  BY <1>3 DEF Outcome
<1> QED
  BY <1>9, <1>10, <1>11

----------------------------------------------------------------------------
(* Types are kept, and a call writes only where it may *)

\* The directory a call works in; owRemoveDir with fewer than two levels takes
\* any page for it.
Home(op) == IF op = "rmdir" THEN ParentPages(CD) ELSE {CdPage(CD)}

\* The pages a call in the directory g may write, each function its own.
Touches(g, op, name, h, p) ==
  \/ op \in {"create", "write", "mkdir"} /\ p \in Writable(dev, CD, name)
  \/ op \in {"delete", "attribute", "rmdir"} /\ p \in DirSet(dev, g)
  \/ op = "rename" /\ p = Han[h].dpage
  \/ op = "format" /\ p = 0
TouchesOnly(g) ==
  \A p \in Pages : dev'[p] # dev[p] => Touches(g, last'.op, last'.name, last'.hnd, p)

Touched == \E g \in Home(last'.op) : TouchesOnly(g)

\* A call that has written, and after which the part is still trusted, worked in
\* a directory that can be reached, and was no rename through a stale handle.
Careful(g) ==
  trusted' /\ dev' # dev /\ last'.op # "format" =>
    g \in DirsOf(dev) /\ ~StaleRename(last'.op, last'.hnd)

Directed == \E g \in Home(last'.op) : TouchesOnly(g) /\ Careful(g)

\* A call that goes no further than S, and may write the pages of S.
LEMMA CallTouches ==
  ASSUME TypeOK, NEW c \in Attempts, NEW S, NEW e, Goes(c, e, S),
         NEW op, NEW name, NEW size, NEW h, NEW pg, After(e, pg, op, name, size, h),
         NEW g \in Home(op), op = "format" \/ pg = g,
         \A p \in S : Touches(g, op, name, h, p)
  PROVE  TypeOK' /\ Directed
<1>1. /\ TypeOK' /\ \A p \in Pages \ S : dev'[p] = dev[p]
      /\ last'.op = op /\ last'.name = name /\ last'.hnd = h
  BY AfterType
<1>2. trusted' => op = "format" \/ ~Misuse(e, pg, op, name, size, h)
  BY DEF After
<1>3. ~Misuse(e, pg, op, name, size, h) => pg \in DirsOf(dev) /\ ~StaleRename(op, h)
  BY DEF Misuse, NoDirectory
<1>4. Careful(g)
  BY <1>1, <1>2, <1>3 DEF Careful
<1>5. TouchesOnly(g)
  BY <1>1 DEF TouchesOnly
<1> QED
  BY <1>1, <1>4, <1>5 DEF Directed

LEMMA AtHome == \A op : op # "rmdir" => CdPage(CD) \in Home(op)
BY DEF Home

\* What changes no page touches none.
LEMMA StillTouches ==
  ASSUME TypeOK, dev' = dev, last'.op # "rmdir"
  PROVE  Directed
BY DEF Directed, TouchesOnly, Careful, Home

LEMMA FreeHandle ==
  ASSUME TypeOK, FreeHandles(Han) # {}
  PROVE  Min(FreeHandles(Han)) \in Handles
<1> DEFINE S == FreeHandles(Han)
<1>1. S \subseteq Handles
  BY DEF FreeHandles
<1> HIDE DEF S
<1>2. S \in SUBSET Nat
  BY <1>1, Constants
<1>3. Min(S) \in S
  BY <1>2, MinIn DEF S
<1> QED
  BY <1>1, <1>3 DEF S

LEMMA CreateTouches == TypeOK /\ owCreate => TypeOK' /\ Directed
<1> SUFFICES ASSUME TypeOK, owCreate PROVE TypeOK' /\ Directed
  OBVIOUS
<1> DEFINE h == Min(FreeHandles(Han))
<1>1. PICK c \in Attempts, name \in Files :
        /\ FreeHandles(Han) # {}
        /\ After(owCreateFile(c, h, name), CdPage(CD), "create", name, 0, h)
  BY DEF owCreate
<1>2. h \in Handles
  BY <1>1, FreeHandle
<1> DEFINE e == owCreateFile(c, h, name)
           S == Writable(dev, CD, name)
<1>3. Begins(c) /\ c \in Calls
  BY AttemptBegins
<1> HIDE DEF h
<1>4. Goes(c, e, S)
  BY <1>2, <1>3, CreateFileGoes DEF Begins
<1>5. \A p \in S : Touches(CdPage(CD), "create", name, h, p)
  BY DEF Touches
<1> HIDE DEF e, S
<1> QED
  BY <1>1, <1>4, <1>5, CallTouches, AtHome DEF e

LEMMA WriteTouches == TypeOK /\ owWrite => TypeOK' /\ Directed
<1> SUFFICES ASSUME TypeOK, owWrite PROVE TypeOK' /\ Directed
  OBVIOUS
<1>1. PICK c \in Attempts, h \in Handles, n \in Sizes :
        /\ Han[h].name # NoName
        /\ After(owWriteFile(c, h, Data(Han[h].name, n)), CdPage(CD), "write", Han[h].name, n, h)
  BY DEF owWrite
<1> DEFINE name == Han[h].name
           e == owWriteFile(c, h, Data(name, n))
           S == Writable(dev, CD, name)
<1>2. name \in Files
  BY <1>1 DEF TypeOK
<1>3. Begins(c) /\ c \in Calls
  BY AttemptBegins
<1>4. Data(name, n) \in Seq(PageType)
  BY <1>2, DataType
<1>5. WriteSet(c, h) = S
  BY <1>3 DEF Begins, WriteSet
<1> HIDE DEF name
<1>6. Goes(c, e, S)
  BY <1>3, <1>4, <1>5, WriteFileGoes
<1>7. \A p \in S : Touches(CdPage(CD), "write", name, h, p)
  BY DEF Touches
<1>8. After(e, CdPage(CD), "write", name, n, h)
  BY <1>1 DEF name
<1> HIDE DEF e, S
<1> QED
  BY <1>6, <1>7, <1>8, CallTouches, AtHome

LEMMA DeleteTouches == TypeOK /\ owDelete => TypeOK' /\ Directed
<1> SUFFICES ASSUME TypeOK, owDelete PROVE TypeOK' /\ Directed
  OBVIOUS
<1>1. PICK c \in Attempts, name \in Names :
        After(owDeleteFile(c, name), CdPage(CD), "delete", name, 0, 0)
  BY DEF owDelete
<1> DEFINE e == owDeleteFile(c, name)
           S == DirSet(dev, CdPage(CD))
<1>2. Begins(c) /\ c \in Calls
  BY AttemptBegins
<1>3. Goes(c, e, S)
  BY <1>2, DeleteFileGoes DEF Begins
<1>4. \A p \in S : Touches(CdPage(CD), "delete", name, 0, p)
  BY DEF Touches
<1> HIDE DEF e, S
<1> QED
  BY <1>1, <1>3, <1>4, CallTouches, AtHome DEF e

LEMMA AttributeTouches == TypeOK /\ owSetAttribute => TypeOK' /\ Directed
<1> SUFFICES ASSUME TypeOK, owSetAttribute PROVE TypeOK' /\ Directed
  OBVIOUS
<1>1. PICK c \in Attempts, name \in Names, attr \in BOOLEAN :
        After(owAttribute(c, name, attr), CdPage(CD), "attribute", name, 0, 0)
  BY DEF owSetAttribute
<1> DEFINE e == owAttribute(c, name, attr)
           S == DirSet(dev, CdPage(CD))
<1>2. Begins(c) /\ c \in Calls
  BY AttemptBegins
<1>3. Goes(c, e, S)
  BY <1>2, AttributeGoes DEF Begins, DirSet
<1>4. \A p \in S : Touches(CdPage(CD), "attribute", name, 0, p)
  BY DEF Touches
<1> HIDE DEF e, S
<1> QED
  BY <1>1, <1>3, <1>4, CallTouches, AtHome DEF e

LEMMA ReNameTouches == TypeOK /\ owReName => TypeOK' /\ Directed
<1> SUFFICES ASSUME TypeOK, owReName PROVE TypeOK' /\ Directed
  OBVIOUS
<1>1. PICK c \in Attempts, h \in Handles, name \in Files :
        After(owReNameFile(c, h, name), CdPage(CD), "rename", name, 0, h)
  BY DEF owReName
<1> DEFINE e == owReNameFile(c, h, name)
           S == {Han[h].dpage}
<1>2. Begins(c) /\ c \in Calls
  BY AttemptBegins
<1>3. c.han[h].dpage \in S /\ name \in Names
  BY <1>2, Constants DEF Begins
<1>4. Goes(c, e, S)
  BY <1>2, <1>3, ReNameFileGoes
<1>5. \A p \in S : Touches(CdPage(CD), "rename", name, h, p)
  BY DEF Touches
<1> HIDE DEF e, S
<1> QED
  BY <1>1, <1>4, <1>5, CallTouches, AtHome DEF e

LEMMA MakeDirTouches == TypeOK /\ owMakeDir => TypeOK' /\ Directed
<1> SUFFICES ASSUME TypeOK, owMakeDir PROVE TypeOK' /\ Directed
  OBVIOUS
<1>1. PICK c \in Attempts, name \in Dirs :
        After(owCreateDir(c, name), CdPage(CD), "mkdir", name, 0, 0)
  BY DEF owMakeDir
<1> DEFINE e == owCreateDir(c, name)
           S == Writable(dev, CD, name)
<1>2. Begins(c) /\ c \in Calls
  BY AttemptBegins
<1>3. Goes(c, e, S)
  BY <1>2, CreateDirGoes DEF Begins
<1>4. \A p \in S : Touches(CdPage(CD), "mkdir", name, 0, p)
  BY DEF Touches
<1> HIDE DEF e, S
<1> QED
  BY <1>1, <1>3, <1>4, CallTouches, AtHome DEF e

LEMMA ParentType ==
  ASSUME TypeOK, NEW pg \in ParentPages(CD)
  PROVE  pg \in Places
<1>1. CASE Len(CD) < 2
  BY <1>1, Constants DEF ParentPages
<1>2. CASE ~(Len(CD) < 2)
  <2>1. CD \in Seq(Places) /\ Len(CD) \in Nat
    BY DEF TypeOK, Places
  <2>2. Len(CD) - 1 \in 1 .. Len(CD)
    BY <1>2, <2>1
  <2>3. CD[Len(CD) - 1] \in Places
    BY <2>1, <2>2
  <2> QED
    BY <1>2, <2>3 DEF ParentPages
<1> QED
  BY <1>1, <1>2

LEMMA DropDirTouches == TypeOK /\ owDropDir => TypeOK' /\ Directed
<1> SUFFICES ASSUME TypeOK, owDropDir PROVE TypeOK' /\ Directed
  OBVIOUS
<1>1. PICK c \in Attempts, name \in Dirs, pg \in ParentPages(CD) :
        After(owRemoveDir(c, pg, name), pg, "rmdir", name, 0, 0)
  BY DEF owDropDir
<1> DEFINE e == owRemoveDir(c, pg, name)
           S == DirSet(dev, pg)
<1>2. Begins(c) /\ c \in Calls
  BY AttemptBegins
<1>3. pg \in Places
  BY ParentType
<1>4. Goes(c, e, S)
  BY <1>2, <1>3, RemoveDirGoes DEF Begins
<1>5. \A p \in S : Touches(pg, "rmdir", name, 0, p)
  BY DEF Touches
<1>6. pg \in Home("rmdir")
  BY DEF Home
<1> HIDE DEF e, S
<1> QED
  BY <1>1, <1>4, <1>5, <1>6, CallTouches DEF e

LEMMA FormatTouches == TypeOK /\ owFormatPart => TypeOK' /\ Directed
<1> SUFFICES ASSUME TypeOK, owFormatPart PROVE TypeOK' /\ Directed
  OBVIOUS
<1>1. PICK c \in Attempts : After(owFormat(c), 0, "format", NoName, 0, 0)
  BY DEF owFormatPart
<1> DEFINE e == owFormat(c)
           S == {0}
<1>2. Begins(c) /\ c \in Calls
  BY AttemptBegins
<1>3. Goes(c, e, S)
  BY <1>2, FormatGoes
<1>4. \A p \in S : Touches(CdPage(CD), "format", NoName, 0, p)
  BY DEF Touches
<1> HIDE DEF e, S
<1> QED
  BY <1>1, <1>3, <1>4, CallTouches, AtHome DEF e

\* A call that changes nothing of the part.
LEMMA StillOutcome ==
  ASSUME TypeOK, NEW e \in Calls, e.dev = dev, NEW op, NEW name, NEW size, NEW h,
         op # "rmdir", Outcome(e, op, name, size, h), Len(CD') <= MaxDepth,
         trusted' \in BOOLEAN, UNCHANGED <<calls, cuts>>
  PROVE  TypeOK' /\ Directed
<1>1. TypeOK'
  BY OutcomeType DEF TypeOK
<1>2. dev' = dev /\ last'.op = op
  BY DEF Outcome
<1> QED
  BY <1>1, <1>2, StillTouches

LEMMA UntouchedBegins ==
  ASSUME TypeOK
  PROVE  Begins(Untouched) /\ Untouched \in Calls
BY CallBegins, SizesType DEF Untouched, Begins

LEMMA OpenTouches == TypeOK /\ owOpen => TypeOK' /\ Directed
<1> SUFFICES ASSUME TypeOK, owOpen PROVE TypeOK' /\ Directed
  OBVIOUS
<1> DEFINE h == Min(FreeHandles(Han))
<1>1. PICK name \in Files :
        /\ FreeHandles(Han) # {}
        /\ Outcome(owOpenFile(Untouched, h, name), "open", name, 0, h)
        /\ trusted' \in BOOLEAN
        /\ UNCHANGED <<calls, cuts>>
  BY DEF owOpen
<1> DEFINE e == owOpenFile(Untouched, h, name)
           S == {}
<1>2. h \in Handles
  BY <1>1, FreeHandle
<1>3. Begins(Untouched) /\ Untouched \in Calls
  BY UntouchedBegins
<1> HIDE DEF h, S
<1>4. Goes(Untouched, e, S) /\ e.dev = Untouched.dev
  BY <1>2, <1>3, OpenFileGoes
<1>5. e \in Calls /\ e.dev = dev /\ (e.cd = CD \/ e.cd = <<>>)
  BY <1>3, <1>4 DEF Goes, Begins
<1>6. Outcome(e, "open", name, 0, h)
  BY <1>1
<1> HIDE DEF e
<1>7. CD' = CD \/ CD' = <<>>
  BY <1>5, <1>6 DEF Outcome
<1> QED
  BY <1>1, <1>5, <1>6, <1>7, DepthKept, StillOutcome

LEMMA CloseTouches == TypeOK /\ owCloseFile => TypeOK' /\ Directed
<1> SUFFICES ASSUME TypeOK, owCloseFile PROVE TypeOK' /\ Directed
  OBVIOUS
<1>1. PICK h \in Handles :
        /\ Outcome(Released(Untouched, h), "close", Han[h].name, 0, h)
        /\ trusted' \in BOOLEAN
        /\ UNCHANGED <<calls, cuts>>
  BY DEF owCloseFile, TypeOK
<1> DEFINE e == Released(Untouched, h)
           S == {}
<1>2. Begins(Untouched) /\ Untouched \in Calls
  BY UntouchedBegins
<1> HIDE DEF S
<1>3. Goes(Untouched, e, S) /\ e.dev = Untouched.dev
  BY <1>2, ReleasedGoes
<1>4. e \in Calls /\ e.dev = dev /\ (e.cd = CD \/ e.cd = <<>>)
  BY <1>2, <1>3 DEF Goes, Begins
<1>5. Outcome(e, "close", Han[h].name, 0, h)
  BY <1>1
<1> HIDE DEF e
<1>6. CD' = CD \/ CD' = <<>>
  BY <1>4, <1>5 DEF Outcome
<1> QED
  BY <1>1, <1>4, <1>5, <1>6, DepthKept, StillOutcome

LEMMA ChangeTouches == TypeOK /\ owChange => TypeOK' /\ Directed
<1> SUFFICES ASSUME TypeOK, owChange PROVE TypeOK' /\ Directed
  OBVIOUS
<1> DEFINE N == Dirs \cup {".."}
           none == <<>>
           P == {none} \cup {<<name>> : name \in N}
<1>1. PICK absolute \in BOOLEAN, path \in P :
        /\ Outcome(owChangeDirectory(Untouched, path, absolute), "chdir", NoName, 0, 0)
        /\ Len(CD') <= MaxDepth
        /\ trusted' \in BOOLEAN
        /\ UNCHANGED <<calls, cuts>>
  BY DEF owChange
<1>2. path \in Seq(N)
  <2>1. none \in Seq(N) /\ \A name \in N : <<name>> \in Seq(N)
    OBVIOUS
  <2> HIDE DEF none, N
  <2> QED
    BY <2>1
<1> DEFINE e == owChangeDirectory(Untouched, path, absolute)
<1>3. Begins(Untouched) /\ Untouched \in Calls
  BY UntouchedBegins
<1> HIDE DEF P, N
<1>4. Enters(Untouched, e)
  BY <1>2, <1>3, ChangeDirectoryEnters
<1>5. e \in Calls /\ e.dev = dev
  BY <1>3, <1>4 DEF Enters, Begins
<1>6. Outcome(e, "chdir", NoName, 0, 0)
  BY <1>1
<1> HIDE DEF e
<1> QED
  BY <1>1, <1>5, <1>6, StillOutcome

LEMMA RestartTouches == TypeOK /\ Restart => TypeOK' /\ Directed
<1> SUFFICES ASSUME TypeOK, Restart PROVE TypeOK' /\ Directed
  OBVIOUS
<1>1. dev' = dev /\ Han' = [h \in Handles |-> NoFile] /\ CD' = <<>>
      /\ Internal' = FALSE /\ hung' = FALSE /\ UNCHANGED <<calls, cuts, trusted>>
      /\ last'.op = "restart"
  BY DEF Restart
<1>2. Len(CD') <= MaxDepth
  BY <1>1, DepthKept
<1>3. CD' \in Seq(0 .. Stray)
  <2> DEFINE empty == <<>>
  <2>1. empty \in Seq(0 .. Stray) /\ CD' = empty
    BY <1>1
  <2> HIDE DEF empty
  <2> QED
    BY <2>1
<1>4. Han' \in [Handles -> Open(Files)]
  <2>1. NoFile \in Open(Files)
    BY Constants DEF NoFile, Open
  <2> HIDE DEF NoFile
  <2> QED
    BY <1>1, <2>1
<1>5. TypeOK'
  BY <1>1, <1>2, <1>3, <1>4 DEF TypeOK, Open, Places
<1> QED
  BY <1>1, <1>5, StillTouches

LEMMA StepTouches ==
  ASSUME TypeOK, Next
  PROVE  TypeOK' /\ Directed
BY CreateTouches, WriteTouches, DeleteTouches, AttributeTouches, ReNameTouches, MakeDirTouches,
   DropDirTouches, FormatTouches, OpenTouches, CloseTouches, ChangeTouches, RestartTouches
   DEF Next

LEMMA InitType == Init => TypeOK
<1> SUFFICES ASSUME Init PROVE TypeOK
  OBVIOUS
<1>1. dev = [p \in Pages |-> Blank] /\ Blank \in PageType
  BY PageSame DEF Init
<1>2. Han = [h \in Handles |-> NoFile] /\ NoFile \in Open(Files)
  BY Constants DEF Init, NoFile, Open
<1>3. CD \in Seq(0 .. Stray) /\ Len(CD) <= MaxDepth
  <2> DEFINE empty == <<>>
  <2>1. empty \in Seq(0 .. Stray) /\ CD = empty /\ Len(empty) = 0
    BY DEF Init
  <2> HIDE DEF empty
  <2> QED
    BY <2>1, FileAssumption
<1>4. /\ Internal \in BOOLEAN /\ hung \in BOOLEAN /\ trusted \in BOOLEAN
      /\ calls \in 0 .. MaxCalls /\ cuts \in 0 .. MaxCuts
  <2>1. /\ Internal = FALSE /\ hung = FALSE /\ trusted = FALSE
        /\ calls = 0 /\ cuts = 0
    BY DEF Init
  <2>2. MaxCalls \in Nat /\ MaxCuts \in Nat
    BY FileAssumption
  <2>3. calls \in 0 .. MaxCalls /\ cuts \in 0 .. MaxCuts
    BY <2>1, <2>2
  <2> QED
    BY <2>1, <2>3
<1>5. dev \in [Pages -> PageType]
  <2> HIDE DEF Blank
  <2> QED
    BY <1>1
<1>6. Han \in [Handles -> Open(Files)]
  <2> HIDE DEF NoFile
  <2> QED
    BY <1>2
<1> QED
  BY <1>3, <1>4, <1>5, <1>6 DEF TypeOK, Open, Places

\* Every page stays a page, every entry, handle and level of the current
\* directory names a page or a place behind the last one, and the bounds hold,
\* through whatever the functions of owfile.c make of a damaged part.
THEOREM FileTypeCorrect == Spec => []TypeOK
<1>1. Init => TypeOK
  BY InitType
<1>2. TypeOK /\ [Next]_vars => TypeOK'
  <2>1. TypeOK /\ Next => TypeOK'
    BY StepTouches
  <2>2. TypeOK /\ UNCHANGED vars => TypeOK'
    BY DEF TypeOK, vars
  <2> QED
    BY <2>1, <2>2
<1> QED
  BY <1>1, <1>2, PTL DEF Spec

\* A call writes no page but those of Touches, cut off anywhere or not:
\* owCreateFile, owWriteFile and owCreateDir page 0, free pages, the pages of
\* the root and of the current directory, and the first page of what has that
\* name in the root; owDeleteFile and owAttribute the pages of the current
\* directory and page 0, owRemoveDir those of the directory it was given;
\* owReNameFile the page in the handle; owFormat page 0; the others none.
THEOREM FileTouches == Spec => [][Touched]_vars
<1>1. TypeOK /\ [Next]_vars => [Touched]_vars
  BY StepTouches DEF Directed, Touched
<1> HIDE DEF Touched
<1> QED
  BY <1>1, FileTypeCorrect, PTL DEF Spec

----------------------------------------------------------------------------
(* The directories that can be reached *)

\* The directories that are entries of the directories S.
Below(d, S) ==
  {x.e.spage : x \in {y \in UNION {ToSet(Listing(d, Walk(d, s))) : s \in S} : y.e.name \in Dirs}}

Levels(d, D) ==
  /\ D[0] = {0} /\ DirsOf(d) = D[MaxDepth]
  /\ \A k \in 0 .. MaxDepth : D[k] \subseteq Places
  /\ \A k \in 0 .. MaxDepth : k # 0 => D[k] = D[k - 1] \cup Below(d, D[k - 1])

LEMMA BelowType ==
  ASSUME NEW d \in Devs, NEW S \in SUBSET Places
  PROVE  Below(d, S) \subseteq Places
<1> SUFFICES ASSUME NEW x \in {y \in UNION {ToSet(Listing(d, Walk(d, s))) : s \in S} :
                                 y.e.name \in Dirs}
             PROVE  x.e.spage \in Places
  BY DEF Below
<1>1. PICK s \in S : x \in ToSet(Listing(d, Walk(d, s)))
  OBVIOUS
<1>2. x \in Infos
  BY <1>1, EnteredType
<1> QED
  BY <1>2 DEF Infos, Listed

LEMMA DirsOfLevels ==
  ASSUME NEW d \in Devs
  PROVE  \E D : Levels(d, D)
<1> DEFINE n == MaxDepth
           T == SUBSET Places
           e == {0}
           Deeper(S) == S \cup {x.e.spage : x \in {y \in UNION {ToSet(Listing(d, Walk(d, s))) :
                                                      s \in S} : y.e.name \in Dirs}}
           F == [p \in (0 .. n) \X T |-> Deeper(p[2])]
           Good(g) == g = [k \in 0 .. n |-> IF k = 0 THEN e ELSE Deeper(g[k - 1])]
<1>1. n \in Nat /\ e \in T
  BY FileAssumption, Constants
<1>2. ASSUME NEW S \in T PROVE Deeper(S) \in T /\ Deeper(S) = S \cup Below(d, S)
  <2>1. Deeper(S) = S \cup Below(d, S)
    BY DEF Below
  <2> HIDE DEF Deeper
  <2> QED
    BY <2>1, BelowType
<1>3. F \in [(0 .. n) \X T -> T]
  <2>1. \A p \in (0 .. n) \X T : Deeper(p[2]) \in T
    <3> HIDE DEF Deeper, T
    <3> QED
      BY <1>2
  <2> HIDE DEF T, Deeper
  <2> QED
    BY <2>1
<1> HIDE DEF Deeper
<1>4. PICK g : RecursiveIn(g, n, T, e, F)
  <2> HIDE DEF F, T, n, e
  <2> QED
    BY <1>1, <1>3, Recursion
<1>5. Good(g)
  <2> HIDE DEF T, e
  <2>1. g = [k \in 0 .. n |-> g[k]]
    BY <1>4 DEF RecursiveIn
  <2>2. ASSUME NEW k \in 0 .. n PROVE g[k] = IF k = 0 THEN e ELSE Deeper(g[k - 1])
    <3>1. k # 0 => k - 1 \in 0 .. n
      BY <1>1
    <3>2. /\ k # 0 => g[k - 1] \in T /\ g[k] = F[<<k, g[k - 1]>>]
          /\ k = 0 => g[k] = e
      <4> HIDE DEF F, n
      <4> QED
        BY <3>1, <1>4 DEF RecursiveIn
    <3>3. k # 0 => F[<<k, g[k - 1]>>] = Deeper(g[k - 1])
      <4> HIDE DEF n
      <4> QED
        BY <3>2
    <3> HIDE DEF F, T
    <3> QED
      BY <3>2, <3>3
  <2> HIDE DEF n
  <2> QED
    BY <2>1, <2>2
<1> DEFINE D == CHOOSE x : Good(x)
<1>6. Good(D)
  <2>1. \E x : Good(x)
    BY <1>5
  <2> HIDE DEF Good
  <2> QED
    BY <2>1
<1>7. DirsOf(d) = D[n]
  BY DEF DirsOf, Deeper
<1> HIDE DEF D
<1>8. D[0] = e /\ \A k \in 0 .. n : k # 0 => D[k] = Deeper(D[k - 1])
  <2>1. 0 \in 0 .. n
    BY <1>1
  <2> HIDE DEF n, e
  <2>2. D[0] = e
    BY <2>1, <1>6
  <2>3. ASSUME NEW k \in 0 .. n, k # 0 PROVE D[k] = Deeper(D[k - 1])
    BY <2>3, <1>6
  <2> QED
    BY <2>2, <2>3
<1> HIDE DEF Good
<1> DEFINE K == {k \in 0 .. n : D[k] \in T}
<1>9. 0 \in K
  BY <1>1, <1>8
<1>10. ASSUME NEW k \in 0 .. n, k # 0, k - 1 \in K PROVE k \in K
  <2> HIDE DEF T
  <2> QED
    BY <1>2, <1>8, <1>10
<1>11. \A k \in 0 .. n : k \in K
  <2>1. \A k \in 0 .. n : k # 0 /\ k - 1 \in K => k \in K
    BY <1>10
  <2> HIDE DEF K
  <2> QED
    BY <1>1, <1>9, <2>1, Upto
<1>12. ASSUME NEW k \in 0 .. n, k # 0 PROVE D[k] = D[k - 1] \cup Below(d, D[k - 1])
  <2>1. k - 1 \in 0 .. n
    BY <1>1, <1>12
  <2>2. D[k - 1] \in T
    BY <2>1, <1>11
  <2> HIDE DEF T
  <2> QED
    BY <2>2, <1>2, <1>8, <1>12
<1>13. Levels(d, D)
  BY <1>7, <1>8, <1>11, <1>12 DEF Levels
<1> QED
  BY <1>13

\* The root can be reached, and every other directory is an entry of one that
\* can be reached.
LEMMA DirsOfType ==
  ASSUME NEW d \in Devs
  PROVE  /\ DirsOf(d) \subseteq Places /\ 0 \in DirsOf(d)
         /\ \A s \in DirsOf(d) :
              s = 0 \/ \E y \in EntriesOf(d) : y.e.name \in Dirs /\ y.e.spage = s
<1>1. PICK D : Levels(d, D)
  BY DirsOfLevels
<1> DEFINE n == MaxDepth
<1>2. n \in Nat
  BY FileAssumption
<1>3. /\ D[0] = {0} /\ DirsOf(d) = D[n] /\ \A k \in 0 .. n : D[k] \subseteq Places
      /\ \A k \in 0 .. n : k # 0 => D[k] = D[k - 1] \cup Below(d, D[k - 1])
  BY <1>1 DEF Levels
<1> HIDE DEF n
<1> DEFINE K == {k \in 0 .. n : \A j \in 0 .. k : D[j] \subseteq D[k]}
<1>4. 0 \in K
  BY <1>2
<1>5. ASSUME NEW k \in 0 .. n, k # 0, k - 1 \in K PROVE k \in K
  <2>1. D[k] = D[k - 1] \cup Below(d, D[k - 1]) /\ \A j \in 0 .. (k - 1) : D[j] \subseteq D[k - 1]
    BY <1>3, <1>5
  <2>2. \A j \in 0 .. k : j = k \/ j \in 0 .. (k - 1)
    BY <1>5, <1>2
  <2>3. \A j \in 0 .. k : D[j] \subseteq D[k]
    BY <2>1, <2>2
  <2> QED
    BY <2>3
<1>6. \A k \in 0 .. n : D[k] \subseteq D[n]
  <2>1. \A k \in 0 .. n : k # 0 /\ k - 1 \in K => k \in K
    BY <1>5
  <2> HIDE DEF K
  <2>2. \A k \in 0 .. n : k \in K
    BY <1>2, <1>4, <2>1, Upto
  <2>3. n \in K
    BY <1>2, <2>2
  <2> QED
    BY <2>3 DEF K
<1> HIDE DEF K
<1> DEFINE Leaf(s) == s = 0 \/ \E y \in EntriesOf(d) : y.e.name \in Dirs /\ y.e.spage = s
           M == {k \in 0 .. n : \A s \in D[k] : Leaf(s)}
<1>7. 0 \in M
  BY <1>2, <1>3
<1>8. ASSUME NEW k \in 0 .. n, k # 0, k - 1 \in M PROVE k \in M
  <2>1. D[k] = D[k - 1] \cup Below(d, D[k - 1]) /\ \A s \in D[k - 1] : Leaf(s)
    BY <1>3, <1>8
  <2>2. D[k - 1] \subseteq DirsOf(d)
    <3>1. k - 1 \in 0 .. n
      BY <1>2, <1>8
    <3> QED
      BY <3>1, <1>3, <1>6
  <2>3. ASSUME NEW s \in Below(d, D[k - 1]) PROVE Leaf(s)
    <3>1. PICK y \in UNION {ToSet(Listing(d, Walk(d, r))) : r \in D[k - 1]} :
            y.e.name \in Dirs /\ y.e.spage = s
      BY <2>3 DEF Below
    <3>2. y \in EntriesOf(d)
      BY <2>2 DEF EntriesOf
    <3> QED
      BY <3>1, <3>2
  <2> HIDE DEF Leaf
  <2> QED
    BY <2>1, <2>3
<1>9. \A k \in 0 .. n : k \in M
  <2>1. \A k \in 0 .. n : k # 0 /\ k - 1 \in M => k \in M
    BY <1>8
  <2> HIDE DEF M
  <2> QED
    BY <1>2, <1>7, <2>1, Upto
<1>10. n \in 0 .. n /\ 0 \in 0 .. n
  BY <1>2
<1> HIDE DEF Leaf
<1>11. \A s \in D[n] : Leaf(s)
  BY <1>9, <1>10
<1>12. 0 \in D[n] /\ D[n] \subseteq Places
  BY <1>3, <1>6, <1>10
<1> QED
  BY <1>3, <1>11, <1>12 DEF Leaf
=============================================================================
