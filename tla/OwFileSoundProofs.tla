------------------------- MODULE OwFileSoundProofs -------------------------
(***************************************************************************)
(* What holds of the file system as long as there was no Misuse, for a     *)
(* part of any number of pages, any names, sizes of files, handles and     *)
(* depth of directories, and any number of calls and of losses of contact: *)
(* the part stays sound, a call leaves the pages of other files alone, a   *)
(* deletion frees what it must, and what is written is what is read.       *)
(*                                                                         *)
(* That the part stays sound is shown at the places where the code writes, *)
(* for contact may be lost after each.  Fine(c) says that what a call has  *)
(* left on the part so far is sound; each function of the code has one     *)
(* lemma <name>Fine that it keeps this.  What it needs to know of chains   *)
(* is Path: the pages from a head to the last, each leading to the next.   *)
(***************************************************************************)
EXTENDS OwFileProofs, FiniteSetTheorems

----------------------------------------------------------------------------
(* A call leaves the pages of other files and directories alone *)

LEMMA EntryType ==
  ASSUME NEW d \in Devs, NEW x \in EntriesOf(d)
  PROVE  x \in Infos /\ x.e.spage \in Places
<1>1. PICK s \in DirsOf(d) : x \in ToSet(Listing(d, Walk(d, s)))
  BY DEF EntriesOf
<1>2. s \in Places
  BY DirsOfType
<1>3. x \in Infos
  BY <1>1, <1>2, EnteredType
<1> QED
  BY <1>3 DEF Infos, Listed

LEMMA ChainHead ==
  ASSUME NEW d \in Devs, NEW s \in Places
  PROVE  s \in ToSet(Walk(d, s))
<1> DEFINE w == Walk(d, s)
<1>1. w \in Seq(Places) /\ Len(w) \in Nat \ {0} /\ w[1] = s
  BY WalkType
<1> HIDE DEF w
<1> QED
  BY <1>1 DEF ToSet, w

\* What a call in the directory g must leave alone: every file and every
\* directory but g, and what has the name that is created or written.
Others(g, op, name) ==
  {x \in EntriesOf(dev) :
     /\ ~(x.e.name \in Dirs /\ x.e.spage = g)
     /\ ~(op \in {"create", "write", "mkdir"} /\ x.e.name = name)}

\* None of these pages is one a call touches, if it works in a directory that
\* can be reached.
LEMMA Untouchable ==
  ASSUME TypeOK, Sound(dev), NEW op, NEW name, NEW h, op # "format",
         ~StaleRename(op, h), NEW g \in Home(op), g \in DirsOf(dev),
         NEW x \in Others(g, op, name), NEW p \in Chain(dev, x)
  PROVE  p \in Pages /\ ~Touches(g, op, name, h, p)
<1>1. dev \in Devs
  BY DEF TypeOK, Devs
<1>2. /\ x \in EntriesOf(dev) /\ ~(x.e.name \in Dirs /\ x.e.spage = g)
      /\ op \in {"create", "write", "mkdir"} => x.e.name # name
  BY DEF Others
<1>3. Apart(dev, EntriesOf(dev))
  BY DEF Sound
<1>4. p \in dev[0].bm /\ p \notin RootChain(dev)
  BY <1>2, <1>3 DEF Apart
<1>5. p \in Pages
  <2>1. dev[0] \in PageType
    BY <1>1, Constants DEF Devs
  <2> QED
    BY <1>4, <2>1, PageFields
<1>6. ASSUME NEW y \in EntriesOf(dev), x # y PROVE p \notin Chain(dev, y)
  BY <1>2, <1>3, <1>6 DEF Apart
<1>7. p \notin ToSet(Walk(dev, g))
  <2>1. CASE g = 0
    BY <1>4, <2>1 DEF RootChain
  <2>2. CASE g # 0
    <3>1. PICK y \in EntriesOf(dev) : y.e.name \in Dirs /\ y.e.spage = g
      BY <1>1, <2>2, DirsOfType
    <3>2. x # y
      BY <1>2, <3>1
    <3> QED
      BY <1>6, <3>1, <3>2 DEF Chain
  <2> QED
    BY <2>1, <2>2
<1>8. 0 \in RootChain(dev)
  BY <1>1, ChainHead, Constants DEF RootChain
<1>9. p \notin DirSet(dev, g)
  BY <1>4, <1>7, <1>8 DEF DirSet
<1>10. ASSUME op \in {"create", "write", "mkdir"} PROVE p \notin Writable(dev, CD, name)
  <2>1. CdPage(CD) = g
    BY <1>10 DEF Home
  <2>2. ASSUME NEW y \in ToSet(Listing(dev, Walk(dev, 0))), y.e.name = name
        PROVE  p # y.e.spage
    <3>1. y \in EntriesOf(dev)
      BY <1>1, DirsOfType DEF EntriesOf
    <3>2. x # y
      BY <1>2, <1>10, <2>2
    <3>3. y.e.spage \in Chain(dev, y)
      BY <1>1, <3>1, EntryType, ChainHead DEF Chain
    <3> QED
      BY <1>6, <3>1, <3>2, <3>3
  <2>3. p \notin ToSet(Walk(dev, CdPage(CD))) /\ p \notin ToSet(Walk(dev, 0)) /\ p # 0
    BY <1>4, <1>7, <1>8, <2>1 DEF RootChain
  <2> QED
    BY <1>4, <2>2, <2>3 DEF Writable
<1>11. op \notin {"create", "write", "mkdir"} \/ p \notin Writable(dev, CD, name)
  BY <1>10
<1>12. ASSUME op = "rename" PROVE p # Han[h].dpage
  <2>1. Contains(Walk(dev, CdPage(CD)), Han[h].dpage)
    BY <1>12 DEF StaleRename
  <2>2. Han[h].dpage \in ToSet(Walk(dev, CdPage(CD)))
    <3> DEFINE w == Walk(dev, CdPage(CD))
    <3>1. w \in Seq(Places)
      <4>1. CdPage(CD) \in Places
        BY <1>1, <1>12, DirsOfType DEF Home
      <4> QED
        BY <1>1, <4>1, WalkType
    <3>2. Contains(w, Han[h].dpage)
      BY <2>1
    <3> HIDE DEF w
    <3> QED
      BY <3>1, <3>2 DEF Contains, ToSet, w
  <2>3. CdPage(CD) = g
    BY <1>12 DEF Home
  <2> QED
    BY <1>7, <2>2, <2>3
<1> QED
  BY <1>5, <1>9, <1>11, <1>12 DEF Touches

\* The pages of every other file and directory are as they were.
OthersPages ==
  trusted /\ trusted' /\ last'.op # "format" =>
    \E g \in Home(last'.op) :
      \A x \in Others(g, last'.op, last'.name) : \A p \in Chain(dev, x) : dev'[p] = dev[p]

----------------------------------------------------------------------------
(* owDeleteFile frees the pages of the file *)

LEMMA ClearBits ==
  ASSUME NEW c \in Calls, NEW p
  PROVE  Clear(c, p).ok => Clear(c, p).bm = c.bm \ {p}
<1>1. CASE c.ok /\ p \in Pages
  BY <1>1 DEF Clear, Calls
<1>2. CASE ~(c.ok /\ p \in Pages)
  BY <1>2, FailGoes DEF Clear
<1> QED
  BY <1>1, <1>2

\* A chain whose first page cannot be read has no other.
LEMMA UnreadableAlone ==
  ASSUME NEW d \in Devs, NEW s \in Places, ~Readable(At(d, s))
  PROVE  ToSet(Walk(d, s)) = {s}
<1> DEFINE w == Walk(d, s)
<1>1. /\ w \in Seq(Places) /\ Len(w) \in Nat \ {0} /\ w[1] = s
      /\ \A k \in 1 .. Len(w) - 1 : Readable(At(d, w[k]))
  BY WalkType
<1> HIDE DEF w
<1>2. Len(w) = 1
  <2> DEFINE n == Len(w)
  <2>1. n \in Nat \ {0}
    BY <1>1
  <2>2. ~(1 \in 1 .. n - 1)
    BY <1>1
  <2> HIDE DEF n
  <2>3. n = 1
    BY <2>1, <2>2
  <2> QED
    BY <2>3 DEF n
<1> QED
  BY <1>1, <1>2 DEF ToSet, w

\* Every page of a chain that ends can be read.
LEMMA EndsReadable ==
  ASSUME NEW d \in Devs, NEW s \in Places, Ends(d, Walk(d, s)), NEW p \in ToSet(Walk(d, s))
  PROVE  Readable(At(d, p))
<1> DEFINE w == Walk(d, s)
<1>1. /\ w \in Seq(Places) /\ Len(w) \in Nat \ {0}
      /\ \A k \in 1 .. Len(w) - 1 : Readable(At(d, w[k]))
  BY WalkType
<1>2. Ends(d, w) /\ p \in ToSet(w)
  OBVIOUS
<1> HIDE DEF w
<1>3. Readable(At(d, w[Len(w)]))
  BY <1>2 DEF Ends, EndsIn, Last
<1>4. PICK k \in 1 .. Len(w) : p = w[k]
  BY <1>1, <1>2 DEF ToSet
<1>5. k = Len(w) \/ k \in 1 .. Len(w) - 1
  BY <1>1, <1>4
<1> QED
  BY <1>1, <1>3, <1>4, <1>5

\* What is left marked when a file was read to its end, or to its first page.
LEMMA FreeingBits ==
  ASSUME NEW c \in Calls, NEW s \in Places, Freeing(c, s).ok,
         Ends(c.dev, Walk(c.dev, s)) \/ ~Readable(At(c.dev, s))
  PROVE  c.ok /\ Freeing(c, s).bm = c.bm \ ToSet(Walk(c.dev, s))
<1> DEFINE w == Walk(c.dev, s)
           read == {p \in ToSet(w) : Readable(At(c.dev, p))}
           bm == c.bm \ read
           ends == Ends(c.dev, w)
           d == ExtRead(c, s)
           again == [d EXCEPT !.ok = TRUE]
           e == Freeing(c, s)
           S == {}
<1>1. c.ok
  BY FreeingGoes DEF Goes
<1>2. d = IF Loops(c.dev, w) THEN Hang(c) ELSE [c EXCEPT !.bm = bm, !.ok = ends]
  BY <1>1 DEF ExtRead, Freed
<1>3. e = IF ~d.ok /\ ~d.hung THEN Clear(again, s) ELSE d
  BY <1>1 DEF Freeing, Forgiven
<1>4. e.ok
  OBVIOUS
<1>5. c.dev \in Devs /\ bm \in SUBSET Pages
  BY CallFields
<1>6. ends => read = ToSet(w)
  BY <1>5, EndsReadable
<1>7. ~ends => ToSet(w) = {s} /\ read \subseteq {s}
  <2>1. ~ends => ~Readable(At(c.dev, s))
    OBVIOUS
  <2> QED
    BY <1>5, <2>1, UnreadableAlone
<1>8. ends \in BOOLEAN
  BY DEF Ends, EndsIn
<1> HIDE DEF w, bm, ends, e
<1>9. CASE Loops(c.dev, w)
  <2>1. ~d.ok /\ d.hung
    BY <1>2, <1>9 DEF Hang, Calls
  <2> QED
    BY <1>3, <1>4, <2>1
<1>10. CASE ~Loops(c.dev, w) /\ ends
  <2>1. d.ok /\ d.bm = bm
    BY <1>2, <1>10 DEF Calls
  <2> HIDE DEF d, read
  <2> QED
    BY <1>1, <1>3, <1>6, <1>10, <2>1 DEF bm, e, w
<1>11. CASE ~Loops(c.dev, w) /\ ~ends
  <2>1. d = [c EXCEPT !.bm = bm, !.ok = ends]
    BY <1>2, <1>11
  <2>2. d \in Calls /\ ~d.ok /\ d.bm = bm
    BY <1>5, <1>8, <1>11, <2>1 DEF Calls
  <2> HIDE DEF d, read
  <2>3. again \in Calls /\ again.bm = bm
    BY <2>2 DEF Calls
  <2>4. ~d.hung /\ e = Clear(again, s)
    BY <1>3, <1>4, <2>2
  <2> HIDE DEF again
  <2>5. e.bm = bm \ {s}
    BY <1>4, <2>3, <2>4, ClearBits
  <2> QED
    BY <1>1, <1>7, <1>11, <2>5 DEF bm, e, w
<1> QED
  BY <1>9, <1>10, <1>11

\* Unlink frees at most the page of the entry.
LEMMA UnlinkBits ==
  ASSUME NEW c \in Calls, NEW w, Holds(c, w), Unlink(c, c.info).ok
  PROVE  \/ Unlink(c, c.info).bm = c.bm
         \/ Unlink(c, c.info).bm = c.bm \ {c.info.dpage}
<1> DEFINE i == c.info
           d == Clear(c, i.dpage)
           page == [c.dev[i.pdpage] EXCEPT !.next = c.dev[i.dpage].next]
           rest == Without(c.dev[i.dpage], i.pos)
           S == Pages
<1>1. /\ i.dpage \in Pages /\ i.pdpage \in Pages /\ i.dpage \in Places /\ i.pdpage \in Places
      /\ c.dev[i.dpage] \in PageType /\ c.dev[i.pdpage] \in PageType
      /\ i.pos \in 1 .. Len(Items(c.dev[i.dpage]))
  BY HoldsPages
<1>2. page \in PageType /\ rest \in PageType
  BY <1>1, PageFields, PageSame, WithoutType
<1>3. Unlink(c, i) = IF Len(Items(At(c.dev, i.dpage))) = 1 THEN Write_Page(d, i.pdpage, page)
                     ELSE Write_Page(c, i.dpage, rest)
  BY DEF Unlink
<1>4. Goes(c, d, S) /\ (d.ok => d.bm = c.bm \ {i.dpage})
  BY MarkGoes, ClearBits
<1>5. d \in Calls
  BY <1>4 DEF Goes
<1>6. Unlink(c, i).ok
  OBVIOUS
<1> HIDE DEF page, rest, d, i
<1>7. CASE Len(Items(At(c.dev, i.dpage))) = 1
  <2> DEFINE e == Write_Page(d, i.pdpage, page)
  <2>1. Goes(d, e, S) /\ e.bm = d.bm
    BY <1>1, <1>2, <1>5, WriteGoes
  <2>2. Unlink(c, i) = e
    BY <1>3, <1>7
  <2> HIDE DEF e
  <2>3. d.ok
    BY <1>6, <2>1, <2>2 DEF Goes
  <2> QED
    BY <1>4, <2>1, <2>2, <2>3 DEF i
<1>8. CASE Len(Items(At(c.dev, i.dpage))) # 1
  <2> DEFINE e == Write_Page(c, i.dpage, rest)
  <2>1. e.bm = c.bm
    BY <1>1, <1>2, WriteGoes
  <2>2. Unlink(c, i) = e
    BY <1>3, <1>8
  <2> HIDE DEF e
  <2> QED
    BY <2>1, <2>2 DEF i
<1> QED
  BY <1>7, <1>8

\* A bitmap that was written is on the part.
LEMMA WriteBitMapBits ==
  ASSUME NEW c \in Calls, WriteBitMap(c).ok
  PROVE  c.ok /\ WriteBitMap(c).dev[0].bm = c.bm
<1> DEFINE page == [c.dev[0] EXCEPT !.bm = c.bm]
           d == [c.dev EXCEPT ![0] = page]
           done == [c EXCEPT !.dev = d, !.left = @ - 1]
           e == WriteBitMap(c)
<1>1. page.bm = c.bm
  <2>1. c.dev[0] \in PageType
    BY CallFields, Constants DEF Devs
  <2> QED
    BY <2>1 DEF PageType
<1>2. d[0] = page
  <2> HIDE DEF page
  <2> QED
    BY CallFields, Constants DEF Devs
<1>3. c.ok
  <2> DEFINE S == {0}
  <2>1. Goes(c, WriteBitMap(c), S)
    BY WriteBitMapGoes
  <2> QED
    BY <2>1 DEF Goes
<1>4. e.ok /\ e = IF c.dev[0].head = "root" THEN Write_Page(c, 0, page) ELSE Fail(c)
  BY DEF WriteBitMap
<1>5. Write_Page(c, 0, page) = IF c.left > 0 THEN done
                               ELSE IF c.torn THEN [c EXCEPT !.dev = d, !.ok = FALSE] ELSE Fail(c)
  BY <1>3 DEF Write_Page
<1> HIDE DEF page, d, e
<1>6. ~[c EXCEPT !.dev = d, !.ok = FALSE].ok /\ ~Fail(c).ok /\ done.dev = d
  BY DEF Fail, Calls
<1> HIDE DEF done
<1>7. e.dev = d
  BY <1>4, <1>5, <1>6
<1> QED
  BY <1>1, <1>2, <1>3, <1>7 DEF e

\* The entry is taken out, and the bitmap written.
LEMMA ErasedBits ==
  ASSUME NEW c \in Calls, NEW w, c.ok => Holds(c, w), Erased(c).ok
  PROVE  /\ c.ok /\ Erased(c).dev[0].bm \subseteq c.bm \ {c.info.e.spage}
         /\ c.bm \ Erased(c).dev[0].bm \subseteq {c.info.e.spage, c.info.dpage}
<1> DEFINE s == c.info.e.spage
           d == Unlink(c, c.info)
           e == Clear(d, s)
           f == WriteBitMap(e)
           g == ToRoot(f)
           S == Pages \cup ToSet(w)
<1>1. c.ok
  BY DEF Erased
<1>2. Holds(c, w)
  BY <1>1
<1>3. 0 \in S
  BY Constants
<1>4. d \in Calls
  BY <1>2, UnlinkGoes
<1>5. Erased(c) = g /\ g.ok
  BY <1>1 DEF Erased
<1>6. d.ok => d.bm = c.bm \/ d.bm = c.bm \ {c.info.dpage}
  BY <1>2, UnlinkBits
<1> HIDE DEF d, s
<1>7. Goes(d, e, S) /\ (e.ok => e.bm = d.bm \ {s})
  BY <1>4, MarkGoes, ClearBits
<1>8. e \in Calls /\ (e.ok => d.ok)
  BY <1>7 DEF Goes
<1> HIDE DEF e, S
<1>9. Goes(e, f, S) /\ (f.ok => e.ok /\ f.dev[0].bm = e.bm)
  BY <1>3, <1>8, WriteBitMapGoes, WriteBitMapBits
<1>10. f \in Calls
  BY <1>9 DEF Goes
<1> HIDE DEF f
<1>11. g.dev = f.dev /\ g.ok = f.ok
  BY <1>10, ToRootGoes
<1> HIDE DEF g
<1>12. g.dev[0].bm = d.bm \ {s} /\ (d.bm = c.bm \/ d.bm = c.bm \ {c.info.dpage})
  BY <1>5, <1>6, <1>7, <1>8, <1>9, <1>11
<1> QED
  BY <1>1, <1>5, <1>12 DEF s

\* Every entry of the directory can be read to its end, or has a first page
\* that cannot be read.
Ended(d, s) ==
  \A x \in ToSet(Listing(d, Walk(d, s))) :
    Ends(d, Walk(d, x.e.spage)) \/ ~Readable(At(d, x.e.spage))

\* What a deletion has done to the bitmap, for the entry x it has taken out.
FreesOnly(d, e, x) ==
  /\ e[0].bm \subseteq d[0].bm \ Chain(d, x)
  /\ d[0].bm \ e[0].bm \subseteq Chain(d, x) \cup {x.dpage}

LEMMA DeleteBits ==
  ASSUME NEW c \in Calls, NEW name, NEW s \in Places, Sought(c.dev, s, name, c.info),
         Ended(c.dev, s), Delete(c, name).ok
  PROVE  c.info # NoInfo /\ FreesOnly(c.dev, Delete(c, name).dev, c.info)
<1> DEFINE open == OpenOn(c.han, name)
           spage == c.info.e.spage
           w == Walk(c.dev, s)
           a == Close(c, open)
           b == ReadBitMap(a)
           f == Freeing(b, spage)
           g == Erased(f)
           S == {}
<1>1. Delete(c, name) # Fail(c)
  BY FailGoes
<1>2. Delete(c, name) = g /\ c.ok /\ c.info # NoInfo
  BY <1>1 DEF Delete
<1>3. c.info \in ToSet(Listing(c.dev, w)) /\ Holds(c, w)
  BY <1>2, FoundHolds DEF Sought
<1>4. spage \in Places
  BY <1>3, HoldsPages
<1>5. Ends(c.dev, Walk(c.dev, spage)) \/ ~Readable(At(c.dev, spage))
  BY <1>3 DEF Ended
<1>6. Goes(c, a, S) /\ a.dev = c.dev /\ a.info = c.info
  BY CloseGoes DEF OpenOn
<1> HIDE DEF a
<1>7. a \in Calls
  BY <1>6 DEF Goes
<1>8. Goes(a, b, S) /\ Keeps(a, b) /\ b.dev = a.dev /\ (b.ok => b.bm = a.dev[0].bm)
  BY <1>7, ReadBitMapGoes
<1> HIDE DEF b, spage
<1>9. b \in Calls
  BY <1>8 DEF Goes
<1>10. Goes(b, f, S) /\ f.dev = b.dev /\ f.info = b.info
  BY <1>9, FreeingGoes
<1>11. b.dev = c.dev
  BY <1>6, <1>8
<1>12. f.ok => b.ok /\ f.bm = b.bm \ ToSet(Walk(c.dev, spage))
  BY <1>4, <1>5, <1>9, <1>11, FreeingBits
<1> HIDE DEF f
<1>13. f \in Calls /\ f.info = c.info
  BY <1>6, <1>8, <1>10 DEF Goes, Keeps
<1>14. Holds(f, w)
  BY <1>3, <1>10, <1>11, <1>13 DEF Holds
<1>15. g.ok
  BY <1>2
<1>16. /\ f.ok /\ g.dev[0].bm \subseteq f.bm \ {spage}
       /\ f.bm \ g.dev[0].bm \subseteq {spage, c.info.dpage}
  BY <1>13, <1>14, <1>15, ErasedBits DEF spage
<1> HIDE DEF g
<1>17. f.bm = c.dev[0].bm \ Chain(c.dev, c.info)
  BY <1>6, <1>8, <1>12, <1>16 DEF Chain, spage
<1>18. spage \in Chain(c.dev, c.info)
  BY <1>4, ChainHead, CallFields DEF Chain, spage
<1> QED
  BY <1>2, <1>16, <1>17, <1>18 DEF FreesOnly

LEMMA DeleteFileBits ==
  ASSUME NEW c \in Calls, NEW name, owDeleteFile(c, name).ok, CdPage(c.cd) \in Places,
         Ended(c.dev, CdPage(c.cd))
  PROVE  \E x \in ToSet(Listing(c.dev, Walk(c.dev, CdPage(c.cd)))) :
           x.e.name = name /\ FreesOnly(c.dev, owDeleteFile(c, name).dev, x)
<1> DEFINE s == CdPage(c.cd)
           may == name \in Files \/ c.internal
           r == Require(c, may)
           f == FindDirectoryInfo(r, s, name)
           e == Delete(f, name)
           S == Pages
           w == Walk(c.dev, s)
<1>1. s \in Places
  OBVIOUS
<1>2. owDeleteFile(c, name) = e /\ e.ok
  BY DEF owDeleteFile
<1>3. may \in BOOLEAN
  BY CallFields
<1> HIDE DEF may
<1>4. Goes(c, r, S) /\ r.dev = c.dev
  BY <1>3, RequireGoes
<1> HIDE DEF r
<1>5. r \in Calls
  BY <1>4 DEF Goes
<1>6. Goes(r, f, S) /\ Looks(r, f) /\ (f.ok => Sought(r.dev, s, name, f.info))
  BY <1>1, <1>5, FindGoes
<1> HIDE DEF f
<1>7. f \in Calls /\ f.dev = c.dev
  BY <1>4, <1>6 DEF Goes, Looks
<1>8. f.ok
  BY <1>2, FailGoes, <1>7 DEF Delete
<1>9. Sought(f.dev, s, name, f.info)
  BY <1>4, <1>6, <1>7, <1>8
<1>10. Ended(f.dev, s)
  BY <1>7
<1> HIDE DEF s
<1>11. f.info # NoInfo /\ FreesOnly(f.dev, e.dev, f.info)
  BY <1>1, <1>2, <1>7, <1>9, <1>10, DeleteBits
<1>12. f.info \in ToSet(Listing(c.dev, w)) /\ f.info.e.name = name
  BY <1>7, <1>9, <1>11 DEF Sought
<1> HIDE DEF e
<1> QED
  BY <1>2, <1>7, <1>11, <1>12 DEF s

\* Only a call of owDeleteFile is a deletion, and of owWriteFile a write.
LEMMA CallTold ==
  ASSUME Next
  PROVE  (last'.op = "delete" => owDelete) /\ (last'.op = "write" => owWrite)
<1>1. ASSUME NEW e, NEW op, NEW name, NEW size, NEW h, Outcome(e, op, name, size, h)
      PROVE  last'.op = op
  BY <1>1 DEF Outcome
<1>2. ASSUME NEW e, NEW op, NEW name, NEW size, NEW h, NEW pg,
             After(e, pg, op, name, size, h)
      PROVE  last'.op = op
  BY <1>1, <1>2 DEF After
<1>3. owCreate => last'.op = "create"
  BY <1>2 DEF owCreate
<1>4. owWrite => last'.op = "write"
  BY <1>2 DEF owWrite
<1>5. owSetAttribute => last'.op = "attribute"
  BY <1>2 DEF owSetAttribute
<1>6. owReName => last'.op = "rename"
  BY <1>2 DEF owReName
<1>7. owMakeDir => last'.op = "mkdir"
  BY <1>2 DEF owMakeDir
<1>8. owDropDir => last'.op = "rmdir"
  BY <1>2 DEF owDropDir
<1>9. owFormatPart => last'.op = "format"
  BY <1>2 DEF owFormatPart
<1>10. owOpen => last'.op = "open"
  BY <1>1 DEF owOpen
<1>11. owCloseFile => last'.op = "close"
  BY <1>1 DEF owCloseFile
<1>12. owChange => last'.op = "chdir"
  BY <1>1 DEF owChange
<1>13. Restart => last'.op = "restart"
  BY DEF Restart
<1>14. owDelete => last'.op = "delete"
  BY <1>2 DEF owDelete
<1> QED
  BY <1>3, <1>4, <1>5, <1>6, <1>7, <1>8, <1>9, <1>10, <1>11, <1>12, <1>13, <1>14 DEF Next

\* In a part that is sound before and after, what was freed is no entry any more.
LEMMA FreedGone ==
  ASSUME NEW d \in Devs, NEW e \in Devs, Sound(e), NEW x \in EntriesOf(d), FreesOnly(d, e, x),
         NEW y \in EntriesOf(e)
  PROVE  y.e # x.e
<1> SUFFICES ASSUME y.e = x.e PROVE FALSE
  OBVIOUS
<1> DEFINE s == x.e.spage
<1>1. s \in Places
  BY EntryType
<1>2. s \in Chain(d, x) /\ s \in Chain(e, y)
  BY <1>1, ChainHead DEF Chain
<1>3. s \in e[0].bm
  BY <1>2 DEF Sound, Apart
<1> QED
  BY <1>2, <1>3 DEF FreesOnly

\* DeleteFrees, of one step.
Deletes ==
  trusted /\ trusted' /\ last'.op = "delete" /\ last'.ok =>
    \E x \in EntriesOf(dev) :
      /\ x.e.name = last'.name /\ \A y \in EntriesOf(dev') : y.e # x.e
      /\ dev'[0].bm \subseteq dev[0].bm \ Chain(dev, x)
      /\ dev[0].bm \ dev'[0].bm \subseteq Chain(dev, x) \cup {x.dpage}

LEMMA DeleteStep ==
  ASSUME TypeOK, TypeOK', SoundKept, SoundKept', Next
  PROVE  Deletes
<1> SUFFICES ASSUME trusted, trusted', last'.op = "delete", last'.ok
             PROVE  \E x \in EntriesOf(dev) :
                      /\ x.e.name = last'.name /\ \A y \in EntriesOf(dev') : y.e # x.e
                      /\ dev'[0].bm \subseteq dev[0].bm \ Chain(dev, x)
                      /\ dev[0].bm \ dev'[0].bm \subseteq Chain(dev, x) \cup {x.dpage}
  BY DEF Deletes
<1>1. Sound(dev) /\ Sound(dev') /\ dev \in Devs /\ dev' \in Devs
  BY DEF SoundKept, TypeOK, Devs
<1>2. PICK c \in Attempts, name \in Names :
        After(owDeleteFile(c, name), CdPage(CD), "delete", name, 0, 0)
  <2>1. owDelete
    BY CallTold
  <2> QED
    BY <2>1 DEF owDelete
<1> DEFINE e == owDeleteFile(c, name)
           s == CdPage(CD)
<1>3. last'.name = name /\ e.ok /\ dev' = e.dev
  BY <1>2 DEF After, Outcome
<1>4. Begins(c) /\ c \in Calls
  BY AttemptBegins
<1>5. c.dev = dev /\ c.cd = CD
  BY <1>4 DEF Begins
<1>6. s \in DirsOf(dev) /\ s \in Places
  <2>1. ~Misuse(e, s, "delete", name, 0, 0)
    BY <1>2 DEF After
  <2> QED
    BY <1>1, <2>1, DirsOfType DEF Misuse, NoDirectory
<1>7. Ended(dev, s)
  BY <1>1, <1>6 DEF Ended, Sound, Whole, EntriesOf
<1>8. PICK x \in ToSet(Listing(dev, Walk(dev, s))) : x.e.name = name /\ FreesOnly(dev, e.dev, x)
  BY <1>3, <1>4, <1>5, <1>6, <1>7, DeleteFileBits
<1>9. x \in EntriesOf(dev)
  BY <1>6, <1>8 DEF EntriesOf
<1> HIDE DEF e
<1>10. FreesOnly(dev, dev', x)
  BY <1>3, <1>8
<1>11. \A y \in EntriesOf(dev') : y.e # x.e
  BY <1>1, <1>9, <1>10, FreedGone
<1> QED
  BY <1>3, <1>8, <1>9, <1>10, <1>11 DEF FreesOnly

----------------------------------------------------------------------------
(* Chains that come to an end *)

\* A chain grows page by page.
Lengthens(d, s, W) ==
  /\ W[0] = <<s>>
  /\ \A k \in 1 .. MaxP + 1 : W[k] = Grown(d, W[k - 1])
  /\ Walk(d, s) = W[MaxP + 1]

LEMMA WalkGrows ==
  ASSUME NEW d \in Devs, NEW s \in Places
  PROVE  \E W : Lengthens(d, s, W)
<1> DEFINE n == MaxP + 1
           e == <<s>>
           T == Leads(d, s)
           F == [p \in (0 .. n) \X T |-> Grown(d, p[2])]
           Good(g) == g = [k \in 0 .. n |-> IF k = 0 THEN e ELSE Grown(d, g[k - 1])]
<1>1. n \in Nat
  BY Constants
<1>2. e \in T
  <2>1. e \in Seq(Places) /\ Len(e) = 1 /\ e[1] = s
    OBVIOUS
  <2> HIDE DEF e
  <2>2. \A k \in 1 .. Len(e) - 1 : Readable(At(d, e[k]))
    BY <2>1
  <2>3. Len(e) # 0
    BY <2>1
  <2> QED
    BY <2>1, <2>2, <2>3 DEF Leads
<1>3. F \in [(0 .. n) \X T -> T]
  <2>1. \A k \in 0 .. n, x \in T : F[<<k, x>>] = Grown(d, x) /\ F[<<k, x>>] \in T
    <3>1. ASSUME NEW k \in 0 .. n, NEW x \in T PROVE F[<<k, x>>] = Grown(d, x)
      <4> HIDE DEF T
      <4> QED
        OBVIOUS
    <3>2. \A x \in T : Grown(d, x) \in T
      BY GrownLeads
    <3> HIDE DEF F, T
    <3> QED
      BY <3>1, <3>2
  <2>2. F = [p \in (0 .. n) \X T |-> F[p]]
    OBVIOUS
  <2> HIDE DEF F, T
  <2> QED
    BY <2>1, <2>2
<1>4. PICK g : RecursiveIn(g, n, T, e, F)
  <2> HIDE DEF F, T, e, n
  <2> QED
    BY <1>1, <1>2, <1>3, Recursion
<1>5. Good(g)
  <2> HIDE DEF T, e
  <2>1. g = [k \in 0 .. n |-> g[k]]
    BY <1>4 DEF RecursiveIn
  <2>2. ASSUME NEW k \in 0 .. n PROVE g[k] = IF k = 0 THEN e ELSE Grown(d, g[k - 1])
    <3>1. k # 0 => k - 1 \in 0 .. n
      BY <1>1
    <3>2. k # 0 => g[k - 1] \in T /\ g[k] = F[<<k, g[k - 1]>>]
      <4> HIDE DEF F, n
      <4> QED
        BY <3>1, <1>4 DEF RecursiveIn
    <3>3. k = 0 => g[k] = e
      <4> HIDE DEF F, n
      <4> QED
        BY <1>4 DEF RecursiveIn
    <3> QED
      BY <3>2, <3>3
  <2> HIDE DEF F, n
  <2> QED
    BY <2>1, <2>2
<1> DEFINE W == CHOOSE x : Good(x)
<1>6. Good(W)
  <2>1. \E x : Good(x)
    BY <1>5
  <2> HIDE DEF Good
  <2> QED
    BY <2>1
<1>7. Walk(d, s) = W[n]
  BY DEF Walk
<1> HIDE DEF W
<1>8. W[0] = e
  BY <1>1, <1>6
<1>9. ASSUME NEW k \in 1 .. n PROVE W[k] = Grown(d, W[k - 1])
  <2>1. k \in 0 .. n /\ k # 0
    BY <1>1
  <2> QED
    BY <1>6, <2>1
<1> QED
  BY <1>7, <1>8, <1>9 DEF Lengthens

\* A chain without a page that is there twice, each page leading to the next.
NoTwice(w) == \A i, j \in 1 .. Len(w) : w[i] = w[j] => i = j
Path(d, s) ==
  {w \in Leads(d, s) :
     /\ NoTwice(w)
     /\ \A k \in 1 .. Len(w) - 1 : w[k + 1] = At(d, w[k]).next /\ w[k + 1] # 0}

LEMMA PathFields ==
  ASSUME NEW d \in Devs, NEW s \in Places, NEW w \in Path(d, s)
  PROVE  /\ w \in Seq(Places) /\ Len(w) \in Nat \ {0} /\ w[1] = s /\ NoTwice(w)
         /\ \A k \in 1 .. Len(w) : w[k] \in Places
         /\ \A k \in 1 .. Len(w) - 1 :
              /\ Readable(At(d, w[k])) /\ w[k] \in Pages
              /\ w[k + 1] = At(d, w[k]).next /\ w[k + 1] # 0
<1>1. w \in Leads(d, s) /\ NoTwice(w)
      /\ \A k \in 1 .. Len(w) - 1 : w[k + 1] = At(d, w[k]).next /\ w[k + 1] # 0
  BY DEF Path
<1>2. w \in Seq(Places) /\ Len(w) # 0 /\ w[1] = s
      /\ \A k \in 1 .. Len(w) - 1 : Readable(At(d, w[k]))
  BY <1>1 DEF Leads
<1>3. Len(w) \in Nat /\ \A k \in 1 .. Len(w) : w[k] \in Places
  BY <1>2
<1>4. \A k \in 1 .. Len(w) - 1 : w[k] \in Pages
  BY <1>2, AtType
<1> QED
  BY <1>1, <1>2, <1>3, <1>4

LEMMA GrownPath ==
  ASSUME NEW d \in Devs, NEW s \in Places, NEW w \in Path(d, s)
  PROVE  Grown(d, w) \in Path(d, s)
<1> DEFINE page == At(d, Last(w))
           n == Len(w)
           x == page.next
<1>1. page \in PageType /\ x \in Places
  BY AtType, PageFields
<1>2. CASE Grown(d, w) = w
  BY <1>2
<1>3. CASE Grown(d, w) # w
  <2>1. Readable(page) /\ Grown(d, w) = Append(w, x) /\ x # 0 /\ ~Contains(w, x)
    BY <1>3 DEF Grown, Longer
  <2>2. w \in Leads(d, s) /\ w \in Seq(Places) /\ n \in Nat \ {0} /\ NoTwice(w)
        /\ \A k \in 1 .. n - 1 : w[k + 1] = At(d, w[k]).next /\ w[k + 1] # 0
    BY PathFields DEF Path
  <2> DEFINE v == Append(w, x)
  <2>3. v \in Leads(d, s)
    BY <2>1, <2>2, GrownLeads
  <2>4. Len(v) = n + 1 /\ v[n + 1] = x /\ \A k \in 1 .. n : v[k] = w[k]
    BY <1>1, <2>2
  <2>5. \A k \in 1 .. n : w[k] # x
    BY <2>1 DEF Contains
  <2>6. page = At(d, w[n])
    BY DEF Last
  <2> HIDE DEF v, n, page
  <2>7. NoTwice(v)
    <3> SUFFICES ASSUME NEW i \in 1 .. n + 1, NEW j \in 1 .. n + 1, v[i] = v[j] PROVE i = j
      BY <2>4 DEF NoTwice
    <3>1. i \in 1 .. n \/ i = n + 1
      BY <2>2
    <3>2. j \in 1 .. n \/ j = n + 1
      BY <2>2
    <3> QED
      BY <3>1, <3>2, <2>2, <2>4, <2>5 DEF NoTwice, n
  <2>8. ASSUME NEW k \in 1 .. n PROVE v[k + 1] = At(d, v[k]).next /\ v[k + 1] # 0
    <3>1. CASE k = n
      BY <3>1, <2>1, <2>2, <2>4, <2>6
    <3>2. CASE k # n
      <4>1. k \in 1 .. n - 1 /\ k + 1 \in 1 .. n
        BY <3>2, <2>2
      <4> QED
        BY <4>1, <2>2, <2>4
    <3> QED
      BY <3>1, <3>2
  <2>9. Len(v) - 1 = n
    BY <2>2, <2>4
  <2> QED
    BY <2>1, <2>3, <2>7, <2>8, <2>9 DEF Path, v
<1> QED
  BY <1>2, <1>3

\* What holds of the first page alone and is kept by what grows holds of a chain.
LEMMA WalkInduct ==
  ASSUME NEW d \in Devs, NEW s \in Places, NEW T, <<s>> \in T,
         \A w \in T : Grown(d, w) \in T
  PROVE  Walk(d, s) \in T
<1> DEFINE n == MaxP + 1
<1>1. n \in Nat
  BY Constants
<1>2. PICK W : Lengthens(d, s, W)
  BY WalkGrows
<1> DEFINE K == {k \in 0 .. n : W[k] \in T}
<1>3. 0 \in K
  BY <1>1, <1>2 DEF Lengthens
<1>4. ASSUME NEW k \in 0 .. n, k # 0, k - 1 \in K PROVE k \in K
  <2>1. k \in 1 .. n
    BY <1>1, <1>4
  <2> QED
    BY <1>2, <1>4, <2>1 DEF Lengthens
<1>5. n \in K
  <2>1. \A k \in 0 .. n : k # 0 /\ k - 1 \in K => k \in K
    BY <1>4
  <2> HIDE DEF K
  <2>2. \A k \in 0 .. n : k \in K
    BY <1>1, <1>3, <2>1, Upto
  <2> QED
    BY <2>2, <1>1
<1> QED
  BY <1>2, <1>5 DEF Lengthens

LEMMA OneSeq ==
  ASSUME NEW S, NEW s \in S
  PROVE  <<s>> \in Seq(S) /\ Len(<<s>>) = 1 /\ <<s>>[1] = s
OBVIOUS

LEMMA SeqIs ==
  ASSUME NEW S, NEW v \in Seq(S), NEW f, NEW n \in Nat, Len(v) = n,
         \A k \in 1 .. n : v[k] = f[k]
  PROVE  v = [k \in 1 .. n |-> f[k]]
OBVIOUS

LEMMA OnePath ==
  ASSUME NEW d \in Devs, NEW s \in Places
  PROVE  <<s>> \in Path(d, s)
<1> DEFINE e == <<s>>
<1>1. e \in Seq(Places) /\ Len(e) = 1 /\ e[1] = s
  BY OneSeq
<1> HIDE DEF e
<1>2. \A k \in 1 .. Len(e) - 1 : FALSE
  BY <1>1
<1>3. Len(e) # 0
  BY <1>1
<1>4. e \in Leads(d, s)
  BY <1>1, <1>2, <1>3 DEF Leads
<1>5. NoTwice(e)
  BY <1>1 DEF NoTwice
<1>6. e \in Path(d, s)
  BY <1>2, <1>4, <1>5 DEF Path
<1> QED
  BY <1>6 DEF e

LEMMA WalkPath ==
  ASSUME NEW d \in Devs, NEW s \in Places
  PROVE  Walk(d, s) \in Path(d, s)
<1> DEFINE T == Path(d, s)
           e == <<s>>
<1>1. e \in T
  BY OnePath
<1>2. \A w \in T : Grown(d, w) \in T
  BY GrownPath
<1> HIDE DEF T
<1>3. Walk(d, s) \in T
  BY <1>1, <1>2, WalkInduct
<1> QED
  BY <1>3 DEF T

\* What is known of a chain of n pages.
Runs(d, s, w, n) ==
  /\ w \in Seq(Places) /\ n \in Nat \ {0} /\ w[1] = s /\ NoTwice(w)
  /\ \A k \in 1 .. n : w[k] \in Places
  /\ \A k \in 1 .. n - 1 : /\ Readable(At(d, w[k])) /\ w[k] \in Pages
                           /\ w[k + 1] = At(d, w[k]).next /\ w[k + 1] # 0

LEMMA WalkRuns ==
  ASSUME NEW d \in Devs, NEW s \in Places
  PROVE  Runs(d, s, Walk(d, s), Len(Walk(d, s)))
<1> DEFINE w == Walk(d, s)
<1>1. w \in Path(d, s)
  BY WalkPath
<1> HIDE DEF w
<1>2. Runs(d, s, w, Len(w))
  BY <1>1, PathFields DEF Runs
<1> QED
  BY <1>2 DEF w

\* A chain that comes to an end in a page that cannot be read, or the last one.
Stops(page) == ~Readable(page) \/ page.next = 0
Prefix(w, m) == [k \in 1 .. m |-> w[k]]

LEMMA PathLength ==
  ASSUME NEW d \in Devs, NEW s \in Places, NEW w \in Path(d, s)
  PROVE  Len(w) <= MaxP + 2
<1> DEFINE n == Len(w)
<1>1. w \in Seq(Places) /\ n \in Nat /\ NoTwice(w) /\ \A k \in 1 .. n : w[k] \in Places
  BY PathFields
<1>2. w \in Injection(1 .. n, Places)
  <2>1. w \in [1 .. n -> Places]
    BY <1>1
  <2>2. \A i, j \in 1 .. n : w[i] = w[j] => i = j
    BY <1>1 DEF NoTwice
  <2> QED
    BY <2>1, <2>2 DEF Injection, IsInjective
<1>3. IsFiniteSet(Places) /\ Cardinality(Places) = MaxP + 2
  <2> DEFINE a == 0
  <2>1. a \in Int /\ Stray \in Int /\ Stray = MaxP + 1 /\ MaxP \in Nat
    BY Constants
  <2>2. Places = a .. Stray
    BY DEF Places
  <2>3. ~(a > Stray) /\ Stray - a + 1 = MaxP + 2
    BY <2>1
  <2> HIDE DEF a
  <2> QED
    BY <2>1, <2>2, <2>3, FS_Interval
<1>4. Cardinality(1 .. n) = n
  <2> DEFINE a == 1
  <2>1. a \in Int /\ n \in Int /\ (IF a > n THEN 0 ELSE n - a + 1) = n
    BY <1>1
  <2> HIDE DEF a, n
  <2>2. Cardinality(a .. n) = n
    BY <2>1, FS_Interval
  <2> QED
    BY <2>2 DEF a
<1> HIDE DEF n
<1>5. Cardinality(1 .. n) <= Cardinality(Places)
  <2> DEFINE S == 1 .. n
  <2> HIDE DEF S
  <2> QED
    BY <1>2, <1>3, FS_Injection DEF S
<1> QED
  BY <1>3, <1>4, <1>5 DEF n

LEMMA GrownPrefix ==
  ASSUME NEW d \in Devs, NEW s \in Places, NEW w \in Path(d, s), NEW m \in 1 .. Len(w)
  PROVE  /\ m = Len(w) => Prefix(w, m) = w
         /\ m # Len(w) => Grown(d, Prefix(w, m)) = Prefix(w, m + 1)
<1> DEFINE n == Len(w)
           v == Prefix(w, m)
<1>1. w \in Seq(Places) /\ n \in Nat \ {0} /\ NoTwice(w) /\ m \in Nat
      /\ (\A k \in 1 .. n : w[k] \in Places)
      /\ \A k \in 1 .. n - 1 : Readable(At(d, w[k])) /\ w[k + 1] = At(d, w[k]).next /\ w[k + 1] # 0
  BY PathFields
<1>2. v \in Seq(Places) /\ Len(v) = m /\ \A k \in 1 .. m : v[k] = w[k]
  BY <1>1 DEF Prefix
<1>3. m = n => v = w
  BY <1>1 DEF Prefix
<1>4. ASSUME m # n PROVE Grown(d, v) = Prefix(w, m + 1)
  <2>1. m \in 1 .. n - 1 /\ m + 1 \in 1 .. n /\ m \in 1 .. m
    BY <1>1, <1>4
  <2>2. Last(v) = w[m]
    BY <1>2, <2>1 DEF Last
  <2> DEFINE x == w[m + 1]
  <2>3. Readable(At(d, w[m])) /\ At(d, w[m]).next = x /\ x # 0 /\ x \in Places
    BY <1>1, <2>1
  <2>4. ~Contains(v, x)
    <3>1. \A k \in 1 .. m : w[k] # x
      BY <1>1, <2>1 DEF NoTwice
    <3> QED
      BY <3>1, <1>2 DEF Contains
  <2>5. Grown(d, v) = Append(v, x)
    BY <2>2, <2>3, <2>4 DEF Grown, Longer
  <2>6. Append(v, x) = [k \in 1 .. m + 1 |-> w[k]]
    <3> HIDE DEF v, x
    <3>1. Append(v, x) \in Seq(Places) /\ Len(Append(v, x)) = m + 1
      BY <1>2, <2>3
    <3>2. \A k \in 1 .. m + 1 : Append(v, x)[k] = w[k]
      BY <1>2, <2>3, <1>1 DEF x
    <3>3. m + 1 \in Nat
      BY <1>1
    <3> QED
      BY <3>1, <3>2, <3>3, SeqIs
  <2> QED
    BY <2>5, <2>6 DEF Prefix
<1> QED
  BY <1>3, <1>4

LEMMA WalkOf ==
  ASSUME NEW d \in Devs, NEW s \in Places, NEW w \in Path(d, s), Stops(At(d, Last(w)))
  PROVE  Walk(d, s) = w
<1> DEFINE n == MaxP + 1
           l == Len(w)
           len(k) == IF k < l THEN k + 1 ELSE l
<1>1. n \in Nat /\ l \in Nat \ {0} /\ l <= n + 1 /\ w \in Seq(Places) /\ w[1] = s
  BY PathLength, PathFields, Constants
<1>2. Grown(d, w) = w
  BY DEF Grown, Longer, Stops
<1>3. PICK W : Lengthens(d, s, W)
  BY WalkGrows
<1> DEFINE K == {k \in 0 .. n : W[k] = Prefix(w, len(k))}
<1>4. 0 \in K
  <2>1. len(0) = 1
    BY <1>1
  <2>2. Prefix(w, 1) = <<s>>
    <3>1. Prefix(w, 1) = [k \in 1 .. 1 |-> w[k]]
      BY DEF Prefix
    <3> QED
      BY <3>1, <1>1
  <2> QED
    BY <2>1, <2>2, <1>1, <1>3 DEF Lengthens
<1>5. ASSUME NEW k \in 0 .. n, k # 0, k - 1 \in K PROVE k \in K
  <2>1. k \in 1 .. n
    BY <1>1, <1>5
  <2>2. W[k] = Grown(d, Prefix(w, len(k - 1)))
    BY <1>3, <1>5, <2>1 DEF Lengthens
  <2> DEFINE m == len(k - 1)
  <2>3. m \in 1 .. l /\ (m = l => len(k) = l) /\ (m # l => len(k) = m + 1)
    BY <1>1, <2>1
  <2> HIDE DEF m, l, len
  <2>4. (m = l => Prefix(w, m) = w) /\ (m # l => Grown(d, Prefix(w, m)) = Prefix(w, m + 1))
    BY <2>3, GrownPrefix DEF l
  <2>5. W[k] = Prefix(w, len(k))
    BY <2>2, <2>3, <2>4, <1>2 DEF m
  <2> QED
    BY <2>5
<1>6. n \in K
  <2>1. \A k \in 0 .. n : k # 0 /\ k - 1 \in K => k \in K
    BY <1>5
  <2> HIDE DEF K
  <2>2. \A k \in 0 .. n : k \in K
    BY <1>1, <1>4, <2>1, Upto
  <2> QED
    BY <2>2, <1>1
<1>7. len(n) = l /\ l \in 1 .. l
  BY <1>1
<1>8. Prefix(w, l) = w
  BY <1>7, GrownPrefix
<1> QED
  BY <1>3, <1>6, <1>7, <1>8 DEF Lengthens

\* Two parts on which a page leads to the same page, or holds the same entries too.
Linked(d, e, p) == /\ Readable(At(d, p)) <=> Readable(At(e, p))
                   /\ At(d, p).next = At(e, p).next
Alike(d, e, p) == /\ At(d, p).head = At(e, p).head
                  /\ At(d, p).slots = At(e, p).slots
                  /\ At(d, p).data = At(e, p).data
                  /\ At(d, p).next = At(e, p).next

LEMMA AlikeLinked ==
  ASSUME NEW d, NEW e, NEW p, Alike(d, e, p)
  PROVE  /\ Linked(d, e, p) /\ Items(At(d, p)) = Items(At(e, p))
         /\ IsDir(At(d, p)) <=> IsDir(At(e, p))
BY DEF Alike, Linked, Readable, Items, IsDir

LEMMA InSet ==
  ASSUME NEW S, NEW w \in Seq(S)
  PROVE  /\ ToSet(w) = {w[k] : k \in 1 .. Len(w)}
         /\ \A x : x \in ToSet(w) <=> \E k \in 1 .. Len(w) : w[k] = x
BY DEF ToSet

LEMMA LastIn ==
  ASSUME NEW S, NEW w \in Seq(S), Len(w) # 0
  PROVE  Last(w) = w[Len(w)] /\ Last(w) \in ToSet(w) /\ Len(w) \in 1 .. Len(w)
<1>1. Len(w) \in 1 .. Len(w)
  OBVIOUS
<1>2. Last(w) = w[Len(w)]
  BY DEF Last
<1> QED
  BY <1>1, <1>2, InSet

\* A chain depends on what its pages lead to.
LEMMA WalkLinked ==
  ASSUME NEW d \in Devs, NEW e \in Devs, NEW s \in Places,
         Stops(At(d, Last(Walk(d, s)))), \A p \in ToSet(Walk(d, s)) : Linked(d, e, p)
  PROVE  Walk(e, s) = Walk(d, s) /\ Stops(At(e, Last(Walk(d, s))))
<1> DEFINE w == Walk(d, s)
<1>1. w \in Path(d, s)
  BY WalkPath
<1> HIDE DEF w
<1>2. /\ w \in Seq(Places) /\ Len(w) \in Nat \ {0} /\ w[1] = s /\ NoTwice(w)
      /\ \A k \in 1 .. Len(w) - 1 : Readable(At(d, w[k])) /\ w[k + 1] = At(d, w[k]).next /\ w[k + 1] # 0
  BY <1>1, PathFields
<1>3. \A k \in 1 .. Len(w) : Linked(d, e, w[k])
  BY <1>2, InSet DEF w
<1>4. \A k \in 1 .. Len(w) - 1 : k \in 1 .. Len(w)
  BY <1>2
<1>5. \A k \in 1 .. Len(w) - 1 :
        Readable(At(e, w[k])) /\ w[k + 1] = At(e, w[k]).next /\ w[k + 1] # 0
  BY <1>2, <1>3, <1>4 DEF Linked
<1>6. w \in Leads(e, s)
  <2>1. Len(w) # 0
    BY <1>2
  <2> QED
    BY <1>2, <1>5, <2>1 DEF Leads
<1>7. w \in Path(e, s)
  BY <1>2, <1>5, <1>6 DEF Path
<1>8. Stops(At(e, Last(w)))
  <2>1. Last(w) \in ToSet(w) /\ Linked(d, e, Last(w))
    BY <1>2, LastIn DEF w
  <2> QED
    BY <2>1 DEF Linked, Stops, w
<1>9. Walk(e, s) = w
  BY <1>7, <1>8, WalkOf
<1> QED
  BY <1>8, <1>9 DEF w

\* A chain of one page.
LEMMA WalkOne ==
  ASSUME NEW d \in Devs, NEW s \in Places, Stops(At(d, s))
  PROVE  Walk(d, s) = <<s>> /\ ToSet(Walk(d, s)) = {s} /\ Last(Walk(d, s)) = s
<1> DEFINE w == <<s>>
<1>1. w \in Path(d, s)
  BY OnePath
<1>2. w \in Seq(Places) /\ Len(w) = 1 /\ w[1] = s
  BY OneSeq
<1> HIDE DEF w
<1>3. Last(w) = s
  BY <1>2 DEF Last
<1>4. Walk(d, s) = w
  BY <1>1, <1>3, WalkOf
<1>5. ToSet(w) = {s}
  BY <1>2, InSet
<1> QED
  BY <1>3, <1>4, <1>5 DEF w

----------------------------------------------------------------------------
(* Directories, entry by entry *)

LEMMA ConcatSet ==
  ASSUME NEW S, NEW a \in Seq(S), NEW b \in Seq(S)
  PROVE  /\ a \o b \in Seq(S) /\ ToSet(a \o b) = ToSet(a) \cup ToSet(b)
         /\ NoTwice(a) /\ NoTwice(b) /\ ToSet(a) \cap ToSet(b) = {} => NoTwice(a \o b)
<1> DEFINE c == a \o b
           n == Len(a)
           m == Len(b)
<1>1. /\ c \in Seq(S) /\ Len(c) = n + m /\ n \in Nat /\ m \in Nat
      /\ \A k \in 1 .. n + m : c[k] = IF k <= n THEN a[k] ELSE b[k - n]
  OBVIOUS
<1>2. /\ \A k \in 1 .. n : a[k] \in ToSet(a) /\ k \in 1 .. n + m /\ c[k] = a[k]
      /\ \A k \in 1 .. m : b[k] \in ToSet(b) /\ k + n \in 1 .. n + m /\ c[k + n] = b[k]
      /\ \A k \in 1 .. n + m : k \in 1 .. n \/ (k - n \in 1 .. m /\ k = (k - n) + n)
  <2>1. /\ \A k \in 1 .. n : a[k] \in ToSet(a)
        /\ \A k \in 1 .. m : b[k] \in ToSet(b)
    BY InSet
  <2> HIDE DEF c, n, m
  <2>2. \A k \in 1 .. n : k \in 1 .. n + m /\ k <= n
    BY <1>1
  <2>3. \A k \in 1 .. m : k + n \in 1 .. n + m /\ ~(k + n <= n) /\ (k + n) - n = k
    BY <1>1
  <2>4. \A k \in 1 .. n + m : k \in 1 .. n \/ (k - n \in 1 .. m /\ k = (k - n) + n)
    BY <1>1
  <2> QED
    BY <1>1, <2>1, <2>2, <2>3, <2>4
<1> HIDE DEF c, n, m
<1>3. ToSet(c) = ToSet(a) \cup ToSet(b)
  <2>1. ASSUME NEW x \in ToSet(c) PROVE x \in ToSet(a) \cup ToSet(b)
    <3>1. PICK k \in 1 .. n + m : c[k] = x
      BY <1>1, InSet
    <3> QED
      BY <3>1, <1>2
  <2>2. ASSUME NEW x \in ToSet(a) PROVE x \in ToSet(c)
    <3>1. PICK k \in 1 .. n : a[k] = x
      BY InSet DEF n
    <3> QED
      BY <3>1, <1>1, <1>2, InSet
  <2>3. ASSUME NEW x \in ToSet(b) PROVE x \in ToSet(c)
    <3>1. PICK k \in 1 .. m : b[k] = x
      BY InSet DEF m
    <3> QED
      BY <3>1, <1>1, <1>2, InSet
  <2> QED
    BY <2>1, <2>2, <2>3
<1>4. ASSUME NoTwice(a), NoTwice(b), ToSet(a) \cap ToSet(b) = {} PROVE NoTwice(c)
  <2> SUFFICES ASSUME NEW i \in 1 .. n + m, NEW j \in 1 .. n + m, c[i] = c[j] PROVE i = j
    BY <1>1 DEF NoTwice
  <2>1. CASE i \in 1 .. n /\ j \in 1 .. n
    BY <2>1, <1>2, <1>4 DEF NoTwice, n
  <2>2. CASE i \in 1 .. n /\ j - n \in 1 .. m /\ j = (j - n) + n
    BY <2>2, <1>2, <1>4
  <2>3. CASE j \in 1 .. n /\ i - n \in 1 .. m /\ i = (i - n) + n
    BY <2>3, <1>2, <1>4
  <2>4. CASE i - n \in 1 .. m /\ i = (i - n) + n /\ j - n \in 1 .. m /\ j = (j - n) + n
    <3>1. b[i - n] = b[j - n]
      BY <2>4, <1>2
    <3>2. i - n = j - n
      BY <2>4, <3>1, <1>4 DEF NoTwice, m
    <3> QED
      BY <2>4, <3>2
  <2> QED
    BY <1>2, <2>1, <2>2, <2>3, <2>4
<1> QED
  BY <1>1, <1>3, <1>4 DEF c

\* A sequence in pieces grows piece by piece.
FlattensBy(seqs, S, f) ==
  /\ f[1] = seqs[1] /\ \A k \in 2 .. Len(seqs) : f[k] = f[k - 1] \o seqs[k]
  /\ FlattenSeq(seqs) = f[Len(seqs)]

LEMMA FlattenGrows ==
  ASSUME NEW S, NEW seqs \in Seq(Seq(S)), Len(seqs) # 0
  PROVE  \E f : FlattensBy(seqs, S, f)
<1> DEFINE n == Len(seqs)
           e == <<>>
           T == Seq(S)
<1>1. n \in Nat /\ e \in T /\ seqs \in [1 .. n -> T] /\ n # 0
  OBVIOUS
<1> DEFINE F == [p \in (0 .. n) \X T |-> IF p[1] = 0 THEN e ELSE IF p[1] = 1 THEN seqs[1] ELSE p[2] \o seqs[p[1]]]
           Good(g) == g = [i \in 1 .. n |-> IF i = 1 THEN seqs[i] ELSE g[i - 1] \o seqs[i]]
<1>2. F \in [(0 .. n) \X T -> T]
  <2>1. ASSUME NEW k \in 0 .. n, NEW x \in T PROVE F[<<k, x>>] \in T
    <3>1. k = 0 \/ seqs[k] \in T
      BY <1>1
    <3>2. 1 \in 1 .. n
      BY <1>1
    <3> QED
      BY <3>1, <3>2, <1>1
  <2> HIDE DEF T
  <2> QED
    BY <2>1
<1>3. PICK g : RecursiveIn(g, n, T, e, F)
  <2> HIDE DEF F, T, e, n
  <2> QED
    BY <1>1, <1>2, Recursion
<1> DEFINE h == [i \in 1 .. n |-> g[i]]
<1>4. Good(h)
  <2>1. ASSUME NEW i \in 1 .. n PROVE h[i] = IF i = 1 THEN seqs[i] ELSE h[i - 1] \o seqs[i]
    <3>1. g[i] = F[<<i, g[i - 1]>>] /\ i - 1 \in 0 .. n /\ i \in 0 .. n /\ g[i - 1] \in T
      <4>1. i \in 0 .. n /\ i - 1 \in 0 .. n /\ i # 0
        BY <1>1
      <4> HIDE DEF F, T, e, n
      <4> QED
        BY <4>1, <1>3 DEF RecursiveIn
    <3>2. F[<<i, g[i - 1]>>] = IF i = 1 THEN seqs[1] ELSE g[i - 1] \o seqs[i]
      <4> HIDE DEF T
      <4> QED
        BY <3>1
    <3>3. i # 1 => i - 1 \in 1 .. n
      BY <1>1
    <3>4. i # 1 => h[i - 1] = g[i - 1]
      BY <3>3
    <3> QED
      BY <3>1, <3>2, <3>4
  <2> QED
    BY <2>1
<1> DEFINE f == CHOOSE x : Good(x)
<1>5. Good(f)
  <2>1. \E x : Good(x)
    BY <1>4
  <2> HIDE DEF Good
  <2> QED
    BY <2>1
<1>6. FlattenSeq(seqs) = f[n]
  BY <1>1 DEF FlattenSeq
<1> HIDE DEF f
<1>7. f[1] = seqs[1]
  <2>1. 1 \in 1 .. n
    BY <1>1
  <2> QED
    BY <2>1, <1>5
<1>8. \A k \in 2 .. n : f[k] = f[k - 1] \o seqs[k]
  <2>1. \A k \in 2 .. n : k \in 1 .. n /\ k # 1
    BY <1>1
  <2> QED
    BY <2>1, <1>5
<1>9. FlattensBy(seqs, S, f)
  BY <1>6, <1>7, <1>8 DEF FlattensBy
<1> QED
  BY <1>9

\* Pieces that share nothing and hold nothing twice.
Separate(seqs) ==
  /\ \A k \in 1 .. Len(seqs) : NoTwice(seqs[k])
  /\ \A k, l \in 1 .. Len(seqs) : k # l => ToSet(seqs[k]) \cap ToSet(seqs[l]) = {}

LEMMA FlattenIs ==
  ASSUME NEW S, NEW seqs \in Seq(Seq(S)), Len(seqs) # 0
  PROVE  /\ FlattenSeq(seqs) \in Seq(S)
         /\ \A x : x \in ToSet(FlattenSeq(seqs)) <=> \E k \in 1 .. Len(seqs) : x \in ToSet(seqs[k])
         /\ Separate(seqs) => NoTwice(FlattenSeq(seqs))
<1> DEFINE n == Len(seqs)
           T == Seq(S)
<1>1. n \in Nat /\ n # 0 /\ \A k \in 1 .. n : seqs[k] \in T
  OBVIOUS
<1>2. PICK f : FlattensBy(seqs, S, f)
  BY FlattenGrows
<1> DEFINE K == {k \in 0 .. n : k = 0 \/
                   /\ f[k] \in T
                   /\ \A x : x \in ToSet(f[k]) <=> \E i \in 1 .. k : x \in ToSet(seqs[i])
                   /\ Separate(seqs) => NoTwice(f[k])}
<1>3. 0 \in K
  BY <1>1
<1>4. ASSUME NEW k \in 0 .. n, k # 0, k - 1 \in K PROVE k \in K
  <2>0. k \in 1 .. n /\ k \in Nat
    BY <1>1, <1>4
  <2>1. CASE k = 1
    <3>1. f[k] = seqs[k] /\ f[k] \in T
      BY <2>1, <2>0, <1>1, <1>2 DEF FlattensBy
    <3>2. \A x : x \in ToSet(f[k]) <=> \E i \in 1 .. k : x \in ToSet(seqs[i])
      BY <3>1, <2>1
    <3>3. Separate(seqs) => NoTwice(f[k])
      BY <3>1, <2>0 DEF Separate
    <3> QED
      BY <3>1, <3>2, <3>3
  <2>2. CASE k # 1
    <3> DEFINE a == f[k - 1]
               b == seqs[k]
    <3>0. k \in 2 .. n
      BY <2>0, <2>2, <1>1
    <3>1. f[k] = a \o b /\ b \in T
      <4> HIDE DEF n, T
      <4> QED
        BY <2>0, <3>0, <1>1, <1>2 DEF FlattensBy, n
    <3>2. /\ a \in T /\ \A x : x \in ToSet(a) <=> \E i \in 1 .. k - 1 : x \in ToSet(seqs[i])
          /\ Separate(seqs) => NoTwice(a)
      BY <1>4, <2>2, <2>0
    <3> HIDE DEF a, b
    <3>3. /\ a \o b \in T /\ ToSet(a \o b) = ToSet(a) \cup ToSet(b)
          /\ NoTwice(a) /\ NoTwice(b) /\ ToSet(a) \cap ToSet(b) = {} => NoTwice(a \o b)
      BY <3>1, <3>2, ConcatSet
    <3>4. \A i : i \in 1 .. k <=> (i \in 1 .. k - 1 \/ i = k)
      BY <2>0
    <3>5. \A x : x \in ToSet(f[k]) <=> \E i \in 1 .. k : x \in ToSet(seqs[i])
      BY <3>1, <3>2, <3>3, <3>4 DEF b
    <3>6. ASSUME Separate(seqs) PROVE NoTwice(f[k])
      <4>1. NoTwice(a) /\ NoTwice(b)
        BY <3>2, <3>6, <2>0 DEF Separate, b
      <4>2. ToSet(a) \cap ToSet(b) = {}
        <5> SUFFICES ASSUME NEW x \in ToSet(a), x \in ToSet(b) PROVE FALSE
          OBVIOUS
        <5>1. PICK i \in 1 .. k - 1 : x \in ToSet(seqs[i])
          BY <3>2
        <5>2. i \in 1 .. n /\ i # k
          BY <2>0, <1>1
        <5> HIDE DEF n
        <5>3. ToSet(seqs[i]) \cap ToSet(seqs[k]) = {}
          BY <3>6, <5>2, <2>0 DEF Separate, n
        <5> QED
          BY <5>1, <5>3 DEF b
      <4> QED
        BY <4>1, <4>2, <3>1, <3>3
    <3> QED
      BY <3>1, <3>3, <3>5, <3>6
  <2> QED
    BY <2>1, <2>2
<1>5. n \in K
  <2>1. \A k \in 0 .. n : k # 0 /\ k - 1 \in K => k \in K
    BY <1>4
  <2> HIDE DEF K, n
  <2>2. \A k \in 0 .. n : k \in K
    BY <1>1, <1>3, <2>1, Upto
  <2> QED
    BY <2>2, <1>1
<1>6. /\ f[n] \in T
      /\ \A x : x \in ToSet(f[n]) <=> \E i \in 1 .. n : x \in ToSet(seqs[i])
      /\ Separate(seqs) => NoTwice(f[n])
  BY <1>1, <1>5
<1>7. FlattenSeq(seqs) = f[n]
  BY <1>2 DEF FlattensBy
<1> HIDE DEF T, K
<1> QED
  BY <1>6, <1>7 DEF T

LEMMA SpreadIs ==
  ASSUME NEW S, NEW items \in Seq(S), NEW p, NEW prev, NEW header \in {0, 1}, NEW E,
         Spread(items, p, prev, header) \in Seq(E)
  PROVE  /\ NoTwice(Spread(items, p, prev, header))
         /\ \A x : x \in ToSet(Spread(items, p, prev, header)) <=>
              \E j \in header + 1 .. Len(items) :
                x = [e |-> items[j], dpage |-> p, pdpage |-> prev, pos |-> j]
<1> DEFINE v == Spread(items, p, prev, header)
           n == Len(items)
           item(j) == [e |-> items[j], dpage |-> p, pdpage |-> prev, pos |-> j]
<1>1. n \in Nat
  OBVIOUS
<1>2. v = [j \in 1 .. n - header |-> item(j + header)]
  BY DEF Spread
<1>3. \A j : item(j).pos = j
  OBVIOUS
<1>4. v \in Seq(E)
  OBVIOUS
<1> HIDE DEF v, item, n
<1>5. DOMAIN v = 1 .. n - header /\ DOMAIN v = 1 .. Len(v) /\ \A j \in 1 .. n - header : v[j] = item(j + header)
  <2>1. DOMAIN v = 1 .. n - header /\ \A j \in 1 .. n - header : v[j] = item(j + header)
    BY <1>2
  <2>2. DOMAIN v = 1 .. Len(v)
    BY <1>4
  <2> QED
    BY <2>1, <2>2
<1>6. NoTwice(v)
  <2> SUFFICES ASSUME NEW i \in 1 .. Len(v), NEW j \in 1 .. Len(v), v[i] = v[j] PROVE i = j
    BY DEF NoTwice
  <2>1. i \in 1 .. n - header /\ j \in 1 .. n - header
    BY <1>5
  <2>2. item(i + header).pos = item(j + header).pos
    BY <2>1, <1>5
  <2>3. i + header = j + header
    BY <2>2, <1>3
  <2> QED
    BY <2>1, <2>3, <1>1
<1>7. ASSUME NEW x \in ToSet(v) PROVE \E j \in header + 1 .. n : x = item(j)
  <2>0. \E i \in 1 .. Len(v) : v[i] = x
    BY <1>4, <1>7, InSet
  <2>1. PICK i \in 1 .. n - header : v[i] = x
    BY <2>0, <1>5
  <2>2. i + header \in header + 1 .. n
    BY <1>1
  <2> QED
    BY <2>1, <2>2, <1>5
<1>8. ASSUME NEW j \in header + 1 .. n PROVE item(j) \in ToSet(v)
  <2>1. j - header \in 1 .. n - header /\ (j - header) + header = j
    BY <1>1
  <2>2. v[j - header] = item(j)
    BY <2>1, <1>5
  <2> QED
    BY <2>1, <2>2, <1>4, <1>5, InSet
<1>9. \A x : x \in ToSet(v) <=> \E j \in header + 1 .. n : x = item(j)
  BY <1>7, <1>8
<1> QED
  BY <1>6, <1>9 DEF v, item, n

\* The entry at a position of the k-th page of a chain.
Before(k) == IF k = 1 THEN 1 ELSE k - 1
Entry(d, w, k, j) == [e |-> Items(At(d, w[k]))[j], dpage |-> w[k], pdpage |-> w[Before(k)], pos |-> j]
Spots(d, w, k) == (IF k = 1 THEN 2 ELSE 1) .. Len(Items(At(d, w[k])))

\* The directory that starts in s, by its entries.
Dir(d, s) == ToSet(Listing(d, Walk(d, s)))

LEMMA ListingIs ==
  ASSUME NEW d \in Devs, NEW s \in Places
  PROVE  /\ Listing(d, Walk(d, s)) \in Seq(Infos) /\ NoTwice(Listing(d, Walk(d, s)))
         /\ \A x : x \in Dir(d, s) <=>
              \E k \in 1 .. Len(Walk(d, s)) : \E j \in Spots(d, Walk(d, s), k) :
                x = Entry(d, Walk(d, s), k, j)
<1> DEFINE w == Walk(d, s)
           E == Entered(d, w)
           zero == 0
           one == 1
           piece(k) == IF k = 1 THEN Spread(Items(At(d, w[1])), w[1], w[1], 1)
                       ELSE Spread(Items(At(d, w[k])), w[k], w[k - 1], 0)
           n == Len(w)
           seqs == [k \in DOMAIN w |-> piece(k)]
<1>1. w \in Seq(Places) /\ n \in Nat \ {0} /\ (\A k \in 1 .. n - 1 : w[k] \in Pages) /\ NoTwice(w)
  BY WalkType, WalkPath, PathFields
<1> HIDE DEF w
<1>2. DOMAIN w = 1 .. n
  BY <1>1
<1>3. ASSUME NEW k \in 1 .. n
      PROVE  /\ piece(k) \in Seq(E) /\ NoTwice(piece(k))
             /\ \A x : x \in ToSet(piece(k)) <=> \E j \in Spots(d, w, k) : x = Entry(d, w, k, j)
  <2> DEFINE header == IF k = 1 THEN one ELSE zero
             i == Before(k)
             items == Items(At(d, w[k]))
             v == Spread(items, w[k], w[i], header)
  <2>1. header \in {0, 1} /\ i \in DOMAIN w /\ (i = k \/ w[i] \in Pages) /\ k \in DOMAIN w
    BY <1>1, <1>2 DEF Before
  <2>2. piece(k) = v
    BY DEF Before
  <2>3. items \in Seq(Listed)
    BY AtType, ItemsType
  <2>4. header + 1 .. Len(items) = Spots(d, w, k)
    BY DEF Spots
  <2> HIDE DEF one, zero, header, i, E, piece
  <2>5. v \in Seq(E)
    BY <1>1, <2>1, SpreadType DEF E
  <2> HIDE DEF items
  <2>6. /\ NoTwice(v)
        /\ \A x : x \in ToSet(v) <=>
             \E j \in header + 1 .. Len(items) :
                x = [e |-> items[j], dpage |-> w[k], pdpage |-> w[i], pos |-> j]
    BY <2>1, <2>3, <2>5, SpreadIs
  <2>7. \A j : Entry(d, w, k, j) = [e |-> items[j], dpage |-> w[k], pdpage |-> w[i], pos |-> j]
    BY DEF Entry, i, items
  <2> QED
    BY <2>2, <2>4, <2>5, <2>6, <2>7
<1>4. seqs \in Seq(Seq(E)) /\ Len(seqs) = n /\ \A k \in 1 .. n : seqs[k] = piece(k)
  <2>1. n \in Nat /\ seqs = [k \in 1 .. n |-> piece(k)] /\ \A k \in 1 .. n : piece(k) \in Seq(E)
    BY <1>1, <1>2, <1>3
  <2> HIDE DEF piece, n, E, seqs
  <2> QED
    BY <2>1
<1>5. Listing(d, w) = FlattenSeq(seqs)
  BY DEF Listing
<1> HIDE DEF seqs, E, piece
<1>6. Separate(seqs)
  <2>1. \A k \in 1 .. n : NoTwice(seqs[k])
    BY <1>3, <1>4
  <2>2. ASSUME NEW k \in 1 .. n, NEW l \in 1 .. n, NEW x \in ToSet(seqs[k]), x \in ToSet(seqs[l]) PROVE k = l
    <3>1. PICK j : x = Entry(d, w, k, j)
      BY <1>3, <1>4
    <3>2. PICK i : x = Entry(d, w, l, i)
      BY <2>2, <1>3, <1>4
    <3>3. w[k] = w[l]
      BY <3>1, <3>2 DEF Entry
    <3> QED
      BY <3>3, <1>1 DEF NoTwice
  <2> QED
    BY <2>1, <2>2, <1>4 DEF Separate
<1>7. /\ FlattenSeq(seqs) \in Seq(E)
      /\ \A x : x \in ToSet(FlattenSeq(seqs)) <=> \E k \in 1 .. n : x \in ToSet(seqs[k])
      /\ NoTwice(FlattenSeq(seqs))
  <2>1. Len(seqs) # 0
    BY <1>1, <1>4
  <2> HIDE DEF n
  <2> QED
    BY <2>1, <1>4, <1>6, FlattenIs
<1> DEFINE list == Listing(d, w)
<1>8. list \in Seq(Infos)
  <2>1. list \in Seq(E) /\ E \subseteq Infos
    BY <1>5, <1>7 DEF Entered, E
  <2> HIDE DEF list
  <2> QED
    BY <2>1
<1>9. \A x : x \in ToSet(list) <=>
        \E k \in 1 .. n : \E j \in Spots(d, w, k) : x = Entry(d, w, k, j)
  <2>1. ASSUME NEW x, NEW k \in 1 .. n
        PROVE  x \in ToSet(seqs[k]) <=> \E j \in Spots(d, w, k) : x = Entry(d, w, k, j)
    BY <1>3, <1>4
  <2> HIDE DEF n
  <2> QED
    BY <2>1, <1>5, <1>7
<1> QED
  BY <1>5, <1>7, <1>8, <1>9 DEF w, Dir

----------------------------------------------------------------------------
(* What is sound, chain by chain *)

\* Where the files and directories begin that can be reached, and their pages.
Starts(d) == {0} \cup {x.e.spage : x \in EntriesOf(d)}
Live(d) == UNION {ToSet(Walk(d, s)) : s \in Starts(d)}

LEMMA LevelsUp ==
  ASSUME NEW d \in Devs, NEW D, Levels(d, D)
  PROVE  \A k \in 0 .. MaxDepth : D[k] \subseteq DirsOf(d)
<1> DEFINE n == MaxDepth
<1>2. n \in Nat
  BY FileAssumption
<1>3. /\ DirsOf(d) = D[n]
      /\ \A k \in 0 .. n : k # 0 => D[k] = D[k - 1] \cup Below(d, D[k - 1])
  BY DEF Levels
<1> HIDE DEF n
<1> DEFINE K == {k \in 0 .. n : \A j \in 0 .. k : D[j] \subseteq D[k]}
<1>4. 0 \in K
  BY <1>2
<1>5. ASSUME NEW k \in 0 .. n, k # 0, k - 1 \in K PROVE k \in K
  <2>1. D[k] = D[k - 1] \cup Below(d, D[k - 1]) /\ \A j \in 0 .. (k - 1) : D[j] \subseteq D[k - 1]
    BY <1>3, <1>5
  <2>2. \A j \in 0 .. k : j = k \/ j \in 0 .. (k - 1)
    BY <1>5, <1>2
  <2>3. \A j \in 0 .. k : D[j] \subseteq D[k]
    BY <2>1, <2>2
  <2> QED
    BY <2>3
<1>6. \A k \in 0 .. n : D[k] \subseteq D[n]
  <2>1. \A k \in 0 .. n : k # 0 /\ k - 1 \in K => k \in K
    BY <1>5
  <2> HIDE DEF K
  <2>2. \A k \in 0 .. n : k \in K
    BY <1>2, <1>4, <2>1, Upto
  <2>3. n \in K
    BY <1>2, <2>2
  <2> QED
    BY <2>3 DEF K
<1> QED
  BY <1>3, <1>6 DEF n

LEMMA EntryIn ==
  ASSUME NEW d \in Devs
  PROVE  /\ \A s \in DirsOf(d) : \A x \in Dir(d, s) : x \in EntriesOf(d)
         /\ \A x \in EntriesOf(d) : \E s \in DirsOf(d) : x \in Dir(d, s)
         /\ \A x \in EntriesOf(d) : x \in Infos /\ x.e.spage \in Places /\ x.e.spage \in Starts(d)
         /\ \A s \in DirsOf(d) : s \in Starts(d)
         /\ 0 \in Starts(d) /\ Starts(d) \subseteq Places /\ DirsOf(d) \subseteq Places
<1>1. /\ \A s \in DirsOf(d) : \A x \in Dir(d, s) : x \in EntriesOf(d)
      /\ \A x \in EntriesOf(d) : \E s \in DirsOf(d) : x \in Dir(d, s)
  BY DEF EntriesOf, Dir
<1>2. \A x \in EntriesOf(d) : x \in Infos /\ x.e.spage \in Places /\ x.e.spage \in Starts(d)
  BY EntryType DEF Starts
<1>3. \A s \in DirsOf(d) : s \in Starts(d)
  BY DirsOfType DEF Starts
<1>4. 0 \in Starts(d) /\ Starts(d) \subseteq Places /\ DirsOf(d) \subseteq Places
  BY <1>2, Constants, DirsOfType DEF Starts
<1> QED
  BY <1>1, <1>2, <1>3, <1>4

LEMMA UniqueIs ==
  ASSUME NEW d \in Devs, NEW s \in Places
  PROVE  Unique(Listing(d, Walk(d, s))) <=>
           \A x, y \in Dir(d, s) : x.e.name = y.e.name => x = y
<1> DEFINE list == Listing(d, Walk(d, s))
<1>1. list \in Seq(Infos) /\ NoTwice(list)
  BY ListingIs
<1>2. Dir(d, s) = ToSet(list)
  BY DEF Dir
<1> HIDE DEF list
<1>3. DOMAIN list = 1 .. Len(list)
  BY <1>1
<1>4. ASSUME \A x, y \in ToSet(list) : x.e.name = y.e.name => x = y PROVE Unique(list)
  <2> SUFFICES ASSUME NEW i \in 1 .. Len(list), NEW j \in 1 .. Len(list),
                      list[i].e.name = list[j].e.name
               PROVE  i = j
    BY <1>3 DEF Unique
  <2>1. list[i] \in ToSet(list) /\ list[j] \in ToSet(list)
    BY <1>1, InSet
  <2> QED
    BY <2>1, <1>1, <1>4 DEF NoTwice
<1>5. ASSUME Unique(list), NEW x \in ToSet(list), NEW y \in ToSet(list), x.e.name = y.e.name
      PROVE  x = y
  <2>1. \E i \in 1 .. Len(list) : list[i] = x
    BY <1>1, InSet
  <2>2. \E j \in 1 .. Len(list) : list[j] = y
    BY <1>1, InSet
  <2> QED
    BY <2>1, <2>2, <1>3, <1>5 DEF Unique
<1> QED
  BY <1>2, <1>4, <1>5 DEF list

\* Every name in the directory is there once, and starts a file of its own.
Neat(d, s) ==
  \A x, y \in Dir(d, s) : x.e.name = y.e.name \/ x.e.spage = y.e.spage => x = y
Disjoint(S, T) == S \cap T = {}

\* What Sound says of starts and chains.
Chained(d) ==
  /\ d[0].head = "root" /\ Ends(d, Walk(d, 0))
  /\ \A x \in EntriesOf(d) : Whole(d, x) /\ x.e.spage # 0
  /\ \A s \in DirsOf(d) : Neat(d, s) /\ Bare(d, s)
  /\ \A x, y \in EntriesOf(d) : x.e.spage = y.e.spage => x = y
  /\ \A s, t \in Starts(d) : s # t => Disjoint(ToSet(Walk(d, s)), ToSet(Walk(d, t)))
  /\ \A s \in Starts(d) : ToSet(Walk(d, s)) \subseteq d[0].bm

LEMMA SoundChained ==
  ASSUME NEW d \in Devs, Sound(d)
  PROVE  Chained(d)
<1>1. d[0].head = "root" /\ Ends(d, Walk(d, 0))
  BY DEF Sound
<1>2. Apart(d, EntriesOf(d))
  BY DEF Sound
<1>3. \A x \in EntriesOf(d) : x.e.spage \in Chain(d, x)
  BY EntryIn, ChainHead DEF Chain
<1>4. 0 \in RootChain(d)
  BY ChainHead, Constants DEF RootChain
<1>5. \A x, y \in EntriesOf(d) : x.e.spage = y.e.spage => x = y
  BY <1>2, <1>3 DEF Apart
<1>6. \A x \in EntriesOf(d) : Whole(d, x) /\ x.e.spage # 0
  <2>1. \A x \in EntriesOf(d) : Chain(d, x) \cap RootChain(d) = {}
    BY <1>2 DEF Apart
  <2> QED
    BY <2>1, <1>3, <1>4 DEF Sound
<1>7. \A s \in DirsOf(d) : Neat(d, s) /\ Bare(d, s)
  <2>1. ASSUME NEW s \in DirsOf(d) PROVE Neat(d, s) /\ Bare(d, s)
    <3>1. Unique(Listing(d, Walk(d, s))) /\ Bare(d, s) /\ s \in Places
      BY EntryIn DEF Sound
    <3>2. \A x, y \in Dir(d, s) : x.e.name = y.e.name => x = y
      BY <3>1, UniqueIs
    <3>3. \A x \in Dir(d, s) : x \in EntriesOf(d)
      BY EntryIn
    <3> QED
      BY <3>1, <3>2, <3>3, <1>5 DEF Neat
  <2> QED
    BY <2>1
<1>8. ASSUME NEW s \in Starts(d), NEW t \in Starts(d), s # t
      PROVE  Disjoint(ToSet(Walk(d, s)), ToSet(Walk(d, t)))
  <2>1. s = 0 \/ \E x \in EntriesOf(d) : x.e.spage = s
    BY DEF Starts
  <2>2. t = 0 \/ \E x \in EntriesOf(d) : x.e.spage = t
    BY DEF Starts
  <2>3. /\ \A x, y \in EntriesOf(d) :
             x # y => Disjoint(ToSet(Walk(d, x.e.spage)), ToSet(Walk(d, y.e.spage)))
        /\ \A x \in EntriesOf(d) : Disjoint(ToSet(Walk(d, x.e.spage)), ToSet(Walk(d, 0)))
    BY <1>2 DEF Apart, Chain, RootChain, Disjoint
  <2>4. \A S, T : Disjoint(S, T) => Disjoint(T, S)
    BY DEF Disjoint
  <2> QED
    BY <2>1, <2>2, <2>3, <2>4, <1>8
<1>9. \A s \in Starts(d) : ToSet(Walk(d, s)) \subseteq d[0].bm
  <2>1. \A x \in EntriesOf(d) : ToSet(Walk(d, x.e.spage)) \subseteq d[0].bm
    BY <1>2 DEF Apart, Chain
  <2>2. ToSet(Walk(d, 0)) \subseteq d[0].bm
    BY <1>2 DEF Apart, RootChain
  <2>4. ASSUME NEW s \in Starts(d) PROVE s = 0 \/ \E x \in EntriesOf(d) : x.e.spage = s
    BY DEF Starts
  <2> QED
    BY <2>1, <2>2, <2>4
<1> QED
  BY <1>1, <1>5, <1>6, <1>7, <1>8, <1>9 DEF Chained

LEMMA ChainedSound ==
  ASSUME NEW d \in Devs, Chained(d)
  PROVE  Sound(d)
<1>1. d[0].head = "root" /\ Ends(d, Walk(d, 0)) /\ \A x \in EntriesOf(d) : Whole(d, x)
  BY DEF Chained
<1>2. ASSUME NEW s \in DirsOf(d) PROVE Unique(Listing(d, Walk(d, s))) /\ Bare(d, s)
  <2>1. \A x, y \in Dir(d, s) : x.e.name = y.e.name => x = y
    BY DEF Chained, Neat
  <2>2. s \in Places
    BY EntryIn
  <2>3. Bare(d, s)
    BY DEF Chained
  <2> QED
    BY <2>1, <2>2, <2>3, UniqueIs
<1>3. ASSUME NEW x \in EntriesOf(d), NEW y \in EntriesOf(d), x # y
      PROVE  Chain(d, x) \cap Chain(d, y) = {}
  <2>1. x.e.spage # y.e.spage /\ x.e.spage \in Starts(d) /\ y.e.spage \in Starts(d)
    BY <1>3, EntryIn DEF Chained
  <2> QED
    BY <2>1 DEF Chained, Disjoint, Chain
<1>4. ASSUME NEW x \in EntriesOf(d) PROVE Chain(d, x) \cap RootChain(d) = {}
  <2>1. x.e.spage # 0 /\ x.e.spage \in Starts(d) /\ 0 \in Starts(d)
    BY <1>4, EntryIn DEF Chained
  <2> QED
    BY <2>1 DEF Chained, Disjoint, Chain, RootChain
<1>5. (\A x \in EntriesOf(d) : Chain(d, x) \subseteq d[0].bm) /\ RootChain(d) \subseteq d[0].bm
  BY EntryIn DEF Chained, Chain, RootChain
<1>6. Apart(d, EntriesOf(d))
  BY <1>3, <1>4, <1>5 DEF Apart
<1> QED
  BY <1>1, <1>2, <1>6 DEF Sound

\* All chains come to an end, those of directories in a directory.
LEMMA SoundEnds ==
  ASSUME NEW d \in Devs, Sound(d)
  PROVE  /\ \A s \in DirsOf(d) : IsDir(At(d, s)) /\ Ends(d, Walk(d, s))
         /\ \A s \in Starts(d) : s \in Pages /\ Stops(At(d, Last(Walk(d, s))))
         /\ Live(d) \subseteq d[0].bm /\ Live(d) \subseteq Pages
<1>0. Chained(d)
  BY SoundChained
<1>1. IsDir(At(d, 0)) /\ Ends(d, Walk(d, 0))
  BY <1>0, Constants DEF Chained, At, IsDir
<1>2. ASSUME NEW s \in DirsOf(d) PROVE IsDir(At(d, s)) /\ Ends(d, Walk(d, s))
  <2>1. CASE s = 0
    BY <2>1, <1>1
  <2>2. CASE s # 0
    <3>1. PICK y \in EntriesOf(d) : y.e.name \in Dirs /\ y.e.spage = s
      BY <2>2, DirsOfType
    <3> QED
      BY <3>1, <1>0 DEF Chained, Whole
  <2> QED
    BY <2>1, <2>2
<1>3. \A s \in Places : Ends(d, Walk(d, s)) => Stops(At(d, Last(Walk(d, s))))
  BY DEF Ends, EndsIn, Stops
<1>4. ASSUME NEW s \in Starts(d) PROVE Stops(At(d, Last(Walk(d, s))))
  <2>1. CASE s = 0
    BY <2>1, <1>1, <1>3, Constants
  <2>2. CASE s # 0
    <3>1. PICK x \in EntriesOf(d) : x.e.spage = s
      BY <2>2 DEF Starts
    <3>2. Whole(d, x) /\ s \in Places
      BY <3>1, <1>0, EntryIn DEF Chained
    <3>3. Ends(d, Walk(d, s)) \/ ~Readable(At(d, s))
      BY <3>1, <3>2 DEF Whole
    <3>4. ASSUME ~Readable(At(d, s)) PROVE Stops(At(d, Last(Walk(d, s))))
      <4>1. Stops(At(d, s))
        BY <3>4 DEF Stops
      <4> QED
        BY <4>1, <3>2, WalkOne
    <3> QED
      BY <3>2, <3>3, <3>4, <1>3
  <2> QED
    BY <2>1, <2>2
<1>5. Live(d) \subseteq d[0].bm
  BY <1>0 DEF Chained, Live
<1>6. d[0].bm \subseteq Pages
  <2>1. d[0] \in PageType
    BY Constants DEF Devs
  <2> QED
    BY <2>1, PageFields
<1>7. ASSUME NEW s \in Starts(d) PROVE s \in Pages
  <2>1. s \in ToSet(Walk(d, s))
    BY EntryIn, ChainHead
  <2>2. s \in Live(d)
    BY <2>1 DEF Live
  <2> QED
    BY <2>2, <1>5, <1>6
<1> QED
  BY <1>2, <1>4, <1>5, <1>6, <1>7

----------------------------------------------------------------------------
(* From a sound part to the next: the directory u is edited, and the file or *)
(* directory that starts in q is new, or written again. *)

\* The part e has all of the chain of s as d has it.
Kept(d, e, s) == \A p \in ToSet(Walk(d, s)) : Alike(d, e, p)

\* What starts in q is whole, marked, and of pages that nothing else is in.
Begun(d, e, u, q, x) ==
  /\ Whole(e, x)
  /\ x.e.name \in Dirs => Dir(e, q) = {} /\ Bare(e, q)
  /\ ToSet(Walk(e, q)) \subseteq e[0].bm /\ Disjoint(ToSet(Walk(e, q)), ToSet(Walk(e, u)))
  /\ \A p \in ToSet(Walk(e, q)) : p \in Live(d) => q \in Starts(d) /\ p \in ToSet(Walk(d, q))

\* An entry of the directory as it was, perhaps with another name.
Stays(d, u, x) ==
  \E y \in Dir(d, u) : y.e.spage = x.e.spage /\ (y.e.name \in Dirs <=> x.e.name \in Dirs)

Edited(d, e, u, q) ==
  /\ u \in DirsOf(d) /\ q # 0 /\ q # u /\ e[0].head = "root"
  /\ \A s \in Starts(d) : s # u /\ s # q => Kept(d, e, s)
  /\ IsDir(At(e, u)) /\ Ends(e, Walk(e, u)) /\ ToSet(Walk(e, u)) \subseteq e[0].bm
  /\ \A p \in ToSet(Walk(e, u)) : p \in Live(d) => p \in ToSet(Walk(d, u))
  /\ Live(d) \subseteq e[0].bm
  /\ \A x \in Dir(e, u) : Stays(d, u, x) \/ (x.e.spage = q /\ q \notin Starts(d))
  /\ Neat(e, u) /\ Bare(e, u)
  /\ \A x \in Dir(e, u) \cup EntriesOf(d) : x.e.spage = q => Begun(d, e, u, q, x)

LEMMA KeptSame ==
  ASSUME NEW d \in Devs, NEW e \in Devs, NEW s \in Places, Kept(d, e, s),
         Stops(At(d, Last(Walk(d, s))))
  PROVE  /\ Walk(e, s) = Walk(d, s) /\ Dir(e, s) = Dir(d, s)
         /\ Ends(d, Walk(d, s)) => Ends(e, Walk(e, s))
         /\ Readable(At(d, s)) <=> Readable(At(e, s))
         /\ IsDir(At(d, s)) <=> IsDir(At(e, s))
         /\ Bare(d, s) => Bare(e, s)
         /\ Kept(e, d, s) /\ Stops(At(e, Last(Walk(e, s))))
<1> DEFINE w == Walk(d, s)
<1>1. \A p \in ToSet(w) : /\ Linked(d, e, p) /\ Items(At(d, p)) = Items(At(e, p))
                          /\ IsDir(At(d, p)) <=> IsDir(At(e, p))
  BY AlikeLinked DEF Kept
<1>2. Walk(e, s) = w /\ Stops(At(e, Last(w)))
  BY <1>1, WalkLinked
<1>3. w \in Seq(Places) /\ Len(w) \in Nat \ {0} /\ w[1] = s
  BY WalkType
<1>4. s \in ToSet(w)
  BY ChainHead
<1>5. Kept(e, d, s)
  BY <1>2 DEF Kept, Alike
<1>6. Last(w) \in ToSet(w)
  <2> HIDE DEF w
  <2> QED
    BY <1>3, LastIn
<1> HIDE DEF w
<1>7. Ends(d, w) => Ends(e, w)
  BY <1>1, <1>6 DEF Ends, EndsIn, Linked
<1>8. \A k \in 1 .. Len(w) : Items(At(d, w[k])) = Items(At(e, w[k]))
  BY <1>1, <1>3, InSet
<1>9. \A k \in 1 .. Len(w) : Spots(d, w, k) = Spots(e, w, k)
                             /\ \A j : Entry(d, w, k, j) = Entry(e, w, k, j)
  BY <1>8 DEF Spots, Entry
<1>10. Dir(e, s) = Dir(d, s)
  <2>1. \A x : x \in Dir(d, s) <=> \E k \in 1 .. Len(w) : \E j \in Spots(d, w, k) : x = Entry(d, w, k, j)
    BY ListingIs DEF w
  <2>2. \A x : x \in Dir(e, s) <=> \E k \in 1 .. Len(w) : \E j \in Spots(e, w, k) : x = Entry(e, w, k, j)
    BY <1>2, ListingIs
  <2>3. \A x : x \in Dir(e, s) <=> x \in Dir(d, s)
    BY <2>1, <2>2, <1>9
  <2> QED
    BY <2>3 DEF Dir
<1>11. Bare(d, s) => Bare(e, s)
  BY <1>2 DEF Bare, Kept, Alike, w
<1> QED
  BY <1>1, <1>2, <1>4, <1>5, <1>7, <1>10, <1>11 DEF Linked, w

\* What stands for a file is not touched stands for it again.
LEMMA WholeKept ==
  ASSUME NEW d \in Devs, NEW e \in Devs, NEW x \in Infos, Kept(d, e, x.e.spage),
         Stops(At(d, Last(Walk(d, x.e.spage)))), Whole(d, x)
  PROVE  Whole(e, x)
<1>1. x.e.spage \in Places
  BY DEF Infos, Listed
<1> QED
  BY <1>1, KeptSame DEF Whole

LEMMA DirType ==
  ASSUME NEW d \in Devs, NEW s \in Places, NEW x \in Dir(d, s)
  PROVE  /\ x \in Infos /\ x # NoInfo /\ x.dpage \in ToSet(Walk(d, s))
         /\ x.pdpage \in ToSet(Walk(d, s)) /\ x.e.spage \in Places
         /\ x.pos \in 1 .. Len(Items(d[x.dpage])) /\ x.e = Items(d[x.dpage])[x.pos]
<1>1. x \in Entered(d, Walk(d, s)) /\ x \in Infos /\ x # NoInfo
  BY EnteredType DEF Dir
<1> QED
  BY <1>1 DEF Entered, Infos, Listed

LEMMA EditedDirs ==
  ASSUME NEW d \in Devs, NEW e \in Devs, Sound(d), NEW u, NEW q, Edited(d, e, u, q)
  PROVE  \A s \in DirsOf(e) : s \in DirsOf(d) \/ (s = q /\ Dir(e, q) = {} /\ Bare(e, q))
<1>1. PICK B : Levels(d, B)
  BY DirsOfLevels
<1>2. PICK D : Levels(e, D)
  BY DirsOfLevels
<1> DEFINE n == MaxDepth
<1>3. n \in Nat
  BY FileAssumption
<1>4. /\ B[0] = {0} /\ \A k \in 0 .. n : B[k] \subseteq DirsOf(d)
      /\ \A k \in 0 .. n : k # 0 => B[k] = B[k - 1] \cup Below(d, B[k - 1])
  BY <1>1, LevelsUp DEF Levels
<1>5. /\ D[0] = {0} /\ DirsOf(e) = D[n]
      /\ \A k \in 0 .. n : k # 0 => D[k] = D[k - 1] \cup Below(e, D[k - 1])
  BY <1>2 DEF Levels
<1> HIDE DEF n
<1>6. /\ \A s \in DirsOf(d) : s \in Starts(d) /\ s \in Places
      /\ \A s \in Starts(d) : Stops(At(d, Last(Walk(d, s))))
  BY EntryIn, SoundEnds
<1> DEFINE Old(k, s) == s \in B[k] \/ (s = q /\ Dir(e, q) = {} /\ Bare(e, q))
           K == {k \in 0 .. n : \A s \in D[k] : Old(k, s)}
<1>7. 0 \in K
  BY <1>3, <1>4, <1>5
<1>8. ASSUME NEW k \in 0 .. n, k # 0, k - 1 \in K PROVE k \in K
  <2>1. k - 1 \in 0 .. n /\ \A s \in D[k - 1] : Old(k - 1, s)
    BY <1>8, <1>3
  <2>2. B[k - 1] \subseteq DirsOf(d) /\ B[k] = B[k - 1] \cup Below(d, B[k - 1])
    BY <1>4, <1>8, <2>1
  <2>3. ASSUME NEW s \in Below(e, D[k - 1]) PROVE Old(k, s)
    <3>1. PICK x \in UNION {ToSet(Listing(e, Walk(e, r))) : r \in D[k - 1]} :
            x.e.name \in Dirs /\ x.e.spage = s
      BY <2>3 DEF Below
    <3>2. PICK r \in D[k - 1] : x \in Dir(e, r)
      BY DEF Dir
    <3>3. r \in B[k - 1] /\ r \in DirsOf(d)
      BY <2>1, <2>2, <3>2
    <3>4. r # q
      <4>1. SUFFICES ASSUME r = q PROVE Dir(e, q) = {}
        BY <3>2
      <4>2. PICK y \in EntriesOf(d) : y.e.name \in Dirs /\ y.e.spage = q
        BY <4>1, <3>3, DirsOfType DEF Edited
      <4> QED
        BY <4>2 DEF Edited, Begun
    <3>5. ASSUME NEW y \in Dir(d, r), y.e.name \in Dirs, y.e.spage = s PROVE s \in B[k]
      <4>1. y \in UNION {ToSet(Listing(d, Walk(d, t))) : t \in B[k - 1]}
        BY <3>3 DEF Dir
      <4>2. s \in Below(d, B[k - 1])
        BY <4>1, <3>5 DEF Below
      <4> QED
        BY <4>2, <2>2
    <3>6. CASE r = u
      <4>1. x \in Dir(e, u)
        BY <3>2, <3>6
      <4>2. CASE x.e.spage = q
        BY <4>1, <4>2, <3>1 DEF Edited, Begun
      <4>3. CASE Stays(d, u, x)
        BY <4>3, <3>1, <3>5, <3>6 DEF Stays
      <4> QED
        BY <4>1, <4>2, <4>3 DEF Edited
    <3>7. CASE r # u
      <4>1. Kept(d, e, r)
        BY <3>3, <3>4, <3>7, <1>6 DEF Edited
      <4>2. x \in Dir(d, r)
        BY <4>1, <3>2, <3>3, <1>6, KeptSame
      <4> QED
        BY <4>2, <3>1, <3>5
    <3> QED
      BY <3>6, <3>7
  <2> HIDE DEF Old
  <2>4. \A s \in D[k] : s \in D[k - 1] \/ s \in Below(e, D[k - 1])
    BY <1>5, <1>8
  <2>5. \A s : Old(k - 1, s) => Old(k, s)
    BY <2>2 DEF Old
  <2> QED
    BY <2>1, <2>3, <2>4, <2>5
<1>9. n \in K
  <2>1. \A k \in 0 .. n : k # 0 /\ k - 1 \in K => k \in K
    BY <1>8
  <2> HIDE DEF K
  <2>2. \A k \in 0 .. n : k \in K
    BY <1>3, <1>7, <2>1, Upto
  <2> QED
    BY <2>2, <1>3
<1>10. n \in 0 .. n
  BY <1>3
<1> QED
  BY <1>4, <1>5, <1>9, <1>10

\* The entries of another directory are as they were.
LEMMA EditedEntries ==
  ASSUME NEW d \in Devs, NEW e \in Devs, Sound(d), NEW u, NEW q, Edited(d, e, u, q)
  PROVE  /\ \A x \in EntriesOf(e) : x \in Dir(e, u) \/ (x \in EntriesOf(d) /\ x \notin Dir(d, u))
         /\ \A s \in DirsOf(d) : s # u /\ s # q => Walk(e, s) = Walk(d, s) /\ Dir(e, s) = Dir(d, s)
         /\ \A s \in DirsOf(e) : s = q \/ s \in DirsOf(d)
         /\ \A s \in DirsOf(e) : s = q => Dir(e, q) = {} /\ Bare(e, q)
<1>1. /\ \A s \in DirsOf(d) : s \in Starts(d) /\ s \in Places
      /\ \A s \in Starts(d) : Stops(At(d, Last(Walk(d, s))))
  BY EntryIn, SoundEnds
<1>2. \A s \in DirsOf(e) : s = q \/ s \in DirsOf(d)
  BY EditedDirs
<1>3. ASSUME NEW s \in DirsOf(d), s # u, s # q
      PROVE  Walk(e, s) = Walk(d, s) /\ Dir(e, s) = Dir(d, s)
  <2>1. Kept(d, e, s)
    BY <1>1, <1>3 DEF Edited
  <2> QED
    BY <2>1, <1>1, KeptSame
<1>4. ASSUME NEW x \in EntriesOf(e), NEW s \in DirsOf(e), x \in Dir(e, s), s \in DirsOf(d), s # q
      PROVE  x \in Dir(e, u) \/ (x \in EntriesOf(d) /\ x \notin Dir(d, u))
  <2>1. CASE s = u
    BY <2>1, <1>4
  <2>2. CASE s # u
    <3>1. x \in Dir(d, s) /\ x \in EntriesOf(d)
      BY <2>2, <1>3, <1>4, EntryIn
    <3>a. \A r \in DirsOf(d) : r \in Starts(d) /\ r \in Places
      BY <1>1
    <3>2. x.dpage \in ToSet(Walk(d, s))
      BY <3>1, <3>a, <1>4, DirType
    <3>0. u \in DirsOf(d)
      BY DEF Edited
    <3>3. u \in Starts(d) /\ s \in Starts(d) /\ u \in Places
      BY <3>0, <3>a, <1>4
    <3>4. Disjoint(ToSet(Walk(d, s)), ToSet(Walk(d, u)))
      BY <3>3, <2>2, SoundChained DEF Chained
    <3>5. x \notin Dir(d, u)
      <4>1. SUFFICES ASSUME x \in Dir(d, u) PROVE x.dpage \in ToSet(Walk(d, u))
        BY <3>2, <3>4 DEF Disjoint
      <4> QED
        BY <4>1, <3>3, DirType
    <3> QED
      BY <3>1, <3>5
  <2> QED
    BY <2>1, <2>2
<1>5. ASSUME q \in DirsOf(e) PROVE Dir(e, q) = {} /\ Bare(e, q)
  <2>1. ASSUME q \in DirsOf(d) PROVE Dir(e, q) = {} /\ Bare(e, q)
    <3>1. PICK y \in EntriesOf(d) : y.e.name \in Dirs /\ y.e.spage = q
      BY <2>1, DirsOfType DEF Edited
    <3> QED
      BY <3>1 DEF Edited, Begun
  <2> QED
    BY <2>1, <1>5, EditedDirs
<1>6. \A x \in EntriesOf(e) : x \in Dir(e, u) \/ (x \in EntriesOf(d) /\ x \notin Dir(d, u))
  <2>1. \A x \in EntriesOf(e) : \E s \in DirsOf(e) : x \in Dir(e, s)
    BY EntryIn
  <2> QED
    BY <2>1, <1>2, <1>4, <1>5
<1> QED
  BY <1>2, <1>3, <1>5, <1>6

LEMMA EditedSound ==
  ASSUME NEW d \in Devs, NEW e \in Devs, Sound(d), NEW u, NEW q, Edited(d, e, u, q)
  PROVE  Sound(e)
<1> DEFINE W(s) == ToSet(Walk(e, s))
           V(s) == ToSet(Walk(d, s))
<1>0. Chained(d)
  BY SoundChained
<1>1. /\ \A s \in DirsOf(d) : s \in Starts(d) /\ s \in Places
      /\ \A s \in Starts(d) : s \in Places /\ Stops(At(d, Last(Walk(d, s))))
      /\ 0 \in Starts(d) /\ \A x \in EntriesOf(d) : x \in Infos /\ x.e.spage \in Starts(d)
      /\ \A s \in DirsOf(d) : \A x \in Dir(d, s) : x \in EntriesOf(d)
  BY EntryIn, SoundEnds
<1>2. u \in DirsOf(d) /\ u \in Starts(d) /\ u \in Places /\ q # 0 /\ q # u
  BY <1>1 DEF Edited
<1>3. ASSUME NEW s \in Starts(d), s # u, s # q
      PROVE  Walk(e, s) = Walk(d, s) /\ Kept(d, e, s)
  <2>1. Kept(d, e, s)
    BY <1>3 DEF Edited
  <2> QED
    BY <2>1, <1>1, KeptSame
<1>4. /\ \A x \in EntriesOf(e) : x \in Dir(e, u) \/ (x \in EntriesOf(d) /\ x \notin Dir(d, u))
      /\ \A s \in DirsOf(d) : s # u /\ s # q => Dir(e, s) = Dir(d, s)
      /\ \A s \in DirsOf(e) : s = q \/ s \in DirsOf(d)
      /\ \A s \in DirsOf(e) : s = q => Dir(e, q) = {} /\ Bare(e, q)
  BY EditedEntries
<1>5. \A x \in Dir(e, u) : Stays(d, u, x) \/ (x.e.spage = q /\ q \notin Starts(d))
  BY DEF Edited
<1>6. \A x \in Dir(e, u) \cup EntriesOf(d) : x.e.spage = q => Begun(d, e, u, q, x)
  BY DEF Edited
<1>7. IsDir(At(e, u)) /\ Ends(e, Walk(e, u)) /\ W(u) \subseteq e[0].bm /\ Live(d) \subseteq e[0].bm
      /\ e[0].head = "root" /\ \A p \in W(u) : p \in Live(d) => p \in V(u)
  BY DEF Edited
<1>8. /\ \A x, y \in EntriesOf(d) : x.e.spage = y.e.spage => x = y
      /\ \A x \in EntriesOf(d) : Whole(d, x) /\ x.e.spage # 0
      /\ \A s, t \in Starts(d) : s # t => Disjoint(V(s), V(t))
  BY <1>0 DEF Chained
<1>9. ASSUME NEW y \in EntriesOf(d), y.e.spage # q PROVE Whole(e, y)
  <2>1. CASE y.e.spage # u
    BY <2>1, <1>9, <1>1, <1>3, <1>8, WholeKept
  <2>2. CASE y.e.spage = u
    <3>1. PICK z \in EntriesOf(d) : z.e.name \in Dirs /\ z.e.spage = u
      BY <2>2, <1>2, <1>8, DirsOfType
    <3>2. y.e.name \in Dirs
      BY <3>1, <2>2, <1>8
    <3> QED
      BY <3>2, <2>2, <1>7 DEF Whole
  <2> QED
    BY <2>1, <2>2
<1>10. ASSUME NEW x \in EntriesOf(e) PROVE Whole(e, x) /\ x.e.spage # 0
  <2>1. CASE x.e.spage = q
    <3>1. Begun(d, e, u, q, x)
      BY <2>1, <1>4, <1>6
    <3> QED
      BY <3>1, <2>1, <1>2 DEF Begun
  <2>2. CASE x.e.spage # q /\ x \in EntriesOf(d)
    BY <2>2, <1>8, <1>9
  <2>3. CASE x.e.spage # q /\ x \in Dir(e, u)
    <3>1. PICK y \in Dir(d, u) : y.e.spage = x.e.spage /\ (y.e.name \in Dirs <=> x.e.name \in Dirs)
      BY <2>3, <1>5 DEF Stays
    <3>2. y \in EntriesOf(d)
      BY <1>1, <1>2
    <3>3. Whole(e, y) /\ y.e.spage # 0
      BY <3>1, <3>2, <2>3, <1>8, <1>9
    <3> QED
      BY <3>1, <3>3 DEF Whole
  <2> QED
    BY <2>1, <2>2, <2>3, <1>4
<1>11. ASSUME NEW s \in DirsOf(e) PROVE Neat(e, s) /\ Bare(e, s)
  <2>1. CASE s = u
    BY <2>1 DEF Edited
  <2>2. CASE s = q
    BY <2>2, <1>4, <1>11 DEF Neat
  <2>3. CASE s # u /\ s # q
    <3>1. s \in DirsOf(d) /\ Dir(e, s) = Dir(d, s)
      BY <2>3, <1>4, <1>11
    <3>2. Bare(d, s) /\ Neat(e, s)
      BY <3>1, <1>0 DEF Chained, Neat
    <3>3. Kept(d, e, s) /\ s \in Places /\ Stops(At(d, Last(Walk(d, s))))
      BY <3>1, <2>3, <1>1, <1>3
    <3> QED
      BY <3>2, <3>3, KeptSame
  <2> QED
    BY <2>1, <2>2, <2>3
<1>12. ASSUME NEW x \in EntriesOf(e), NEW y \in EntriesOf(e), x.e.spage = y.e.spage PROVE x = y
  <2>1. CASE x \in Dir(e, u) /\ y \in Dir(e, u)
    BY <2>1, <1>12 DEF Edited, Neat
  <2>2. CASE x \in EntriesOf(d) /\ y \in EntriesOf(d)
    BY <2>2, <1>12, <1>8
  <2>3. ASSUME NEW a \in Dir(e, u), NEW b \in EntriesOf(d), b \notin Dir(d, u) PROVE a.e.spage # b.e.spage
    <3>1. CASE a.e.spage = q /\ q \notin Starts(d)
      BY <3>1, <1>1
    <3>2. CASE Stays(d, u, a)
      <4>1. PICK z \in Dir(d, u) : z.e.spage = a.e.spage
        BY <3>2 DEF Stays
      <4>2. z \in EntriesOf(d)
        BY <1>1, <1>2
      <4> QED
        BY <4>1, <4>2, <2>3, <1>8
    <3> QED
      BY <3>1, <3>2, <1>5
  <2> QED
    BY <2>1, <2>2, <2>3, <1>4, <1>12
<1>13. ASSUME NEW s \in Starts(e)
       PROVE  \/ s = u
              \/ s = q /\ \E x \in Dir(e, u) \cup EntriesOf(d) : x.e.spage = q
              \/ s \in Starts(d) /\ s # u /\ s # q /\ W(s) = V(s)
  <2>1. s = 0 \/ \E x \in EntriesOf(e) : x.e.spage = s
    BY DEF Starts
  <2>2. CASE s = 0
    BY <2>2, <1>1, <1>2, <1>3
  <2>3. ASSUME NEW x \in EntriesOf(e), x.e.spage = s, s # q PROVE s \in Starts(d)
    <3>1. CASE x \in EntriesOf(d)
      BY <3>1, <2>3, <1>1
    <3>2. CASE x \in Dir(e, u)
      <4>1. PICK y \in Dir(d, u) : y.e.spage = x.e.spage
        BY <3>2, <2>3, <1>5 DEF Stays
      <4>2. y \in EntriesOf(d)
        BY <1>1, <1>2
      <4> QED
        BY <4>1, <4>2, <2>3, <1>1
    <3> QED
      BY <3>1, <3>2, <1>4
  <2>4. \A x \in EntriesOf(e) : x \in Dir(e, u) \cup EntriesOf(d)
    BY <1>4
  <2> QED
    BY <2>1, <2>2, <2>3, <2>4, <1>3
<1>14. ASSUME NEW x \in Dir(e, u) \cup EntriesOf(d), x.e.spage = q
       PROVE  /\ W(q) \subseteq e[0].bm /\ Disjoint(W(q), W(u))
              /\ \A s \in Starts(d) : s # q => Disjoint(W(q), V(s))
  <2>1. Begun(d, e, u, q, x)
    BY <1>6, <1>14
  <2>2. W(q) \subseteq e[0].bm /\ Disjoint(W(q), W(u))
        /\ \A p \in W(q) : p \in Live(d) => q \in Starts(d) /\ p \in V(q)
    BY <2>1 DEF Begun
  <2>3. ASSUME NEW s \in Starts(d), s # q, NEW p \in W(q), p \in V(s) PROVE FALSE
    <3>1. p \in Live(d)
      BY <2>3 DEF Live
    <3> QED
      BY <3>1, <2>2, <2>3, <1>8 DEF Disjoint
  <2> QED
    BY <2>2, <2>3 DEF Disjoint
<1>15. ASSUME NEW s \in Starts(d), s # u PROVE Disjoint(W(u), V(s))
  <2> SUFFICES ASSUME NEW p \in W(u), p \in V(s) PROVE FALSE
    BY DEF Disjoint
  <2>1. p \in Live(d)
    BY <1>15 DEF Live
  <2> QED
    BY <2>1, <1>2, <1>7, <1>8, <1>15 DEF Disjoint
<1>16. \A S, T : Disjoint(S, T) => Disjoint(T, S)
  BY DEF Disjoint
<1> HIDE DEF W, V
<1>17. ASSUME NEW s \in Starts(e), NEW t \in Starts(e), s # t PROVE Disjoint(W(s), W(t))
  BY <1>8, <1>13, <1>14, <1>15, <1>16, <1>17
<1>18. ASSUME NEW s \in Starts(e) PROVE W(s) \subseteq e[0].bm
  <2>1. \A t \in Starts(d) : V(t) \subseteq e[0].bm
    BY <1>7 DEF Live, V
  <2> QED
    BY <2>1, <1>7, <1>13, <1>14, <1>18
<1>19. Ends(e, Walk(e, 0))
  <2>1. CASE u = 0
    BY <2>1, <1>7
  <2>2. CASE u # 0
    <3>1. Kept(d, e, 0) /\ Ends(d, Walk(d, 0)) /\ 0 \in Places /\ Stops(At(d, Last(Walk(d, 0))))
      BY <2>2, <1>0, <1>1, <1>2, <1>3 DEF Chained
    <3> QED
      BY <3>1, KeptSame
  <2> QED
    BY <2>1, <2>2
<1>20. Chained(e)
  BY <1>7, <1>10, <1>11, <1>12, <1>17, <1>18, <1>19 DEF Chained, W
<1> QED
  BY <1>20, ChainedSound

----------------------------------------------------------------------------
(* A part that differs only where nothing is reached from the root *)

Alikes(d, e) ==
  /\ Sound(e) /\ DirsOf(e) = DirsOf(d) /\ Starts(e) = Starts(d) /\ EntriesOf(e) = EntriesOf(d)
  /\ Live(e) = Live(d)
  /\ \A s \in Starts(d) : Walk(e, s) = Walk(d, s) /\ Dir(e, s) = Dir(d, s) /\ Kept(d, e, s)

LEMMA AsideEdited ==
  ASSUME NEW d \in Devs, NEW e \in Devs, Sound(d), e[0].head = "root",
         \A s \in Starts(d) : Kept(d, e, s), Live(d) \subseteq e[0].bm
  PROVE  Edited(d, e, 0, Stray + 1)
<1> DEFINE u == 0
           q == Stray + 1
<1>1. /\ u \in DirsOf(d) /\ u \in Starts(d) /\ u \in Places /\ q \notin Places /\ q # u
      /\ \A x \in EntriesOf(d) : x.e.spage \in Places
      /\ \A s \in DirsOf(d) : \A x \in Dir(d, s) : x \in EntriesOf(d)
      /\ Stops(At(d, Last(Walk(d, u)))) /\ IsDir(At(d, u)) /\ Ends(d, Walk(d, u))
  <2>1. u \in DirsOf(d) /\ u \in Starts(d) /\ u \in Places /\ q \notin Places /\ q # u
    BY DirsOfType, EntryIn, Constants DEF Places
  <2> HIDE DEF u, q
  <2> QED
    BY <2>1, EntryIn, SoundEnds
<1>2. Neat(d, u) /\ Bare(d, u)
  BY <1>1, SoundChained DEF Chained
<1> HIDE DEF u, q
<1>3. /\ Walk(e, u) = Walk(d, u) /\ Dir(e, u) = Dir(d, u)
      /\ IsDir(At(e, u)) /\ Ends(e, Walk(e, u)) /\ Bare(e, u)
  BY <1>1, <1>2, KeptSame
<1>4. ToSet(Walk(e, u)) \subseteq e[0].bm
  BY <1>1, <1>3 DEF Live
<1>5. \A x \in Dir(e, u) : Stays(d, u, x)
  BY <1>3 DEF Stays
<1>6. \A x \in Dir(e, u) \cup EntriesOf(d) : x.e.spage # q
  BY <1>1, <1>3
<1>7. Neat(e, u)
  BY <1>2, <1>3 DEF Neat
<1>8. Edited(d, e, u, q)
  BY <1>1, <1>3, <1>4, <1>5, <1>6, <1>7 DEF Edited, u
<1> QED
  BY <1>8 DEF u, q

LEMMA AsideSame ==
  ASSUME NEW d \in Devs, NEW e \in Devs, Sound(d), e[0].head = "root",
         \A s \in Starts(d) : Kept(d, e, s), Live(d) \subseteq e[0].bm
  PROVE  Alikes(d, e)
<1> DEFINE u == 0
           q == Stray + 1
<1>1. Edited(d, e, u, q) /\ q \notin Places
  BY AsideEdited, Constants DEF Places
<1> HIDE DEF u, q
<1>2. Sound(e)
  BY <1>1, EditedSound
<1>3. \A s \in Starts(d) : /\ Walk(e, s) = Walk(d, s) /\ Dir(e, s) = Dir(d, s)
                           /\ Kept(e, d, s)
  <2>1. \A s \in Starts(d) : s \in Places /\ Stops(At(d, Last(Walk(d, s))))
    BY EntryIn, SoundEnds
  <2> QED
    BY <2>1, KeptSame
<1>4. DirsOf(e) \subseteq DirsOf(d)
  <2>1. \A s \in DirsOf(e) : s \in Places
    BY DirsOfType
  <2> QED
    BY <1>1, <2>1, EditedDirs
<1>5. \A s \in DirsOf(d) : s \in Starts(d)
  BY EntryIn
<1>6. \A x \in EntriesOf(e) : x \in EntriesOf(d)
  <2>1. ASSUME NEW x \in EntriesOf(e) PROVE x \in EntriesOf(d)
    <3>1. PICK s \in DirsOf(e) : x \in Dir(e, s)
      BY EntryIn
    <3>2. s \in DirsOf(d) /\ x \in Dir(d, s)
      BY <3>1, <1>3, <1>4, <1>5
    <3> QED
      BY <3>2, EntryIn
  <2> QED
    BY <2>1
<1>7. Starts(e) \subseteq Starts(d)
  BY <1>6 DEF Starts
<1>8. d[0].head = "root"
  BY DEF Sound
<1>9. Live(e) \subseteq Live(d) /\ Live(d) \subseteq d[0].bm
  <2>1. \A p \in Live(e) : \E s \in Starts(e) : p \in ToSet(Walk(e, s))
    BY DEF Live
  <2>2. \A p \in Live(e) : p \in Live(d)
    BY <2>1, <1>3, <1>7 DEF Live
  <2> QED
    BY <2>2, SoundEnds
<1> DEFINE v == 0
           r == Stray + 1
<1>10. Edited(e, d, v, r) /\ r \notin Places
  <2>1. \A s \in Starts(e) : Kept(e, d, s)
    BY <1>3, <1>7
  <2>2. Live(e) \subseteq d[0].bm
    BY <1>9
  <2> QED
    BY <2>1, <2>2, <1>2, <1>8, AsideEdited, Constants DEF Places
<1> HIDE DEF v, r
<1>11. DirsOf(d) \subseteq DirsOf(e)
  <2>1. \A s \in DirsOf(d) : s \in Places
    BY DirsOfType
  <2> QED
    BY <1>2, <1>10, <2>1, EditedDirs
<1>12. \A x \in EntriesOf(d) : x \in EntriesOf(e)
  <2>1. ASSUME NEW x \in EntriesOf(d) PROVE x \in EntriesOf(e)
    <3>1. PICK s \in DirsOf(d) : x \in Dir(d, s)
      BY EntryIn
    <3>2. s \in DirsOf(e) /\ x \in Dir(e, s)
      BY <3>1, <1>3, <1>11, <1>5
    <3> QED
      BY <3>2, EntryIn
  <2> QED
    BY <2>1
<1>13. EntriesOf(e) = EntriesOf(d) /\ DirsOf(e) = DirsOf(d)
  BY <1>4, <1>6, <1>11, <1>12
<1>14. Starts(e) = Starts(d)
  BY <1>13 DEF Starts
<1>15. Live(e) = Live(d)
  <2>1. \A p \in Live(d) : \E s \in Starts(d) : p \in ToSet(Walk(d, s))
    BY DEF Live
  <2>2. \A p \in Live(d) : p \in Live(e)
    BY <2>1, <1>3, <1>14 DEF Live
  <2> QED
    BY <2>2, <1>9
<1> QED
  BY <1>2, <1>3, <1>13, <1>14, <1>15 DEF Alikes

----------------------------------------------------------------------------
(* The entries of a directory by the slots of its pages *)

Headers(page) == IF IsDir(page) THEN 1 ELSE 0

LEMMA SeqWider ==
  ASSUME NEW S, NEW T, S \subseteq T, NEW s \in Seq(S)
  PROVE  s \in Seq(T)
OBVIOUS

LEMMA ConcatAt ==
  ASSUME NEW S, NEW a \in Seq(S), NEW b \in Seq(S)
  PROVE  /\ Len(a \o b) = Len(a) + Len(b)
         /\ \A k \in 1 .. Len(a) + Len(b) : (a \o b)[k] = IF k <= Len(a) THEN a[k] ELSE b[k - Len(a)]
OBVIOUS

LEMMA ItemsIs ==
  ASSUME NEW page \in PageType
  PROVE  /\ Len(Items(page)) = Len(page.slots) + Headers(page)
         /\ Len(page.slots) \in Nat /\ Headers(page) \in {0, 1}
         /\ \A i \in 1 .. Len(page.slots) : Items(page)[i + Headers(page)] = page.slots[i]
         /\ IsDir(page) => Items(page)[1] = Header
<1> DEFINE e == <<>>
           h == <<Header>>
           s == page.slots
           n == Len(s)
<1>1. s \in Seq(Entries)
  BY PageFields
<1>2. Entries \subseteq Listed /\ Header \in Listed
  BY Constants DEF Entries, Listed, Header
<1> HIDE DEF s
<1>a. s \in Seq(Listed)
  BY <1>1, <1>2, SeqWider
<1>3. s \in Seq(Listed) /\ n \in Nat
  BY <1>a
<1>4. h \in Seq(Listed) /\ e \in Seq(Listed) /\ Len(h) = 1 /\ h[1] = Header /\ e \o s = s
  BY <1>2, <1>3
<1>5. Items(page) = IF IsDir(page) THEN h \o s ELSE e \o s
  BY DEF Items, s
<1> HIDE DEF h, e
<1>6. /\ Len(h \o s) = 1 + n
      /\ \A k \in 1 .. 1 + n : (h \o s)[k] = IF k <= 1 THEN h[k] ELSE s[k - 1]
  <2>1. /\ Len(h \o s) = Len(h) + Len(s)
        /\ \A k \in 1 .. Len(h) + Len(s) : (h \o s)[k] = IF k <= Len(h) THEN h[k] ELSE s[k - Len(h)]
    <3>1. h \in Seq(Listed) /\ s \in Seq(Listed)
      BY <1>3, <1>4
    <3> QED
      BY <3>1, ConcatAt
  <2> QED
    BY <2>1, <1>4
<1>7. CASE IsDir(page)
  <2>1. Items(page) = h \o s /\ Headers(page) = 1
    BY <1>5, <1>7 DEF Headers
  <2>2. \A i \in 1 .. n : i + 1 \in 1 .. 1 + n /\ ~(i + 1 <= 1) /\ (i + 1) - 1 = i
    BY <1>3
  <2>3. 1 \in 1 .. 1 + n
    BY <1>3
  <2> HIDE DEF n
  <2>4. \A i \in 1 .. n : (h \o s)[i + 1] = s[i]
    BY <1>6, <2>2
  <2>5. (h \o s)[1] = Header
    BY <1>6, <2>3, <1>4
  <2>6. 1 + n = n + 1
    BY <1>3
  <2> QED
    BY <2>1, <2>4, <2>5, <2>6, <1>3, <1>6 DEF s, n
<1>8. CASE ~IsDir(page)
  <2>1. Items(page) = s /\ Headers(page) = 0
    BY <1>4, <1>5, <1>8 DEF Headers
  <2>2. \A i \in 1 .. n : i + 0 = i
    BY <1>3
  <2>3. n + 0 = n
    BY <1>3
  <2> QED
    BY <2>1, <2>2, <2>3, <1>3, <1>8 DEF s
<1> QED
  BY <1>7, <1>8

\* Only the first page of a directory has a header.
Headed(d, w) == \A k \in 1 .. Len(w) : IsDir(At(d, w[k])) <=> k = 1
Slotted(d, w, k, i) ==
  [e |-> At(d, w[k]).slots[i], dpage |-> w[k], pdpage |-> w[Before(k)],
   pos |-> i + Headers(At(d, w[k]))]

LEMMA SlottedDir ==
  ASSUME NEW d \in Devs, NEW s \in Places, Headed(d, Walk(d, s))
  PROVE  \A x : x \in Dir(d, s) <=>
           \E k \in 1 .. Len(Walk(d, s)) : \E i \in 1 .. Len(At(d, Walk(d, s)[k]).slots) :
             x = Slotted(d, Walk(d, s), k, i)
<1> DEFINE w == Walk(d, s)
<1>1. \A x : x \in Dir(d, s) <=> \E k \in 1 .. Len(w) : \E j \in Spots(d, w, k) : x = Entry(d, w, k, j)
  BY ListingIs
<1>2. Headed(d, w) /\ Len(w) \in Nat
  BY WalkType
<1> HIDE DEF w
<1>3. ASSUME NEW k \in 1 .. Len(w)
      PROVE  /\ \A j \in Spots(d, w, k) : \E i \in 1 .. Len(At(d, w[k]).slots) :
                  Entry(d, w, k, j) = Slotted(d, w, k, i)
             /\ \A i \in 1 .. Len(At(d, w[k]).slots) : \E j \in Spots(d, w, k) :
                  Entry(d, w, k, j) = Slotted(d, w, k, i)
  <2> DEFINE page == At(d, w[k])
             n == Len(page.slots)
             h == Headers(page)
  <2>1. page \in PageType
    BY AtType
  <2>2. /\ Len(Items(page)) = n + h /\ n \in Nat /\ h \in {0, 1}
        /\ \A i \in 1 .. n : Items(page)[i + h] = page.slots[i]
    BY <2>1, ItemsIs
  <2>3. h = IF k = 1 THEN 1 ELSE 0
    BY <1>2 DEF Headed, Headers
  <2>4. Spots(d, w, k) = h + 1 .. n + h
    BY <2>2, <2>3 DEF Spots
  <2>5. \A i \in 1 .. n : Entry(d, w, k, i + h) = Slotted(d, w, k, i)
    BY <2>2 DEF Entry, Slotted
  <2> HIDE DEF n, h
  <2>6. \A j \in h + 1 .. n + h : j - h \in 1 .. n /\ (j - h) + h = j
    BY <2>2
  <2>7. \A i \in 1 .. n : i + h \in h + 1 .. n + h
    BY <2>2
  <2> QED
    BY <2>4, <2>5, <2>6, <2>7 DEF n
<1> QED
  BY <1>1, <1>3 DEF w

\* A directory of a sound part has its only header in its first page.
LEMMA HeadedSound ==
  ASSUME NEW d \in Devs, Sound(d), NEW u \in DirsOf(d)
  PROVE  Headed(d, Walk(d, u))
<1> DEFINE w == Walk(d, u)
<1>1. u \in Places /\ IsDir(At(d, u))
  BY EntryIn, SoundEnds
<1>2. w[1] = u /\ Len(w) \in Nat \ {0}
  BY <1>1, WalkType
<1>3. \A x : x \in Dir(d, u) <=> \E k \in 1 .. Len(w) : \E j \in Spots(d, w, k) : x = Entry(d, w, k, j)
  BY <1>1, ListingIs
<1>4. \A x \in Dir(d, u) : x.e.spage # 0
  BY EntryIn, SoundChained DEF Chained
<1> HIDE DEF w
<1>5. ASSUME NEW k \in 1 .. Len(w), k # 1, IsDir(At(d, w[k])) PROVE FALSE
  <2> DEFINE page == At(d, w[k])
  <2>1. page \in PageType
    BY AtType
  <2>a. Len(Items(page)) = Len(page.slots) + 1 /\ Len(page.slots) \in Nat
        /\ Items(page)[1] = Header
    BY <2>1, <1>5, ItemsIs DEF Headers
  <2>2. Items(page)[1] = Header /\ Len(Items(page)) \in Nat \ {0}
    BY <2>a
  <2>3. 1 \in Spots(d, w, k)
    BY <2>2, <1>5 DEF Spots
  <2>4. Entry(d, w, k, 1) \in Dir(d, u)
    BY <2>3, <1>3
  <2>5. Entry(d, w, k, 1).e.spage = 0
    BY <2>2 DEF Entry, Header
  <2> QED
    BY <2>4, <2>5, <1>4
<1>6. IsDir(At(d, w[1]))
  BY <1>1, <1>2
<1>7. Headed(d, w)
  BY <1>2, <1>5, <1>6 DEF Headed
<1> QED
  BY <1>7 DEF w

----------------------------------------------------------------------------
(* One page of a directory is written *)

\* All pages but p hold the same.
Patched(d, e, p) == \A r \in Places : r # p => Alike(d, e, r)

LEMMA PatchKept ==
  ASSUME NEW d \in Devs, NEW e, Sound(d), NEW u \in Starts(d), NEW p \in ToSet(Walk(d, u)),
         Patched(d, e, p), NEW s \in Starts(d), s # u
  PROVE  Kept(d, e, s)
<1>1. Disjoint(ToSet(Walk(d, s)), ToSet(Walk(d, u)))
  BY SoundChained DEF Chained
<1>2. ToSet(Walk(d, s)) \subseteq Places
  <2>1. ToSet(Walk(d, s)) \subseteq Live(d) /\ Live(d) \subseteq Pages
    BY SoundEnds DEF Live
  <2> QED
    BY <2>1, Constants
<1> QED
  BY <1>1, <1>2 DEF Disjoint, Kept, Patched

LEMMA StartLive ==
  ASSUME NEW d \in Devs, Sound(d), NEW s \in Starts(d)
  PROVE  /\ s \in Live(d) /\ ToSet(Walk(d, s)) \subseteq Live(d)
         /\ Walk(d, s) \in Seq(Places) /\ Len(Walk(d, s)) \in Nat \ {0} /\ Walk(d, s)[1] = s
         /\ NoTwice(Walk(d, s)) /\ \A k \in 1 .. Len(Walk(d, s)) : Walk(d, s)[k] \in ToSet(Walk(d, s))
         /\ \A p \in ToSet(Walk(d, s)) : p \in Pages /\ p \in Places /\ At(d, p) = d[p] /\ d[p] \in PageType
<1>1. s \in Places
  BY EntryIn
<1>2. s \in ToSet(Walk(d, s)) /\ ToSet(Walk(d, s)) \subseteq Live(d)
  BY <1>1, ChainHead DEF Live
<1>3. /\ Walk(d, s) \in Seq(Places) /\ Len(Walk(d, s)) \in Nat \ {0} /\ Walk(d, s)[1] = s
      /\ NoTwice(Walk(d, s))
  BY <1>1, WalkPath, PathFields
<1>4. \A p \in Live(d) : p \in Pages /\ p \in Places /\ At(d, p) = d[p] /\ d[p] \in PageType
  BY SoundEnds, Constants, AtType
<1>5. \A k \in 1 .. Len(Walk(d, s)) : Walk(d, s)[k] \in ToSet(Walk(d, s))
  BY <1>3, InSet
<1> QED
  BY <1>2, <1>3, <1>4, <1>5

\* No page of a directory is a file's.
LEMMA PageBare ==
  ASSUME NEW d \in Devs, Sound(d), NEW u \in DirsOf(d), NEW p \in ToSet(Walk(d, u))
  PROVE  d[p].data = <<>> /\ At(d, p) = d[p]
<1>1. At(d, p) = d[p]
  BY EntryIn, StartLive
<1>2. Bare(d, u)
  BY SoundChained DEF Chained
<1> QED
  BY <1>1, <1>2 DEF Bare

\* What is to be the file or directory name in e, and has no page of d.
Fresh(d, e, q, name) ==
  /\ \A p \in ToSet(Walk(e, q)) : p \notin Live(d) /\ p \in e[0].bm
  /\ name \in Dirs => IsDir(At(e, q)) /\ Ends(e, Walk(e, q)) /\ Dir(e, q) = {} /\ Bare(e, q)
  /\ name \notin Dirs => Ends(e, Walk(e, q)) \/ ~Readable(At(e, q))

LEMMA FreshStart ==
  ASSUME NEW d \in Devs, Sound(d), NEW e \in Devs, NEW q \in Places, NEW name, Fresh(d, e, q, name)
  PROVE  q \notin Live(d) /\ q \notin Starts(d) /\ q # 0
<1>1. q \notin Live(d)
  BY ChainHead DEF Fresh
<1> QED
  BY <1>1, StartLive, EntryIn

\* The slots S of a page come from D: which one each comes from, 0 for a new
\* one.  At most one has a name of its own.
Traced(d, u, D, S, o, nm, q) ==
  /\ o \in [1 .. Len(S) -> 0 .. Len(D)]
  /\ \A i, j \in 1 .. Len(S) : o[i] = o[j] => i = j
  /\ \A i \in 1 .. Len(S) :
       o[i] # 0 => S[i].spage = D[o[i]].spage /\ (S[i].name \in Dirs <=> D[o[i]].name \in Dirs)
  /\ \A i \in 1 .. Len(S) : o[i] = 0 => S[i].spage = q /\ q \notin Starts(d)
  /\ \A i \in 1 .. Len(S) : \/ o[i] # 0 /\ S[i].name = D[o[i]].name
                            \/ S[i].name = nm /\ \A y \in Dir(d, u) : y.e.name # nm
  /\ \A i, j \in 1 .. Len(S) :
       S[i].name = nm /\ S[j].name = nm /\ (\A y \in Dir(d, u) : y.e.name # nm) => i = j

\* The entries that come from none start at q, which is fresh for each of them.
AllFresh(d, e, S, o, q) ==
  \A i \in 1 .. Len(S) : o[i] = 0 => q \in Places /\ Fresh(d, e, q, S[i].name)

LEMMA SlotsSound ==
  ASSUME NEW d \in Devs, NEW e \in Devs, Sound(d), NEW u \in DirsOf(d),
         NEW p \in ToSet(Walk(d, u)), Patched(d, e, p),
         e[p].head = d[p].head, e[p].next = d[p].next, e[p].data = d[p].data,
         e[0].head = "root", Live(d) \subseteq e[0].bm,
         NEW o, NEW nm, NEW q, q # 0, q # u,
         Traced(d, u, d[p].slots, e[p].slots, o, nm, q),
         AllFresh(d, e, e[p].slots, o, q),
         q \notin Starts(d)
  PROVE  Sound(e) /\ Edited(d, e, u, q) /\ Walk(e, u) = Walk(d, u)
<1> DEFINE w == Walk(d, u)
<1>1. u \in Starts(d) /\ u \in Places
  BY EntryIn
<1>2. /\ w \in Seq(Places) /\ Len(w) \in Nat \ {0} /\ NoTwice(w) /\ w[1] = u
      /\ \A k \in 1 .. Len(w) : w[k] \in ToSet(w)
      /\ \A r \in ToSet(w) : r \in Pages /\ r \in Places /\ r \in Live(d)
  BY <1>1, StartLive
<1>3. p \in Pages /\ At(d, p) = d[p] /\ At(e, p) = e[p]
  BY <1>2, AtType
<1>4. \A r \in ToSet(w) : Linked(d, e, r) /\ At(d, r).head = At(e, r).head
                          /\ At(d, r).data = At(e, r).data
                          /\ (r # p => At(d, r).slots = At(e, r).slots)
  BY <1>2, <1>3 DEF Linked, Patched, Alike, Readable
<1>5. Stops(At(d, Last(w))) /\ IsDir(At(d, u)) /\ Ends(d, w)
  BY <1>1, SoundEnds
<1>6. Walk(e, u) = w
  BY <1>1, <1>4, <1>5, WalkLinked
<1>7. Last(w) \in ToSet(w) /\ u \in ToSet(w)
  <2>1. u \in ToSet(w)
    BY <1>1, ChainHead
  <2> HIDE DEF w
  <2> QED
    BY <1>2, <2>1, LastIn
<1>8. IsDir(At(e, u)) /\ Ends(e, w)
  BY <1>4, <1>5, <1>7 DEF IsDir, Ends, EndsIn, Linked
<1>9. Headed(d, w)
  BY HeadedSound
<1>10. Headed(e, w) /\ \A k \in 1 .. Len(w) : Headers(At(e, w[k])) = Headers(At(d, w[k]))
  BY <1>2, <1>4, <1>9 DEF Headed, Headers, IsDir
<1>11. PICK m \in 1 .. Len(w) : w[m] = p
  <2> HIDE DEF w
  <2> QED
    BY <1>2, InSet DEF w
<1>12. /\ \A x : x \in Dir(d, u) <=> \E k \in 1 .. Len(w) : \E i \in 1 .. Len(At(d, w[k]).slots) :
                                       x = Slotted(d, w, k, i)
       /\ \A x : x \in Dir(e, u) <=> \E k \in 1 .. Len(w) : \E i \in 1 .. Len(At(e, w[k]).slots) :
                                       x = Slotted(e, w, k, i)
  BY <1>1, <1>6, <1>9, <1>10, SlottedDir
<1> HIDE DEF w
<1> DEFINE S == e[p].slots
           D == d[p].slots
           O(k, i) == IF k = m THEN o[i] ELSE i
           N(k) == 1 .. Len(At(e, w[k]).slots)
           None == ~ \E y \in Dir(d, u) : y.e.name = nm
<1>13. \A k \in 1 .. Len(w) : k # m => At(d, w[k]).slots = At(e, w[k]).slots
  BY <1>2, <1>4, <1>11 DEF NoTwice
<1>14. /\ o \in [1 .. Len(S) -> 0 .. Len(D)]
       /\ \A i, j \in 1 .. Len(S) : o[i] = o[j] => i = j
       /\ \A i \in 1 .. Len(S) :
            o[i] # 0 => S[i].spage = D[o[i]].spage /\ (S[i].name \in Dirs <=> D[o[i]].name \in Dirs)
       /\ \A i \in 1 .. Len(S) : o[i] = 0 => S[i].spage = q
       /\ \A i \in 1 .. Len(S) : (o[i] # 0 /\ S[i].name = D[o[i]].name) \/ (S[i].name = nm /\ None)
       /\ \A i, j \in 1 .. Len(S) : S[i].name = nm /\ S[j].name = nm /\ None => i = j
  BY DEF Traced
<1>15. At(e, w[m]).slots = S /\ At(d, w[m]).slots = D
  BY <1>3, <1>11
<1>16. \A k \in 1 .. Len(w) : Len(At(d, w[k]).slots) \in Nat
  BY AtType, ItemsIs
\* What an entry comes from.
<1> DEFINE Src(k, i) == Slotted(d, w, k, O(k, i))
<1>17. ASSUME NEW k \in 1 .. Len(w), NEW i \in N(k), O(k, i) # 0
       PROVE  /\ Src(k, i) \in Dir(d, u)
              /\ Src(k, i).e.spage = Slotted(e, w, k, i).e.spage
              /\ Src(k, i).e.name \in Dirs <=> Slotted(e, w, k, i).e.name \in Dirs
              /\ O(k, i) \in Nat
  <2>1. CASE k = m
    <3>1. i \in 1 .. Len(S) /\ o[i] # 0
      BY <2>1, <1>15, <1>17
    <3>2. o[i] \in 1 .. Len(D) /\ o[i] \in Nat /\ S[i].spage = D[o[i]].spage
          /\ (S[i].name \in Dirs <=> D[o[i]].name \in Dirs)
      <4>1. Len(D) \in Nat
        BY <1>15, <1>16
      <4> HIDE DEF S, D
      <4> QED
        BY <3>1, <4>1, <1>14
    <3>3. Slotted(d, w, k, o[i]) \in Dir(d, u)
      BY <2>1, <3>2, <1>12, <1>15
    <3>4. Slotted(e, w, k, i).e = S[i] /\ Slotted(d, w, k, o[i]).e = D[o[i]]
      BY <2>1, <1>15 DEF Slotted
    <3>5. O(k, i) = o[i]
      BY <2>1
    <3> HIDE DEF S, D, O
    <3> QED
      BY <3>2, <3>3, <3>4, <3>5
  <2>2. CASE k # m
    <3>1. O(k, i) = i /\ i \in 1 .. Len(At(d, w[k]).slots) /\ i \in Nat
      BY <2>2, <1>13, <1>16
    <3>2. Slotted(d, w, k, i) \in Dir(d, u)
      BY <3>1, <1>12
    <3>3. Slotted(e, w, k, i).e = Slotted(d, w, k, i).e
      BY <2>2, <1>13 DEF Slotted
    <3> QED
      BY <3>1, <3>2, <3>3
  <2> QED
    BY <2>1, <2>2
<1>18. ASSUME NEW k \in 1 .. Len(w), NEW i \in N(k)
       PROVE  /\ O(k, i) = 0 => k = m /\ i \in 1 .. Len(S) /\ o[i] = 0 /\ Slotted(e, w, k, i).e.spage = q
              /\ \/ O(k, i) # 0 /\ Src(k, i).e.name = Slotted(e, w, k, i).e.name
                 \/ k = m /\ i \in 1 .. Len(S) /\ S[i].name = nm /\ None /\ Slotted(e, w, k, i).e.name = nm
  <2>1. CASE k = m
    <3>1. i \in 1 .. Len(S) /\ O(k, i) = o[i]
      BY <2>1, <1>15
    <3>2. Slotted(e, w, k, i).e = S[i] /\ Slotted(d, w, k, o[i]).e = D[o[i]]
      BY <2>1, <1>15 DEF Slotted
    <3> HIDE DEF S, D, O, None
    <3> QED
      BY <2>1, <3>1, <3>2, <1>14
  <2>2. CASE k # m
    <3>1. O(k, i) = i /\ i # 0
      BY <2>2, <1>13, <1>16
    <3>2. Slotted(e, w, k, i).e = Slotted(d, w, k, i).e
      BY <2>2, <1>13 DEF Slotted
    <3> QED
      BY <3>1, <3>2
  <2> QED
    BY <2>1, <2>2
<1>19. Neat(d, u)
  BY SoundChained DEF Chained
<1>20. ASSUME NEW k \in 1 .. Len(w), NEW i \in N(k), NEW l \in 1 .. Len(w), NEW j \in N(l),
              O(k, i) # 0, O(l, j) # 0, Src(k, i) = Src(l, j)
       PROVE  k = l /\ i = j
  <2>1. w[k] = w[l] /\ O(k, i) + Headers(At(d, w[k])) = O(l, j) + Headers(At(d, w[l]))
    BY <1>20 DEF Slotted
  <2>2. k = l
    BY <2>1, <1>2 DEF NoTwice
  <2>3. O(k, i) \in Nat /\ O(l, j) \in Nat /\ Headers(At(d, w[k])) \in Nat
    BY <1>17, <1>20 DEF Headers
  <2>4. O(k, i) = O(k, j)
    <3> HIDE DEF O
    <3> QED
      BY <2>1, <2>2, <2>3
  <2>5. k = m => o[i] = o[j] /\ i \in 1 .. Len(S) /\ j \in 1 .. Len(S)
    BY <2>2, <2>4, <1>15
  <2>6. k # m => i = j
    BY <2>4
  <2> HIDE DEF S, D, O
  <2> QED
    BY <2>2, <2>5, <2>6, <1>14
<1>21. ASSUME NEW k \in 1 .. Len(w), NEW i \in N(k), NEW l \in 1 .. Len(w), NEW j \in N(l),
              Slotted(e, w, k, i).e.spage = Slotted(e, w, l, j).e.spage
       PROVE  k = l /\ i = j
  <2>0. \A y \in Dir(d, u) : y.e.spage \in Starts(d)
    BY EntryIn
  <2>1. CASE O(k, i) # 0 /\ O(l, j) # 0
    <3>1. Src(k, i) \in Dir(d, u) /\ Src(l, j) \in Dir(d, u) /\ Src(k, i).e.spage = Src(l, j).e.spage
      BY <2>1, <1>17, <1>21
    <3>2. Src(k, i) = Src(l, j)
      BY <3>1, <1>19 DEF Neat
    <3> QED
      BY <2>1, <3>2, <1>20
  <2>2. CASE O(k, i) = 0 /\ O(l, j) = 0
    <3>1. k = m /\ l = m /\ i \in 1 .. Len(S) /\ j \in 1 .. Len(S) /\ o[i] = 0 /\ o[j] = 0
      BY <2>2, <1>18
    <3> HIDE DEF S, D, O
    <3> QED
      BY <3>1, <1>14
  <2>3. CASE O(k, i) = 0 /\ O(l, j) # 0
    BY <2>0, <2>3, <1>17, <1>18, <1>21
  <2>4. CASE O(k, i) # 0 /\ O(l, j) = 0
    BY <2>0, <2>4, <1>17, <1>18, <1>21
  <2> QED
    BY <2>1, <2>2, <2>3, <2>4
<1>22. ASSUME NEW k \in 1 .. Len(w), NEW i \in N(k), NEW l \in 1 .. Len(w), NEW j \in N(l),
              Slotted(e, w, k, i).e.name = Slotted(e, w, l, j).e.name
       PROVE  k = l /\ i = j
  <2> DEFINE Old(a, b) == O(a, b) # 0 /\ Src(a, b).e.name = Slotted(e, w, a, b).e.name
             New(a, b) == a = m /\ b \in 1 .. Len(S) /\ S[b].name = nm /\ None /\ Slotted(e, w, a, b).e.name = nm
  <2>1. (Old(k, i) \/ New(k, i)) /\ (Old(l, j) \/ New(l, j))
    BY <1>18
  <2>2. CASE Old(k, i) /\ Old(l, j)
    <3>1. Src(k, i) \in Dir(d, u) /\ Src(l, j) \in Dir(d, u) /\ Src(k, i).e.name = Src(l, j).e.name
      BY <2>2, <1>17, <1>22
    <3>2. Src(k, i) = Src(l, j)
      BY <3>1, <1>19 DEF Neat
    <3> QED
      BY <2>2, <3>2, <1>20
  <2>3. CASE New(k, i) /\ New(l, j)
    <3> HIDE DEF S, D, O, None
    <3> QED
      BY <2>3, <1>14
  <2>4. CASE Old(k, i) /\ New(l, j)
    BY <2>4, <1>17, <1>22
  <2>5. CASE New(k, i) /\ Old(l, j)
    BY <2>5, <1>17, <1>22
  <2> QED
    BY <2>1, <2>2, <2>3, <2>4, <2>5
<1> HIDE DEF O, S, D, None
<1>23. Neat(e, u)
  <2> SUFFICES ASSUME NEW x \in Dir(e, u), NEW y \in Dir(e, u),
                      x.e.name = y.e.name \/ x.e.spage = y.e.spage
               PROVE  x = y
    BY DEF Neat
  <2>1. PICK k \in 1 .. Len(w) : \E i \in N(k) : x = Slotted(e, w, k, i)
    BY <1>12
  <2>2. PICK l \in 1 .. Len(w) : \E j \in N(l) : y = Slotted(e, w, l, j)
    BY <1>12
  <2>3. PICK i \in N(k) : x = Slotted(e, w, k, i)
    BY <2>1
  <2>4. PICK j \in N(l) : y = Slotted(e, w, l, j)
    BY <2>2
  <2>5. \/ Slotted(e, w, k, i).e.name = Slotted(e, w, l, j).e.name
        \/ Slotted(e, w, k, i).e.spage = Slotted(e, w, l, j).e.spage
    BY <2>3, <2>4
  <2>6. k = l /\ i = j
    BY <2>5, <1>21, <1>22
  <2> QED
    BY <2>3, <2>4, <2>6
<1>24. ASSUME NEW x \in Dir(e, u) PROVE Stays(d, u, x) \/ x.e.spage = q
  <2>1. PICK k \in 1 .. Len(w) : \E i \in N(k) : x = Slotted(e, w, k, i)
    BY <1>12
  <2>2. PICK i \in N(k) : x = Slotted(e, w, k, i)
    BY <2>1
  <2>3. CASE O(k, i) = 0
    BY <2>2, <2>3, <1>18
  <2>4. CASE O(k, i) # 0
    BY <2>2, <2>4, <1>17 DEF Stays
  <2> QED
    BY <2>3, <2>4
<1>25. ASSUME NEW x \in Dir(e, u), x.e.spage = q PROVE Begun(d, e, u, q, x)
  <2>1. q \in Places /\ Fresh(d, e, q, x.e.name)
    <3>1. PICK k \in 1 .. Len(w) : \E i \in N(k) : x = Slotted(e, w, k, i)
      BY <1>12
    <3>2. PICK i \in N(k) : x = Slotted(e, w, k, i)
      BY <3>1
    <3>3. O(k, i) = 0
      BY <3>2, <1>17, <1>25, EntryIn
    <3>4. k = m /\ i \in 1 .. Len(S) /\ o[i] = 0
      BY <3>3, <1>18
    <3>5. x.e = S[i]
      BY <3>2, <3>4, <1>15 DEF Slotted
    <3> QED
      BY <3>4, <3>5 DEF S, AllFresh
  <2>2. Disjoint(ToSet(Walk(e, q)), ToSet(Walk(e, u)))
    BY <2>1, <1>2, <1>6 DEF Disjoint, Fresh
  <2>3. Whole(e, x)
    BY <2>1, <1>25 DEF Fresh, Whole
  <2> QED
    BY <2>1, <2>2, <2>3 DEF Begun, Fresh
<1>26. \A x \in EntriesOf(d) : x.e.spage # q
  BY EntryIn
<1>27. \A s \in Starts(d) : s # u /\ s # q => Kept(d, e, s)
  BY <1>1, PatchKept
<1>28. ToSet(w) \subseteq e[0].bm
  BY <1>2
<1>a. Bare(e, u)
  <2>1. Bare(d, u)
    BY SoundChained DEF Chained
  <2> QED
    BY <2>1, <1>4, <1>6 DEF Bare, w
<1>29. Edited(d, e, u, q)
  BY <1>2, <1>6, <1>8, <1>23, <1>24, <1>25, <1>26, <1>27, <1>28, <1>a DEF Edited, w
<1> QED
  BY <1>6, <1>29, EditedSound DEF w

----------------------------------------------------------------------------
(* What a written page makes of a sound part *)

LEMMA AliveSame ==
  ASSUME NEW d \in Devs, NEW e \in Devs, Sound(d), e[0].head = "root",
         \A p \in Live(d) : Alike(d, e, p), Live(d) \subseteq e[0].bm
  PROVE  Alikes(d, e)
<1>1. \A s \in Starts(d) : ToSet(Walk(d, s)) \subseteq Live(d)
  BY DEF Live
<1>2. \A s \in Starts(d) : Kept(d, e, s)
  BY <1>1 DEF Kept
<1> QED
  BY <1>2, AsideSame

LEMMA AlikesThen ==
  ASSUME NEW d \in Devs, NEW e \in Devs, NEW f \in Devs, Alikes(d, e), Alikes(e, f)
  PROVE  Alikes(d, f)
<1>1. \A s \in Starts(d) : Walk(f, s) = Walk(d, s) /\ Dir(f, s) = Dir(d, s) /\ Kept(d, f, s)
  BY DEF Alikes, Kept, Alike
<1> QED
  BY <1>1 DEF Alikes

\* A page that nothing leads to, or a bitmap with all that is in use.
LEMMA AsideWrite ==
  ASSUME NEW d \in Devs, Sound(d), NEW p \in Pages, NEW page \in PageType,
         p \in Live(d) => /\ page.head = d[p].head /\ page.slots = d[p].slots
                          /\ page.data = d[p].data /\ page.next = d[p].next,
         p = 0 => Live(d) \subseteq page.bm
  PROVE  [d EXCEPT ![p] = page] \in Devs /\ Alikes(d, [d EXCEPT ![p] = page])
<1> DEFINE e == [d EXCEPT ![p] = page]
<1>1. e \in Devs /\ e[p] = page /\ \A r \in Pages : r # p => e[r] = d[r]
  BY DEF Devs
<1>2. Live(d) \subseteq d[0].bm /\ Live(d) \subseteq Pages /\ d[0].head = "root" /\ 0 \in Pages
  BY SoundEnds, Constants DEF Sound
<1>3. 0 \in Live(d)
  BY StartLive, EntryIn
<1>4. e[0].head = "root" /\ Live(d) \subseteq e[0].bm
  BY <1>1, <1>2, <1>3
<1> HIDE DEF e
<1>5. \A r \in Live(d) : Alike(d, e, r)
  <2>1. \A r \in Live(d) : At(d, r) = d[r] /\ At(e, r) = e[r]
    BY <1>1, <1>2, AtType
  <2> QED
    BY <1>1, <1>2, <2>1 DEF Alike
<1>6. Alikes(d, e)
  BY <1>1, <1>4, <1>5, AliveSame
<1> QED
  BY <1>1, <1>6 DEF e

\* What starts in q may become the file or directory name, if bm is written.
New(d, bm, q, name) ==
  /\ q \in Pages /\ \A p \in ToSet(Walk(d, q)) : p \notin Live(d) /\ p \in bm
  /\ name \in Dirs => IsDir(At(d, q)) /\ Ends(d, Walk(d, q)) /\ Dir(d, q) = {} /\ Bare(d, q)
  /\ name \notin Dirs => Ends(d, Walk(d, q)) \/ ~Readable(At(d, q))

LEMMA NewFresh ==
  ASSUME NEW d \in Devs, NEW e \in Devs, NEW bm, NEW q, NEW name, New(d, bm, q, name),
         \A p \in ToSet(Walk(d, q)) : Alike(d, e, p), bm \subseteq e[0].bm
  PROVE  /\ q \in Places /\ Fresh(d, e, q, name)
         /\ Walk(e, q) = Walk(d, q) /\ New(d, e[0].bm, q, name)
<1>1. q \in Places
  BY Constants DEF New
<1>2. name \in Dirs \/ name \notin Dirs
  OBVIOUS
<1>3. Stops(At(d, Last(Walk(d, q))))
  <2>1. CASE Ends(d, Walk(d, q))
    BY <2>1 DEF Ends, EndsIn, Stops
  <2>2. CASE ~Readable(At(d, q))
    BY <2>2, <1>1, WalkOne DEF Stops
  <2> QED
    BY <2>1, <2>2, <1>2 DEF New
<1>4. /\ Walk(e, q) = Walk(d, q) /\ Dir(e, q) = Dir(d, q)
      /\ Ends(d, Walk(d, q)) => Ends(e, Walk(e, q))
      /\ Readable(At(d, q)) <=> Readable(At(e, q))
      /\ IsDir(At(d, q)) <=> IsDir(At(e, q))
      /\ Bare(d, q) => Bare(e, q)
  BY <1>1, <1>3, KeptSame DEF Kept
<1> QED
  BY <1>1, <1>4 DEF New, Fresh

LEMMA NewStart ==
  ASSUME NEW d \in Devs, Sound(d), NEW bm, NEW q, NEW name, New(d, bm, q, name)
  PROVE  q \notin Live(d) /\ q \notin Starts(d) /\ q # 0 /\ q \in Places /\ q \in bm
<1>1. q \in Places
  BY Constants DEF New
<1>2. q \notin Live(d) /\ q \in bm
  BY <1>1, ChainHead DEF New
<1> QED
  BY <1>1, <1>2, StartLive, EntryIn

\* An entry is put behind the others in a page (AddIn).
LEMMA AddSlotSound ==
  ASSUME NEW d \in Devs, NEW e \in Devs, Sound(d), NEW u \in DirsOf(d),
         NEW p \in ToSet(Walk(d, u)), Patched(d, e, p),
         e[p].head = d[p].head, e[p].next = d[p].next, e[p].data = d[p].data,
         e[0].head = "root", Live(d) \subseteq e[0].bm,
         NEW entry \in Entries, e[p].slots = Append(d[p].slots, entry),
         \A y \in Dir(d, u) : y.e.name # entry.name,
         New(d, e[0].bm, entry.spage, entry.name)
  PROVE  Sound(e)
<1> DEFINE S == e[p].slots
           D == d[p].slots
           n == Len(D)
           q == entry.spage
           nm == entry.name
           o == [i \in 1 .. Len(S) |-> IF i = n + 1 THEN 0 ELSE i]
<1>1. u \in Starts(d) /\ u \in Places /\ p \in Live(d) /\ p \in Pages /\ d[p] \in PageType
  BY EntryIn, StartLive
<1>2. D \in Seq(Entries) /\ n \in Nat
  BY <1>1, PageFields, ItemsIs
<1>3. Len(S) = n + 1 /\ S[n + 1] = entry /\ \A i \in 1 .. n : S[i] = D[i]
  BY <1>2
<1>4. q \notin Live(d) /\ q \notin Starts(d) /\ q # 0 /\ q \in Places
  BY NewStart
<1>5. q # u
  BY <1>1, <1>4
<1>6. \A r \in ToSet(Walk(d, q)) : Alike(d, e, r)
  <2>1. ToSet(Walk(d, q)) \subseteq Places
    <3>1. Walk(d, q) \in Seq(Places) /\ \A k \in 1 .. Len(Walk(d, q)) : Walk(d, q)[k] \in Places
      BY <1>4, WalkType
    <3> QED
      BY <3>1, InSet
  <2>2. \A r \in ToSet(Walk(d, q)) : r # p
    BY <1>1 DEF New
  <2> QED
    BY <2>1, <2>2 DEF Patched
<1>7. Fresh(d, e, q, nm)
  BY <1>6, NewFresh
<1>8. Traced(d, u, D, S, o, nm, q)
  <2>1. o \in [1 .. Len(S) -> 0 .. Len(D)]
    BY <1>2, <1>3
  <2>2. \A i, j \in 1 .. Len(S) : o[i] = o[j] => i = j
    BY <1>2, <1>3
  <2>3. \A i \in 1 .. Len(S) : o[i] # 0 => S[i] = D[o[i]]
    BY <1>2, <1>3
  <2>4. \A i \in 1 .. Len(S) : o[i] = 0 => S[i] = entry
    BY <1>2, <1>3
  <2>5. \A i, j \in 1 .. Len(S) :
          S[i].name = nm /\ S[j].name = nm /\ (\A y \in Dir(d, u) : y.e.name # nm) => i = j
    <3>1. \A i \in 1 .. n : \E y \in Dir(d, u) : y.e = D[i]
      <4>1. PICK m \in 1 .. Len(Walk(d, u)) : Walk(d, u)[m] = p
        BY <1>1, StartLive, InSet
      <4>2. Headed(d, Walk(d, u))
        BY HeadedSound
      <4>3. At(d, Walk(d, u)[m]).slots = D
        BY <4>1, <1>1, AtType
      <4>4. \A i \in 1 .. n : Slotted(d, Walk(d, u), m, i) \in Dir(d, u)
        BY <1>1, <4>2, <4>3, SlottedDir
      <4>5. \A i \in 1 .. n : Slotted(d, Walk(d, u), m, i).e = D[i]
        BY <4>3 DEF Slotted
      <4> QED
        BY <4>4, <4>5
    <3>2. \A i \in 1 .. n : S[i].name # nm
      BY <3>1, <1>3
    <3> HIDE DEF S, D, nm
    <3>3. \A i \in 1 .. Len(S) : S[i].name = nm => i = n + 1
      BY <3>2, <1>2, <1>3
    <3> QED
      BY <3>3
  <2> HIDE DEF o, S, D
  <2> QED
    BY <2>1, <2>2, <2>3, <2>4, <2>5, <1>4 DEF Traced
<1>9. AllFresh(d, e, S, o, q)
  <2>1. \A i \in 1 .. Len(S) : o[i] = 0 => S[i] = entry
    BY <1>2, <1>3
  <2> HIDE DEF o, S
  <2> QED
    BY <2>1, <1>4, <1>7 DEF AllFresh
<1> HIDE DEF o, q, nm
<1> QED
  BY <1>4, <1>5, <1>8, <1>9, SlotsSound

\* What is in a page of a directory is an entry of it.
LEMMA SlotIn ==
  ASSUME NEW d \in Devs, Sound(d), NEW u \in DirsOf(d), NEW p \in ToSet(Walk(d, u)),
         NEW i \in 1 .. Len(d[p].slots)
  PROVE  \E y \in Dir(d, u) : y.e = d[p].slots[i]
<1>1. u \in Starts(d) /\ u \in Places /\ p \in Pages
  BY EntryIn, StartLive
<1>2. PICK m \in 1 .. Len(Walk(d, u)) : Walk(d, u)[m] = p
  BY <1>1, StartLive, InSet
<1>3. Headed(d, Walk(d, u))
  BY HeadedSound
<1>4. At(d, Walk(d, u)[m]).slots = d[p].slots
  BY <1>1, <1>2, AtType
<1>5. Slotted(d, Walk(d, u), m, i) \in Dir(d, u)
  BY <1>1, <1>3, <1>4, SlottedDir
<1> QED
  BY <1>4, <1>5 DEF Slotted

\* An entry gets another attribute, or a name that the directory does not have.
Changes(page, new, k, names) ==
  /\ new.head = page.head /\ new.next = page.next /\ new.bm = page.bm /\ new.data = page.data
  /\ Len(new.slots) = Len(page.slots) /\ k \in 1 .. Len(page.slots)
  /\ \A i \in 1 .. Len(page.slots) : i # k => new.slots[i] = page.slots[i]
  /\ new.slots[k].spage = page.slots[k].spage
  /\ new.slots[k].name \in Dirs <=> page.slots[k].name \in Dirs
  /\ new.slots[k].name = page.slots[k].name \/ new.slots[k].name \notin names

\* One entry changes (owAttribute, owReNameFile).
LEMMA EditSlotSound ==
  ASSUME NEW d \in Devs, NEW e \in Devs, Sound(d), NEW u \in DirsOf(d),
         NEW p \in ToSet(Walk(d, u)), Patched(d, e, p),
         NEW k, Changes(d[p], e[p], k, {y.e.name : y \in Dir(d, u)}),
         e[0].head = "root", Live(d) \subseteq e[0].bm
  PROVE  Sound(e)
<1> DEFINE S == e[p].slots
           D == d[p].slots
           n == Len(D)
           q == Stray + 1
           nm == S[k].name
           o == [i \in 1 .. Len(S) |-> i]
<1>0. /\ e[p].head = d[p].head /\ e[p].next = d[p].next /\ e[p].data = d[p].data
      /\ Len(S) = n /\ k \in 1 .. n
      /\ \A i \in 1 .. n : i # k => S[i] = D[i]
      /\ S[k].spage = D[k].spage /\ (S[k].name \in Dirs <=> D[k].name \in Dirs)
      /\ S[k].name = D[k].name \/ \A y \in Dir(d, u) : y.e.name # S[k].name
  BY DEF Changes
<1>1. u \in Starts(d) /\ u \in Places /\ p \in Live(d) /\ p \in Pages /\ d[p] \in PageType
  BY EntryIn, StartLive
<1>2. n \in Nat
  BY <1>1, ItemsIs
<1>3. q \notin Places /\ q # 0
  BY Constants DEF Places
<1>4. q \notin Starts(d) /\ q # u
  BY <1>1, <1>3, EntryIn
<1>5. \A i \in 1 .. n : \E y \in Dir(d, u) : y.e = D[i]
  BY SlotIn
<1>6. /\ o \in [1 .. Len(S) -> 0 .. Len(D)] /\ \A i \in 1 .. Len(S) : o[i] = i /\ o[i] # 0
      /\ Len(S) = n
  BY <1>0, <1>2
<1>7. Traced(d, u, D, S, o, nm, q)
  <2>1. \A i, j \in 1 .. Len(S) : o[i] = o[j] => i = j
    BY <1>6
  <2>2. \A i \in 1 .. n : i # k => S[i] = D[i]
    BY <1>0
  <2>3. \A i \in 1 .. n : S[i].spage = D[i].spage /\ (S[i].name \in Dirs <=> D[i].name \in Dirs)
    BY <1>0, <2>2
  <2>4. \A i \in 1 .. n : S[i].name = D[i].name \/ (S[i].name = nm /\ \A y \in Dir(d, u) : y.e.name # nm)
    BY <1>0, <2>2
  <2>5. \A i, j \in 1 .. n :
          S[i].name = nm /\ S[j].name = nm /\ (\A y \in Dir(d, u) : y.e.name # nm) => i = j
    <3>1. \A i \in 1 .. n : (\A y \in Dir(d, u) : y.e.name # nm) /\ S[i].name = nm => i = k
      BY <1>0, <1>5, <2>2
    <3> QED
      BY <3>1
  <2> HIDE DEF o, S, D, n, nm
  <2> QED
    BY <1>6, <2>1, <2>3, <2>4, <2>5 DEF Traced
<1>8. AllFresh(d, e, S, o, q)
  BY <1>6 DEF AllFresh
<1> HIDE DEF o, q, nm
<1> QED
  BY <1>0, <1>3, <1>4, <1>7, <1>8, SlotsSound

\* What is left of a sequence from which an element was taken.
LEMMA RemoveAtIs ==
  ASSUME NEW T, NEW s \in Seq(T), NEW k \in 1 .. Len(s)
  PROVE  /\ Len(RemoveAt(s, k)) = Len(s) - 1
         /\ \A i \in 1 .. Len(s) - 1 : /\ i < k => RemoveAt(s, k)[i] = s[i]
                                       /\ i >= k => RemoveAt(s, k)[i] = s[i + 1]
<1> DEFINE n == Len(s)
           a == SubSeq(s, 1, k - 1)
           b == SubSeq(s, k + 1, n)
<1>1. n \in Nat /\ k \in 1 .. n
  OBVIOUS
<1>2. a \in Seq(T) /\ Len(a) = k - 1 /\ \A i \in 1 .. k - 1 : a[i] = s[i]
  OBVIOUS
<1>3. b \in Seq(T) /\ Len(b) = n - k /\ \A i \in 1 .. n - k : b[i] = s[k + i]
  OBVIOUS
<1>4. RemoveAt(s, k) = a \o b
  BY DEF RemoveAt
<1> HIDE DEF a, b
<1>5. Len(a \o b) = n - 1 /\ \A i \in 1 .. n - 1 : (a \o b)[i] = IF i <= k - 1 THEN a[i] ELSE b[i - (k - 1)]
  <2>1. /\ Len(a \o b) = Len(a) + Len(b)
        /\ \A i \in 1 .. Len(a) + Len(b) : (a \o b)[i] = IF i <= Len(a) THEN a[i] ELSE b[i - Len(a)]
    BY <1>2, <1>3, ConcatAt
  <2>2. Len(a) = k - 1 /\ Len(a) + Len(b) = n - 1
    BY <1>1, <1>2, <1>3
  <2> HIDE DEF n
  <2> QED
    BY <2>1, <2>2
<1>6. \A i \in 1 .. n - 1 : i < k => (a \o b)[i] = s[i]
  <2>1. \A i \in 1 .. n - 1 : i < k => i <= k - 1 /\ i \in 1 .. k - 1
    BY <1>1
  <2> QED
    BY <1>2, <1>5, <2>1
<1>7. \A i \in 1 .. n - 1 : i >= k => (a \o b)[i] = s[i + 1]
  <2>1. ASSUME NEW i \in 1 .. n - 1, i >= k PROVE (a \o b)[i] = s[i + 1]
    <3>1. ~(i <= k - 1) /\ i - (k - 1) \in 1 .. n - k /\ k + (i - (k - 1)) = i + 1
      BY <1>1, <2>1
    <3> QED
      BY <1>3, <1>5, <3>1
  <2> QED
    BY <2>1
<1> QED
  BY <1>4, <1>5, <1>6, <1>7

\* The part e has the directory u without its entry x.
Erases(d, e, u, x) ==
  /\ Sound(e) /\ Edited(d, e, u, Stray + 1)
  /\ \A y \in Dir(e, u) : y.e.spage # x.e.spage
  /\ ToSet(Walk(e, u)) \subseteq ToSet(Walk(d, u))

LEMMA ErasedLive ==
  ASSUME NEW d \in Devs, NEW e \in Devs, Sound(d), NEW u, NEW x \in Dir(d, u), Erases(d, e, u, x)
  PROVE  /\ Live(e) \subseteq Live(d)
         /\ \A p \in Live(e) : /\ p \notin ToSet(Walk(d, x.e.spage))
                               /\ p \in ToSet(Walk(d, u)) => p \in ToSet(Walk(e, u))
<1> DEFINE q == Stray + 1
           z == x.e.spage
<1>1. Sound(e) /\ Edited(d, e, u, q)
  BY DEF Erases
<1>2. q \notin Places
  BY Constants DEF Places
<1> HIDE DEF q
<1>3. u \in DirsOf(d) /\ \A s \in Starts(d) : s # u /\ s # q => Kept(d, e, s)
  BY <1>1 DEF Edited
<1>4. u \in Starts(d) /\ x \in EntriesOf(d) /\ z \in Starts(d)
  BY <1>3, EntryIn
<1>5. Chained(d)
  BY SoundChained
<1>6. z # 0
  BY <1>4, <1>5 DEF Chained
<1>7. ASSUME NEW t \in Starts(e) PROVE t \in Starts(d) /\ t # z
  <2>1. CASE t = 0
    BY <2>1, <1>6, EntryIn
  <2>2. CASE t # 0
    <3>1. PICK y \in EntriesOf(e) : t = y.e.spage
      BY <2>2 DEF Starts
    <3>2. y \in Dir(e, u) \/ (y \in EntriesOf(d) /\ y \notin Dir(d, u))
      BY <1>1, EditedEntries
    <3>3. CASE y \in Dir(e, u)
      <4>1. y.e.spage \in Places
        BY EntryIn
      <4>2. Stays(d, u, y)
        BY <1>1, <1>2, <3>3, <4>1 DEF Edited
      <4>3. PICK v \in Dir(d, u) : v.e.spage = y.e.spage
        BY <4>2 DEF Stays
      <4>4. v \in EntriesOf(d)
        BY <1>3, EntryIn
      <4> QED
        BY <3>1, <3>3, <4>3, <4>4, EntryIn DEF Erases
    <3>4. CASE y \in EntriesOf(d) /\ y \notin Dir(d, u)
      BY <3>1, <3>4, <1>4, <1>5, EntryIn DEF Chained
    <3> QED
      BY <3>2, <3>3, <3>4
  <2> QED
    BY <2>1, <2>2
<1>8. ASSUME NEW t \in Starts(e), NEW p \in ToSet(Walk(e, t))
      PROVE  /\ p \in Live(d) /\ p \notin ToSet(Walk(d, z))
             /\ p \in ToSet(Walk(d, u)) => p \in ToSet(Walk(e, u))
  <2>1. t \in Starts(d) /\ t # z
    BY <1>7
  <2>2. Disjoint(ToSet(Walk(d, t)), ToSet(Walk(d, z)))
    BY <2>1, <1>4, <1>5 DEF Chained
  <2>3. CASE t = u
    <3>1. p \in ToSet(Walk(d, u))
      BY <2>3 DEF Erases
    <3> QED
      BY <2>2, <2>3, <3>1, <1>4 DEF Live, Disjoint
  <2>4. CASE t # u
    <3>1. t \in Places /\ Stops(At(d, Last(Walk(d, t))))
      BY <2>1, SoundEnds, EntryIn
    <3>2. Kept(d, e, t)
      BY <1>2, <1>3, <2>1, <2>4, <3>1
    <3>3. Walk(e, t) = Walk(d, t)
      BY <3>1, <3>2, KeptSame
    <3>4. Disjoint(ToSet(Walk(d, t)), ToSet(Walk(d, u)))
      BY <2>1, <2>4, <1>4, <1>5 DEF Chained
    <3> QED
      BY <2>1, <2>2, <3>3, <3>4 DEF Live, Disjoint
  <2> QED
    BY <2>3, <2>4
<1> QED
  BY <1>8 DEF Live

\* A page loses one entry of more than one (Without).
LEMMA RemoveSlotSound ==
  ASSUME NEW d \in Devs, NEW e \in Devs, Sound(d), NEW u \in DirsOf(d), NEW x \in Dir(d, u),
         NEW p, p = x.dpage, Patched(d, e, p),
         e[p].head = d[p].head, e[p].next = d[p].next, e[p].data = d[p].data,
         e[0].head = "root", Live(d) \subseteq e[0].bm,
         e[p].slots = RemoveAt(d[p].slots, Slot(d[p], x.pos))
  PROVE  Erases(d, e, u, x)
<1> DEFINE w == Walk(d, u)
           S == e[p].slots
           D == d[p].slots
           n == Len(D)
           q == Stray + 1
           nm == NoName
<1>1. u \in Starts(d) /\ u \in Places
  BY EntryIn
<1>2. Headed(d, w) /\ p \in ToSet(w)
  BY <1>1, HeadedSound, DirType
<1>3. p \in Live(d) /\ p \in Pages /\ d[p] \in PageType
  BY <1>1, <1>2, StartLive
<1>4. PICK m \in 1 .. Len(w) : \E l \in 1 .. Len(At(d, w[m]).slots) : x = Slotted(d, w, m, l)
  BY <1>1, <1>2, SlottedDir
<1>5. PICK l \in 1 .. Len(At(d, w[m]).slots) : x = Slotted(d, w, m, l)
  BY <1>4
<1>6. w[m] = p /\ l \in 1 .. n /\ At(d, w[m]) = d[p] /\ x.pos = l + Headers(d[p])
  BY <1>5, <1>3, AtType DEF Slotted
<1>7. D \in Seq(Entries) /\ n \in Nat
  BY <1>3, PageFields, ItemsIs
<1>8. Slot(d[p], x.pos) = l
  BY <1>6, <1>7 DEF Slot, Headers
<1>9. /\ Len(S) = n - 1
      /\ \A i \in 1 .. n - 1 : (i < l => S[i] = D[i]) /\ (i >= l => S[i] = D[i + 1])
  <2>1. S = RemoveAt(D, l)
    BY <1>8
  <2> HIDE DEF S, D
  <2> QED
    BY <1>6, <1>7, <2>1, RemoveAtIs
<1> DEFINE o == [i \in 1 .. Len(S) |-> IF i < l THEN i ELSE i + 1]
<1>10. /\ o \in [1 .. Len(S) -> 0 .. n] /\ \A i, j \in 1 .. Len(S) : o[i] = o[j] => i = j
       /\ \A i \in 1 .. Len(S) : o[i] # 0 /\ o[i] # l /\ o[i] \in 1 .. n /\ S[i] = D[o[i]]
  <2>1. Len(S) = n - 1 /\ n \in Nat /\ l \in 1 .. n
    BY <1>6, <1>7, <1>9
  <2> HIDE DEF S, D, n, w
  <2>2. o \in [1 .. Len(S) -> 0 .. n]
    BY <2>1
  <2>3. \A i \in 1 .. Len(S) : (i < l => o[i] = i) /\ (i >= l => o[i] = i + 1)
    BY <2>1
  <2> HIDE DEF o
  <2>4. \A i, j \in 1 .. Len(S) : o[i] = o[j] => i = j
    BY <2>1, <2>3
  <2>5. \A i \in 1 .. Len(S) : o[i] # 0 /\ o[i] # l /\ o[i] \in 1 .. n
    BY <2>1, <2>3
  <2>6. \A i \in 1 .. Len(S) : S[i] = D[o[i]]
    BY <2>1, <2>3, <1>9
  <2> QED
    BY <2>2, <2>4, <2>5, <2>6
<1>11. q \notin Places /\ q # 0
  BY Constants DEF Places
<1>12. q \notin Starts(d) /\ q # u
  BY <1>1, <1>11, EntryIn
<1>13. \A i \in 1 .. n : \E y \in Dir(d, u) : y.e = D[i]
  BY <1>2, SlotIn
<1> HIDE DEF o, w
<1>14. Traced(d, u, D, S, o, nm, q)
  <2>1. \A i, j \in 1 .. Len(S) :
          S[i].name = nm /\ S[j].name = nm /\ (\A y \in Dir(d, u) : y.e.name # nm) => i = j
    <3> HIDE DEF S, D, n, nm
    <3>1. \A i \in 1 .. Len(S) : \E y \in Dir(d, u) : y.e.name = S[i].name
      BY <1>10, <1>13
    <3> QED
      BY <3>1
  <2> HIDE DEF S, D, n, nm, q
  <2> QED
    BY <1>10, <2>1 DEF Traced, n
<1>15. AllFresh(d, e, S, o, q)
  BY <1>10 DEF AllFresh
<1> HIDE DEF q, nm
<1>16. Sound(e) /\ Edited(d, e, u, q) /\ Walk(e, u) = w
  <2>1. p \in ToSet(Walk(d, u))
    BY <1>2 DEF w
  <2>2. Traced(d, u, d[p].slots, e[p].slots, o, nm, q)
    BY <1>14
  <2>3. AllFresh(d, e, e[p].slots, o, q)
    BY <1>15
  <2> HIDE DEF S, D, n
  <2>4. Sound(e) /\ Edited(d, e, u, q) /\ Walk(e, u) = Walk(d, u)
    BY <2>1, <2>2, <2>3, <1>11, <1>12, SlotsSound
  <2> QED
    BY <2>4 DEF w
<1>17. w \in Seq(Places) /\ NoTwice(w) /\ \A k \in 1 .. Len(w) : w[k] \in Places
  BY <1>1, StartLive, PathFields, WalkPath DEF w
<1>18. At(e, p) = e[p] /\ At(d, p) = d[p]
  BY <1>3, AtType
<1>19. \A k \in 1 .. Len(w) : /\ At(e, w[k]).head = At(d, w[k]).head
                              /\ k # m => At(e, w[k]).slots = At(d, w[k]).slots
  BY <1>6, <1>17, <1>18 DEF Patched, Alike, NoTwice
<1>20. Headed(e, w)
  BY <1>2, <1>19 DEF Headed, IsDir
<1>21. ASSUME NEW y \in Dir(e, u) PROVE y.e.spage # x.e.spage
  <2>1. PICK k \in 1 .. Len(w) : \E i \in 1 .. Len(At(e, w[k]).slots) : y = Slotted(e, w, k, i)
    BY <1>1, <1>16, <1>20, SlottedDir
  <2>2. PICK i \in 1 .. Len(At(e, w[k]).slots) : y = Slotted(e, w, k, i)
    BY <2>1
  <2>3. Neat(d, u)
    BY SoundChained DEF Chained
  <2>4. CASE k = m
    <3>1. i \in 1 .. Len(S) /\ y.e = S[i]
      BY <2>2, <2>4, <1>6, <1>18 DEF Slotted
    <3>2. o[i] \in 1 .. n /\ o[i] # l /\ y.e = D[o[i]]
      BY <3>1, <1>10
    <3> DEFINE v == Slotted(d, w, m, o[i])
    <3>3. v \in Dir(d, u) /\ v.e = y.e
      BY <3>2, <1>1, <1>2, <1>6, SlottedDir DEF Slotted, w
    <3>4. v.pos = o[i] + Headers(d[p]) /\ Headers(d[p]) \in Nat /\ x.pos = l + Headers(d[p])
      BY <1>6 DEF Slotted, Headers
    <3>5. v # x
      <4>1. o[i] + Headers(d[p]) # l + Headers(d[p])
        BY <3>2, <3>4, <1>7, <1>6
      <4> QED
        BY <3>4, <4>1
    <3> HIDE DEF v
    <3> QED
      BY <2>3, <3>3, <3>5 DEF Neat
  <2>5. CASE k # m
    <3> DEFINE v == Slotted(d, w, k, i)
    <3>1. At(e, w[k]).slots = At(d, w[k]).slots
      BY <2>5, <1>19
    <3>2. v \in Dir(d, u) /\ v.e = y.e /\ v.dpage = w[k]
      BY <2>2, <3>1, <1>1, <1>2, SlottedDir DEF Slotted, w
    <3>3. v # x
      BY <3>2, <2>5, <1>6, <1>17 DEF NoTwice
    <3> HIDE DEF v
    <3> QED
      BY <2>3, <3>2, <3>3 DEF Neat
  <2> QED
    BY <2>4, <2>5
<1> QED
  BY <1>16, <1>21 DEF Erases, q, w

\* A step of a chain.
LEMMA PathIs ==
  ASSUME NEW e \in Devs, NEW u \in Places, NEW v \in Seq(Places), Len(v) # 0, v[1] = u, NoTwice(v),
         \A i \in 1 .. Len(v) - 1 :
           Readable(At(e, v[i])) /\ v[i + 1] = At(e, v[i]).next /\ v[i + 1] # 0
  PROVE  v \in Path(e, u)
BY DEF Path, Leads

\* All of a directory but one entry is as it was, and of its pages but the one
\* that had no other entry (Unlink).
LEMMA UnlinkSound ==
  ASSUME NEW d \in Devs, NEW e \in Devs, Sound(d), NEW u \in DirsOf(d), NEW x \in Dir(d, u),
         Len(Items(d[x.dpage])) = 1, NEW p, p = x.pdpage, Patched(d, e, p),
         e[p].head = d[p].head, e[p].slots = d[p].slots, e[p].data = d[p].data,
         e[p].next = d[x.dpage].next,
         e[0].head = "root", Live(d) \subseteq e[0].bm
  PROVE  Erases(d, e, u, x) /\ x.dpage \notin ToSet(Walk(e, u)) /\ x.dpage \in Live(d) /\ x.dpage # 0
<1> DEFINE w == Walk(d, u)
           n == Len(w)
<1>1. u \in Starts(d) /\ u \in Places
  BY EntryIn
<1>2. /\ w \in Seq(Places) /\ n \in Nat \ {0} /\ w[1] = u /\ NoTwice(w)
      /\ \A k \in 1 .. n : w[k] \in Places
      /\ \A k \in 1 .. n - 1 : /\ Readable(At(d, w[k])) /\ w[k] \in Pages
                               /\ w[k + 1] = At(d, w[k]).next /\ w[k + 1] # 0
  <2>1. Runs(d, u, w, n)
    BY <1>1, WalkRuns
  <2> HIDE DEF w, n
  <2> QED
    BY <2>1 DEF Runs
<1>3. /\ ToSet(w) \subseteq Live(d) /\ \A k \in 1 .. n : w[k] \in ToSet(w)
      /\ \A r \in ToSet(w) : r \in Pages /\ At(d, r) = d[r] /\ d[r] \in PageType
  BY <1>1, StartLive
<1>4. IsDir(At(d, u)) /\ EndsIn(At(d, Last(w)))
  BY SoundEnds DEF Ends
<1>5. PICK k \in 1 .. n : \E j \in Spots(d, w, k) : x = Entry(d, w, k, j)
  BY <1>1, ListingIs
<1>6. PICK j \in Spots(d, w, k) : x = Entry(d, w, k, j)
  BY <1>5
<1>7. x.dpage = w[k] /\ x.pdpage = w[Before(k)]
  BY <1>6 DEF Entry
<1>8. k # 1
  <2>1. At(d, w[k]) = d[x.dpage]
    BY <1>3, <1>7
  <2>2. SUFFICES ASSUME k = 1 PROVE FALSE
    OBVIOUS
  <2>3. j \in 2 .. 1
    BY <1>6, <2>1, <2>2 DEF Spots
  <2> QED
    BY <2>3
<1>9. k \in 2 .. n /\ k - 1 \in 1 .. n /\ w[k - 1] = p
  BY <1>2, <1>7, <1>8 DEF Before
<1>10. Last(w) = w[n]
  <2> HIDE DEF w
  <2> QED
    BY <1>2, LastIn
<1> HIDE DEF w
<1>11. p \in Pages /\ At(d, p) = d[p] /\ At(e, p) = e[p] /\ e[p].next = At(d, w[k]).next
  BY <1>3, <1>7, <1>9, AtType
\* Pages of the directory lead where they did, but for the one before.
<1>12. \A i \in 1 .. n : /\ At(e, w[i]).head = At(d, w[i]).head
                         /\ At(e, w[i]).slots = At(d, w[i]).slots
                         /\ At(e, w[i]).data = At(d, w[i]).data
                         /\ i # k - 1 => At(e, w[i]).next = At(d, w[i]).next
  <2>1. \A i \in 1 .. n : i # k - 1 => w[i] # p
    BY <1>2, <1>9 DEF NoTwice
  <2> QED
    BY <2>1, <1>2, <1>9, <1>11 DEF Patched, Alike
<1>13. \A i \in 1 .. n : /\ Items(At(e, w[i])) = Items(At(d, w[i]))
                         /\ Readable(At(e, w[i])) <=> Readable(At(d, w[i]))
                         /\ IsDir(At(e, w[i])) <=> IsDir(At(d, w[i]))
  BY <1>12 DEF Items, Readable, IsDir
<1> DEFINE f(i) == IF i < k THEN i ELSE i + 1
           v == [i \in 1 .. n - 1 |-> w[f(i)]]
<1>14. /\ \A i \in 1 .. n - 1 : f(i) \in 1 .. n /\ f(i) # k
       /\ \A i, l \in 1 .. n - 1 : f(i) = f(l) => i = l
       /\ f(1) = 1 /\ \A i \in 1 .. n - 1 : f(i) = 1 => i = 1
  BY <1>2, <1>9
<1>15. /\ v \in Seq(Places) /\ Len(v) = n - 1 /\ n - 1 \in Nat \ {0} /\ v[1] = u /\ NoTwice(v)
       /\ \A i \in 1 .. n - 1 : v[i] = w[f(i)]
  <2>1. n - 1 \in Nat \ {0} /\ 1 \in 1 .. n - 1
    BY <1>2, <1>9
  <2>2. \A i \in 1 .. n - 1 : v[i] = w[f(i)] /\ w[f(i)] \in Places
    BY <1>2, <1>14
  <2>3. v \in Seq(Places) /\ Len(v) = n - 1
    BY <2>1, <2>2
  <2>4. v[1] = u
    BY <1>2, <1>14, <2>1, <2>2
  <2>5. NoTwice(v)
    <3> HIDE DEF v, f, n
    <3>0. \A a, b \in 1 .. n : w[a] = w[b] => a = b
      BY <1>2 DEF NoTwice, n
    <3>1. \A i, l \in 1 .. n - 1 : v[i] = v[l] => f(i) = f(l)
      BY <3>0, <1>14, <2>2
    <3> QED
      BY <3>1, <1>14, <2>3 DEF NoTwice
  <2> HIDE DEF v, f
  <2> QED
    BY <2>1, <2>2, <2>3, <2>4, <2>5
<1> HIDE DEF v
<1>16. \A i \in 1 .. n - 2 : Readable(At(e, v[i])) /\ v[i + 1] = At(e, v[i]).next /\ v[i + 1] # 0
  <2> SUFFICES ASSUME NEW i \in 1 .. n - 2
               PROVE  Readable(At(e, v[i])) /\ v[i + 1] = At(e, v[i]).next /\ v[i + 1] # 0
    OBVIOUS
  <2>1. i \in 1 .. n - 1 /\ i + 1 \in 1 .. n - 1 /\ i \in Nat
    BY <1>2
  <2>2. v[i] = w[f(i)] /\ v[i + 1] = w[f(i + 1)]
    BY <1>15, <2>1
  <2>3. CASE i < k - 1
    <3>1. f(i) = i /\ f(i + 1) = i + 1 /\ i # k - 1
      BY <2>1, <2>3, <1>9
    <3> HIDE DEF f
    <3> QED
      BY <2>1, <2>2, <3>1, <1>2, <1>12, <1>13
  <2>4. CASE i = k - 1
    <3>1. f(i) = k - 1 /\ f(i + 1) = k + 1 /\ k \in 1 .. n - 1 /\ k - 1 \in 1 .. n - 1
      BY <2>1, <2>4, <1>9
    <3>2. w[k + 1] = At(d, w[k]).next /\ w[k + 1] # 0 /\ Readable(At(d, w[k - 1]))
      BY <3>1, <1>2
    <3> HIDE DEF f
    <3> QED
      BY <2>2, <3>1, <3>2, <1>9, <1>11, <1>13
  <2>5. CASE i >= k
    <3>1. f(i) = i + 1 /\ f(i + 1) = (i + 1) + 1 /\ i + 1 # k - 1
      BY <2>1, <2>5, <1>9
    <3>2. w[(i + 1) + 1] = At(d, w[i + 1]).next /\ w[(i + 1) + 1] # 0 /\ Readable(At(d, w[i + 1]))
      BY <2>1, <1>2
    <3>3. i + 1 \in 1 .. n
      BY <2>1
    <3> HIDE DEF f
    <3> QED
      BY <2>2, <3>1, <3>2, <3>3, <1>12, <1>13
  <2>6. i < k - 1 \/ i = k - 1 \/ i >= k
    BY <2>1, <1>9
  <2> QED
    BY <2>3, <2>4, <2>5, <2>6
<1>17. v \in Path(e, u)
  <2>1. Len(v) # 0 /\ Len(v) - 1 = n - 2
    BY <1>15, <1>2
  <2> HIDE DEF n, f
  <2> QED
    BY <2>1, <1>1, <1>15, <1>16, PathIs
<1>18. Last(v) = v[n - 1] /\ EndsIn(At(e, v[n - 1]))
  <2>1. Last(v) = v[n - 1] /\ n - 1 \in 1 .. n - 1
    BY <1>15, LastIn
  <2>2. v[n - 1] = w[f(n - 1)] /\ n \in 1 .. n
    BY <1>2, <1>15, <2>1
  <2>3. CASE k = n
    <3>1. f(n - 1) = k - 1
      BY <2>3, <1>2
    <3> HIDE DEF f
    <3>2. At(e, w[k - 1]).next = 0 /\ Readable(At(d, w[k - 1]))
      BY <2>3, <1>2, <1>4, <1>9, <1>10, <1>11 DEF EndsIn
    <3> QED
      BY <2>1, <2>2, <3>1, <3>2, <1>9, <1>13 DEF EndsIn
  <2>4. CASE k # n
    <3>1. f(n - 1) = n /\ n # k - 1
      BY <2>4, <1>2, <1>9
    <3> HIDE DEF f
    <3> QED
      BY <2>1, <2>2, <3>1, <1>4, <1>10, <1>12, <1>13 DEF EndsIn
  <2> QED
    BY <2>3, <2>4
<1>19. Walk(e, u) = v
  BY <1>1, <1>17, <1>18, WalkOf DEF Stops, EndsIn
<1>20. ToSet(v) \subseteq ToSet(w) /\ w[k] \notin ToSet(v) /\ u \in ToSet(v)
  <2>1. \A r : r \in ToSet(v) <=> \E i \in 1 .. n - 1 : v[i] = r
    BY <1>15, InSet
  <2>2. \A i \in 1 .. n - 1 : v[i] \in ToSet(w) /\ v[i] # w[k]
    <3> HIDE DEF f
    <3>1. \A i \in 1 .. n - 1 : v[i] = w[f(i)] /\ f(i) \in 1 .. n /\ f(i) # k
      BY <1>14, <1>15
    <3>2. \A i \in 1 .. n : i # k => w[i] # w[k]
      BY <1>2 DEF NoTwice
    <3> QED
      BY <3>1, <3>2, <1>3
  <2>3. u \in ToSet(v)
    BY <1>1, <1>19, ChainHead
  <2> QED
    BY <2>1, <2>2, <2>3
\* Where an entry was.
<1> DEFINE From(y, z) == z \in Dir(d, u) /\ z.e = y.e /\ z.dpage = y.dpage /\ z.pos = y.pos
<1>21. ASSUME NEW y \in Dir(e, u)
       PROVE  /\ \E i \in 1 .. n - 1 : y = Entry(e, v, i, y.pos)
              /\ \E z : From(y, z) /\ z.dpage # w[k]
  <2>1. PICK i \in 1 .. Len(v) : \E l \in Spots(e, v, i) : y = Entry(e, v, i, l)
    BY <1>1, <1>19, ListingIs
  <2>2. PICK l \in Spots(e, v, i) : y = Entry(e, v, i, l)
    BY <2>1
  <2>3. i \in 1 .. n - 1 /\ f(i) \in 1 .. n /\ f(i) # k /\ v[i] = w[f(i)] /\ (i = 1 <=> f(i) = 1)
    BY <1>14, <1>15
  <2> HIDE DEF f, n
  <2>4. Items(At(e, v[i])) = Items(At(d, w[f(i)]))
    BY <2>3, <1>13
  <2>5. l \in Spots(d, w, f(i))
    BY <2>2, <2>3, <2>4 DEF Spots
  <2> DEFINE z == Entry(d, w, f(i), l)
  <2>6. z \in Dir(d, u)
    BY <1>1, <2>3, <2>5, ListingIs DEF n, w
  <2>7. z.e = y.e /\ z.dpage = y.dpage /\ z.pos = y.pos /\ z.dpage = w[f(i)] /\ y.pos = l
    BY <2>2, <2>3, <2>4 DEF Entry
  <2>8. w[f(i)] # w[k]
    BY <2>3, <1>2 DEF NoTwice, n
  <2> HIDE DEF z
  <2> QED
    BY <2>2, <2>3, <2>6, <2>7, <2>8
<1>22. Neat(d, u) /\ Chained(d)
  BY SoundChained DEF Chained
<1>23. \A y \in Dir(e, u) : y.e.spage # x.e.spage
  BY <1>7, <1>21, <1>22 DEF Neat
<1>24. Neat(e, u)
  <2> SUFFICES ASSUME NEW y \in Dir(e, u), NEW t \in Dir(e, u),
                      y.e.name = t.e.name \/ y.e.spage = t.e.spage
               PROVE  y = t
    BY DEF Neat
  <2>1. PICK i \in 1 .. n - 1 : y = Entry(e, v, i, y.pos)
    BY <1>21
  <2>2. PICK l \in 1 .. n - 1 : t = Entry(e, v, l, t.pos)
    BY <1>21
  <2>3. y.dpage = t.dpage /\ y.pos = t.pos
    <3>1. PICK z : From(y, z)
      BY <1>21
    <3>2. PICK s : From(t, s)
      BY <1>21
    <3> QED
      BY <3>1, <3>2, <1>22 DEF Neat
  <2>4. v[i] = v[l]
    BY <2>1, <2>2, <2>3 DEF Entry
  <2>5. i = l
    BY <2>4, <1>15 DEF NoTwice
  <2> QED
    BY <2>1, <2>2, <2>3, <2>5
<1> DEFINE q == Stray + 1
<1>25. q \notin Places /\ q # 0
  BY Constants DEF Places
<1>26. \A s \in Starts(d) : s # u => Kept(d, e, s)
  <2>1. p \in ToSet(w)
    BY <1>3, <1>9
  <2> QED
    BY <1>1, <2>1, PatchKept DEF w
<1>27. IsDir(At(e, u)) /\ Ends(e, v)
  <2>1. IsDir(At(d, w[1])) /\ 1 \in 1 .. n
    BY <1>2, <1>4
  <2> QED
    BY <2>1, <1>2, <1>13, <1>18 DEF Ends
<1>28. \A y \in Dir(e, u) : Stays(d, u, y)
  BY <1>21 DEF Stays
<1>29. \A y \in Dir(e, u) \cup EntriesOf(d) : y.e.spage # q
  BY <1>25, DirType, EntryIn, <1>1
<1>30. ToSet(v) \subseteq e[0].bm
  BY <1>3, <1>20
<1>a. Bare(e, u)
  <2>1. \A r \in ToSet(w) : At(d, r).data = <<>>
    BY SoundChained DEF Chained, Bare, w
  <2>2. \A r \in ToSet(w) : \E i \in 1 .. n : w[i] = r
    BY <1>2, InSet
  <2>3. \A r \in ToSet(w) : At(e, r).data = <<>>
    BY <2>1, <2>2, <1>12
  <2> QED
    BY <2>3, <1>19, <1>20 DEF Bare
<1> HIDE DEF q
<1>31. Edited(d, e, u, q)
  <2>1. q # u
    BY <1>1, <1>25
  <2>2. \A r \in ToSet(v) : r \in Live(d) => r \in ToSet(w)
    BY <1>20
  <2>3. ToSet(w) = ToSet(Walk(d, u))
    BY DEF w
  <2> QED
    BY <2>1, <2>2, <2>3, <1>19, <1>24, <1>25, <1>26, <1>27, <1>28, <1>29, <1>30, <1>a DEF Edited
<1>32. Sound(e)
  BY <1>31, EditedSound
<1>33. x.dpage \in Live(d) /\ x.dpage # 0
  BY <1>2, <1>3, <1>7, <1>9
<1> QED
  BY <1>7, <1>19, <1>20, <1>23, <1>31, <1>32, <1>33 DEF Erases, q, w

\* A new page with one entry is put behind the last one of a directory (AddPage).
LEMMA BehindSound ==
  ASSUME NEW d \in Devs, NEW e \in Devs, Sound(d), NEW u \in DirsOf(d),
         NEW p, p = Last(Walk(d, u)), Patched(d, e, p),
         NEW b \in Pages, b \notin Live(d), b # p,
         e[p].head = d[p].head, e[p].slots = d[p].slots, e[p].data = d[p].data, e[p].next = b,
         NEW entry \in Entries, d[b].head = "none", d[b].slots = <<entry>>,
         d[b].data = <<>>, d[b].next = 0,
         e[0].head = "root", Live(d) \subseteq e[0].bm, b \in e[0].bm,
         \A y \in Dir(d, u) : y.e.name # entry.name,
         New(d, e[0].bm, entry.spage, entry.name), b \notin ToSet(Walk(d, entry.spage))
  PROVE  Sound(e) /\ b \in ToSet(Walk(e, u))
<1> DEFINE w == Walk(d, u)
           n == Len(w)
           q == entry.spage
<1>1. u \in Starts(d) /\ u \in Places
  BY EntryIn
<1>2. /\ w \in Seq(Places) /\ n \in Nat \ {0} /\ w[1] = u /\ NoTwice(w)
      /\ \A k \in 1 .. n : w[k] \in Places
      /\ \A k \in 1 .. n - 1 : /\ Readable(At(d, w[k])) /\ w[k] \in Pages
                               /\ w[k + 1] = At(d, w[k]).next /\ w[k + 1] # 0
  <2>1. Runs(d, u, w, n)
    BY <1>1, WalkRuns
  <2> HIDE DEF w, n
  <2> QED
    BY <2>1 DEF Runs
<1>3. /\ ToSet(w) \subseteq Live(d) /\ \A k \in 1 .. n : w[k] \in ToSet(w)
      /\ \A r \in ToSet(w) : r \in Pages /\ At(d, r) = d[r] /\ d[r] \in PageType
  BY <1>1, StartLive
<1>4. IsDir(At(d, u)) /\ EndsIn(At(d, Last(w)))
  BY SoundEnds DEF Ends
<1>5. Last(w) = w[n] /\ w[n] = p /\ n \in 1 .. n
  <2> HIDE DEF w
  <2>1. Last(w) = w[n] /\ n \in 1 .. n
    BY <1>2, LastIn
  <2> QED
    BY <2>1 DEF w
<1>6. \A x : x \in Dir(d, u) <=> \E k \in 1 .. n : \E j \in Spots(d, w, k) : x = Entry(d, w, k, j)
  BY <1>1, ListingIs
<1> HIDE DEF w
<1>7. p \in Pages /\ At(d, p) = d[p] /\ At(e, p) = e[p] /\ Readable(At(d, p))
  BY <1>3, <1>4, <1>5, AtType DEF EndsIn
<1>8. b \in Places /\ At(d, b) = d[b] /\ b \notin ToSet(w) /\ b # 0
  <2>1. 0 \in Live(d)
    BY StartLive, EntryIn
  <2> QED
    BY <1>3, <2>1, Constants, AtType
<1>9. At(e, b).head = "none" /\ At(e, b).slots = <<entry>> /\ At(e, b).data = <<>>
      /\ At(e, b).next = 0
  BY <1>8 DEF Patched, Alike
<1>10. \A i \in 1 .. n : /\ At(e, w[i]).head = At(d, w[i]).head
                         /\ At(e, w[i]).slots = At(d, w[i]).slots
                         /\ At(e, w[i]).data = At(d, w[i]).data
                         /\ i # n => At(e, w[i]).next = At(d, w[i]).next
  <2>1. \A i \in 1 .. n : i # n => w[i] # p
    BY <1>2, <1>5 DEF NoTwice
  <2> QED
    BY <2>1, <1>2, <1>5, <1>7 DEF Patched, Alike
<1>11. \A i \in 1 .. n : /\ Items(At(e, w[i])) = Items(At(d, w[i]))
                         /\ Readable(At(e, w[i])) <=> Readable(At(d, w[i]))
                         /\ IsDir(At(e, w[i])) <=> IsDir(At(d, w[i]))
  BY <1>10 DEF Items, Readable, IsDir
<1> DEFINE v == Append(w, b)
<1>12. /\ v \in Seq(Places) /\ Len(v) = n + 1 /\ v[n + 1] = b /\ \A i \in 1 .. n : v[i] = w[i]
  BY <1>2, <1>8
<1> HIDE DEF v, n
<1>13. NoTwice(v) /\ v[1] = u
  <2>1. \A i \in 1 .. n : v[i] # b
    BY <1>3, <1>8, <1>12
  <2>2. \A i, j \in 1 .. n : v[i] = v[j] => i = j
    BY <1>2, <1>12 DEF NoTwice, n
  <2>3. \A i \in 1 .. n + 1 : i \in 1 .. n \/ i = n + 1
    BY <1>2
  <2>4. \A i, j \in 1 .. n + 1 : v[i] = v[j] => i = j
    BY <2>1, <2>2, <2>3, <1>12
  <2>5. 1 \in 1 .. n
    BY <1>2
  <2> QED
    BY <2>4, <2>5, <1>2, <1>12 DEF NoTwice
<1>14. \A i \in 1 .. n : Readable(At(e, v[i])) /\ v[i + 1] = At(e, v[i]).next /\ v[i + 1] # 0
  <2> SUFFICES ASSUME NEW i \in 1 .. n
               PROVE  Readable(At(e, v[i])) /\ v[i + 1] = At(e, v[i]).next /\ v[i + 1] # 0
    OBVIOUS
  <2>1. CASE i = n
    BY <2>1, <1>5, <1>7, <1>8, <1>11, <1>12
  <2>2. CASE i # n
    <3>1. i \in 1 .. n - 1 /\ i + 1 \in 1 .. n
      BY <2>2, <1>2
    <3> QED
      BY <2>2, <3>1, <1>2, <1>10, <1>11, <1>12
  <2> QED
    BY <2>1, <2>2
<1>15. v \in Path(e, u)
  <2>1. Len(v) # 0 /\ Len(v) - 1 = n
    BY <1>2, <1>12
  <2> QED
    BY <2>1, <1>1, <1>12, <1>13, <1>14, PathIs
<1>16. Last(v) = b /\ EndsIn(At(e, b))
  <2>1. Len(v) # 0
    BY <1>2, <1>12
  <2> QED
    BY <2>1, <1>9, <1>12, LastIn DEF EndsIn, Readable
<1>17. Walk(e, u) = v
  BY <1>1, <1>15, <1>16, WalkOf DEF Stops, EndsIn
<1>18. ToSet(v) = ToSet(w) \cup {b}
  <2>1. \A r : r \in ToSet(v) <=> \E i \in 1 .. n + 1 : v[i] = r
    BY <1>12, InSet
  <2>2. \A r : r \in ToSet(w) <=> \E i \in 1 .. n : w[i] = r
    BY <1>2, InSet DEF n
  <2>3. \A i \in 1 .. n + 1 : i \in 1 .. n \/ i = n + 1
    BY <1>2
  <2>4. n + 1 \in 1 .. n + 1 /\ \A i \in 1 .. n : i \in 1 .. n + 1
    BY <1>2
  <2>5. \A r \in ToSet(v) : r \in ToSet(w) \cup {b}
    BY <2>1, <2>2, <2>3, <1>12
  <2>6. \A r \in ToSet(w) \cup {b} : r \in ToSet(v)
    BY <2>1, <2>2, <2>4, <1>12
  <2> QED
    BY <2>5, <2>6
<1> DEFINE z == [e |-> entry, dpage |-> b, pdpage |-> w[n], pos |-> 1]
<1>19. \A y \in Dir(e, u) : y \in Dir(d, u) \/ y = z
  <2> SUFFICES ASSUME NEW y \in Dir(e, u) PROVE y \in Dir(d, u) \/ y = z
    OBVIOUS
  <2>1. PICK i \in 1 .. Len(v) : \E l \in Spots(e, v, i) : y = Entry(e, v, i, l)
    BY <1>1, <1>17, ListingIs
  <2>2. PICK l \in Spots(e, v, i) : y = Entry(e, v, i, l)
    BY <2>1
  <2>3. CASE i = n + 1
    <3>1. v[i] = b /\ Items(At(e, b)) = <<>> \o <<entry>> /\ i # 1 /\ Before(i) = n /\ v[n] = w[n]
      BY <2>3, <1>2, <1>5, <1>9, <1>12 DEF Items, IsDir, Before
    <3>2. Items(At(e, b)) = <<entry>>
      BY <3>1
    <3>3. l \in 1 .. 1
      BY <2>2, <3>1, <3>2 DEF Spots
    <3>4. l = 1
      BY <3>3
    <3> QED
      BY <2>2, <3>1, <3>2, <3>4 DEF Entry
  <2>4. CASE i # n + 1
    <3>1. i \in 1 .. n /\ v[i] = w[i] /\ Before(i) \in 1 .. n /\ v[Before(i)] = w[Before(i)]
      BY <2>4, <1>2, <1>12 DEF Before
    <3>2. Spots(e, v, i) = Spots(d, w, i)
      BY <3>1, <1>11 DEF Spots
    <3>3. y = Entry(d, w, i, l)
      BY <2>2, <3>1, <1>11 DEF Entry
    <3> QED
      BY <2>2, <3>1, <3>2, <3>3, <1>6
  <2> QED
    BY <2>3, <2>4
<1>20. q \notin Live(d) /\ q \notin Starts(d) /\ q # 0 /\ q \in Places
  BY NewStart
<1>21. q # u
  BY <1>1, <1>20
<1>22. \A y \in Dir(d, u) : y.e.spage \in Starts(d)
  BY EntryIn
<1>23. Neat(d, u)
  BY SoundChained DEF Chained
<1>24. Neat(e, u)
  <2>1. \A y \in Dir(d, u) : y.e.name # z.e.name /\ y.e.spage # z.e.spage
    BY <1>20, <1>22
  <2> HIDE DEF z
  <2> QED
    BY <2>1, <1>19, <1>23 DEF Neat
<1>25. \A s \in Starts(d) : s # u => Kept(d, e, s)
  <2>1. p \in ToSet(w)
    BY <1>3, <1>5
  <2> QED
    BY <1>1, <2>1, PatchKept DEF w
<1>26. /\ \A r \in ToSet(Walk(d, q)) : Alike(d, e, r)
       /\ \A r \in ToSet(Walk(d, q)) : r \notin Live(d) /\ r # b
  <2>1. ToSet(Walk(d, q)) \subseteq Places
    <3>1. Walk(d, q) \in Seq(Places) /\ \A k \in 1 .. Len(Walk(d, q)) : Walk(d, q)[k] \in Places
      BY <1>20, WalkType
    <3> QED
      BY <3>1, InSet
  <2>2. \A r \in ToSet(Walk(d, q)) : r # p /\ r \notin Live(d) /\ r # b
    BY <1>3, <1>5 DEF New
  <2> QED
    BY <2>1, <2>2 DEF Patched
<1>27. Fresh(d, e, q, entry.name) /\ Walk(e, q) = Walk(d, q)
  BY <1>26, NewFresh
<1>28. IsDir(At(e, u)) /\ Ends(e, v)
  <2>1. IsDir(At(d, w[1])) /\ 1 \in 1 .. n
    BY <1>2, <1>4
  <2> QED
    BY <2>1, <1>2, <1>11, <1>16 DEF Ends
<1>29. \A y \in Dir(e, u) : Stays(d, u, y) \/ (y.e.spage = q /\ q \notin Starts(d))
  BY <1>19, <1>20 DEF Stays
<1>30. ToSet(v) \subseteq e[0].bm /\ \A r \in ToSet(v) : r \in Live(d) => r \in ToSet(w)
  BY <1>3, <1>18
<1>31. ASSUME NEW y \in Dir(e, u) \cup EntriesOf(d), y.e.spage = q
       PROVE  Begun(d, e, u, q, y)
  <2>1. y = z
    BY <1>19, <1>20, <1>22, <1>31, EntryIn
  <2>2. y.e.name = entry.name
    BY <2>1
  <2>3. Disjoint(ToSet(Walk(e, q)), ToSet(Walk(e, u)))
    BY <1>3, <1>17, <1>18, <1>26, <1>27 DEF Disjoint
  <2>4. Whole(e, y)
    BY <2>2, <1>27, <1>31 DEF Fresh, Whole
  <2> QED
    BY <2>2, <2>3, <2>4, <1>27 DEF Begun, Fresh
<1>a. Bare(e, u)
  <2>1. \A r \in ToSet(w) : At(d, r).data = <<>>
    BY SoundChained DEF Chained, Bare, w
  <2>2. \A r \in ToSet(w) : \E i \in 1 .. n : w[i] = r
    BY <1>2, InSet DEF n
  <2>3. \A r \in ToSet(w) : At(e, r).data = <<>>
    BY <2>1, <2>2, <1>10
  <2> QED
    BY <2>3, <1>9, <1>17, <1>18 DEF Bare
<1> HIDE DEF z, q
<1>32. Edited(d, e, u, q)
  <2>1. ToSet(w) = ToSet(Walk(d, u))
    BY DEF w
  <2> QED
    BY <2>1, <1>17, <1>20, <1>21, <1>24, <1>25, <1>28, <1>29, <1>30, <1>31, <1>a DEF Edited
<1> QED
  BY <1>17, <1>18, <1>32, EditedSound

\* What stood for a file or directory is written anew from its first page on.
LEMMA RefileSound ==
  ASSUME NEW d \in Devs, NEW e \in Devs, Sound(d), NEW q \in Starts(d), q # 0,
         \A s \in Starts(d) : s # q => Kept(d, e, s),
         e[0].head = "root", Live(d) \subseteq e[0].bm, ToSet(Walk(e, q)) \subseteq e[0].bm,
         \A p \in ToSet(Walk(e, q)) : p \in Live(d) => p \in ToSet(Walk(d, q)),
         \A x \in EntriesOf(d) : x.e.spage = q => Whole(e, x) /\ (x.e.name \in Dirs => Dir(e, q) = {} /\ Bare(e, q))
  PROVE  Sound(e)
<1> DEFINE u == 0
<1>1. u \in DirsOf(d) /\ u \in Starts(d) /\ u \in Places
  BY DirsOfType, EntryIn
<1>2. IsDir(At(d, u)) /\ Ends(d, Walk(d, u)) /\ Stops(At(d, Last(Walk(d, u))))
  BY <1>1, SoundEnds
<1>3. u # q
  OBVIOUS
<1> HIDE DEF u
<1>4. Kept(d, e, u)
  BY <1>1, <1>3
<1>7. Neat(d, u) /\ Bare(d, u) /\ Disjoint(ToSet(Walk(d, q)), ToSet(Walk(d, u)))
  BY <1>1, <1>3, SoundChained DEF Chained
<1>5. /\ Walk(e, u) = Walk(d, u) /\ Dir(e, u) = Dir(d, u)
      /\ IsDir(At(e, u)) /\ Ends(e, Walk(e, u)) /\ Bare(e, u)
  BY <1>1, <1>2, <1>4, <1>7, KeptSame
<1>6. ToSet(Walk(d, u)) \subseteq Live(d)
  BY <1>1, StartLive
<1>8. Neat(e, u)
  BY <1>5, <1>7 DEF Neat
<1>9. \A x \in Dir(e, u) : Stays(d, u, x)
  BY <1>5 DEF Stays
<1>10. Disjoint(ToSet(Walk(e, q)), ToSet(Walk(e, u)))
  BY <1>5, <1>6, <1>7 DEF Disjoint
<1>11. \A x \in Dir(e, u) \cup EntriesOf(d) : x.e.spage = q => Begun(d, e, u, q, x)
  <2>1. \A x \in Dir(e, u) : x \in EntriesOf(d)
    BY <1>1, <1>5, EntryIn
  <2> QED
    BY <2>1, <1>10 DEF Begun
<1>12. Edited(d, e, u, q)
  BY <1>1, <1>3, <1>5, <1>6, <1>8, <1>9, <1>11 DEF Edited
<1> QED
  BY <1>12, EditedSound

----------------------------------------------------------------------------
(* What stays in the directories *)

\* The pages of all directories that can be reached.
DirPages(d) == UNION {ToSet(Walk(d, s)) : s \in DirsOf(d)}

\* An entry with one of the names N may go, a directory only when it is empty.
Lets(d, x, N) == x.name \in N /\ (x.name \in Dirs => Dir(d, x.spage) = {})

\* The entry x is still there as y; a file keeps all of it, unless its name is
\* one of N.
Remains(x, y, N) ==
  /\ y.spage = x.spage /\ (y.name \in Dirs <=> x.name \in Dirs)
  /\ x.name \notin Dirs \cup N => y = x

\* The page r has only entries that may go.
Gone(d, r, N) == \A i \in 1 .. Len(At(d, r).slots) : Lets(d, At(d, r).slots[i], N)

\* The page r keeps its entries but those that may go, and leads where it did,
\* unless it was the last one, or the next one may go.
Moves(d, e, r, N) ==
  /\ \A i \in 1 .. Len(At(d, r).slots) :
       \/ Lets(d, At(d, r).slots[i], N)
       \/ \E j \in 1 .. Len(At(e, r).slots) : Remains(At(d, r).slots[i], At(e, r).slots[j], N)
  /\ \/ At(e, r).next = At(d, r).next \/ At(d, r).next = 0
     \/ Gone(d, At(d, r).next, N) /\ At(e, r).next = At(d, At(d, r).next).next

Moved(d, e, N) == \A r \in DirPages(d) : Moves(d, e, r, N)

\* The directory s still has its entries, but those that may go.
Holding(d, e, s, N) ==
  \A x \in Dir(d, s) : Lets(d, x.e, N) \/ \E y \in Dir(e, s) : Remains(x.e, y.e, N)

\* Every file is still in its directory.
Spares(d, e, N) ==
  \A x \in EntriesOf(d) : x.e.name \notin Dirs \cup N => \E y \in EntriesOf(e) : y.e = x.e

LEMMA AlikeMoves ==
  ASSUME NEW d, NEW e, NEW r, Alike(d, e, r), NEW N
  PROVE  Moves(d, e, r, N)
BY DEF Moves, Alike, Remains

LEMMA AlikeMoved ==
  ASSUME NEW d, NEW e, \A r \in DirPages(d) : Alike(d, e, r), NEW N
  PROVE  Moved(d, e, N)
BY AlikeMoves DEF Moved

\* The pages of directories are in use.
LEMMA DirPagesLive ==
  ASSUME NEW d \in Devs, Sound(d)
  PROVE  /\ DirPages(d) \subseteq Live(d) /\ DirPages(d) \subseteq Pages /\ DirPages(d) \subseteq Places
         /\ \A s \in DirsOf(d) : ToSet(Walk(d, s)) \subseteq DirPages(d)
<1>1. \A s \in DirsOf(d) : ToSet(Walk(d, s)) \subseteq Live(d)
  BY EntryIn DEF Live
<1>2. Live(d) \subseteq Pages /\ Pages \subseteq Places
  BY SoundEnds, Constants
<1> QED
  BY <1>1, <1>2 DEF DirPages

\* A chain that comes to an end has all that its pages lead to.
LEMMA WalkCloses ==
  ASSUME NEW e \in Devs, NEW s \in Places, Ends(e, Walk(e, s)), NEW r \in ToSet(Walk(e, s)),
         At(e, r).next # 0
  PROVE  At(e, r).next \in ToSet(Walk(e, s))
<1> DEFINE v == Walk(e, s)
<1>1. /\ v \in Seq(Places) /\ Len(v) \in Nat \ {0}
      /\ \A k \in 1 .. Len(v) - 1 : v[k + 1] = At(e, v[k]).next
  BY WalkPath, PathFields
<1>2. Ends(e, v) /\ r \in ToSet(v)
  OBVIOUS
<1> HIDE DEF v
<1>3. PICK k \in 1 .. Len(v) : v[k] = r
  BY <1>1, <1>2, InSet
<1>4. k # Len(v)
  BY <1>1, <1>2, <1>3, LastIn DEF Ends, EndsIn
<1>5. k \in 1 .. Len(v) - 1 /\ k + 1 \in 1 .. Len(v)
  BY <1>1, <1>4
<1> QED
  BY <1>1, <1>3, <1>5, InSet DEF v

LEMMA MovedHolding ==
  ASSUME NEW d \in Devs, NEW e \in Devs, Sound(d), Sound(e), NEW N, Moved(d, e, N),
         NEW s \in DirsOf(d), s \in DirsOf(e)
  PROVE  Holding(d, e, s, N)
<1> DEFINE w == Walk(d, s)
           v == Walk(e, s)
           V == ToSet(v)
           Follows(r) == At(d, r).next
<1>1. s \in Places /\ s \in Starts(d) /\ s \in Starts(e)
  BY EntryIn
<1>2. /\ w \in Seq(Places) /\ Len(w) \in Nat \ {0} /\ w[1] = s
      /\ \A k \in 1 .. Len(w) - 1 : w[k + 1] = Follows(w[k]) /\ w[k + 1] # 0
  <2>1. w \in Path(d, s)
    BY <1>1, WalkPath
  <2> HIDE DEF w
  <2> QED
    BY <1>1, <2>1, PathFields
<1>3. /\ v \in Seq(Places) /\ Len(v) \in Nat \ {0} /\ s \in V
      /\ \A r \in V : At(e, r).next # 0 => At(e, r).next \in V
  BY <1>1, WalkPath, PathFields, ChainHead, SoundEnds, WalkCloses
<1>4. Headed(d, w) /\ Headed(e, v)
  BY HeadedSound
<1>5. /\ \A x : x \in Dir(d, s) <=> \E k \in 1 .. Len(w) : \E i \in 1 .. Len(At(d, w[k]).slots) :
                                      x = Slotted(d, w, k, i)
      /\ \A x : x \in Dir(e, s) <=> \E k \in 1 .. Len(v) : \E i \in 1 .. Len(At(e, v[k]).slots) :
                                      x = Slotted(e, v, k, i)
  BY <1>1, <1>4, SlottedDir
<1>6. \A k \in 1 .. Len(w) : Moves(d, e, w[k], N)
  <2>1. \A k \in 1 .. Len(w) : w[k] \in ToSet(w)
    BY <1>1, StartLive
  <2> QED
    BY <2>1, DirPagesLive DEF Moved
<1>7. \A x : x \in V <=> \E k \in 1 .. Len(v) : v[k] = x
  BY <1>3, InSet
<1> HIDE DEF w, v, V
<1> DEFINE Passed(r) == r \in V \/ (Gone(d, r, N) /\ (Follows(r) = 0 \/ Follows(r) \in V))
           K == {k \in 0 .. Len(w) : k = 0 \/ Passed(w[k])}
<1>8. ASSUME NEW k \in 0 .. Len(w), k # 0, k - 1 \in K PROVE k \in K
  <2>1. CASE k = 1
    BY <2>1, <1>2, <1>3, <1>8
  <2>2. CASE k # 1
    <3> DEFINE r == w[k - 1]
    <3>1. k - 1 \in 1 .. Len(w) - 1 /\ k - 1 \in 1 .. Len(w) /\ (k - 1) + 1 = k
      BY <1>2, <1>8, <2>2
    <3>2. w[k] = Follows(r) /\ w[k] # 0
      BY <1>2, <3>1
    <3>3. Passed(r)
      BY <1>8, <3>1
    <3>4. Moves(d, e, r, N)
      BY <1>6, <3>1
    <3> HIDE DEF r
    <3>5. Passed(w[k])
      BY <1>3, <3>2, <3>3, <3>4 DEF Moves
    <3> HIDE DEF Passed
    <3> QED
      BY <3>5
  <2> QED
    BY <2>1, <2>2
<1>9. \A k \in 0 .. Len(w) : k \in K
  <2>1. 0 \in K
    BY <1>2
  <2>2. \A k \in 0 .. Len(w) : k # 0 /\ k - 1 \in K => k \in K
    BY <1>8
  <2> DEFINE n == Len(w)
  <2>3. n \in Nat
    BY <1>2
  <2> HIDE DEF K, n
  <2> QED
    BY <2>1, <2>2, <2>3, Upto DEF n
<1>10. ASSUME NEW x \in Dir(d, s) PROVE Lets(d, x.e, N) \/ \E y \in Dir(e, s) : Remains(x.e, y.e, N)
  <2>1. PICK k \in 1 .. Len(w) : \E i \in 1 .. Len(At(d, w[k]).slots) : x = Slotted(d, w, k, i)
    BY <1>5
  <2>2. PICK i \in 1 .. Len(At(d, w[k]).slots) : x = Slotted(d, w, k, i)
    BY <2>1
  <2>3. x.e = At(d, w[k]).slots[i]
    BY <2>2 DEF Slotted
  <2>4. Passed(w[k])
    <3>1. k \in 0 .. Len(w) /\ k # 0
      BY <1>2
    <3> HIDE DEF Passed
    <3> QED
      BY <3>1, <1>9
  <2>5. CASE Gone(d, w[k], N)
    BY <2>3, <2>5 DEF Gone
  <2>6. CASE w[k] \in V
    <3>1. PICK m \in 1 .. Len(v) : v[m] = w[k]
      BY <1>7, <2>6
    <3>2. \/ Lets(d, x.e, N)
          \/ \E j \in 1 .. Len(At(e, w[k]).slots) : Remains(x.e, At(e, w[k]).slots[j], N)
      BY <1>6, <2>3 DEF Moves
    <3>3. ASSUME NEW j \in 1 .. Len(At(e, v[m]).slots)
          PROVE  Slotted(e, v, m, j) \in Dir(e, s) /\ Slotted(e, v, m, j).e = At(e, v[m]).slots[j]
      BY <1>5 DEF Slotted
    <3> QED
      BY <3>1, <3>2, <3>3
  <2> QED
    BY <2>4, <2>5, <2>6
<1> QED
  BY <1>10 DEF Holding

\* A directory that can no longer be reached had no entry.
LEMMA MovedDirs ==
  ASSUME NEW d \in Devs, NEW e \in Devs, Sound(d), Sound(e), NEW N, Moved(d, e, N)
  PROVE  \A s \in DirsOf(d) : s \in DirsOf(e) \/ Dir(d, s) = {}
<1>1. PICK B : Levels(d, B)
  BY DirsOfLevels
<1>2. PICK D : Levels(e, D)
  BY DirsOfLevels
<1> DEFINE n == MaxDepth
<1>3. n \in Nat
  BY FileAssumption
<1>4. /\ B[0] = {0} /\ DirsOf(d) = B[n] /\ \A k \in 0 .. n : B[k] \subseteq DirsOf(d)
      /\ \A k \in 0 .. n : k # 0 => B[k] = B[k - 1] \cup Below(d, B[k - 1])
  BY <1>1, LevelsUp DEF Levels
<1>5. /\ D[0] = {0} /\ DirsOf(e) = D[n] /\ \A k \in 0 .. n : D[k] \subseteq DirsOf(e)
      /\ \A k \in 0 .. n : k # 0 => D[k] = D[k - 1] \cup Below(e, D[k - 1])
  BY <1>2, LevelsUp DEF Levels
<1> HIDE DEF n
<1> DEFINE Old(k, s) == s \in D[k] \/ Dir(d, s) = {}
           K == {k \in 0 .. n : \A s \in B[k] : Old(k, s)}
<1>6. 0 \in K
  BY <1>3, <1>4, <1>5
<1>7. ASSUME NEW k \in 0 .. n, k # 0, k - 1 \in K PROVE k \in K
  <2>1. k - 1 \in 0 .. n /\ \A s \in B[k - 1] : Old(k - 1, s)
    BY <1>7, <1>3
  <2>2. /\ B[k - 1] \subseteq DirsOf(d) /\ D[k - 1] \subseteq DirsOf(e)
        /\ B[k] = B[k - 1] \cup Below(d, B[k - 1]) /\ D[k] = D[k - 1] \cup Below(e, D[k - 1])
    BY <1>4, <1>5, <1>7, <2>1
  <2>3. ASSUME NEW s \in Below(d, B[k - 1]) PROVE Old(k, s)
    <3>1. PICK x \in UNION {ToSet(Listing(d, Walk(d, r))) : r \in B[k - 1]} :
            x.e.name \in Dirs /\ x.e.spage = s
      BY <2>3 DEF Below
    <3>2. PICK r \in B[k - 1] : x \in Dir(d, r)
      BY DEF Dir
    <3>3. r \in D[k - 1] /\ r \in DirsOf(d) /\ r \in DirsOf(e)
      BY <2>1, <2>2, <3>2
    <3>4. Lets(d, x.e, N) \/ \E y \in Dir(e, r) : Remains(x.e, y.e, N)
      <4>1. Holding(d, e, r, N)
        BY <3>3, MovedHolding
      <4> QED
        BY <4>1, <3>2 DEF Holding
    <3>5. CASE Lets(d, x.e, N)
      BY <3>1, <3>5 DEF Lets
    <3>6. ASSUME NEW y \in Dir(e, r), Remains(x.e, y.e, N) PROVE s \in D[k]
      <4>1. y.e.name \in Dirs /\ y.e.spage = s
        BY <3>1, <3>6 DEF Remains
      <4>2. y \in UNION {ToSet(Listing(e, Walk(e, t))) : t \in D[k - 1]}
        BY <3>3 DEF Dir
      <4>3. s \in Below(e, D[k - 1])
        BY <4>1, <4>2 DEF Below
      <4> QED
        BY <4>3, <2>2
    <3> QED
      BY <3>4, <3>5, <3>6
  <2> HIDE DEF Old
  <2>4. \A s : Old(k - 1, s) => Old(k, s)
    BY <2>2 DEF Old
  <2> QED
    BY <2>1, <2>2, <2>3, <2>4
<1>8. n \in K
  <2>1. \A k \in 0 .. n : k # 0 /\ k - 1 \in K => k \in K
    BY <1>7
  <2> HIDE DEF K
  <2>2. \A k \in 0 .. n : k \in K
    BY <1>3, <1>6, <2>1, Upto
  <2> QED
    BY <2>2, <1>3
<1> QED
  BY <1>4, <1>5, <1>8

\* Pages that keep their entries and their order keep every file in its place.
LEMMA MovedSpares ==
  ASSUME NEW d \in Devs, NEW e \in Devs, Sound(d), Sound(e), NEW N, Moved(d, e, N)
  PROVE  /\ Spares(d, e, N)
         /\ \A x \in Dir(d, 0) : x.e.name \notin Dirs \cup N => \E y \in Dir(e, 0) : y.e = x.e
<1>1. ASSUME NEW s \in DirsOf(d), NEW x \in Dir(d, s), x.e.name \notin Dirs \cup N
      PROVE  s \in DirsOf(e) /\ \E y \in Dir(e, s) : y.e = x.e
  <2>1. s \in DirsOf(e)
    BY MovedDirs
  <2>2. Holding(d, e, s, N)
    BY <2>1, MovedHolding
  <2> QED
    BY <2>1, <2>2, <1>1 DEF Holding, Lets, Remains
<1>2. Spares(d, e, N)
  <2> SUFFICES ASSUME NEW x \in EntriesOf(d), x.e.name \notin Dirs \cup N
               PROVE  \E y \in EntriesOf(e) : y.e = x.e
    BY DEF Spares
  <2>1. PICK s \in DirsOf(d) : x \in Dir(d, s)
    BY EntryIn
  <2>2. PICK y \in Dir(e, s) : y.e = x.e
    BY <1>1, <2>1
  <2>3. y \in EntriesOf(e)
    BY <1>1, <2>1, EntryIn
  <2> QED
    BY <2>2, <2>3
<1>3. 0 \in DirsOf(d)
  BY DirsOfType
<1> QED
  BY <1>1, <1>2, <1>3

\* The same, after a step that changes nothing of what is in use.
LEMMA MovedAfter ==
  ASSUME NEW d \in Devs, NEW m \in Devs, NEW e, Sound(d), Alikes(d, m), NEW N, Moved(m, e, N)
  PROVE  Moved(d, e, N)
<1>1. /\ DirsOf(m) = DirsOf(d)
      /\ \A s \in Starts(d) : Walk(m, s) = Walk(d, s) /\ Dir(m, s) = Dir(d, s) /\ Kept(d, m, s)
  BY DEF Alikes
<1>2. DirPages(m) = DirPages(d) /\ \A r \in DirPages(d) : Alike(d, m, r)
  <2>1. \A s \in DirsOf(d) : s \in Starts(d)
    BY EntryIn
  <2> QED
    BY <1>1, <2>1 DEF DirPages, Kept
<1>3. ASSUME NEW r \in DirPages(d), NEW i \in 1 .. Len(At(d, r).slots),
             Lets(m, At(d, r).slots[i], N)
      PROVE  Lets(d, At(d, r).slots[i], N)
  <2>1. PICK s \in DirsOf(d) : r \in ToSet(Walk(d, s))
    BY DEF DirPages
  <2>2. At(d, r) = d[r]
    BY DirPagesLive, AtType
  <2>3. PICK y \in Dir(d, s) : y.e = d[r].slots[i]
    BY <2>1, <2>2, SlotIn
  <2>4. y.e.spage \in Starts(d)
    BY EntryIn
  <2> QED
    BY <1>1, <1>3, <2>2, <2>3, <2>4 DEF Lets
<1>4. ASSUME NEW r \in DirPages(d) PROVE Moves(d, e, r, N)
  <2>1. Moves(m, e, r, N) /\ Alike(d, m, r)
    BY <1>2 DEF Moved
  <2>2. At(m, r).slots = At(d, r).slots /\ At(m, r).next = At(d, r).next
    BY <2>1 DEF Alike
  <2>3. \A i \in 1 .. Len(At(d, r).slots) :
          \/ Lets(d, At(d, r).slots[i], N)
          \/ \E j \in 1 .. Len(At(e, r).slots) : Remains(At(d, r).slots[i], At(e, r).slots[j], N)
    BY <1>3, <2>1, <2>2 DEF Moves
  <2>4. CASE At(d, r).next = 0
    BY <2>3, <2>4 DEF Moves
  <2>5. CASE At(d, r).next # 0
    <3> DEFINE a == At(d, r).next
    <3>1. a \in DirPages(d)
      <4>1. PICK s \in DirsOf(d) : r \in ToSet(Walk(d, s))
        BY DEF DirPages
      <4>2. a \in ToSet(Walk(d, s))
        BY <2>5, <4>1, WalkCloses, SoundEnds, EntryIn
      <4> QED
        BY <4>2 DEF DirPages
    <3>2. At(m, a).slots = At(d, a).slots /\ At(m, a).next = At(d, a).next
      BY <1>2, <3>1 DEF Alike
    <3>3. Gone(m, a, N) => Gone(d, a, N)
      BY <1>3, <3>1, <3>2 DEF Gone
    <3> QED
      BY <2>1, <2>2, <2>3, <3>2, <3>3 DEF Moves
  <2> QED
    BY <2>4, <2>5
<1> QED
  BY <1>4 DEF Moved

\* All entries stay, and so do all pages of directories.
Grows(d, e) == \A N : Moved(d, e, N)

LEMMA GrowsAlike ==
  ASSUME NEW d, NEW e, \A r \in DirPages(d) : Alike(d, e, r)
  PROVE  Grows(d, e)
BY AlikeMoved DEF Grows

LEMMA GrowsSame ==
  ASSUME NEW d
  PROVE  Grows(d, d)
BY GrowsAlike DEF Alike

LEMMA GrowsAlikes ==
  ASSUME NEW d \in Devs, Sound(d), NEW e, Alikes(d, e)
  PROVE  Grows(d, e)
<1>1. \A s \in DirsOf(d) : s \in Starts(d) /\ Kept(d, e, s)
  BY EntryIn DEF Alikes
<1>2. \A r \in DirPages(d) : Alike(d, e, r)
  BY <1>1 DEF DirPages, Kept
<1> QED
  BY <1>2, GrowsAlike

LEMMA GrowsAfter ==
  ASSUME NEW d \in Devs, NEW m \in Devs, NEW e, Sound(d), Alikes(d, m), Grows(m, e)
  PROVE  Grows(d, e)
BY MovedAfter DEF Grows

\* One page gets another entry, or a page behind it.
LEMMA PatchGrows ==
  ASSUME NEW d \in Devs, NEW e \in Devs, Sound(d), NEW p \in Pages, Patched(d, e, p),
         \A i \in 1 .. Len(d[p].slots) : \E j \in 1 .. Len(e[p].slots) : e[p].slots[j] = d[p].slots[i],
         e[p].next = d[p].next \/ d[p].next = 0
  PROVE  Grows(d, e)
<1> SUFFICES ASSUME NEW N, NEW r \in DirPages(d) PROVE Moves(d, e, r, N)
  BY DEF Grows, Moved
<1>1. At(d, p) = d[p] /\ At(e, p) = e[p]
  BY AtType
<1>2. CASE r = p
  BY <1>1, <1>2 DEF Moves, Remains
<1>3. CASE r # p
  BY <1>3, DirPagesLive, AlikeMoves DEF Patched
<1> QED
  BY <1>2, <1>3

\* The pages of a file are no pages of a directory.
LEMMA FileApart ==
  ASSUME NEW d \in Devs, Sound(d), NEW x \in EntriesOf(d), x.e.name \notin Dirs,
         NEW r \in DirPages(d)
  PROVE  r \notin ToSet(Walk(d, x.e.spage))
<1>1. PICK s \in DirsOf(d) : r \in ToSet(Walk(d, s))
  BY DEF DirPages
<1>2. s = 0 \/ \E y \in EntriesOf(d) : y.e.name \in Dirs /\ y.e.spage = s
  BY DirsOfType
<1>3. Chained(d) /\ s \in Starts(d) /\ x.e.spage \in Starts(d)
  BY SoundChained, EntryIn
<1>4. s # x.e.spage
  BY <1>2, <1>3 DEF Chained
<1> QED
  BY <1>1, <1>3, <1>4 DEF Chained, Disjoint

----------------------------------------------------------------------------
(* A call cut off anywhere leaves the part sound *)

Fine(c) == Sound(c.dev) /\ ~c.hung

\* A page is written, or it is not.
Puts(c, e, p, page) ==
  /\ e \in Calls /\ e.hung = c.hung /\ e.bm = c.bm /\ e.cd = c.cd /\ Keeps(c, e)
  /\ e.dev = c.dev \/ (c.ok /\ e.dev = [c.dev EXCEPT ![p] = page])
  /\ e.ok => c.ok /\ e.dev = [c.dev EXCEPT ![p] = page]

LEMMA WritePuts ==
  ASSUME NEW c \in Calls, NEW p \in Pages, NEW page \in PageType
  PROVE  Puts(c, Write_Page(c, p, page), p, page)
<1>1. Write_Page(c, p, page) \in Calls /\ Keeps(c, Write_Page(c, p, page))
      /\ Write_Page(c, p, page).bm = c.bm /\ Write_Page(c, p, page).cd = c.cd
  <2> DEFINE S == Pages
  <2>1. p \in Places /\ (c.ok => p \in S)
    BY Constants
  <2> HIDE DEF S
  <2> DEFINE w == Write_Page(c, p, page)
  <2>2. Goes(c, w, S) /\ Keeps(c, w) /\ w.bm = c.bm /\ w.cd = c.cd
    BY <2>1, WriteGoes
  <2> HIDE DEF w
  <2>3. w \in Calls
    BY <2>2 DEF Goes
  <2> QED
    BY <2>2, <2>3 DEF w
<1>2. Write_Page(c, p, page).hung = c.hung
  BY DEF Write_Page, Fail, Calls
<1>3. /\ Write_Page(c, p, page).dev = c.dev
         \/ (c.ok /\ Write_Page(c, p, page).dev = [c.dev EXCEPT ![p] = page])
      /\ Write_Page(c, p, page).ok =>
           c.ok /\ Write_Page(c, p, page).dev = [c.dev EXCEPT ![p] = page]
  BY DEF Write_Page, Fail, Calls
<1> QED
  BY <1>1, <1>2, <1>3 DEF Puts

\* The bitmap is written, or it is not; page 0 that is to be written takes it
\* with it.
Bitmapped(d, bm) == [d EXCEPT ![0] = [d[0] EXCEPT !.bm = bm]]

LEMMA BitsPuts ==
  ASSUME NEW c \in Calls, c.dev[0].head = "root"
  PROVE  /\ Bits(c) \in Calls /\ Bits(c).hung = c.hung
         /\ Bits(c).dev = c.dev \/ (c.ok /\ c.spot # 0 /\ Bits(c).dev = Bitmapped(c.dev, c.bm))
         /\ Bits(c).ok => c.ok /\ (c.spot # 0 => Bits(c).dev = Bitmapped(c.dev, c.bm))
<1> DEFINE zero == 0
           page == [c.dev[0] EXCEPT !.bm = c.bm]
<1>1. zero \in Pages /\ page \in PageType
  BY CallFields, Constants, PageSame DEF Devs
<1>2. CASE c.spot = 0
  <2>1. Bits(c) = c
    BY <1>2 DEF Bits
  <2> QED
    BY <2>1, <1>2
<1>3. CASE c.spot # 0
  <2>1. Bits(c) = Write_Page(c, zero, page)
    BY <1>3 DEF Bits, WriteBitMap
  <2>2. Bitmapped(c.dev, c.bm) = [c.dev EXCEPT ![zero] = page]
    BY DEF Bitmapped
  <2> HIDE DEF zero, page
  <2>3. Puts(c, Bits(c), zero, page)
    BY <2>1, <1>1, WritePuts
  <2> QED
    BY <2>2, <2>3, <1>3 DEF Puts
<1> QED
  BY <1>2, <1>3

LEMMA BitmappedIs ==
  ASSUME NEW d \in Devs, NEW bm \in SUBSET Pages
  PROVE  /\ Bitmapped(d, bm) \in Devs
         /\ Bitmapped(d, bm)[0].bm = bm
         /\ \A r : Alike(d, Bitmapped(d, bm), r)
         /\ \A r \in Pages : r # 0 => Bitmapped(d, bm)[r] = d[r]
         /\ Sound(d) /\ Live(d) \subseteq bm => Alikes(d, Bitmapped(d, bm))
<1> DEFINE e == Bitmapped(d, bm)
           page == [d[0] EXCEPT !.bm = bm]
<1>1. page \in PageType /\ 0 \in Pages
  BY Constants, PageSame DEF Devs
<1>2. d[0] \in PageType
  BY Constants DEF Devs
<1>3. /\ page.bm = bm /\ page.head = d[0].head /\ page.slots = d[0].slots
      /\ page.data = d[0].data /\ page.next = d[0].next
  BY <1>2, PageFields
<1> HIDE DEF page
<1>4. e = [d EXCEPT ![0] = page]
  BY DEF Bitmapped, page
<1>5. e \in Devs /\ e[0] = page /\ \A r \in Pages : r # 0 => e[r] = d[r]
  BY <1>1, <1>4 DEF Devs
<1> HIDE DEF e
<1>6. \A r : Alike(d, e, r)
  <2>1. \A r \in Pages : At(d, r) = d[r] /\ At(e, r) = e[r]
    BY <1>5, AtType
  <2>2. \A r : r \notin Pages => At(d, r) = Blank /\ At(e, r) = Blank
    BY DEF At
  <2> QED
    BY <1>3, <1>5, <2>1, <2>2 DEF Alike
<1>7. ASSUME Sound(d), Live(d) \subseteq bm PROVE Alikes(d, e)
  <2>1. d[0].head = "root"
    BY <1>7 DEF Sound
  <2> QED
    BY <2>1, <1>3, <1>5, <1>6, <1>7, AliveSame
<1> QED
  BY <1>3, <1>5, <1>6, <1>7 DEF e

\* The new entry has a page of the directory to be put in, a name that the
\* directory does not have, and starts in what nothing else is in.
Takes(c, u, entry) ==
  /\ c.ok /\ Fine(c) /\ u \in DirsOf(c.dev) /\ c.spot \in ToSet(Walk(c.dev, u))
  /\ c.dbuf = c.dev[c.spot] /\ Live(c.dev) \subseteq c.bm /\ entry \in Entries
  /\ \A y \in Dir(c.dev, u) : y.e.name # entry.name
  /\ New(c.dev, c.bm, entry.spage, entry.name)

\* A page of the directory is written after the bitmap, or takes it with it.
LEMMA SpotPuts ==
  ASSUME NEW c \in Calls, Fine(c), Live(c.dev) \subseteq c.bm, NEW page \in PageType,
         c.dev[0].head = "root", page.head = c.dev[c.spot].head,
         NEW w, w = Write_Page(Bits(c), c.spot, WithBits(c, page))
  PROVE  /\ ~w.hung /\ w.dev \in Devs
         /\ \/ ~w.ok /\ Sound(w.dev) /\ Grows(c.dev, w.dev)
            \/ /\ Patched(c.dev, w.dev, c.spot) /\ w.dev[0].head = "root" /\ w.dev[0].bm = c.bm
               /\ w.dev[c.spot].head = page.head /\ w.dev[c.spot].slots = page.slots
               /\ w.dev[c.spot].data = page.data /\ w.dev[c.spot].next = page.next
<1> DEFINE d == c.dev
           b == Bits(c)
           s == c.spot
           pg == WithBits(c, page)
<1>1. d \in Devs /\ s \in Pages /\ s \in Places /\ c.bm \in SUBSET Pages /\ 0 \in Pages
  BY CallFields, Constants
<1>2. /\ b \in Calls /\ ~b.hung
      /\ b.dev = d \/ (s # 0 /\ b.dev = Bitmapped(d, c.bm))
      /\ b.ok => c.ok /\ (s # 0 => b.dev = Bitmapped(d, c.bm))
  BY BitsPuts DEF Fine
<1>3. pg \in PageType /\ page \in PageType
  BY WithBitsType
<1>4. /\ pg.head = page.head /\ pg.slots = page.slots /\ pg.data = page.data /\ pg.next = page.next
      /\ s = 0 => pg.bm = c.bm
  BY PageFields DEF WithBits
<1>5. Sound(b.dev) /\ Grows(d, b.dev)
  <2>1. \A r : Alike(d, b.dev, r)
    BY <1>1, <1>2, BitmappedIs DEF Alike
  <2>2. Sound(b.dev)
    BY <1>1, <1>2, BitmappedIs DEF Fine, Alikes
  <2> QED
    BY <2>1, <2>2, GrowsAlike
<1>6. /\ w \in Calls /\ ~w.hung
      /\ (~w.ok /\ w.dev = b.dev) \/ (b.ok /\ w.dev = [b.dev EXCEPT ![s] = pg])
  <2> HIDE DEF b, pg, s
  <2>1. w = Write_Page(b, s, pg)
    BY DEF b, pg, s
  <2>2. Puts(b, w, s, pg)
    BY <2>1, <1>1, <1>2, <1>3, WritePuts
  <2> QED
    BY <2>2, <1>2 DEF Puts
<1>7. ASSUME b.ok, w.dev = [b.dev EXCEPT ![s] = pg]
      PROVE  /\ Patched(d, w.dev, s) /\ w.dev[0].head = "root" /\ w.dev[0].bm = c.bm
             /\ w.dev[s].head = page.head /\ w.dev[s].slots = page.slots
             /\ w.dev[s].data = page.data /\ w.dev[s].next = page.next
  <2>1. b.dev \in Devs /\ w.dev \in Devs
    BY <1>2, <1>6, CallFields
  <2>2. w.dev[s] = pg /\ \A r \in Pages : r # s => w.dev[r] = b.dev[r]
    BY <1>1, <1>7, <2>1 DEF Devs
  <2>3. \A r \in Places : Alike(d, b.dev, r)
    BY <1>1, <1>2, BitmappedIs DEF Alike
  <2>4. Patched(d, w.dev, s)
    <3>1. \A r \in Places : r # s => At(w.dev, r) = At(b.dev, r)
      BY <2>2 DEF At
    <3> QED
      BY <2>3, <3>1 DEF Patched, Alike
  <2>5. CASE s = 0
    BY <2>2, <2>4, <2>5, <1>4
  <2>6. CASE s # 0
    <3>1. w.dev[0] = b.dev[0] /\ b.dev = Bitmapped(d, c.bm)
      BY <2>2, <2>6, <1>1, <1>2, <1>7
    <3>2. At(d, 0) = d[0] /\ At(b.dev, 0) = b.dev[0]
      BY <1>1, <2>1, AtType
    <3>3. Alike(d, b.dev, 0) /\ b.dev[0].bm = c.bm
      BY <3>1, <1>1, BitmappedIs
    <3> QED
      BY <2>2, <2>4, <3>1, <3>2, <3>3, <1>4 DEF Alike
  <2> QED
    BY <2>5, <2>6
<1> QED
  BY <1>5, <1>6, <1>7, CallFields

\* The root has the entry, and the page it leads to is as it was.
Filed(d, e, entry) == (\E y \in Dir(e, 0) : y.e = entry) /\ Alike(d, e, entry.spage)

LEMMA FiledIn ==
  ASSUME NEW d \in Devs, NEW e \in Devs, Sound(d), Sound(e), NEW p \in ToSet(Walk(d, 0)),
         Patched(d, e, p), e[p].head = d[p].head, e[p].next = d[p].next,
         NEW entry, NEW i \in 1 .. Len(e[p].slots), e[p].slots[i] = entry,
         NEW bm, New(d, bm, entry.spage, entry.name)
  PROVE  Filed(d, e, entry)
<1> DEFINE u == 0
           q == entry.spage
<1>1. u \in DirsOf(d) /\ u \in DirsOf(e) /\ u \in Starts(d) /\ u \in Places /\ p \in ToSet(Walk(d, u))
  BY DirsOfType, EntryIn
<1> HIDE DEF u
<1>2. p \in Live(d) /\ p \in Pages /\ ToSet(Walk(d, u)) \subseteq Places
      /\ Stops(At(d, Last(Walk(d, u))))
  <2>1. Live(d) \subseteq Pages /\ ToSet(Walk(d, u)) \subseteq Live(d)
    BY <1>1, SoundEnds DEF Live
  <2> QED
    BY <1>1, <2>1, SoundEnds, Constants
<1>3. \A r \in ToSet(Walk(d, u)) : Linked(d, e, r)
  <2>1. Linked(d, e, p)
    BY <1>2, AtType DEF Linked, Readable
  <2>2. ASSUME NEW r \in ToSet(Walk(d, u)), r # p PROVE Linked(d, e, r)
    BY <1>2, <2>2, AlikeLinked DEF Patched
  <2> QED
    BY <2>1, <2>2
<1>4. Walk(e, u) = Walk(d, u)
  BY <1>1, <1>2, <1>3, WalkLinked
<1>5. \E y \in Dir(e, u) : y.e = entry
  BY <1>1, <1>4, SlotIn
<1>6. q \in Places /\ q # p
  BY <1>2, NewStart
<1> QED
  BY <1>5, <1>6 DEF Filed, Patched, u

LEMMA AddInFine ==
  ASSUME NEW c \in Calls, NEW u, NEW entry, Takes(c, u, entry)
  PROVE  /\ Fine(AddIn(c, entry)) /\ Grows(c.dev, AddIn(c, entry).dev)
         /\ AddIn(c, entry).ok /\ u = 0 => Filed(c.dev, AddIn(c, entry).dev, entry)
<1> DEFINE d == c.dev
           p == c.spot
           page == Added(c.dbuf, entry)
           w == AddIn(c, entry)
<1>1. /\ Fine(c) /\ u \in DirsOf(d) /\ p \in ToSet(Walk(d, u)) /\ c.dbuf = d[p]
      /\ Live(d) \subseteq c.bm /\ entry \in Entries /\ New(d, c.bm, entry.spage, entry.name)
      /\ \A y \in Dir(d, u) : y.e.name # entry.name
  BY DEF Takes
<1>2. d \in Devs /\ d[0].head = "root" /\ Sound(d)
  BY <1>1, CallFields DEF Fine, Sound
<1>3. p \in Live(d) /\ p \in Pages /\ d[p] \in PageType
  BY <1>1, <1>2, StartLive, EntryIn
<1>4. page \in PageType /\ page.head = d[p].head /\ page.next = d[p].next
      /\ page.data = d[p].data /\ page.slots = Append(d[p].slots, entry)
  <2>1. page \in PageType
    BY <1>1, <1>3, AddedType
  <2>2. d[p].data = <<>>
    BY <1>1, <1>2, PageBare
  <2>3. page.head = d[p].head /\ page.next = d[p].next
        /\ page.data = d[p].data /\ page.slots = Append(d[p].slots, entry)
    BY <1>1, <1>3, <2>2, PageFields DEF Added
  <2> QED
    BY <2>1, <2>3
<1>5. w = Write_Page(Bits(c), p, WithBits(c, page))
  BY DEF AddIn
<1>6. /\ ~w.hung /\ w.dev \in Devs
      /\ \/ ~w.ok /\ Sound(w.dev) /\ Grows(d, w.dev)
         \/ /\ Patched(d, w.dev, p) /\ w.dev[0].head = "root" /\ w.dev[0].bm = c.bm
            /\ w.dev[p].head = page.head /\ w.dev[p].slots = page.slots
            /\ w.dev[p].data = page.data /\ w.dev[p].next = page.next
  <2> HIDE DEF page, w
  <2> QED
    BY <1>1, <1>2, <1>4, <1>5, SpotPuts
<1> HIDE DEF page, w, d, p
<1> DEFINE e == w.dev
<1>7. ASSUME Patched(d, e, p), e[0].head = "root", e[0].bm = c.bm,
             e[p].head = page.head, e[p].slots = page.slots,
             e[p].data = page.data, e[p].next = page.next
      PROVE  Sound(e) /\ Grows(d, e) /\ (u = 0 => Filed(d, e, entry))
  <2>1. /\ e[p].head = d[p].head /\ e[p].next = d[p].next /\ e[p].data = d[p].data
        /\ Live(d) \subseteq e[0].bm /\ New(d, e[0].bm, entry.spage, entry.name) /\ e \in Devs
    BY <1>1, <1>4, <1>6, <1>7
  <2>2. d[p].slots \in Seq(Entries) /\ e[p].slots = Append(d[p].slots, entry)
    BY <1>3, <1>4, <1>7, PageFields
  <2>3. \A i \in 1 .. Len(d[p].slots) :
          \E j \in 1 .. Len(e[p].slots) : e[p].slots[j] = d[p].slots[i]
    <3> DEFINE s == d[p].slots
               t == e[p].slots
    <3>1. Len(t) = Len(s) + 1 /\ Len(s) \in Nat /\ \A i \in 1 .. Len(s) : t[i] = s[i]
      BY <2>2, <1>1
    <3> HIDE DEF s, t
    <3>2. \A i \in 1 .. Len(s) : i \in 1 .. Len(t) /\ t[i] = s[i]
      BY <3>1
    <3> QED
      BY <3>2 DEF s, t
  <2> HIDE DEF e
  <2>4. Grows(d, e)
    BY <2>1, <2>3, <1>2, <1>3, <1>7, PatchGrows
  <2>5. Sound(e)
    BY <2>1, <2>2, <1>1, <1>2, <1>7, AddSlotSound
  <2>6. ASSUME u = 0 PROVE Filed(d, e, entry)
    <3>1. PICK i \in 1 .. Len(e[p].slots) : e[p].slots[i] = entry
      <4> DEFINE s == d[p].slots
                 t == e[p].slots
                 n == Len(s)
      <4>1. n + 1 \in 1 .. Len(t) /\ t[n + 1] = entry
        BY <2>2, <1>1
      <4> HIDE DEF n, t
      <4> QED
        BY <4>1 DEF t
    <3>2. p \in ToSet(Walk(d, 0))
      BY <1>1, <2>6
    <3> QED
      BY <2>1, <2>5, <3>1, <3>2, <1>2, <1>7, FiledIn
  <2> QED
    BY <2>4, <2>5, <2>6
<1> QED
  BY <1>6, <1>7 DEF Fine, w, d

\* A call that has failed writes nothing more.
LEMMA BehindStuck ==
  ASSUME NEW c \in Calls, ~c.ok, c.dev[0].head = "root", NEW avail \in Places
  PROVE  AddBehind(c, avail).dev = c.dev /\ AddBehind(c, avail).hung = c.hung
         /\ ~AddBehind(c, avail).ok
<1> DEFINE b == Bits(c)
           p == c.spot
           page == WithBits(c, [c.dbuf EXCEPT !.next = avail])
<1>1. p \in Pages /\ page \in PageType
  BY CallFields, PageSame, WithBitsType
<1>2. b \in Calls /\ b.hung = c.hung /\ b.dev = c.dev /\ ~b.ok
  BY BitsPuts
<1>3. AddBehind(c, avail) = Write_Page(b, p, page)
  BY DEF AddBehind
<1> HIDE DEF b, p, page
<1>4. Puts(b, Write_Page(b, p, page), p, page)
  BY <1>1, <1>2, WritePuts
<1> QED
  BY <1>2, <1>3, <1>4 DEF Puts

LEMMA AddBehindFine ==
  ASSUME NEW c \in Calls, NEW u, NEW entry, Takes(c, u, entry), c.spot = Last(Walk(c.dev, u)),
         NEW b \in Pages, b \notin Live(c.dev), b \in c.bm,
         c.dev[b].head = "none", c.dev[b].slots = <<entry>>,
         c.dev[b].data = <<>>, c.dev[b].next = 0,
         b \notin ToSet(Walk(c.dev, entry.spage))
  PROVE  /\ Fine(AddBehind(c, b)) /\ Grows(c.dev, AddBehind(c, b).dev)
         /\ AddBehind(c, b).ok /\ u = 0 => Filed(c.dev, AddBehind(c, b).dev, entry)
<1> DEFINE d == c.dev
           p == c.spot
           page == [c.dbuf EXCEPT !.next = b]
           w == AddBehind(c, b)
<1>1. /\ Fine(c) /\ u \in DirsOf(d) /\ p \in ToSet(Walk(d, u)) /\ c.dbuf = d[p]
      /\ Live(d) \subseteq c.bm /\ entry \in Entries /\ New(d, c.bm, entry.spage, entry.name)
      /\ \A y \in Dir(d, u) : y.e.name # entry.name
  BY DEF Takes
<1>2. d \in Devs /\ d[0].head = "root" /\ Sound(d)
  BY <1>1, CallFields DEF Fine, Sound
<1>3. p \in Live(d) /\ p \in Pages /\ d[p] \in PageType /\ b # p
  BY <1>1, <1>2, StartLive, EntryIn
<1>4. /\ page \in PageType /\ page.head = d[p].head /\ page.next = b
      /\ page.slots = d[p].slots /\ page.data = d[p].data
  <2>1. b \in Places
    BY Constants
  <2>2. page \in PageType
    BY <2>1, <1>1, <1>3, PageSame
  <2>3. page.head = d[p].head /\ page.next = b /\ page.slots = d[p].slots
        /\ page.data = d[p].data
    BY <1>1, <1>3, PageFields
  <2> QED
    BY <2>2, <2>3
<1>5. w = Write_Page(Bits(c), p, WithBits(c, page))
  BY DEF AddBehind
<1>6. /\ ~w.hung /\ w.dev \in Devs
      /\ \/ ~w.ok /\ Sound(w.dev) /\ Grows(d, w.dev)
         \/ /\ Patched(d, w.dev, p) /\ w.dev[0].head = "root" /\ w.dev[0].bm = c.bm
            /\ w.dev[p].head = page.head /\ w.dev[p].slots = page.slots
            /\ w.dev[p].data = page.data /\ w.dev[p].next = page.next
  <2> HIDE DEF page, w
  <2> QED
    BY <1>1, <1>2, <1>4, <1>5, SpotPuts
<1> HIDE DEF page, w
<1> DEFINE e == w.dev
<1>7. ASSUME Patched(d, e, p), e[0].head = "root", e[0].bm = c.bm,
             e[p].head = page.head, e[p].slots = page.slots,
             e[p].data = page.data, e[p].next = page.next
      PROVE  Sound(e) /\ Grows(d, e) /\ (u = 0 => Filed(d, e, entry))
  <2>1. /\ e[p].head = d[p].head /\ e[p].next = b /\ e[p].slots = d[p].slots
        /\ e[p].data = d[p].data
        /\ Live(d) \subseteq e[0].bm /\ b \in e[0].bm
        /\ New(d, e[0].bm, entry.spage, entry.name) /\ e \in Devs
    BY <1>1, <1>4, <1>6, <1>7
  <2>2. /\ p = Last(Walk(d, u)) /\ b \notin Live(d) /\ b \notin ToSet(Walk(d, entry.spage))
        /\ d[b].head = "none" /\ d[b].slots = <<entry>> /\ d[b].data = <<>> /\ d[b].next = 0
    OBVIOUS
  <2>3. d[p].next = 0
    <3>1. Ends(d, Walk(d, u)) /\ At(d, p) = d[p]
      BY <1>1, <1>2, <1>3, SoundEnds, AtType
    <3> QED
      BY <2>2, <3>1 DEF Ends, EndsIn
  <2> HIDE DEF e, d, p
  <2>4. Grows(d, e)
    BY <2>1, <2>3, <1>2, <1>3, <1>7, PatchGrows
  <2>5. Sound(e) /\ b \in ToSet(Walk(e, u))
    BY <2>1, <2>2, <1>1, <1>2, <1>3, <1>7, BehindSound
  <2>6. ASSUME u = 0 PROVE Filed(d, e, entry)
    <3>1. u \in DirsOf(e)
      BY <2>1, <2>6, DirsOfType
    <3>2. b \in Places /\ entry.spage \in Places /\ entry.spage # p
      BY <1>1, <1>2, <1>3, NewStart, Constants
    <3>3. Alike(d, e, b) /\ Alike(d, e, entry.spage)
      BY <1>3, <1>7, <3>2 DEF Patched
    <3>4. e[b].slots = <<entry>>
      <4>1. At(d, b) = d[b] /\ At(e, b) = e[b]
        BY <1>2, <2>1, AtType
      <4> QED
        BY <2>2, <3>3, <4>1 DEF Alike
    <3>5. 1 \in 1 .. Len(e[b].slots) /\ e[b].slots[1] = entry
      BY <3>4
    <3>6. \E y \in Dir(e, u) : y.e = entry
      BY <2>1, <2>5, <3>1, <3>5, SlotIn
    <3> QED
      BY <2>6, <3>3, <3>6 DEF Filed
  <2> QED
    BY <2>4, <2>5, <2>6
<1> QED
  BY <1>6, <1>7 DEF Fine, w

LEMMA AddPageFine ==
  ASSUME NEW c \in Calls, NEW u, NEW entry, Takes(c, u, entry), c.spot = Last(Walk(c.dev, u)),
         NEW b \in Pages, b \notin c.bm
  PROVE  /\ Fine(AddPage(c, entry, b)) /\ Grows(c.dev, AddPage(c, entry, b).dev)
         /\ AddPage(c, entry, b).ok /\ u = 0 => Filed(c.dev, AddPage(c, entry, b).dev, entry)
<1> DEFINE d == c.dev
           page == [Blank EXCEPT !.head = "none", !.slots = <<entry>>]
           a == Write_Page(c, b, page)
           m == Mark(a, b)
           q == entry.spage
<1>1. /\ Fine(c) /\ u \in DirsOf(d) /\ c.spot \in ToSet(Walk(d, u)) /\ c.dbuf = d[c.spot]
      /\ Live(d) \subseteq c.bm /\ entry \in Entries /\ New(d, c.bm, q, entry.name)
      /\ \A y \in Dir(d, u) : y.e.name # entry.name /\ c.ok
  BY DEF Takes
<1>2. d \in Devs /\ d[0].head = "root" /\ Sound(d) /\ ~c.hung
  BY <1>1, CallFields DEF Fine, Sound
<1>3. page \in PageType
  BY <1>1, OneSlot
<1>4. page.head = "none" /\ page.slots = <<entry>> /\ page.data = <<>> /\ page.next = 0
  BY DEF Blank
<1>5. Puts(c, a, b, page)
  BY <1>3, WritePuts
<1>6. AddPage(c, entry, b) = AddBehind(m, b)
  BY DEF AddPage
<1> DEFINE e == [d EXCEPT ![b] = page]
<1>7. b \notin Live(d) /\ b # 0 /\ 0 \in Live(d) /\ b \in Places
  BY <1>1, <1>2, StartLive, EntryIn, Constants
<1>8. e \in Devs /\ Alikes(d, e)
  <2> HIDE DEF page
  <2> QED
    BY <1>2, <1>3, <1>7, AsideWrite
<1>9. e[b] = page /\ e[0] = d[0] /\ \A r \in Pages : r # b => e[r] = d[r]
  BY <1>2, <1>7, Constants DEF Devs
<1> HIDE DEF page, e
<1>10. a \in Calls /\ a.hung = c.hung /\ (a.dev = d \/ a.dev = e) /\ (a.ok => a.dev = e) /\ a.bm = c.bm
       /\ a.spot = c.spot /\ a.dbuf = c.dbuf
  BY <1>5 DEF Puts, Keeps, e
<1> HIDE DEF a
<1>11. m \in Calls
  <2> DEFINE S == Pages
  <2> HIDE DEF S
  <2> QED
    BY <1>10, MarkGoes DEF Goes
<1>12. /\ m.dev = a.dev /\ m.hung = a.hung /\ m.spot = a.spot /\ m.dbuf = a.dbuf /\ (m.ok <=> a.ok)
       /\ a.ok => m.bm = a.bm \cup {b}
  BY <1>10 DEF Mark, Fail, Calls
<1> HIDE DEF m
<1>13. Sound(a.dev) /\ a.dev[0].head = "root"
  BY <1>2, <1>8, <1>10 DEF Alikes, Sound
<1>14. CASE ~a.ok
  <2>1. AddBehind(m, b).dev = m.dev /\ AddBehind(m, b).hung = m.hung /\ ~AddBehind(m, b).ok
    BY <1>7, <1>11, <1>12, <1>13, <1>14, BehindStuck
  <2>2. Grows(d, a.dev)
    BY <1>2, <1>8, <1>10, GrowsAlikes, GrowsSame
  <2> QED
    BY <2>1, <2>2, <1>2, <1>6, <1>10, <1>12, <1>13 DEF Fine
<1>15. CASE a.ok
  <2>1. /\ m.dev = e /\ m.ok /\ ~m.hung /\ m.bm = c.bm \cup {b} /\ m.spot = c.spot /\ m.dbuf = c.dbuf
    BY <1>2, <1>10, <1>12, <1>15
  <2>2. u \in DirsOf(e) /\ Walk(e, u) = Walk(d, u) /\ Dir(e, u) = Dir(d, u) /\ Live(e) = Live(d)
        /\ Sound(e)
    BY <1>1, <1>8, EntryIn, <1>2 DEF Alikes
  <2>3. c.spot \in Live(d) /\ c.spot \in Pages
    BY <1>1, <1>2, StartLive, EntryIn
  <2>4. e[c.spot] = d[c.spot]
    BY <2>3, <1>7, <1>9
  <2>5. b \notin ToSet(Walk(d, q)) /\ q \in Places
    BY <1>1, <1>2, NewStart DEF New
  <2>6. Walk(e, q) = Walk(d, q) /\ New(e, m.bm, q, entry.name)
    <3>1. ToSet(Walk(d, q)) \subseteq Places
      <4>1. Walk(d, q) \in Seq(Places) /\ \A k \in 1 .. Len(Walk(d, q)) : Walk(d, q)[k] \in Places
        BY <1>2, <2>5, WalkType
      <4> QED
        BY <4>1, InSet
    <3>2. \A r \in ToSet(Walk(d, q)) : Alike(d, e, r)
      BY <2>5, <1>9 DEF Alike, At
    <3>3. \A r \in ToSet(Walk(d, q)) : r \notin Live(d) /\ r \in m.bm
      BY <1>1, <2>1 DEF New
    <3> DEFINE none == {}
    <3>4. New(d, c.bm, q, entry.name)
      BY <1>1
    <3>5. Stops(At(d, Last(Walk(d, q))))
      <4>1. CASE Ends(d, Walk(d, q))
        BY <4>1 DEF Ends, EndsIn, Stops
      <4>2. CASE ~Readable(At(d, q))
        BY <4>2, <2>5, <1>2, WalkOne DEF Stops
      <4>3. entry.name \in Dirs \/ entry.name \notin Dirs
        OBVIOUS
      <4> QED
        BY <4>1, <4>2, <4>3, <3>4 DEF New
    <3>6. /\ Walk(e, q) = Walk(d, q) /\ Dir(e, q) = Dir(d, q)
          /\ Ends(d, Walk(d, q)) => Ends(e, Walk(e, q))
          /\ Readable(At(d, q)) <=> Readable(At(e, q))
          /\ IsDir(At(d, q)) <=> IsDir(At(e, q))
          /\ Bare(d, q) => Bare(e, q)
      BY <1>2, <1>8, <2>5, <3>2, <3>5, KeptSame DEF Kept
    <3> HIDE DEF q, d
    <3> QED
      BY <2>2, <3>3, <3>4, <3>6 DEF New
  <2>7. Takes(m, u, entry)
    <3>1. Fine(m)
      BY <2>1, <2>2 DEF Fine
    <3>2. Live(e) \subseteq m.bm
      BY <2>1, <2>2, <1>1
    <3>3. m.dbuf = e[m.spot] /\ m.spot \in ToSet(Walk(e, u))
      BY <2>1, <2>2, <2>4, <1>1
    <3>4. \A y \in Dir(e, u) : y.e.name # entry.name
      BY <2>2, <1>1
    <3> QED
      BY <2>1, <2>2, <2>6, <3>1, <3>2, <3>3, <3>4, <1>1 DEF Takes
  <2>8. m.spot = Last(Walk(m.dev, u)) /\ b \notin Live(m.dev) /\ b \in m.bm
    BY <2>1, <2>2, <1>7
  <2>9. m.dev[b].head = "none" /\ m.dev[b].slots = <<entry>> /\ m.dev[b].data = <<>>
        /\ m.dev[b].next = 0
    BY <2>1, <1>4, <1>9 DEF page
  <2>10. b \notin ToSet(Walk(m.dev, entry.spage))
    BY <2>1, <2>5, <2>6
  <2>11. /\ Fine(AddBehind(m, b)) /\ Grows(e, AddBehind(m, b).dev)
         /\ AddBehind(m, b).ok /\ u = 0 => Filed(e, AddBehind(m, b).dev, entry)
    BY <2>1, <2>7, <2>8, <2>9, <2>10, <1>11, AddBehindFine
  <2>12. Alike(d, e, q)
    <3>1. q # b
      BY <1>2, <2>5, ChainHead
    <3> QED
      BY <1>9, <3>1 DEF Alike, At
  <2>13. \A f : Filed(e, f, entry) => Filed(d, f, entry)
    BY <2>12 DEF Filed, Alike
  <2> QED
    BY <2>11, <2>13, <1>2, <1>6, <1>8, GrowsAfter
<1> QED
  BY <1>14, <1>15

\* The entry that a new file gets.
EntryFor(c, h) == [name |-> c.han[h].name, spage |-> c.han[h].spage, attr |-> FALSE]

\* There is room for it: in a page, or behind the last one.
HasRoom(c, u, h) ==
  /\ Takes(c, u, EntryFor(c, h))
  /\ Full(c.dbuf) => c.spot = Last(Walk(c.dev, u)) /\ Avail(c.bm) \notin c.bm

LEMMA AddEntryFine ==
  ASSUME NEW c \in Calls, NEW h \in Handles \cup {0}, NEW u, HasRoom(c, u, h)
  PROVE  /\ Fine(AddEntry(c, h)) /\ Grows(c.dev, AddEntry(c, h).dev)
         /\ AddEntry(c, h).ok /\ u = 0 => Filed(c.dev, AddEntry(c, h).dev, EntryFor(c, h))
<1> DEFINE open == [c.han[h] EXCEPT !.attr = FALSE]
           a == [c EXCEPT !.han = [@ EXCEPT ![h] = open]]
           entry == EntryFor(c, h)
           b == Avail(c.bm)
<1>1. a = [c EXCEPT !.han[h].attr = FALSE]
  BY CallFields
<1>2. open \in Open(Names) /\ (h \in Handles => open \in Open(Files))
  <2>1. c.han[h] \in Open(Names) /\ (h \in Handles => c.han[h] \in Open(Files))
    BY CallFields, HanFields
  <2> QED
    BY <2>1 DEF Open
<1> HIDE DEF open
<1>3. a \in Calls
  <2> DEFINE S == {}
  <2> HIDE DEF S
  <2>1. Goes(c, a, S)
    BY <1>2, HandleGoes
  <2> QED
    BY <2>1 DEF Goes
<1>4. a.dev = c.dev /\ a.hung = c.hung /\ a.ok = c.ok /\ a.spot = c.spot /\ a.dbuf = c.dbuf
      /\ a.bm = c.bm
  BY DEF Calls
<1>5. b \in Pages
  BY CallFields, AvailType
<1>6. AddEntry(c, h) = IF Full(c.dbuf) THEN AddPage(a, entry, b) ELSE AddIn(a, entry)
  BY <1>1 DEF AddEntry, EntryFor
<1> HIDE DEF a, b, entry
<1>7. Takes(a, u, entry)
  BY <1>4 DEF HasRoom, Takes, Fine, entry
<1>8. CASE Full(c.dbuf)
  <2>1. a.spot = Last(Walk(a.dev, u)) /\ b \notin a.bm
    BY <1>4, <1>8 DEF HasRoom, b
  <2> QED
    BY <2>1, <1>3, <1>4, <1>5, <1>6, <1>7, <1>8, AddPageFine DEF entry
<1>9. CASE ~Full(c.dbuf)
  BY <1>3, <1>4, <1>6, <1>7, <1>9, AddInFine DEF entry
<1> QED
  BY <1>8, <1>9

\* The page of an old entry is as it was read.
Unread(c) ==
  /\ Live(c.dev) \subseteq c.bm /\ c.info.dpage \in Pages
  /\ c.newpg.head = c.dev[c.info.dpage].head /\ c.newpg.slots = c.dev[c.info.dpage].slots
  /\ c.newpg.data = c.dev[c.info.dpage].data /\ c.newpg.next = c.dev[c.info.dpage].next
  /\ c.info.dpage = 0 => Live(c.dev) \subseteq c.newpg.bm

LEMMA RecordedFine ==
  ASSUME NEW c \in Calls, NEW h \in Handles \cup {0}, NEW u, Fine(c),
         c.ok /\ c.info = NoInfo => HasRoom(c, u, h),
         c.ok /\ c.info # NoInfo => Unread(c)
  PROVE  /\ Fine(Recorded(c, h)) /\ Grows(c.dev, Recorded(c, h).dev)
         /\ c.info # NoInfo => \A r : Alike(c.dev, Recorded(c, h).dev, r)
         /\ Recorded(c, h).ok => c.ok
         /\ Recorded(c, h).ok /\ c.info = NoInfo /\ u = 0 =>
              Filed(c.dev, Recorded(c, h).dev, EntryFor(c, h))
<1>1. CASE ~c.ok
  BY <1>1, GrowsSame DEF Recorded, Alike
<1>2. CASE c.ok /\ c.info = NoInfo
  BY <1>2, AddEntryFine DEF Recorded
<1>3. CASE c.ok /\ c.info # NoInfo
  <2> DEFINE d == c.dev
             b == Bits(c)
             p == c.info.dpage
             w == Write_Page(b, p, c.newpg)
  <2>1. d \in Devs /\ p \in Pages /\ c.newpg \in PageType /\ c.bm \in SUBSET Pages
        /\ d[0].head = "root" /\ Sound(d) /\ Live(d) \subseteq c.bm
    BY <1>3, CallFields DEF Unread, Fine, Sound
  <2>2. /\ b \in Calls /\ ~b.hung /\ (b.dev = d \/ b.dev = Bitmapped(d, c.bm))
    BY <2>1, BitsPuts DEF Fine
  <2>3. Alikes(d, Bitmapped(d, c.bm)) /\ \A r : Alike(d, Bitmapped(d, c.bm), r)
    BY <2>1, BitmappedIs
  <2>4. Sound(b.dev) /\ b.dev \in Devs /\ Live(b.dev) = Live(d) /\ Alike(d, b.dev, p)
    BY <2>1, <2>2, <2>3, CallFields DEF Alikes, Alike
  <2>5. Recorded(c, h) = w
    BY <1>3 DEF Recorded
  <2>6. Puts(b, w, p, c.newpg)
    BY <2>1, <2>2, WritePuts
  <2>7. w.hung = b.hung /\ (w.dev = b.dev \/ w.dev = [b.dev EXCEPT ![p] = c.newpg])
    BY <2>6 DEF Puts
  <2>8. Sound([b.dev EXCEPT ![p] = c.newpg])
    <3>1. At(d, p) = d[p] /\ At(b.dev, p) = b.dev[p]
      BY <2>1, <2>4, AtType
    <3>2. c.newpg.head = b.dev[p].head /\ c.newpg.slots = b.dev[p].slots
          /\ c.newpg.data = b.dev[p].data /\ c.newpg.next = b.dev[p].next
      BY <1>3, <2>4, <3>1 DEF Unread, Alike
    <3>3. p = 0 => Live(b.dev) \subseteq c.newpg.bm
      BY <1>3, <2>4 DEF Unread
    <3> HIDE DEF b, p
    <3> QED
      BY <2>1, <2>4, <3>2, <3>3, AsideWrite DEF Alikes
  <2>9. \A r : Alike(d, w.dev, r)
    <3>1. \A r : Alike(d, b.dev, r)
      BY <2>2, <2>3 DEF Alike
    <3>2. CASE w.dev = b.dev
      BY <3>1, <3>2
    <3>3. CASE w.dev = [b.dev EXCEPT ![p] = c.newpg]
      <4>1. w.dev[p] = c.newpg /\ \A r \in Pages : r # p => w.dev[r] = b.dev[r]
        BY <3>3, <2>1, <2>4 DEF Devs
      <4>2. At(d, p) = d[p] /\ At(w.dev, p) = w.dev[p] /\ \A r : r # p => At(w.dev, r) = At(b.dev, r)
        BY <2>1, <4>1 DEF At
      <4>3. Alike(d, w.dev, p)
        BY <1>3, <4>1, <4>2 DEF Alike, Unread
      <4>4. \A r : r # p => Alike(d, w.dev, r)
        BY <3>1, <4>2 DEF Alike
      <4> QED
        BY <4>3, <4>4
    <3> QED
      BY <2>7, <3>2, <3>3
  <2>10. Grows(d, w.dev)
    BY <2>9, GrowsAlike
  <2>11. Fine(w)
    BY <2>2, <2>4, <2>7, <2>8 DEF Fine
  <2> HIDE DEF w
  <2> QED
    BY <1>3, <2>5, <2>9, <2>10, <2>11
<1> QED
  BY <1>1, <1>2, <1>3

----------------------------------------------------------------------------
(* What a call finds before it writes *)

\* The last page of a directory has none behind it, so a search comes to its end.
LEMMA FindFine ==
  ASSUME NEW c \in Calls, Fine(c), NEW u \in DirsOf(c.dev), NEW name
  PROVE  LET f == FindDirectoryInfo(c, u, name)
         IN  /\ f \in Calls /\ f.dev = c.dev /\ ~f.hung /\ (f.ok <=> c.ok) /\ Looks(c, f)
             /\ c.ok => Sought(c.dev, u, name, f.info)
             /\ c.ok /\ ~c.blind /\ f.info = NoInfo => \A y \in Dir(c.dev, u) : y.e.name # name
<1> DEFINE f == FindDirectoryInfo(c, u, name)
           list == Listing(c.dev, Walk(c.dev, u))
<1>1. c.dev \in Devs /\ Sound(c.dev) /\ ~c.hung /\ u \in Places
  BY CallFields, EntryIn DEF Fine
<1>2. IsDir(At(c.dev, u)) /\ Ends(c.dev, Walk(c.dev, u)) /\ ~Loops(c.dev, Walk(c.dev, u))
  BY <1>1, SoundEnds DEF Ends, EndsIn, Loops, LoopsIn
<1>3. f \in Calls /\ Looks(c, f) /\ f.dev = c.dev /\ (f.ok => Sought(c.dev, u, name, f.info))
  <2> DEFINE S == Pages
  <2> HIDE DEF S
  <2> QED
    BY <1>1, FindGoes DEF Goes, Looks
<1>4. f.hung = c.hung /\ f.ok = c.ok
  BY <1>2 DEF FindDirectoryInfo, Found, Hang, Calls
<1>5. ASSUME c.ok, ~c.blind, f.info = NoInfo PROVE \A y \in Dir(c.dev, u) : y.e.name # name
  <2>1. f.info = FirstNamed(list, name)
    BY <1>2, <1>5 DEF FindDirectoryInfo, Found, Hang, Calls
  <2>2. list \in Seq(Infos)
    BY <1>1, ListingIs
  <2> HIDE DEF f, list
  <2>3. Having(list, name) = {}
    <3>1. SUFFICES ASSUME Having(list, name) # {} PROVE FALSE
      OBVIOUS
    <3>2. Having(list, name) \in SUBSET Nat /\ Having(list, name) \subseteq 1 .. Len(list)
      BY <2>2 DEF Having
    <3>3. Min(Having(list, name)) \in 1 .. Len(list)
      BY <3>1, <3>2, MinIn
    <3>4. list[Min(Having(list, name))] \in ToSet(list)
      BY <2>2, <3>3, InSet
    <3>5. list[Min(Having(list, name))] # NoInfo
      BY <1>1, <3>4, EnteredType DEF list
    <3> QED
      BY <2>1, <3>1, <3>5, <1>5 DEF FirstNamed
  <2>4. \A k \in 1 .. Len(list) : list[k].e.name # name
    BY <2>2, <2>3 DEF Having
  <2>5. \A y : y \in ToSet(list) <=> \E k \in 1 .. Len(list) : list[k] = y
    BY <2>2, InSet
  <2> QED
    BY <2>4, <2>5 DEF Dir, list
<1> QED
  BY <1>1, <1>3, <1>4, <1>5

\* No write, and an end.
Quiet(c, e) == e.hung = c.hung /\ e.left = c.left /\ e.dev = c.dev /\ (e.ok => c.ok)

\* The page that was found for a new entry.
FoundSpot(c, f, w) ==
  /\ f.spot \in ToSet(w) /\ f.dbuf = c.dev[f.spot]
  /\ Full(f.dbuf) => f.spot = Last(w) /\ \A r \in ToSet(w) : Full(At(c.dev, r))

LEMMA FindSpotFine ==
  ASSUME NEW c \in Calls, Fine(c), NEW u \in DirsOf(c.dev)
  PROVE  LET f == FindSpot(c, Walk(c.dev, u))
         IN  Quiet(c, f) /\ (f.ok => FoundSpot(c, f, Walk(c.dev, u)))
<1> DEFINE d == c.dev
           w == Walk(d, u)
           n == Len(w)
           I == {i \in 1 .. n : ~Full(At(d, w[i])) \/ ~LoopsIn(At(d, w[i]))}
           k == IF I # {} THEN Min(I) ELSE 0
           f == FindSpot(c, w)
<1>1. d \in Devs /\ Sound(d) /\ ~c.hung /\ u \in Places /\ u \in Starts(d)
  BY CallFields, EntryIn DEF Fine
<1>2. Ends(d, w) /\ w \in Seq(Places) /\ n \in Nat \ {0} /\ IsDir(At(d, w[1]))
      /\ \A r \in ToSet(w) : At(d, r) = d[r]
  BY <1>1, SoundEnds, StartLive
<1>3. f = Spotted(c, w, k)
  BY DEF FindSpot, SelectInSeq
<1> HIDE DEF w, f
<1>4. Last(w) = w[n] /\ n \in 1 .. n
  BY <1>2, LastIn
<1>5. n \in I /\ I \in SUBSET Nat
  BY <1>2, <1>4 DEF Ends, EndsIn, LoopsIn
<1>6. k \in I /\ \A i \in I : k <= i
  <2> HIDE DEF I
  <2> QED
    BY <1>5, MinIn
<1> HIDE DEF k
<1>7. k \in 1 .. n /\ k # 0 /\ (~Full(At(d, w[k])) \/ ~LoopsIn(At(d, w[k])))
  BY <1>2, <1>6
<1>8. Quiet(c, f)
  BY <1>3, <1>7 DEF Spotted, Quiet, Fail, Hang, Calls
<1>9. ASSUME f.ok PROVE FoundSpot(c, f, w)
  <2>1. Readable(At(d, w[k])) /\ f.spot = w[k] /\ f.dbuf = d[w[k]]
    BY <1>3, <1>7, <1>9 DEF Spotted, Fail, Hang, Calls
  <2>2. w[k] \in ToSet(w) /\ At(d, w[k]) = d[w[k]]
    BY <1>2, <1>7, InSet
  <2>3. ASSUME Full(f.dbuf) PROVE f.spot = Last(w) /\ \A r \in ToSet(w) : Full(At(d, r))
    <3>1. ~LoopsIn(At(d, w[k]))
      BY <1>7, <2>1, <2>2, <2>3
    <3>2. k = n
      <4>1. SUFFICES ASSUME k # n PROVE FALSE
        OBVIOUS
      <4>2. k \in 1 .. n - 1
        BY <1>2, <1>7, <4>1
      <4>3. At(d, w[k]).next # 0
        <5>1. w \in Path(d, u)
          BY <1>1, WalkPath DEF w
        <5>2. \A j \in 1 .. Len(w) - 1 : w[j + 1] = At(d, w[j]).next /\ w[j + 1] # 0
          BY <1>1, <5>1, PathFields
        <5> QED
          BY <4>2, <5>2
      <4> QED
        BY <2>1, <3>1, <4>3 DEF LoopsIn
    <3>3. \A i \in 1 .. n : Full(At(d, w[i]))
      <4>1. \A i \in 1 .. n : i # n => i \notin I
        BY <1>2, <1>6, <3>2
      <4>2. Full(At(d, w[n]))
        BY <2>1, <2>2, <2>3, <3>2
      <4> QED
        BY <4>1, <4>2
    <3>4. \A r : r \in ToSet(w) <=> \E i \in 1 .. n : w[i] = r
      BY <1>2, InSet
    <3> QED
      BY <1>4, <2>1, <3>2, <3>3, <3>4
  <2> QED
    BY <2>1, <2>2, <2>3 DEF FoundSpot
<1> QED
  BY <1>8, <1>9 DEF f, w

\* What was found in the root.
Finds(c, e, h) ==
  /\ e.info = NoInfo => \A y \in Dir(c.dev, 0) : y.e.name # c.han[h].name
  /\ e.info # NoInfo =>
       /\ e.info \in Dir(c.dev, 0) /\ e.info.e.name = c.han[h].name
       /\ e.newpg = c.dev[e.info.dpage] /\ e.han[h].spage = e.info.e.spage
  /\ e.info = LastNamed(Root(c.dev), c.han[h].name) /\ e.han[h].name = c.han[h].name

LEMMA LocatedFine ==
  ASSUME NEW c \in Calls, Fine(c), NEW h \in Handles \cup {0}
  PROVE  LET e == Located(c, h, Walk(c.dev, 0))
         IN  Quiet(c, e) /\ (e.ok => Finds(c, e, h))
<1> DEFINE d == c.dev
           u == 0
           w == Walk(d, u)
           list == Listing(d, w)
           name == c.han[h].name
           info == LastNamed(list, name)
           t == Taken(c, h, info)
           e == Located(c, h, w)
<1>1. d \in Devs /\ Sound(d) /\ ~c.hung /\ u \in Places /\ u \in DirsOf(d)
  BY CallFields, EntryIn, DirsOfType DEF Fine
<1> HIDE DEF u
<1>2. Ends(d, w) /\ ~Loops(d, w) /\ list \in Seq(Infos)
  BY <1>1, SoundEnds, ListingIs DEF Ends, EndsIn, Loops, LoopsIn
<1>3. CASE ~c.ok
  <2>1. e = c
    BY <1>3 DEF Located
  <2> QED
    BY <1>3, <2>1 DEF Quiet, u
<1>4. CASE c.ok
  <2>1. Sought(d, u, name, info)
    <3> HIDE DEF name
    <3> QED
      BY <1>1, NamedType DEF Sought
  <2>2. info = NoInfo => \A y \in Dir(d, u) : y.e.name # name
    <3> SUFFICES ASSUME info = NoInfo PROVE \A y \in Dir(d, u) : y.e.name # name
      OBVIOUS
    <3> HIDE DEF name
    <3>1. Having(list, name) = {}
      <4>1. SUFFICES ASSUME Having(list, name) # {} PROVE FALSE
        OBVIOUS
      <4> DEFINE n == Len(list)
                 K == Having(list, name)
      <4>2. n \in Nat /\ K \in SUBSET (0 .. n) /\ K \subseteq 1 .. n
        BY <1>2 DEF Having
      <4>3. Max(K) \in 1 .. n
        <5> HIDE DEF n, K
        <5>1. K # {}
          BY <4>1 DEF K
        <5>2. Max(K) \in K
          BY <4>2, <5>1, MaxIn
        <5> QED
          BY <4>2, <5>2
      <4>4. list[Max(K)] \in ToSet(list)
        BY <1>2, <4>3, InSet
      <4>5. list[Max(K)] # NoInfo
        BY <1>1, <4>4, EnteredType
      <4>6. info = list[Max(K)]
        BY <4>1 DEF LastNamed
      <4> QED
        BY <4>5, <4>6
    <3>2. \A k \in 1 .. Len(list) : list[k].e.name # name
      BY <1>2, <3>1 DEF Having
    <3>3. \A y : y \in ToSet(list) <=> \E k \in 1 .. Len(list) : list[k] = y
      BY <1>2, InSet
    <3> QED
      BY <3>2, <3>3 DEF Dir
  <2>3. info \in Infos
    BY <2>1, <1>1, EnteredType, NoInfoType DEF Sought
  <2> HIDE DEF info
  <2>4. Reads(c, t, {}) /\ TakenAs(c, t, h, info)
    <3> DEFINE S == {}
    <3> HIDE DEF S
    <3>1. Reads(c, t, S) /\ TakenAs(c, t, h, info)
      BY <2>3, TakenGoes
    <3> QED
      BY <3>1 DEF S
  <2>5. Quiet(c, t) /\ t.dev = d /\ t.hung = c.hung /\ t.left = c.left /\ t.ok
        /\ (info # NoInfo => t.newpg = d[info.dpage])
    BY <1>4 DEF Taken, Quiet, Calls
  <2>6. t \in Calls
    BY <2>4 DEF Reads, Goes
  <2> HIDE DEF t
  <2>7. e = Require(t, Ends(d, w))
    BY <1>2, <1>4, <2>5 DEF Located, ToTheEnd, t, info, list, name
  <2>8. e = t
    BY <2>7, <1>2 DEF Require
  <2>9. Finds(c, e, h)
    <3>1. info # NoInfo => info \in Dir(d, u) /\ info.e.name = name
      BY <2>1 DEF Sought, Dir
    <3>2. info = LastNamed(Root(d), name)
      BY DEF Root, u, info
    <3> HIDE DEF e, list, w, d
    <3> QED
      BY <2>2, <2>4, <2>5, <2>8, <3>1, <3>2 DEF TakenAs, Finds, u, d
  <2> QED
    BY <2>5, <2>8, <2>9 DEF u
<1> QED
  BY <1>3, <1>4

\* All that is to be written is known, and nothing is written yet.
Sighted(c, e, u, h, n) ==
  /\ e.bm = c.dev[0].bm /\ FoundSpot(c, e, Walk(c.dev, u)) /\ Finds(c, e, h)
  /\ Room(e, Full(e.dbuf)) > 0 /\ n <= Room(e, Full(e.dbuf))

LEMMA PreparedFine ==
  ASSUME NEW c \in Calls, Fine(c), NEW h \in Handles \cup {0}, NEW n,
         NEW u, u = CdPage(c.cd), u \in DirsOf(c.dev)
  PROVE  LET e == Prepared(c, h, n)
         IN  Quiet(c, e) /\ (e.ok => c.han[h].name # NoName /\ Sighted(c, e, u, h, n))
<1> DEFINE named == c.han[h].name # NoName
           r1 == Require(c, named)
           r2 == ReadBitMap(r1)
           r3 == Roomy(r2, FALSE, n)
           w == Walk(c.dev, u)
           r4 == FindSpot(r3, w)
           r5 == Located(r4, h, Walk(c.dev, 0))
           full == Full(r5.dbuf)
           r6 == Roomy(r5, full, n)
<1> DEFINE S == Pages
<1> HIDE DEF S
<1>1. Goes(c, r1, S) /\ Keeps(c, r1) /\ r1.dev = c.dev /\ (r1.ok => named)
  BY RequireGoes
<1>2. r1 \in Calls
  BY <1>1 DEF Goes
<1>3. Quiet(c, r1)
  BY DEF Require, Fail, Quiet, Calls
<1> HIDE DEF r1
<1>4. /\ Goes(r1, r2, S) /\ Keeps(r1, r2) /\ r2.dev = r1.dev
      /\ r2.ok => r2.bm = r1.dev[0].bm
  BY <1>2, ReadBitMapGoes
<1>5. r2 \in Calls
  BY <1>4 DEF Goes
<1>6. Quiet(r1, r2)
  BY <1>2 DEF ReadBitMap, Fail, Quiet, Calls
<1> HIDE DEF r2
<1>7. Reads(r2, r3, S) /\ Keeps(r2, r3) /\ r3.bm = r2.bm
  BY <1>5, RoomyGoes
<1>8. r3 \in Calls
  BY <1>7 DEF Reads, Goes
<1>9. Quiet(r2, r3)
  BY <1>5 DEF Roomy, Require, Fail, Quiet, Calls
<1>10. w \in Seq(Places) /\ u \in Places
  BY CdPageType, CallFields, WalkType
<1> HIDE DEF r3
<1>11. Fine(r3) /\ u \in DirsOf(r3.dev) /\ r3.dev = c.dev
  BY <1>3, <1>6, <1>9 DEF Quiet, Fine
<1>12. Quiet(r3, r4) /\ (r4.ok => FoundSpot(c, r4, w))
  <2>1. r4 = FindSpot(r3, Walk(r3.dev, u))
    BY <1>11
  <2>2. Quiet(r3, r4) /\ (r4.ok => FoundSpot(r3, r4, Walk(r3.dev, u)))
    BY <2>1, <1>8, <1>11, FindSpotFine
  <2> QED
    BY <2>2, <1>11 DEF FoundSpot
<1>13. Goes(r3, r4, S) /\ Looks(r3, r4)
  <2> HIDE DEF w
  <2> QED
    BY <1>8, <1>10, FindSpotGoes
<1>14. r4 \in Calls
  BY <1>13 DEF Goes
<1> HIDE DEF r4, w
<1>15. Fine(r4) /\ r4.dev = c.dev /\ r4.han = c.han
  BY <1>1, <1>4, <1>7, <1>11, <1>12, <1>13 DEF Quiet, Fine, Keeps, Looks
<1>16. Quiet(r4, r5) /\ (r5.ok => Finds(c, r5, h))
  <2>1. r5 = Located(r4, h, Walk(r4.dev, 0))
    BY <1>15
  <2>2. Quiet(r4, r5) /\ (r5.ok => Finds(r4, r5, h))
    BY <2>1, <1>14, <1>15, LocatedFine
  <2> QED
    BY <2>2, <1>15 DEF Finds
<1>17. Reads(r4, r5, S) /\ (r5.ok => TakenAs(r4, r5, h, r5.info))
  BY <1>14, <1>15, LocatedGoes
<1>18. r5 \in Calls
  BY <1>17 DEF Reads, Goes
<1> HIDE DEF r5
<1>19. Reads(r5, r6, S) /\ Keeps(r5, r6) /\ r6.bm = r5.bm
  BY <1>18, RoomyGoes
<1>20. Quiet(r5, r6)
  BY <1>18 DEF Roomy, Require, Fail, Quiet, Calls
<1>21. r6.ok => Room(r5, full) > 0 /\ n <= Room(r5, full)
  BY <1>18 DEF Roomy, Require, Fail, Calls
<1>22. Prepared(c, h, n) = r6
  BY DEF Prepared, RoomyFor, r1, r2, r3, r4, r5, w
<1> HIDE DEF r6
<1>23. Quiet(c, r6)
  BY <1>3, <1>6, <1>9, <1>12, <1>16, <1>20 DEF Quiet
<1>24. ASSUME r6.ok PROVE named /\ Sighted(c, r6, u, h, n)
  <2>1. r5.ok /\ r4.ok /\ r3.ok /\ r2.ok /\ r1.ok
    BY <1>24, <1>6, <1>9, <1>12, <1>16, <1>20 DEF Quiet
  <2>2. r6.bm = c.dev[0].bm
    BY <2>1, <1>1, <1>4, <1>7, <1>13, <1>17, <1>19 DEF Looks, TakenAs
  <2>3. r6.spot = r4.spot /\ r6.dbuf = r4.dbuf /\ r5.dbuf = r4.dbuf
    BY <2>1, <1>17, <1>19 DEF TakenAs, Keeps
  <2>4. FoundSpot(c, r6, w)
    BY <2>1, <2>3, <1>12 DEF FoundSpot
  <2>5. Finds(c, r6, h)
    BY <2>1, <1>16, <1>19 DEF Finds, Keeps
  <2>6. Room(r6, Full(r6.dbuf)) = Room(r5, full)
    BY <2>3, <1>19 DEF Room, full
  <2> QED
    BY <2>1, <2>2, <2>4, <2>5, <2>6, <1>1, <1>21, <1>24 DEF Sighted, w
<1> QED
  BY <1>22, <1>23, <1>24

\* A new file is to start in the first free page.
LEMMA PlacedFine ==
  ASSUME NEW c \in Calls, Fine(c), NEW h \in Handles \cup {0}, NEW n,
         NEW u, u = CdPage(c.cd), u \in DirsOf(c.dev)
  PROVE  LET e == Placed(Prepared(c, h, n), h)
         IN  /\ Quiet(c, e) /\ e \in Calls
             /\ e.ok => /\ c.han[h].name # NoName /\ Sighted(c, e, u, h, n)
                        /\ e.info = NoInfo => e.han[h].spage = Avail(e.bm)
<1> DEFINE d == Prepared(c, h, n)
           e == Placed(d, h)
<1>1. Quiet(c, d) /\ (d.ok => c.han[h].name # NoName /\ Sighted(c, d, u, h, n))
  BY PreparedFine
<1>2. e \in Calls /\ d \in Calls
  <2> DEFINE S == WriteSet(c, h)
             T == Pages
  <2>1. S = WriteSet(c, h)
    OBVIOUS
  <2> HIDE DEF S, T, e, d
  <2>2. e \in Calls
    BY <2>1, PlacedGoes DEF e, d
  <2>3. Reads(c, d, T)
    BY PreparedGoes DEF d
  <2> QED
    BY <2>2, <2>3 DEF Reads, Goes
<1>3. CASE ~(d.ok /\ d.info = NoInfo)
  <2>1. e = d
    BY <1>3 DEF Placed
  <2> HIDE DEF d, e
  <2>2. Quiet(c, e) /\ e \in Calls
        /\ (e.ok => /\ c.han[h].name # NoName /\ Sighted(c, e, u, h, n)
                    /\ e.info = NoInfo => e.han[h].spage = Avail(e.bm))
    BY <1>1, <1>2, <1>3, <2>1
  <2> QED
    BY <2>2 DEF d, e
<1>4. CASE d.ok /\ d.info = NoInfo
  <2> HIDE DEF d
  <2> DEFINE open == [d.han[h] EXCEPT !.spage = Avail(d.bm)]
  <2>1. e = [d EXCEPT !.han[h].spage = Avail(d.bm)]
    BY <1>4 DEF Placed
  <2>2. /\ e.dev = d.dev /\ e.hung = d.hung /\ e.left = d.left /\ e.ok = d.ok /\ e.bm = d.bm
        /\ e.spot = d.spot /\ e.dbuf = d.dbuf /\ e.info = d.info /\ e.newpg = d.newpg
        /\ e.han = [d.han EXCEPT ![h].spage = Avail(d.bm)]
    BY <1>2, <2>1 DEF Calls
  <2>3. e.han[h].name = d.han[h].name /\ e.han[h].spage = Avail(d.bm)
    <3>1. d.han \in [Handles \cup {0} -> Open(Names)] /\ d.han[h] \in Open(Names)
      BY <1>2, CallFields, HanFields DEF Hans
    <3> QED
      BY <3>1, <2>2 DEF Open
  <2> HIDE DEF e
  <2>4. Quiet(c, e)
    BY <1>1, <2>2 DEF Quiet
  <2>5. Sighted(c, d, u, h, n)
    BY <1>1, <1>4
  <2>6. Finds(c, e, h)
    BY <1>4, <2>2, <2>3, <2>5 DEF Sighted, Finds
  <2>7. Room(e, Full(e.dbuf)) = Room(d, Full(d.dbuf))
    BY <2>2 DEF Room
  <2>8. Sighted(c, e, u, h, n)
    BY <2>2, <2>5, <2>6, <2>7 DEF Sighted, FoundSpot
  <2> QED
    BY <1>1, <1>2, <1>4, <2>2, <2>3, <2>4, <2>8 DEF e, d
<1> QED
  BY <1>3, <1>4 DEF d, e

----------------------------------------------------------------------------
(* A file of one page, or none *)

LEMMA FreeCount ==
  ASSUME NEW bm \in SUBSET Pages
  PROVE  /\ Cardinality(Pages \ bm) \in Nat
         /\ Cardinality(Pages \ bm) # 0 => Avail(bm) \in Pages \ bm
         /\ \A p \in Pages \ bm : Cardinality(Pages \ (bm \cup {p})) = Cardinality(Pages \ bm) - 1
<1> DEFINE S == Pages \ bm
<1>1. IsFiniteSet(Pages)
  <2>1. 0 \in Int /\ MaxP \in Int
    BY Constants
  <2> DEFINE a == 0
  <2> HIDE DEF a
  <2>2. IsFiniteSet(a .. MaxP)
    BY <2>1, FS_Interval DEF a
  <2> QED
    BY <2>2 DEF Pages, a
<1>2. S \in SUBSET Pages
  OBVIOUS
<1>3. IsFiniteSet(S)
  <2> HIDE DEF S
  <2> QED
    BY <1>1, <1>2, FS_Subset
<1>4. Cardinality(S) \in Nat
  <2> HIDE DEF S
  <2> QED
    BY <1>3, FS_CardinalityType
<1>5. ASSUME Cardinality(S) # 0 PROVE Avail(bm) \in S
  <2>1. S # {}
    <3> HIDE DEF S
    <3> QED
      BY <1>3, <1>5, FS_EmptySet
  <2>2. Avail(bm) = Min(S) /\ S \in SUBSET Nat
    BY <2>1, Constants DEF Avail, Pages
  <2> HIDE DEF S
  <2> QED
    BY <2>1, <2>2, MinIn
<1>6. ASSUME NEW p \in S PROVE Cardinality(Pages \ (bm \cup {p})) = Cardinality(S) - 1
  <2>1. Pages \ (bm \cup {p}) = S \ {p}
    OBVIOUS
  <2> HIDE DEF S
  <2>2. Cardinality(S \ {p}) = Cardinality(S) - 1
    BY <1>3, FS_RemoveElement
  <2> QED
    BY <2>1, <2>2
<1> QED
  BY <1>4, <1>5, <1>6

\* A directory, or a page of data, in one page.
LEMMA LonePage ==
  ASSUME NEW d \in Devs, NEW s \in Places, Readable(At(d, s)), At(d, s).next = 0
  PROVE  /\ Ends(d, Walk(d, s)) /\ ToSet(Walk(d, s)) = {s}
         /\ IsDir(At(d, s)) /\ At(d, s).slots = <<>> => Dir(d, s) = {}
         /\ At(d, s).data = <<>> => Bare(d, s)
<1>1. Stops(At(d, s))
  BY DEF Stops
<1>2. Walk(d, s) = <<s>> /\ ToSet(Walk(d, s)) = {s} /\ Last(Walk(d, s)) = s
  BY <1>1, WalkOne
<1>3. Ends(d, Walk(d, s))
  BY <1>2 DEF Ends, EndsIn
<1>4. ASSUME IsDir(At(d, s)), At(d, s).slots = <<>> PROVE Dir(d, s) = {}
  <2>1. Len(Items(At(d, s))) = 1
    <3> DEFINE page == At(d, s)
    <3>1. page \in PageType
      BY AtType
    <3>2. Len(page.slots) = 0 /\ IsDir(page)
      BY <1>4
    <3> HIDE DEF page
    <3>3. Len(Items(page)) = Len(page.slots) + 1
      BY <3>1, <3>2, ItemsType
    <3> QED
      BY <3>2, <3>3 DEF page
  <2> DEFINE w == Walk(d, s)
  <2>2. Len(w) = 1 /\ w[1] = s
    BY <1>2, OneSeq
  <2>3. \A k \in 1 .. Len(w) : Spots(d, w, k) = {}
    <3>1. 2 .. 1 = {}
      OBVIOUS
    <3>2. Spots(d, w, 1) = 2 .. 1
      BY <2>1, <2>2 DEF Spots
    <3>3. \A k \in 1 .. 1 : k = 1
      OBVIOUS
    <3> QED
      BY <3>1, <3>2, <3>3, <2>2
  <2>4. \A x : x \in Dir(d, s) <=> \E k \in 1 .. Len(w) : \E j \in Spots(d, w, k) : x = Entry(d, w, k, j)
    BY ListingIs
  <2> HIDE DEF w
  <2>5. \A x : x \notin Dir(d, s)
    BY <2>3, <2>4
  <2> HIDE <2>3, <2>4
  <2> QED
    BY <2>5
<1>5. At(d, s).data = <<>> => Bare(d, s)
  BY <1>2 DEF Bare
<1> QED
  BY <1>2, <1>3, <1>4, <1>5

\* There is a page for a new file, and one for its entry.
Supplied(d, u) ==
  /\ Cardinality(Pages \ d[0].bm) # 0
  /\ ~(Cardinality(Pages \ d[0].bm) = 1 /\ \A p \in ToSet(Walk(d, u)) : Full(At(d, p)))

LEMMA FreePages2 ==
  ASSUME NEW d \in Devs, NEW u, Supplied(d, u)
  PROVE  LET bm == d[0].bm
             q == Avail(bm)
         IN  /\ q \in Pages /\ q \notin bm
             /\ (\A p \in ToSet(Walk(d, u)) : Full(At(d, p))) => Avail(bm \cup {q}) \notin bm \cup {q}
<1> DEFINE bm == d[0].bm
           q == Avail(bm)
           more == bm \cup {q}
<1>1. bm \in SUBSET Pages
  BY Constants, PageFields DEF Devs
<1> HIDE DEF bm
<1>2. Cardinality(Pages \ bm) \in Nat /\ q \in Pages \ bm
  BY <1>1, FreeCount DEF Supplied, bm
<1> HIDE DEF q
<1>3. more \in SUBSET Pages /\ Cardinality(Pages \ more) = Cardinality(Pages \ bm) - 1
  <2>1. \A p \in Pages \ bm : Cardinality(Pages \ (bm \cup {p})) = Cardinality(Pages \ bm) - 1
    BY <1>1, FreeCount
  <2> QED
    BY <1>1, <1>2, <2>1
<1> HIDE DEF more
<1>4. ASSUME \A p \in ToSet(Walk(d, u)) : Full(At(d, p)) PROVE Avail(more) \notin more
  <2>1. Cardinality(Pages \ bm) # 1
    BY <1>4 DEF Supplied, bm
  <2>2. Cardinality(Pages \ more) # 0
    BY <2>1, <1>2, <1>3
  <2> QED
    BY <2>2, <1>3, FreeCount
<1> QED
  BY <1>2, <1>4 DEF more, q, bm

\* A page is written and marked.
Lays(c, e, p, page) ==
  /\ e \in Calls /\ e.hung = c.hung /\ e.cd = c.cd /\ Keeps(c, e)
  /\ e.dev = c.dev \/ (c.ok /\ e.dev = [c.dev EXCEPT ![p] = page])
  /\ e.ok => c.ok /\ e.dev = [c.dev EXCEPT ![p] = page] /\ e.bm = c.bm \cup {p}
  /\ c.ok /\ c.left > 0 => e.ok /\ e.left = c.left - 1

LEMMA ChunkLays ==
  ASSUME NEW c \in Calls, NEW p \in Pages, NEW page \in PageType, NEW next \in Places
  PROVE  Lays(c, Chunk(c, p, page, next), p, [page EXCEPT !.next = next])
<1> DEFINE pg == [page EXCEPT !.next = next]
           d == Write_Page(c, p, pg)
           e == Mark(d, p)
           S == Pages
<1>1. pg \in PageType
  BY PageSame
<1>2. Chunk(c, p, page, next) = e
  BY DEF Chunk
<1> HIDE DEF pg, S
<1>3. Puts(c, d, p, pg)
  BY <1>1, WritePuts
<1>4. c.ok /\ c.left > 0 => d.ok /\ d.left = c.left - 1
  BY DEF Write_Page, Calls
<1>5. d \in Calls
  BY <1>3 DEF Puts
<1> HIDE DEF d
<1>6. Goes(d, e, S) /\ Keeps(d, e) /\ e.dev = d.dev /\ e.cd = d.cd
  BY <1>5, MarkGoes
<1>7. e.hung = d.hung /\ e.left = d.left /\ e.ok = d.ok /\ (d.ok => e.bm = d.bm \cup {p})
  BY <1>5 DEF Mark, Fail, Calls
<1> HIDE DEF e
<1>8. Keeps(c, e)
  BY <1>3, <1>6, KeepsThen DEF Puts
<1>9. Lays(c, e, p, pg)
  BY <1>3, <1>4, <1>6, <1>7, <1>8 DEF Lays, Puts, Goes
<1> QED
  BY <1>2, <1>9 DEF pg

LEMMA MarkLays ==
  ASSUME NEW c \in Calls, NEW p \in Pages
  PROVE  LET e == Mark(c, p)
         IN  /\ e \in Calls /\ e.dev = c.dev /\ e.hung = c.hung /\ Keeps(c, e) /\ e.ok = c.ok
             /\ e.ok => e.bm = c.bm \cup {p}
<1> DEFINE S == Pages
<1> HIDE DEF S
<1>1. Goes(c, Mark(c, p), S) /\ Keeps(c, Mark(c, p)) /\ Mark(c, p).dev = c.dev
  BY MarkGoes
<1>2. Mark(c, p).hung = c.hung /\ Mark(c, p).ok = c.ok /\ (c.ok => Mark(c, p).bm = c.bm \cup {p})
  BY DEF Mark, Fail, Calls
<1> QED
  BY <1>1, <1>2 DEF Goes

\* A call knows where a new file is to start and be entered, and there is room.
Novel(c, u, h) ==
  /\ c.ok /\ Fine(c) /\ u \in DirsOf(c.dev) /\ c.bm = c.dev[0].bm /\ Supplied(c.dev, u)
  /\ FoundSpot(c, c, Walk(c.dev, u))
  /\ c.info = NoInfo /\ c.han[h].spage = Avail(c.bm) /\ c.han[h].name # NoName
  /\ \A y \in Dir(c.dev, u) : y.e.name # c.han[h].name

\* Once its pages are there, it can be entered.
LEMMA NovelRoom ==
  ASSUME NEW c \in Calls, NEW h \in Handles \cup {0}, NEW u, Novel(c, u, h),
         NEW e \in Calls, e.ok, ~e.hung, Keeps(c, e), Alikes(c.dev, e.dev),
         \A p \in Live(c.dev) : e.dev[p] = c.dev[p],
         NEW q, q = Avail(c.bm), e.bm = c.bm \cup {q},
         New(e.dev, e.bm, q, c.han[h].name)
  PROVE  Fine(e) /\ e.info = NoInfo /\ HasRoom(e, u, h)
<1> DEFINE d == c.dev
           f == e.dev
           w == Walk(d, u)
           entry == EntryFor(e, h)
<1>1. d \in Devs /\ f \in Devs /\ Sound(d) /\ u \in DirsOf(d) /\ u \in Starts(d)
  BY CallFields, EntryIn DEF Novel, Fine
<1>2. /\ Sound(f) /\ u \in DirsOf(f) /\ Walk(f, u) = w /\ Dir(f, u) = Dir(d, u) /\ Live(f) = Live(d)
  BY <1>1 DEF Alikes
<1>3. Fine(e) /\ e.info = NoInfo
  BY <1>2 DEF Fine, Keeps, Novel
<1>4. e.spot = c.spot /\ e.dbuf = c.dbuf /\ e.han = c.han
  BY DEF Keeps
<1>5. e.spot \in ToSet(w) /\ e.dbuf = f[e.spot] /\ Live(f) \subseteq e.bm
  <2>1. c.spot \in ToSet(w) /\ c.dbuf = d[c.spot]
    BY DEF Novel, FoundSpot
  <2>2. c.spot \in Live(d) /\ Live(d) \subseteq c.bm
    BY <1>1, <2>1, StartLive, SoundEnds DEF Novel
  <2> QED
    BY <1>2, <1>4, <2>1, <2>2
<1>6. entry \in Entries /\ entry.name = c.han[h].name /\ entry.spage = q
  <2>1. e.han[h].name \in Names \cup {NoName} /\ e.han[h].spage \in Places
    BY CallFields, HanFields
  <2> QED
    BY <1>4, <2>1 DEF EntryFor, Entries, Novel
<1> HIDE DEF entry
<1>7. Takes(e, u, entry)
  BY <1>2, <1>3, <1>5, <1>6 DEF Takes, Novel
<1>8. ASSUME Full(e.dbuf) PROVE e.spot = Last(Walk(f, u)) /\ Avail(e.bm) \notin e.bm
  <2>1. c.spot = Last(w) /\ \A r \in ToSet(w) : Full(At(d, r))
    BY <1>4, <1>8 DEF Novel, FoundSpot
  <2>2. Avail(c.bm \cup {q}) \notin c.bm \cup {q}
    BY <1>1, <2>1, FreePages2 DEF Novel
  <2> QED
    BY <1>2, <1>4, <2>1, <2>2
<1> QED
  BY <1>3, <1>7, <1>8 DEF HasRoom, entry

\* A file without a page (owCreateFile).
LEMMA NoneFine ==
  ASSUME NEW c \in Calls, NEW h \in Handles \cup {0}, NEW u, Novel(c, u, h),
         c.han[h].name \notin Dirs, ~Readable(c.dev[Avail(c.dev[0].bm)])
  PROVE  LET e == Filled(c, h, <<>>)
         IN  e \in Calls /\ Fine(e) /\ e.info = NoInfo /\ (e.ok => HasRoom(e, u, h))
             /\ Alikes(c.dev, e.dev)
<1> DEFINE d == c.dev
           q == Avail(c.bm)
           e == Mark(c, q)
<1>1. d \in Devs /\ Sound(d) /\ c.bm = d[0].bm /\ q = Avail(d[0].bm) /\ u \in DirsOf(d) /\ ~c.hung
  BY CallFields DEF Novel, Fine
<1>2. q \in Pages /\ q \notin c.bm /\ q \in Places
  BY <1>1, FreePages2, Constants DEF Novel
<1>3. Filled(c, h, <<>>) = e
  BY DEF Filled, ExtWrite, Novel
<1> HIDE DEF q
<1>4. e \in Calls /\ e.dev = d /\ e.hung = c.hung /\ Keeps(c, e) /\ e.ok = c.ok
      /\ (e.ok => e.bm = c.bm \cup {q})
  BY <1>2, MarkLays
<1> HIDE DEF e
<1>5. Alikes(d, d)
  <2>1. d[0].head = "root" /\ Live(d) \subseteq d[0].bm /\ \A p \in Live(d) : Alike(d, d, p)
    BY <1>1, SoundEnds DEF Sound, Alike
  <2> QED
    BY <1>1, <2>1, AliveSame
<1>6. New(d, c.bm \cup {q}, q, c.han[h].name)
  <2>1. At(d, q) = d[q] /\ ~Readable(At(d, q))
    BY <1>1, <1>2, AtType
  <2>2. ToSet(Walk(d, q)) = {q}
    BY <1>1, <1>2, <2>1, WalkOne DEF Stops
  <2>3. q \notin Live(d)
    BY <1>1, <1>2, SoundEnds
  <2> QED
    BY <1>2, <2>1, <2>2, <2>3 DEF New
<1>7. c.ok
  BY DEF Novel
<1>8. Fine(e) /\ e.info = NoInfo /\ HasRoom(e, u, h)
  BY <1>1, <1>4, <1>5, <1>6, <1>7, NovelRoom DEF q
<1> QED
  BY <1>3, <1>4, <1>5, <1>8

\* The file that starts in q reads as these pages, and one of that name is in the root.
Shows(d, q, chunks) ==
  /\ Len(Walk(d, q)) = Len(chunks)
  /\ \A k \in 1 .. Len(chunks) : At(d, Walk(d, q)[k]).data = chunks[k].data
Stored(d, name, chunks) == \E y \in Dir(d, 0) : y.e.name = name /\ Shows(d, y.e.spage, chunks)

LEMMA ShowsAlike ==
  ASSUME NEW d \in Devs, NEW e \in Devs, NEW q \in Places, NEW chunks, Shows(d, q, chunks),
         Ends(d, Walk(d, q)), \A r \in Places : Alike(d, e, r)
  PROVE  Shows(e, q, chunks)
<1> DEFINE w == Walk(d, q)
<1>1. w \in Seq(Places) /\ Len(w) \in Nat \ {0} /\ \A k \in 1 .. Len(w) : w[k] \in Places
  BY WalkType
<1>2. Stops(At(d, Last(w)))
  BY DEF Ends, EndsIn, Stops
<1>3. \A r \in ToSet(w) : Linked(d, e, r)
  <2>1. ToSet(w) \subseteq Places
    <3> HIDE DEF w
    <3> QED
      BY <1>1, InSet
  <2> QED
    BY <2>1, AlikeLinked
<1>4. Walk(e, q) = w
  BY <1>2, <1>3, WalkLinked
<1>5. Len(w) = Len(chunks) /\ \A k \in 1 .. Len(chunks) : At(d, w[k]).data = chunks[k].data
  BY DEF Shows
<1> HIDE DEF w
<1>6. \A k \in 1 .. Len(chunks) : At(e, w[k]).data = chunks[k].data
  BY <1>1, <1>5 DEF Alike
<1> QED
  BY <1>4, <1>5, <1>6 DEF Shows

\* A file of one page.
LEMMA OneShows ==
  ASSUME NEW d \in Devs, NEW q \in Places, NEW chunks, Len(chunks) = 1,
         At(d, q).next = 0, At(d, q).data = chunks[1].data
  PROVE  Shows(d, q, chunks)
<1> DEFINE w == <<q>>
<1>1. Walk(d, q) = w
  BY WalkOne DEF Stops
<1>2. Len(w) = 1 /\ w[1] = q /\ \A k \in 1 .. 1 : k = 1
  OBVIOUS
<1> HIDE DEF w
<1> QED
  BY <1>1, <1>2 DEF Shows

\* A file that stays where it was has its entry still.
LEMMA StoredStill ==
  ASSUME NEW d \in Devs, NEW e \in Devs, Sound(d), Sound(e), Grows(d, e),
         NEW x \in Dir(d, 0), x.e.name \notin Dirs, NEW chunks, Shows(e, x.e.spage, chunks)
  PROVE  Stored(e, x.e.name, chunks)
<1> DEFINE N == {}
<1>1. x.e.name \notin Dirs \cup N
  OBVIOUS
<1> HIDE DEF N
<1>2. Moved(d, e, N)
  BY DEF Grows
<1>3. \E y \in Dir(e, 0) : y.e = x.e
  BY <1>1, <1>2, MovedSpares
<1> QED
  BY <1>3 DEF Stored

\* A page that may stand for a file or a directory of that name.
Stands(name, page) ==
  Readable(page) /\ (name \in Dirs => IsDir(page) /\ page.slots = <<>> /\ page.data = <<>>)

LEMMA StandsAlone ==
  ASSUME NEW d \in Devs, NEW q \in Pages, NEW name, NEW page \in PageType, Stands(name, page),
         d[q] = [page EXCEPT !.next = 0]
  PROVE  /\ Ends(d, Walk(d, q)) /\ ToSet(Walk(d, q)) = {q}
         /\ name \in Dirs => IsDir(At(d, q)) /\ Dir(d, q) = {} /\ Bare(d, q)
<1>1. d[q].next = 0 /\ d[q].head = page.head /\ d[q].slots = page.slots /\ d[q].data = page.data
  BY PageFields
<1>2. At(d, q) = d[q] /\ q \in Places
  BY AtType, Constants
<1>3. Readable(At(d, q)) /\ At(d, q).next = 0
      /\ (name \in Dirs => IsDir(At(d, q)) /\ At(d, q).slots = <<>> /\ At(d, q).data = <<>>)
  BY <1>1, <1>2 DEF Stands, Readable, IsDir
<1> QED
  BY <1>2, <1>3, LonePage

\* A new file or directory of one page.
LEMMA OneNewFine ==
  ASSUME NEW c \in Calls, NEW h \in Handles \cup {0}, NEW u, Novel(c, u, h),
         NEW page \in PageType, Stands(c.han[h].name, page),
         NEW e, e = Chunk(c, c.han[h].spage, page, 0)
  PROVE  /\ e \in Calls /\ Fine(e) /\ e.info = NoInfo /\ (e.ok => HasRoom(e, u, h))
         /\ Alikes(c.dev, e.dev)
         /\ e.ok => e.dev[c.han[h].spage] = [page EXCEPT !.next = 0] /\ e.han = c.han
<1> DEFINE d == c.dev
           q == Avail(c.bm)
           zero == 0
           pg == [page EXCEPT !.next = zero]
           f == [d EXCEPT ![q] = pg]
<1>1. d \in Devs /\ Sound(d) /\ c.bm = d[0].bm /\ q = Avail(d[0].bm) /\ u \in DirsOf(d) /\ ~c.hung
      /\ c.info = NoInfo
  BY CallFields DEF Novel, Fine
<1>2. q \in Pages /\ q \notin c.bm /\ q \in Places /\ zero \in Places
  BY <1>1, FreePages2, Constants DEF Novel
<1>3. e = Chunk(c, q, page, zero)
  BY DEF Novel
<1> HIDE DEF q, zero
<1>4. Lays(c, e, q, pg)
  BY <1>2, <1>3, ChunkLays
<1>5. q \notin Live(d) /\ 0 \in Live(d)
  BY <1>1, <1>2, SoundEnds, StartLive, EntryIn
<1>6. pg \in PageType
  BY <1>2, PageSame
<1> HIDE DEF pg
<1>7. f \in Devs /\ Alikes(d, f)
  BY <1>1, <1>2, <1>5, <1>6, AsideWrite
<1>8. f[q] = pg /\ \A p \in Live(d) : f[p] = d[p]
  <2>1. Live(d) \subseteq Pages
    BY <1>1, SoundEnds
  <2> QED
    BY <2>1, <1>1, <1>2, <1>5 DEF Devs
<1> HIDE DEF f
<1>9. e \in Calls /\ e.hung = c.hung /\ (e.dev = d \/ e.dev = f) /\ Keeps(c, e)
      /\ (e.ok => e.dev = f /\ e.bm = c.bm \cup {q})
  BY <1>4 DEF Lays, f
<1>10. Fine(e) /\ e.info = NoInfo
  BY <1>1, <1>7, <1>9 DEF Fine, Alikes, Keeps
<1>11. ASSUME e.ok PROVE HasRoom(e, u, h)
  <2>1. f[q] = [page EXCEPT !.next = 0]
    BY <1>8 DEF pg, zero
  <2>2. /\ Ends(f, Walk(f, q)) /\ ToSet(Walk(f, q)) = {q}
        /\ c.han[h].name \in Dirs => IsDir(At(f, q)) /\ Dir(f, q) = {} /\ Bare(f, q)
    BY <1>2, <1>7, <2>1, StandsAlone
  <2>3. New(f, e.bm, q, c.han[h].name)
    BY <1>2, <1>5, <1>7, <1>9, <1>11, <2>2 DEF New, Alikes
  <2> QED
    BY <1>1, <1>7, <1>8, <1>9, <1>11, <2>3, NovelRoom DEF q
<1>12. Alikes(d, d)
  <2>1. d[0].head = "root" /\ Live(d) \subseteq d[0].bm /\ \A p \in Live(d) : Alike(d, d, p)
    BY <1>1, SoundEnds DEF Sound, Alike
  <2> QED
    BY <1>1, <2>1, AliveSame
<1>13. c.han[h].spage = q /\ e.han = c.han /\ (e.ok => e.dev[q] = [page EXCEPT !.next = 0])
  BY <1>8, <1>9 DEF Novel, Keeps, q, pg, zero
<1> QED
  BY <1>7, <1>9, <1>10, <1>11, <1>12, <1>13

\* A call knows the entry of the file in the root.
Old(c, h) ==
  /\ c.ok /\ Fine(c) /\ c.bm = c.dev[0].bm
  /\ c.info # NoInfo /\ c.info \in Dir(c.dev, 0) /\ c.info.e.name = c.han[h].name
  /\ c.newpg = c.dev[c.info.dpage] /\ c.han[h].spage = c.info.e.spage

LEMMA OldStart ==
  ASSUME NEW c \in Calls, NEW h, Old(c, h)
  PROVE  LET q == c.han[h].spage
         IN  /\ q \in Starts(c.dev) /\ q # 0 /\ q \in Pages /\ q \in c.bm
             /\ c.info.dpage \in ToSet(Walk(c.dev, 0)) /\ c.info.dpage \in Pages
             /\ \A s \in Starts(c.dev) :
                  s # q => Disjoint(ToSet(Walk(c.dev, s)), ToSet(Walk(c.dev, q)))
             /\ q \in ToSet(Walk(c.dev, q))
             /\ \A x \in EntriesOf(c.dev) : x.e.spage = q => x = c.info
<1> DEFINE d == c.dev
           q == c.han[h].spage
           u == 0
<1>1. d \in Devs /\ Sound(d) /\ q = c.info.e.spage /\ c.info \in Dir(d, u)
  BY CallFields DEF Old, Fine
<1>2. u \in DirsOf(d) /\ u \in Starts(d) /\ u \in Places
  BY <1>1, EntryIn, DirsOfType
<1> HIDE DEF u
<1>3. c.info \in EntriesOf(d) /\ q \in Starts(d) /\ q \in Places
  BY <1>1, <1>2, EntryIn
<1>4. c.info.dpage \in ToSet(Walk(d, u))
  BY <1>1, <1>2, DirType
<1>5. Chained(d)
  BY <1>1, SoundChained
<1>6. q # 0 /\ (\A x \in EntriesOf(d) : x.e.spage = q => x = c.info)
      /\ \A s \in Starts(d) : s # q => Disjoint(ToSet(Walk(d, s)), ToSet(Walk(d, q)))
  BY <1>1, <1>3, <1>5 DEF Chained
<1>7. q \in ToSet(Walk(d, q))
  BY <1>1, <1>3, ChainHead
<1>8. q \in Pages /\ c.info.dpage \in Pages /\ q \in c.bm
  <2>1. q \in Live(d) /\ c.info.dpage \in Live(d) /\ Live(d) \subseteq Pages /\ Live(d) \subseteq d[0].bm
    BY <1>1, <1>2, <1>3, <1>4, <1>7, StartLive, SoundEnds
  <2> QED
    BY <2>1 DEF Old
<1> QED
  BY <1>3, <1>4, <1>6, <1>7, <1>8 DEF u

\* The page of the entry is still as it was read.
LEMMA OldUnread ==
  ASSUME NEW c \in Calls, NEW h, Old(c, h), NEW e \in Calls, Keeps(c, e), Sound(e.dev),
         e.dev[0] = c.dev[0], e.dev[c.info.dpage] = c.dev[c.info.dpage],
         c.bm \subseteq e.bm
  PROVE  Unread(e) /\ e.info # NoInfo
<1>1. e.info = c.info /\ e.newpg = c.newpg /\ c.info # NoInfo
  BY DEF Keeps, Old
<1>2. Live(e.dev) \subseteq e.dev[0].bm
  BY CallFields, SoundEnds
<1>3. Live(e.dev) \subseteq e.bm /\ Live(e.dev) \subseteq c.dev[0].bm
  BY <1>2 DEF Old
<1>4. c.info.dpage \in Pages /\ c.newpg = c.dev[c.info.dpage]
  BY OldStart DEF Old
<1> QED
  BY <1>1, <1>3, <1>4 DEF Unread

LEMMA NoneOldFine ==
  ASSUME NEW c \in Calls, NEW h \in Handles \cup {0}, Old(c, h)
  PROVE  LET e == Filled(c, h, <<>>)
         IN  e \in Calls /\ Fine(e) /\ e.info # NoInfo /\ (e.ok => Unread(e))
             /\ e.dev = c.dev
<1> DEFINE q == c.han[h].spage
           e == Mark(c, q)
<1>1. Filled(c, h, <<>>) = e
  BY DEF Filled, ExtWrite
<1>2. q \in Pages
  BY OldStart
<1> HIDE DEF q
<1>3. e \in Calls /\ e.dev = c.dev /\ e.hung = c.hung /\ Keeps(c, e) /\ e.ok = c.ok
      /\ (e.ok => e.bm = c.bm \cup {q})
  BY <1>2, MarkLays
<1> HIDE DEF e
<1>4. Fine(e) /\ Sound(e.dev) /\ e.info # NoInfo
  BY <1>3 DEF Fine, Old, Keeps
<1>5. e.ok => Unread(e)
  <2>1. SUFFICES ASSUME e.ok PROVE Unread(e)
    OBVIOUS
  <2>2. c.bm \subseteq e.bm
    BY <1>3, <2>1
  <2> QED
    BY <1>3, <1>4, <2>2, OldUnread
<1> QED
  BY <1>1, <1>3, <1>4, <1>5

\* A file that was there gets one page, its first.
LEMMA OneOldFine ==
  ASSUME NEW c \in Calls, NEW h \in Handles \cup {0}, Old(c, h),
         NEW page \in PageType, Stands(c.han[h].name, page),
         NEW e, e = Chunk(c, c.han[h].spage, page, 0)
  PROVE  /\ e \in Calls /\ Fine(e) /\ e.info # NoInfo /\ (e.ok => Unread(e))
         /\ c.han[h].name \notin Dirs => \A r \in DirPages(c.dev) : Alike(c.dev, e.dev, r)
         /\ e.ok => e.dev[c.han[h].spage] = [page EXCEPT !.next = 0]
<1> DEFINE d == c.dev
           q == c.han[h].spage
           zero == 0
           pg == [page EXCEPT !.next = zero]
           f == [d EXCEPT ![q] = pg]
           i == c.info
<1>1. d \in Devs /\ Sound(d) /\ c.bm = d[0].bm /\ ~c.hung /\ i # NoInfo /\ i.e.name = c.han[h].name
  BY CallFields DEF Old, Fine
<1>2. /\ q \in Starts(d) /\ q # 0 /\ q \in Pages /\ q \in c.bm
      /\ i.dpage \in ToSet(Walk(d, 0)) /\ i.dpage \in Pages
      /\ \A s \in Starts(d) : s # q => Disjoint(ToSet(Walk(d, s)), ToSet(Walk(d, q)))
      /\ q \in ToSet(Walk(d, q))
      /\ \A x \in EntriesOf(d) : x.e.spage = q => x = i
  BY OldStart
<1>3. zero \in Places
  BY Constants
<1> HIDE DEF q, zero
<1>4. Lays(c, e, q, pg)
  BY <1>2, <1>3, ChunkLays DEF zero, q
<1>5. pg \in PageType
  BY <1>3, PageSame
<1> HIDE DEF pg
<1>6. f \in Devs /\ f[q] = pg /\ \A p \in Pages : p # q => f[p] = d[p]
  BY <1>1, <1>2, <1>5 DEF Devs
<1> HIDE DEF f
<1>7. e \in Calls /\ e.hung = c.hung /\ (e.dev = d \/ e.dev = f) /\ Keeps(c, e)
      /\ (e.ok => e.dev = f /\ e.bm = c.bm \cup {q})
  BY <1>4 DEF Lays, f
<1>8. /\ Ends(f, Walk(f, q)) /\ ToSet(Walk(f, q)) = {q}
      /\ c.han[h].name \in Dirs => IsDir(At(f, q)) /\ Dir(f, q) = {} /\ Bare(f, q)
  <2>1. f[q] = [page EXCEPT !.next = 0]
    BY <1>6 DEF pg, zero
  <2> QED
    BY <1>2, <1>6, <2>1, StandsAlone
<1>9. 0 \in Starts(d) /\ 0 \in Pages /\ f[0] = d[0]
  BY <1>1, <1>2, <1>6, EntryIn, Constants
<1>10. Sound(f)
  <2>1. ASSUME NEW s \in Starts(d), s # q PROVE Kept(d, f, s)
    <3>1. \A p \in ToSet(Walk(d, s)) : p # q /\ p \in Pages
      BY <1>1, <1>2, <2>1, StartLive DEF Disjoint
    <3>2. \A p \in ToSet(Walk(d, s)) : At(f, p) = At(d, p)
      BY <1>6, <3>1 DEF At
    <3> QED
      BY <3>2 DEF Kept, Alike
  <2>2. f[0].head = "root" /\ Live(d) \subseteq f[0].bm
    BY <1>1, <1>9, SoundEnds DEF Sound
  <2>3. ToSet(Walk(f, q)) \subseteq f[0].bm
    BY <1>1, <1>2, <1>8, <1>9
  <2>4. \A p \in ToSet(Walk(f, q)) : p \in Live(d) => p \in ToSet(Walk(d, q))
    BY <1>2, <1>8
  <2>5. ASSUME NEW x \in EntriesOf(d), x.e.spage = q
        PROVE Whole(f, x) /\ (x.e.name \in Dirs => Dir(f, q) = {} /\ Bare(f, q))
    BY <1>1, <1>2, <1>8, <2>5 DEF Whole
  <2> QED
    BY <1>1, <1>2, <1>6, <2>1, <2>2, <2>3, <2>4, <2>5, RefileSound
<1>11. Fine(e) /\ e.info # NoInfo
  BY <1>1, <1>7, <1>10 DEF Fine, Keeps
<1>12. ASSUME e.ok PROVE Unread(e)
  <2>1. i.dpage # q
    <3>1. 0 # q /\ Disjoint(ToSet(Walk(d, 0)), ToSet(Walk(d, q)))
      BY <1>2, <1>9
    <3> QED
      BY <1>2, <3>1 DEF Disjoint
  <2>2. e.dev[0] = d[0] /\ e.dev[i.dpage] = d[i.dpage] /\ c.bm \subseteq e.bm
    BY <1>2, <1>6, <1>7, <1>9, <1>12, <2>1
  <2> QED
    BY <1>7, <1>10, <1>12, <2>2, OldUnread
<1>13. ASSUME c.han[h].name \notin Dirs, NEW r \in DirPages(d) PROVE Alike(d, e.dev, r)
  <2>1. i \in EntriesOf(d) /\ i.e.spage = q
    BY <1>1, DirsOfType, EntryIn DEF Old, q
  <2>2. r # q
    BY <1>1, <1>2, <1>13, <2>1, FileApart
  <2>3. At(f, r) = At(d, r)
    BY <1>6, <2>2 DEF At
  <2> QED
    BY <1>7, <2>3 DEF Alike
<1>14. c.han[h].spage = q /\ (e.ok => e.dev[q] = [page EXCEPT !.next = 0])
  BY <1>6, <1>7 DEF q, pg, zero
<1> QED
  BY <1>7, <1>11, <1>12, <1>13, <1>14

\* The pages are written one after the other.
Chunked(c, strt, chunks, X) ==
  LET n == Len(chunks)
  IN  /\ ExtWrite(c, strt, chunks) = X[n]
      /\ \A k \in 1 .. n : X[k] \in Calls
      /\ X[1] = Chunk(Require(c, Avail(c.bm) # 0), strt, chunks[1], IF n = 1 THEN 0 ELSE Avail(c.bm))
      /\ \A k \in 2 .. n : X[k] = NextChunk(X[k - 1], chunks[k], k = n)

LEMMA ExtWriteSteps ==
  ASSUME NEW c \in Calls, NEW strt \in Places, NEW chunks \in Seq(PageType), Len(chunks) # 0
  PROVE  \E X : Chunked(c, strt, chunks, X)
<1> DEFINE n == Len(chunks)
           T == Calls
           next == IF n = 1 THEN 0 ELSE Avail(c.bm)
           first == Chunk(Require(c, Avail(c.bm) # 0), strt, chunks[1], next)
           v(k, x) == IF k = 0 THEN c ELSE IF k = 1 THEN first ELSE NextChunk(x, chunks[k], k = n)
           F == [p \in (0 .. n) \X T |-> v(p[1], p[2])]
           Good(g) == g = [k \in 1 .. n |-> IF k = 1 THEN first
                                            ELSE NextChunk(g[k - 1], chunks[k], k = n)]
<1>1. n \in Nat /\ n # 0 /\ n \in 1 .. n /\ 1 \in 1 .. n /\ \A k \in 1 .. n : chunks[k] \in PageType
  OBVIOUS
<1>2. \A x \in T : FreeIn(x, Places)
  BY Constants DEF FreeIn
<1>3. first \in T
  <2>1. next \in Places /\ chunks[1] \in PageType
    BY <1>1, CallFields, AvailType, Constants
  <2> DEFINE S == Places
  <2>2. strt \in S /\ FreeIn(c, S)
    BY <1>2
  <2> HIDE DEF next, S
  <2>3. Writes(c, first, S)
    BY <2>1, <2>2, FirstChunkWrites
  <2> QED
    BY <2>3 DEF Writes, Goes
<1> HIDE DEF first
<1>4. ASSUME NEW k \in 1 .. n, NEW x \in T PROVE NextChunk(x, chunks[k], k = n) \in T
  <2> DEFINE y == NextChunk(x, chunks[k], k = n)
             S == Places
  <2>1. x \in Calls /\ FreeIn(x, S) /\ chunks[k] \in PageType /\ (k = n) \in BOOLEAN
    BY <1>1, <1>2
  <2> HIDE DEF S
  <2>2. Writes(x, y, S)
    BY <2>1, NextChunkWrites
  <2> QED
    BY <2>2 DEF Writes, Goes
<1>5. F \in [(0 .. n) \X T -> T]
  <2>1. ASSUME NEW k \in 0 .. n, NEW x \in T PROVE v(k, x) \in T
    <3>1. k # 0 => k \in 1 .. n
      BY <1>1
    <3> HIDE DEF T
    <3> QED
      BY <3>1, <1>3, <1>4 DEF T
  <2> HIDE DEF T, v
  <2>2. \A p \in (0 .. n) \X T : v(p[1], p[2]) \in T
    BY <2>1
  <2> QED
    BY <2>2
<1>6. PICK g : RecursiveIn(g, n, T, c, F)
  <2> HIDE DEF F, n
  <2> QED
    BY <1>1, <1>5, Recursion
<1> DEFINE h == [k \in 1 .. n |-> g[k]]
<1>7. Good(h)
  <2>1. ASSUME NEW k \in 1 .. n
        PROVE  h[k] = IF k = 1 THEN first ELSE NextChunk(h[k - 1], chunks[k], k = n)
    <3>1. k \in 0 .. n /\ k - 1 \in 0 .. n /\ k # 0 /\ (k # 1 => k - 1 \in 1 .. n)
      BY <1>1
    <3>2. g[k] = F[<<k, g[k - 1]>>] /\ g[k - 1] \in T
      <4> HIDE DEF F, T, n
      <4> QED
        BY <3>1, <1>6 DEF RecursiveIn
    <3>3. F[<<k, g[k - 1]>>] = IF k = 1 THEN first ELSE NextChunk(g[k - 1], chunks[k], k = n)
      <4> HIDE DEF T, n
      <4> QED
        BY <3>1, <3>2
    <3>4. k # 1 => h[k - 1] = g[k - 1]
      BY <3>1
    <3>5. h[k] = g[k]
      OBVIOUS
    <3> HIDE DEF h, F, T, n
    <3> QED
      BY <3>2, <3>3, <3>4, <3>5
  <2> QED
    BY <2>1
<1> DEFINE X == CHOOSE x : Good(x)
<1>8. Good(X)
  <2>1. \E x : Good(x)
    BY <1>7
  <2> HIDE DEF Good
  <2> QED
    BY <2>1
<1>9. ExtWrite(c, strt, chunks) = X[n]
  BY <1>1 DEF ExtWrite, first, next
<1> HIDE DEF X
<1>10. X[1] = first /\ \A k \in 2 .. n : X[k] = NextChunk(X[k - 1], chunks[k], k = n)
  BY <1>1, <1>8
<1> DEFINE K == {k \in 0 .. n : k = 0 \/ X[k] \in T}
<1>11. \A k \in 0 .. n : k \in K
  <2>1. 0 \in K
    BY <1>1
  <2>2. ASSUME NEW k \in 0 .. n, k # 0, k - 1 \in K PROVE k \in K
    <3>1. k \in 1 .. n /\ (k # 1 => k - 1 # 0 /\ k \in 2 .. n)
      BY <2>2, <1>1
    <3>2. X[k] \in T
      <4> HIDE DEF T
      <4> QED
        BY <3>1, <2>2, <1>3, <1>4, <1>10
    <3> QED
      BY <3>2
  <2>3. \A k \in 0 .. n : k # 0 /\ k - 1 \in K => k \in K
    BY <2>2
  <2> HIDE DEF K
  <2> QED
    BY <1>1, <2>1, <2>3, Upto
<1>12. \A k \in 1 .. n : X[k] \in Calls
  BY <1>11
<1> QED
  BY <1>9, <1>10, <1>12 DEF Chunked, first, next

\* A call that has failed writes nothing more, and none of these loops.
LEMMA ExtWriteStuck ==
  ASSUME NEW c \in Calls, NEW strt \in Places, NEW chunks \in Seq(PageType)
  PROVE  LET e == ExtWrite(c, strt, chunks)
         IN  e \in Calls /\ e.hung = c.hung /\ (~c.ok => ~e.ok /\ e.dev = c.dev)
<1> DEFINE n == Len(chunks)
           e == ExtWrite(c, strt, chunks)
<1>1. n \in Nat
  OBVIOUS
<1>2. e \in Calls
  <2> DEFINE S == Places
  <2>1. strt \in S /\ FreeIn(c, S)
    BY Constants DEF FreeIn
  <2> HIDE DEF S
  <2>2. Writes(c, e, S)
    BY <2>1, ExtWriteWrites
  <2> QED
    BY <2>2 DEF Writes, Goes
<1>3. ASSUME ~c.ok PROVE ~e.ok /\ e.dev = c.dev
  <2> DEFINE S == {}
  <2>1. (c.ok => strt \in S) /\ FreeIn(c, S)
    BY <1>3 DEF FreeIn
  <2> HIDE DEF S
  <2>2. Writes(c, e, S)
    BY <2>1, ExtWriteWrites
  <2>3. (e.ok => c.ok) /\ \A p \in Pages : e.dev[p] = c.dev[p]
    BY <2>2 DEF Writes, Goes, S
  <2>4. e.dev \in Devs /\ c.dev \in Devs
    BY <1>2, CallFields
  <2> HIDE DEF e
  <2> QED
    BY <1>3, <2>3, <2>4 DEF Devs
<1>4. e.hung = c.hung
  <2>1. CASE n = 0
    BY <2>1 DEF ExtWrite, Mark, Fail, Calls
  <2>2. CASE n # 0
    <3>1. PICK X : Chunked(c, strt, chunks, X)
      BY <2>2, ExtWriteSteps
    <3> DEFINE K == {k \in 0 .. n : k = 0 \/ X[k].hung = c.hung}
    <3>2. 0 \in K
      BY <1>1
    <3>3. ASSUME NEW k \in 0 .. n, k # 0, k - 1 \in K PROVE k \in K
      <4>1. CASE k = 1
        <5>1. X[1].hung = c.hung
          BY <3>1 DEF Chunked, Chunk, Require, Write_Page, Mark, Fail, Calls
        <5> QED
          BY <5>1, <4>1
      <4>2. CASE k # 1
        <5>1. k \in 2 .. n /\ k - 1 \in 1 .. n /\ k - 1 # 0
          BY <1>1, <3>3, <4>2
        <5>2. X[k] = NextChunk(X[k - 1], chunks[k], k = n) /\ X[k - 1] \in Calls
          BY <3>1, <5>1 DEF Chunked
        <5>3. X[k].hung = X[k - 1].hung
          BY <5>2 DEF NextChunk, Chunk, Require, Write_Page, Mark, Fail, Calls
        <5> QED
          BY <3>3, <5>1, <5>3
      <4> QED
        BY <4>1, <4>2
    <3>4. n \in K
      <4>1. \A k \in 0 .. n : k # 0 /\ k - 1 \in K => k \in K
        BY <3>3
      <4> HIDE DEF K
      <4>2. \A k \in 0 .. n : k \in K
        BY <1>1, <3>2, <4>1, Upto
      <4> QED
        BY <4>2, <1>1
    <3> QED
      BY <3>1, <3>4, <2>2 DEF Chunked
  <2> QED
    BY <2>1, <2>2
<1> QED
  BY <1>2, <1>3, <1>4

----------------------------------------------------------------------------
(* A file of many pages *)

LEMMA AppendIs ==
  ASSUME NEW S, NEW w \in Seq(S), NEW a \in S
  PROVE  /\ Append(w, a) \in Seq(S) /\ Len(Append(w, a)) = Len(w) + 1
         /\ \A i \in 1 .. Len(w) : Append(w, a)[i] = w[i]
         /\ Append(w, a)[Len(w) + 1] = a
         /\ ToSet(Append(w, a)) = ToSet(w) \cup {a}
<1> DEFINE v == Append(w, a)
           n == Len(w)
<1>1. /\ v \in Seq(S) /\ Len(v) = n + 1 /\ n \in Nat
      /\ (\A i \in 1 .. n : v[i] = w[i]) /\ v[n + 1] = a
  OBVIOUS
<1> HIDE DEF v
<1>2. /\ \A x : x \in ToSet(v) <=> \E k \in 1 .. n + 1 : v[k] = x
      /\ \A x : x \in ToSet(w) <=> \E k \in 1 .. n : w[k] = x
  BY <1>1, InSet
<1> HIDE DEF n
<1>3. \A k \in 1 .. n : k \in 1 .. n + 1
  BY <1>1
<1>4. \A k \in 1 .. n + 1 : k \in 1 .. n \/ k = n + 1
  BY <1>1
<1>5. n + 1 \in 1 .. n + 1
  BY <1>1
<1>6. ASSUME NEW x PROVE x \in ToSet(v) <=> x \in ToSet(w) \cup {a}
  BY <1>1, <1>2, <1>3, <1>4, <1>5
<1> QED
  BY <1>1, <1>6 DEF v, n

\* The pages w are written, from the first page of the file on; the last one
\* leads to the next free page, or nowhere.
Laid(c, e, q, w, chunks, final) ==
  /\ e \in Calls /\ e.ok /\ ~e.hung /\ e.left = c.left - Len(w) /\ Keeps(c, e)
  /\ w \in Seq(Pages) /\ Len(w) \in Nat \ {0} /\ w[1] = q /\ NoTwice(w)
  /\ \A i \in 2 .. Len(w) : w[i] \in Pages \ c.bm
  /\ e.bm = c.bm \cup ToSet(w)
  /\ \A p \in Pages \ ToSet(w) : e.dev[p] = c.dev[p]
  /\ \A i \in 1 .. Len(w) : Readable(e.dev[w[i]]) /\ e.dev[w[i]].data = chunks[i].data
  /\ \A i \in 1 .. Len(w) - 1 : e.dev[w[i]].next = w[i + 1] /\ w[i + 1] # 0
  /\ e.dev[Last(w)].next = IF final THEN 0 ELSE Avail(e.bm)
  /\ Cardinality(Pages \ e.bm) = Cardinality(Pages \ c.bm) - (Len(w) - 1)

LEMMA LaidFirst ==
  ASSUME NEW c \in Calls, c.ok, ~c.hung, c.left > 0, NEW q \in Pages, q \in c.bm,
         Avail(c.bm) # 0, NEW page \in PageType, Readable(page), NEW final \in BOOLEAN,
         NEW next, next = IF final THEN 0 ELSE Avail(c.bm),
         NEW chunks \in Seq(PageType), page = chunks[1]
  PROVE  Laid(c, Chunk(Require(c, Avail(c.bm) # 0), q, page, next), q, <<q>>, chunks, final)
<1> DEFINE e == Chunk(c, q, page, next)
           w == <<q>>
           pg == [page EXCEPT !.next = next]
<1>1. Require(c, Avail(c.bm) # 0) = c
  BY DEF Require
<1>2. next \in Places
  BY CallFields, AvailType, Constants
<1>3. Lays(c, e, q, pg)
  BY <1>2, ChunkLays
<1>4. pg \in PageType /\ pg.next = next /\ Readable(pg) /\ pg.data = page.data
  BY <1>2, PageSame, PageFields DEF Readable
<1> HIDE DEF e, pg
<1>5. /\ e \in Calls /\ e.ok /\ ~e.hung /\ e.left = c.left - 1 /\ Keeps(c, e)
      /\ e.dev = [c.dev EXCEPT ![q] = pg] /\ e.bm = c.bm \cup {q}
  BY <1>3 DEF Lays
<1>6. e.dev[q] = pg /\ \A p \in Pages : p # q => e.dev[p] = c.dev[p]
  BY <1>5, CallFields DEF Devs
<1>7. w \in Seq(Pages) /\ Len(w) = 1 /\ w[1] = q
  BY OneSeq
<1> HIDE DEF w
<1>8. Last(w) = q /\ ToSet(w) = {q}
  <2>1. Last(w) = w[Len(w)]
    BY <1>7, LastIn
  <2>2. \A x : x \in ToSet(w) <=> \E k \in 1 .. 1 : w[k] = x
    BY <1>7, InSet
  <2>3. \A k \in 1 .. 1 : k = 1
    OBVIOUS
  <2>4. 1 \in 1 .. 1
    OBVIOUS
  <2> QED
    BY <1>7, <2>1, <2>2, <2>3, <2>4
<1>9. e.bm = c.bm
  BY <1>5
<1>10. Cardinality(Pages \ e.bm) = Cardinality(Pages \ c.bm) - (Len(w) - 1)
  <2>1. Cardinality(Pages \ c.bm) \in Nat
    BY CallFields, FreeCount
  <2> QED
    BY <1>7, <1>9, <2>1
<1>11. NoTwice(w)
  BY <1>7 DEF NoTwice
<1>12. \A i \in 1 .. Len(w) : i = 1
  BY <1>7
<1>13. (\A i \in 2 .. Len(w) : w[i] \in Pages \ c.bm)
       /\ (\A i \in 1 .. Len(w) - 1 : e.dev[w[i]].next = w[i + 1] /\ w[i + 1] # 0)
  BY <1>7
<1>14. \A i \in 1 .. Len(w) : Readable(e.dev[w[i]]) /\ e.dev[w[i]].data = chunks[i].data
  BY <1>4, <1>6, <1>7, <1>12
<1>15. e.dev[Last(w)].next = IF final THEN 0 ELSE Avail(e.bm)
  BY <1>4, <1>6, <1>8, <1>9
<1>16. Laid(c, e, q, w, chunks, final)
  BY <1>5, <1>6, <1>7, <1>8, <1>10, <1>11, <1>13, <1>14, <1>15 DEF Laid
<1> QED
  BY <1>1, <1>16 DEF e, w

\* There is a page that follows those already written, and a place for it.
Coming(chunks, w) == chunks[Len(w) + 1]
Continues(c, e, q, w, chunks) ==
  /\ Laid(c, e, q, w, chunks, FALSE) /\ 0 \in c.bm
  /\ c.left > Len(w) /\ Cardinality(Pages \ c.bm) > Len(w) - 1
  /\ Coming(chunks, w) \in PageType /\ Readable(Coming(chunks, w))

LEMMA LaidNext ==
  ASSUME NEW c \in Calls, NEW q \in Pages, NEW e, NEW w,
         NEW chunks \in Seq(PageType), Continues(c, e, q, w, chunks), NEW final \in BOOLEAN
  PROVE  \E v : Len(v) = Len(w) + 1 /\ Laid(c, NextChunk(e, Coming(chunks, w), final), q, v, chunks, final)
<1> DEFINE page == Coming(chunks, w)
           a == Avail(e.bm)
           more == e.bm \cup {a}
           next == IF final THEN 0 ELSE Behind(e.bm)
           pg == [page EXCEPT !.next = next]
           f == Chunk(e, a, page, next)
           v == Append(w, a)
           n == Len(w)
<1>1. /\ e \in Calls /\ e.ok /\ ~e.hung /\ e.left = c.left - n /\ Keeps(c, e)
      /\ w \in Seq(Pages) /\ n \in Nat \ {0} /\ w[1] = q /\ NoTwice(w)
      /\ \A i \in 2 .. n : w[i] \in Pages \ c.bm
      /\ e.bm = c.bm \cup ToSet(w)
      /\ \A p \in Pages \ ToSet(w) : e.dev[p] = c.dev[p]
      /\ \A i \in 1 .. n : Readable(e.dev[w[i]])
      /\ \A i \in 1 .. n - 1 : e.dev[w[i]].next = w[i + 1] /\ w[i + 1] # 0
      /\ e.dev[Last(w)].next = a
      /\ Cardinality(Pages \ e.bm) = Cardinality(Pages \ c.bm) - (n - 1)
  BY DEF Continues, Laid
<1>a. \A i \in 1 .. n : e.dev[w[i]].data = chunks[i].data
  BY DEF Continues, Laid
<1>b. 0 \in c.bm /\ c.left > n /\ Cardinality(Pages \ c.bm) > n - 1 /\ page \in PageType
      /\ Readable(page) /\ page = chunks[n + 1]
  BY DEF Continues, Coming
<1> HIDE DEF page
<1>2. e.bm \in SUBSET Pages /\ e.dev \in Devs /\ c.left \in Nat /\ c.bm \in SUBSET Pages
  BY <1>1, CallFields
<1>3. a \in Pages /\ a \notin e.bm /\ a # 0 /\ Cardinality(Pages \ more) = Cardinality(Pages \ c.bm) - n
  <2>1. Cardinality(Pages \ c.bm) \in Nat
    BY <1>2, FreeCount
  <2>2. Cardinality(Pages \ e.bm) # 0
    BY <1>1, <1>b, <2>1
  <2>3. a \in Pages \ e.bm
    BY <1>2, <2>2, FreeCount
  <2>4. 0 \in e.bm
    BY <1>1, <1>b
  <2> HIDE DEF a
  <2>5. Cardinality(Pages \ more) = Cardinality(Pages \ e.bm) - 1
    BY <1>2, <2>3, FreeCount
  <2> HIDE DEF more, n
  <2> QED
    BY <1>1, <2>1, <2>3, <2>4, <2>5
<1>4. next \in Places /\ (next = IF final THEN 0 ELSE Avail(more))
  BY <1>2, AvailType, Constants DEF Behind
<1>5. NextChunk(e, page, final) = f
  <2>1. Require(e, a # 0) = e
    BY <1>3 DEF Require
  <2> QED
    BY <2>1 DEF NextChunk
<1> HIDE DEF a, next
<1>6. Lays(e, f, a, pg)
  BY <1>1, <1>b, <1>3, <1>4, ChunkLays
<1>7. pg \in PageType /\ pg.next = next /\ Readable(pg) /\ pg.data = chunks[n + 1].data
  BY <1>b, <1>4, PageSame, PageFields DEF Readable
<1> HIDE DEF f, pg, more
<1>8. e.left > 0
  BY <1>1, <1>b, <1>2
<1>9. /\ f \in Calls /\ f.ok /\ ~f.hung /\ f.left = e.left - 1 /\ Keeps(e, f)
      /\ f.dev = [e.dev EXCEPT ![a] = pg] /\ f.bm = more
  BY <1>1, <1>6, <1>8 DEF Lays, more
<1>10. f.dev[a] = pg /\ \A p \in Pages : p # a => f.dev[p] = e.dev[p]
  BY <1>2, <1>3, <1>9 DEF Devs
<1>11. /\ v \in Seq(Pages) /\ Len(v) = n + 1 /\ (\A i \in 1 .. n : v[i] = w[i]) /\ v[n + 1] = a
       /\ ToSet(v) = ToSet(w) \cup {a}
  BY <1>1, <1>3, AppendIs
<1>12. Last(w) = w[n] /\ \A i \in 1 .. n : w[i] \in ToSet(w) /\ w[i] \in Pages /\ w[i] # a
  <2>1. \A x : x \in ToSet(w) <=> \E k \in 1 .. n : w[k] = x
    BY <1>1, InSet
  <2> QED
    BY <1>1, <1>3, <2>1, LastIn
<1> HIDE DEF v, n
<1>13. Last(v) = a
  <2>1. Len(v) # 0
    BY <1>1, <1>11
  <2> QED
    BY <1>11, <2>1, LastIn
<1>14. \A i \in 1 .. n + 1 : i \in 1 .. n \/ i = n + 1
  BY <1>1
<1>15. n + 1 \in 1 .. n + 1 /\ 1 \in 1 .. n /\ n \in 1 .. n
  BY <1>1
<1>16. NoTwice(v)
  <2>1. ASSUME NEW i \in 1 .. n + 1, NEW j \in 1 .. n + 1, v[i] = v[j] PROVE i = j
    <3>1. CASE i \in 1 .. n /\ j \in 1 .. n
      <4>1. NoTwice(w) /\ Len(w) = n
        BY <1>1 DEF n
      <4> QED
        BY <3>1, <2>1, <4>1, <1>11 DEF NoTwice
    <3>2. CASE i = n + 1 \/ j = n + 1
      BY <3>2, <2>1, <1>11, <1>12, <1>14
    <3> QED
      BY <3>1, <3>2, <1>14
  <2> QED
    BY <2>1, <1>11 DEF NoTwice
<1>17. \A i \in 2 .. n + 1 : v[i] \in Pages \ c.bm
  <2>1. \A i \in 2 .. n + 1 : (i \in 2 .. n /\ i \in 1 .. n) \/ i = n + 1
    BY <1>1
  <2>2. \A i \in 2 .. n : w[i] \in Pages \ c.bm
    BY <1>1
  <2>3. a \in Pages \ c.bm
    BY <1>1, <1>3
  <2> QED
    BY <2>1, <2>2, <2>3, <1>11
<1>18. f.bm = c.bm \cup ToSet(v)
  BY <1>1, <1>9, <1>11 DEF more
<1>19. \A p \in Pages \ ToSet(v) : f.dev[p] = c.dev[p]
  BY <1>1, <1>10, <1>11
<1>20. \A i \in 1 .. n + 1 : Readable(f.dev[v[i]]) /\ f.dev[v[i]].data = chunks[i].data
  <2>1. ASSUME NEW i \in 1 .. n PROVE Readable(f.dev[v[i]]) /\ f.dev[v[i]].data = chunks[i].data
    <3>1. v[i] = w[i] /\ f.dev[w[i]] = e.dev[w[i]]
      BY <1>10, <1>11, <1>12
    <3>2. Readable(e.dev[w[i]]) /\ e.dev[w[i]].data = chunks[i].data
      BY <1>1, <1>a
    <3> QED
      BY <3>1, <3>2
  <2>2. Readable(f.dev[v[n + 1]]) /\ f.dev[v[n + 1]].data = chunks[n + 1].data
    BY <1>7, <1>10, <1>11
  <2> QED
    BY <2>1, <2>2, <1>14
<1>21. \A i \in 1 .. n : f.dev[v[i]].next = v[i + 1] /\ v[i + 1] # 0
  <2>1. ASSUME NEW i \in 1 .. n PROVE f.dev[v[i]].next = v[i + 1] /\ v[i + 1] # 0
    <3>1. f.dev[v[i]] = e.dev[w[i]]
      BY <1>10, <1>11, <1>12
    <3>2. CASE i = n
      BY <3>1, <3>2, <1>1, <1>3, <1>11, <1>12
    <3>3. CASE i # n
      <4>1. i \in 1 .. n - 1 /\ i + 1 \in 1 .. n
        BY <1>1, <3>3
      <4> QED
        BY <3>1, <4>1, <1>1, <1>11
    <3> QED
      BY <3>2, <3>3
  <2> QED
    BY <2>1
<1>22. f.dev[Last(v)].next = IF final THEN 0 ELSE Avail(f.bm)
  BY <1>4, <1>7, <1>9, <1>10, <1>13
<1>23. Cardinality(Pages \ f.bm) = Cardinality(Pages \ c.bm) - (Len(v) - 1) /\ f.left = c.left - Len(v)
       /\ Len(v) - 1 = n /\ Len(v) \in Nat \ {0}
  <2>1. Len(v) - 1 = n /\ Len(v) \in Nat \ {0}
    BY <1>1, <1>11
  <2> QED
    BY <2>1, <1>1, <1>2, <1>3, <1>9, <1>11
<1>24. Keeps(c, f) /\ v[1] = q
  BY <1>1, <1>9, <1>11, <1>15, KeepsThen
<1>25. Laid(c, f, q, v, chunks, final)
  BY <1>9, <1>11, <1>16, <1>17, <1>18, <1>19, <1>20, <1>21, <1>22, <1>23, <1>24 DEF Laid
<1> QED
  BY <1>5, <1>11, <1>25 DEF n, page

\* All of it is written, if there are pages enough and contact is not lost.
LEMMA AllLaid ==
  ASSUME NEW c \in Calls, c.ok, ~c.hung, 0 \in c.bm, NEW q \in Pages, q \in c.bm,
         NEW chunks \in Seq(PageType), Len(chunks) >= 2,
         \A k \in 1 .. Len(chunks) : Readable(chunks[k]),
         c.left >= Len(chunks), Cardinality(Pages \ c.bm) >= Len(chunks) - 1
  PROVE  \E w : Len(w) = Len(chunks) /\ Laid(c, ExtWrite(c, q, chunks), q, w, chunks, TRUE)
<1> DEFINE n == Len(chunks)
           free == Cardinality(Pages \ c.bm)
<1>1. n \in Nat /\ n >= 2 /\ n # 0 /\ n # 1 /\ n \in 1 .. n /\ 1 \in 1 .. n
      /\ \A k \in 1 .. n : chunks[k] \in PageType /\ Readable(chunks[k])
  OBVIOUS
<1>2. c.left \in Nat /\ c.left >= n /\ free \in Nat /\ free >= n - 1 /\ q \in Places
  BY CallFields, FreeCount, Constants
<1>3. PICK X : Chunked(c, q, chunks, X)
  BY <1>1, <1>2, ExtWriteSteps
<1>4. /\ ExtWrite(c, q, chunks) = X[n]
      /\ X[1] = Chunk(Require(c, Avail(c.bm) # 0), q, chunks[1], Avail(c.bm))
      /\ \A k \in 2 .. n : X[k] = NextChunk(X[k - 1], chunks[k], k = n)
  BY <1>1, <1>3 DEF Chunked
<1> HIDE DEF n
<1>5. Avail(c.bm) # 0
  <2>1. Avail(c.bm) \in Pages \ c.bm
    <3>1. c.bm \in SUBSET Pages /\ free # 0
      BY <1>1, <1>2, CallFields
    <3> QED
      BY <3>1, FreeCount
  <2> QED
    BY <2>1
<1> DEFINE Done(k) == \E w : Len(w) = k /\ Laid(c, X[k], q, w, chunks, k = n)
           K == {k \in 0 .. n : k = 0 \/ Done(k)}
<1>6. Done(1)
  <2> DEFINE final == FALSE
             next == Avail(c.bm)
             page == chunks[1]
             first == <<q>>
  <2>1. c.left > 0 /\ page \in PageType /\ Readable(page) /\ final \in BOOLEAN
        /\ next = IF final THEN 0 ELSE Avail(c.bm)
    BY <1>1, <1>2
  <2>4. page = chunks[1]
    OBVIOUS
  <2> HIDE DEF page, next, final
  <2>2. Laid(c, Chunk(Require(c, Avail(c.bm) # 0), q, page, next), q, first, chunks, final)
    BY <1>5, <2>1, <2>4, LaidFirst
  <2>3. Laid(c, X[1], q, first, chunks, 1 = n)
    <3>1. final = (1 = n)
      BY <1>1 DEF final
    <3> QED
      BY <1>4, <2>2, <3>1 DEF page, next
  <2>5. Len(first) = 1
    OBVIOUS
  <2> QED
    BY <2>3, <2>5
<1>7. ASSUME NEW k \in 2 .. n, Done(k - 1) PROVE Done(k)
  <2> DEFINE m == k - 1
             e == X[m]
             page == chunks[k]
             final == k = n
  <2>1. k \in 1 .. n /\ m \in Nat /\ m # n /\ m < n /\ m + 1 = k
    BY <1>1
  <2>2. PICK w : Len(w) = m /\ Laid(c, e, q, w, chunks, m = n)
    BY <1>7
  <2>3. Laid(c, e, q, w, chunks, FALSE)
    <3>1. (m = n) = FALSE
      BY <2>1
    <3> QED
      BY <2>2, <3>1
  <2>4. page \in PageType /\ Readable(page) /\ final \in BOOLEAN
    BY <1>1, <2>1
  <2>5. c.left > Len(w) /\ free > Len(w) - 1
    BY <1>1, <1>2, <2>1, <2>2
  <2>9. page = Coming(chunks, w)
    BY <2>1, <2>2 DEF Coming
  <2>6. X[k] = NextChunk(e, Coming(chunks, w), final)
    BY <1>4, <2>9
  <2>10. Continues(c, e, q, w, chunks)
    BY <2>3, <2>4, <2>5, <2>9 DEF Continues
  <2> HIDE DEF m, e, page, final
  <2>7. PICK v : Len(v) = Len(w) + 1 /\ Laid(c, NextChunk(e, Coming(chunks, w), final), q, v, chunks, final)
    BY <2>4, <2>10, LaidNext
  <2>8. Len(v) = k /\ Laid(c, X[k], q, v, chunks, k = n)
    BY <2>1, <2>2, <2>6, <2>7 DEF final
  <2> QED
    BY <2>8
<1> HIDE DEF Done
<1>8. 0 \in K
  BY <1>1
<1>9. ASSUME NEW k \in 0 .. n, k # 0, k - 1 \in K PROVE k \in K
  <2>1. CASE k = 1
    BY <2>1, <1>6, <1>9
  <2>2. CASE k # 1
    <3>1. k \in 2 .. n /\ k - 1 # 0
      BY <1>1, <1>9, <2>2
    <3> QED
      BY <3>1, <1>7, <1>9
  <2> QED
    BY <2>1, <2>2
<1>10. Done(n)
  <2>1. \A k \in 0 .. n : k # 0 /\ k - 1 \in K => k \in K
    BY <1>9
  <2> HIDE DEF K
  <2>2. \A k \in 0 .. n : k \in K
    BY <1>1, <1>8, <2>1, Upto
  <2> QED
    BY <2>2, <1>1 DEF K
<1>11. PICK w : Len(w) = n /\ Laid(c, X[n], q, w, chunks, n = n)
  BY <1>10 DEF Done
<1>12. (n = n) = TRUE
  OBVIOUS
<1> QED
  BY <1>4, <1>11, <1>12 DEF n

\* Then, with the bitmap, the part is sound again.
LEMMA RefiledSound ==
  ASSUME NEW c \in Calls, NEW h \in Handles \cup {0}, Old(c, h), c.han[h].name \notin Dirs,
         NEW e, NEW w, NEW chunks \in Seq(PageType),
         Laid(c, e, c.han[h].spage, w, chunks, TRUE),
         Len(w) = Len(chunks),
         NEW g, g = Bitmapped(e.dev, e.bm)
  PROVE  /\ Sound(g) /\ g \in Devs /\ e.dev[0].head = "root"
         /\ \A p \in DirPages(c.dev) : Alike(c.dev, g, p)
         /\ Shows(g, c.han[h].spage, chunks) /\ Ends(g, Walk(g, c.han[h].spage))
<1> DEFINE d == c.dev
           q == c.han[h].spage
           f == e.dev
           n == Len(w)
<1>1. d \in Devs /\ Sound(d) /\ c.bm = d[0].bm /\ c.info.e.name = c.han[h].name
  BY CallFields DEF Old, Fine
<1>2. /\ q \in Starts(d) /\ q # 0 /\ q \in Pages /\ q \in c.bm
      /\ \A s \in Starts(d) : s # q => Disjoint(ToSet(Walk(d, s)), ToSet(Walk(d, q)))
      /\ q \in ToSet(Walk(d, q))
      /\ \A x \in EntriesOf(d) : x.e.spage = q => x = c.info
  BY OldStart
<1> HIDE DEF q
<1>3. /\ e \in Calls /\ w \in Seq(Pages) /\ n \in Nat \ {0} /\ w[1] = q /\ NoTwice(w)
      /\ \A i \in 2 .. n : w[i] \in Pages \ c.bm
      /\ e.bm = c.bm \cup ToSet(w)
      /\ \A p \in Pages \ ToSet(w) : f[p] = d[p]
      /\ \A i \in 1 .. n : Readable(f[w[i]])
      /\ \A i \in 1 .. n - 1 : f[w[i]].next = w[i + 1] /\ w[i + 1] # 0
      /\ f[Last(w)].next = 0
  BY DEF Laid, q
<1>a. \A i \in 1 .. n : f[w[i]].data = chunks[i].data
  BY DEF Laid
<1> HIDE DEF n
<1>4. f \in Devs /\ e.bm \in SUBSET Pages
  BY <1>3, CallFields
<1>5. /\ g \in Devs /\ g[0].bm = e.bm /\ \A r : Alike(f, g, r)
  BY <1>4, BitmappedIs
<1>6. Live(d) \subseteq c.bm /\ Live(d) \subseteq Pages
  BY <1>1, SoundEnds
<1>7. /\ \A x : x \in ToSet(w) <=> \E k \in 1 .. n : w[k] = x
      /\ Last(w) = w[n] /\ n \in 1 .. n /\ ToSet(w) \subseteq Pages
  BY <1>3, InSet, LastIn DEF n
<1>8. \A p \in ToSet(w) : p = q \/ p \notin c.bm
  <2>1. \A k \in 1 .. n : k = 1 \/ k \in 2 .. n
    BY <1>3
  <2> QED
    BY <1>3, <1>7, <2>1
<1>9. ASSUME NEW s \in Starts(d), s # q PROVE Kept(d, g, s)
  <2>1. ASSUME NEW p \in ToSet(Walk(d, s)) PROVE Alike(d, g, p)
    <3>1. p \in Live(d) /\ p \in Pages /\ p # q
      BY <1>1, <1>2, <1>9, StartLive DEF Disjoint
    <3>2. f[p] = d[p]
      BY <1>3, <1>6, <1>8, <3>1
    <3>3. At(f, p) = f[p] /\ At(d, p) = d[p]
      BY <1>1, <1>4, <3>1, AtType
    <3> QED
      BY <3>2, <3>3, <1>5 DEF Alike
  <2> QED
    BY <2>1 DEF Kept
<1>10. 0 \in Starts(d) /\ Kept(d, g, 0)
  BY <1>1, <1>2, <1>9, EntryIn
<1>11. 0 \in Pages /\ 0 \in ToSet(Walk(d, 0)) /\ At(d, 0) = d[0] /\ At(g, 0) = g[0] /\ At(f, 0) = f[0]
  BY <1>1, <1>4, <1>5, ChainHead, AtType, Constants
<1>12. g[0].head = "root" /\ f[0].head = "root"
  BY <1>1, <1>5, <1>10, <1>11 DEF Kept, Alike, Sound
<1>13. \A p \in ToSet(w) : At(g, p).next = f[p].next /\ (Readable(At(g, p)) <=> Readable(f[p]))
                         /\ At(g, p).data = f[p].data
  <2>1. \A p \in ToSet(w) : At(f, p) = f[p]
    BY <1>4, <1>7, AtType
  <2> QED
    BY <2>1, <1>5 DEF Alike, Readable
<1>14. Walk(g, q) = w /\ Ends(g, w)
  <2>1. w \in Seq(Places) /\ q \in Places /\ Len(w) # 0
    BY <1>2, <1>3, SeqWider, Constants DEF n
  <2>2. \A i \in 1 .. n - 1 : i \in 1 .. n
    BY <1>3
  <2>3. \A i \in 1 .. Len(w) - 1 :
          Readable(At(g, w[i])) /\ w[i + 1] = At(g, w[i]).next /\ w[i + 1] # 0
    <3>1. Len(w) = n
      BY DEF n
    <3>2. \A i \in 1 .. n : w[i] \in ToSet(w)
      BY <1>7
    <3>3. \A i \in 1 .. n - 1 : f[w[i]].next = w[i + 1] /\ w[i + 1] # 0
      BY <1>3
    <3> HIDE DEF n
    <3>4. ASSUME NEW i \in 1 .. n - 1
          PROVE  Readable(At(g, w[i])) /\ w[i + 1] = At(g, w[i]).next /\ w[i + 1] # 0
      <4>1. w[i] \in ToSet(w) /\ f[w[i]].next = w[i + 1] /\ w[i + 1] # 0 /\ Readable(f[w[i]])
        BY <1>3, <2>2, <3>2, <3>3
      <4> QED
        BY <1>13, <4>1
    <3> QED
      BY <3>1, <3>4
  <2>4. w \in Path(g, q)
    BY <1>3, <1>5, <2>1, <2>3, PathIs
  <2>5. Ends(g, w) /\ Stops(At(g, Last(w)))
    BY <1>3, <1>7, <1>13 DEF Ends, EndsIn, Stops
  <2> QED
    BY <1>5, <2>1, <2>4, <2>5, WalkOf
<1>15. Live(d) \subseteq g[0].bm /\ ToSet(Walk(g, q)) \subseteq g[0].bm
  BY <1>3, <1>5, <1>6, <1>14
<1>16. \A p \in ToSet(Walk(g, q)) : p \in Live(d) => p \in ToSet(Walk(d, q))
  BY <1>2, <1>6, <1>8, <1>14
<1>17. \A x \in EntriesOf(d) : x.e.spage = q => Whole(g, x) /\ (x.e.name \in Dirs => Dir(g, q) = {} /\ Bare(g, q))
  BY <1>1, <1>2, <1>14 DEF Whole
<1>18. Sound(g)
  BY <1>1, <1>2, <1>5, <1>9, <1>12, <1>15, <1>16, <1>17, RefileSound
<1>19. ASSUME NEW p \in DirPages(d) PROVE Alike(d, g, p)
  <2>1. c.info \in EntriesOf(d) /\ c.info.e.spage = q
    BY <1>1, DirsOfType, EntryIn DEF Old, q
  <2>2. p \notin ToSet(Walk(d, q))
    BY <1>1, <2>1, FileApart
  <2>3. PICK s \in DirsOf(d) : p \in ToSet(Walk(d, s))
    BY DEF DirPages
  <2>4. s \in Starts(d) /\ s # q
    BY <1>1, <2>2, <2>3, EntryIn
  <2> QED
    BY <1>9, <2>3, <2>4 DEF Kept
<1>20. Shows(g, q, chunks)
  <2>1. \A k \in 1 .. n : w[k] \in ToSet(w)
    BY <1>7
  <2>2. \A k \in 1 .. n : At(g, w[k]).data = chunks[k].data
    BY <1>a, <1>13, <2>1
  <2>3. Len(w) = n /\ Len(chunks) = n
    BY DEF n
  <2> QED
    BY <1>14, <2>2, <2>3 DEF Shows
<1> QED
  BY <1>5, <1>12, <1>14, <1>18, <1>19, <1>20 DEF q

\* The entry that was found names the pages that were written.
LEMMA OldStores ==
  ASSUME NEW c \in Calls, NEW h \in Handles \cup {0}, Old(c, h), c.han[h].name \notin Dirs,
         NEW e \in Devs, Sound(e), Grows(c.dev, e),
         NEW chunks, Shows(e, c.han[h].spage, chunks)
  PROVE  Stored(e, c.han[h].name, chunks)
<1> DEFINE x == c.info
<1>1. /\ c.dev \in Devs /\ Sound(c.dev) /\ x \in Dir(c.dev, 0)
      /\ x.e.name = c.han[h].name /\ x.e.spage = c.han[h].spage
  BY CallFields DEF Old, Fine
<1> HIDE DEF x
<1> QED
  BY <1>1, StoredStill

LEMMA ManyFine ==
  ASSUME NEW c \in Calls, NEW h \in Handles \cup {0}, Old(c, h), c.han[h].name \notin Dirs,
         c.spot # 0, c.info.dpage # 0,
         NEW chunks \in Seq(PageType), Len(chunks) >= 2,
         \A k \in 1 .. Len(chunks) : Readable(chunks[k]),
         c.left > Len(chunks), Cardinality(Pages \ c.bm) >= Len(chunks) - 1,
         Recorded(Filled(c, h, chunks), h) \in Calls
  PROVE  /\ Fine(Recorded(Filled(c, h, chunks), h))
         /\ Grows(c.dev, Recorded(Filled(c, h, chunks), h).dev)
         /\ Stored(Recorded(Filled(c, h, chunks), h).dev, c.han[h].name, chunks)
<1> DEFINE d == c.dev
           q == c.han[h].spage
           e == Filled(c, h, chunks)
           g == Bitmapped(e.dev, e.bm)
           n == Len(chunks)
           b == Bits(e)
           i == c.info.dpage
           r == Write_Page(b, i, e.newpg)
           z == [g EXCEPT ![i] = e.newpg]
<1>1. d \in Devs /\ Sound(d) /\ c.ok /\ ~c.hung /\ c.bm = d[0].bm /\ c.info # NoInfo
      /\ c.newpg = d[i]
  BY CallFields DEF Old, Fine
<1>2. q \in Pages /\ q \in c.bm /\ i \in ToSet(Walk(d, 0)) /\ i \in Pages
  BY OldStart
<1>3. 0 \in c.bm
  BY <1>1, SoundEnds, StartLive, EntryIn
<1>4. n \in Nat /\ c.left \in Nat /\ c.left >= n
  BY CallFields
<1>5. PICK w : Len(w) = n /\ Laid(c, e, q, w, chunks, TRUE)
  BY <1>1, <1>2, <1>3, <1>4, AllLaid DEF Filled
<1> HIDE DEF e
<1>6. e \in Calls /\ e.ok /\ ~e.hung /\ e.left = c.left - n /\ Keeps(c, e)
  BY <1>5 DEF Laid
<1>7. /\ Sound(g) /\ g \in Devs /\ e.dev[0].head = "root"
      /\ \A p \in DirPages(d) : Alike(d, g, p)
      /\ Shows(g, q, chunks) /\ Ends(g, Walk(g, q))
  BY <1>5, RefiledSound
<1>8. e.spot # 0 /\ e.info = c.info /\ e.newpg = d[i] /\ e.left > 0
  BY <1>1, <1>4, <1>6 DEF Keeps
<1>9. b \in Calls /\ ~b.hung /\ b.dev = g
  <2>1. b.ok
    BY <1>6, <1>7, <1>8 DEF Bits, WriteBitMap, Write_Page, Calls
  <2> QED
    BY <2>1, <1>6, <1>7, <1>8, BitsPuts
<1>10. Recorded(e, h) = r
  BY <1>1, <1>6, <1>8 DEF Recorded
<1>11. e.newpg \in PageType
  BY <1>6, CallFields
<1> HIDE DEF b, i, g
<1>12. ~r.hung /\ (r.dev = g \/ r.dev = z)
  <2>1. Puts(b, r, i, e.newpg)
    BY <1>2, <1>9, <1>11, WritePuts
  <2> QED
    BY <2>1, <1>9 DEF Puts
<1>13. i \in DirPages(d)
  BY <1>1, <1>2, DirsOfType, DirPagesLive
<1>14. /\ Sound(z) /\ \A p \in DirPages(d) : Alike(d, z, p)
       /\ \A p : Alike(g, z, p)
  <2>1. At(d, i) = d[i] /\ At(g, i) = g[i] /\ Alike(d, g, i)
    BY <1>1, <1>2, <1>7, <1>13, AtType
  <2>2. e.newpg.head = g[i].head /\ e.newpg.slots = g[i].slots
        /\ e.newpg.data = g[i].data /\ e.newpg.next = g[i].next
    BY <2>1, <1>8 DEF Alike
  <2>3. i # 0
    BY DEF i
  <2>4. Sound(z)
    BY <1>2, <1>7, <1>11, <2>2, <2>3, AsideWrite DEF Alikes
  <2>5. z[i] = e.newpg /\ \A p \in Pages : p # i => z[p] = g[p]
    BY <1>2, <1>7 DEF Devs
  <2>6. At(z, i) = z[i] /\ \A p : p # i => At(z, p) = At(g, p)
    BY <1>2, <2>5 DEF At
  <2>7. Alike(d, z, i)
    BY <2>1, <2>2, <2>5, <2>6 DEF Alike
  <2>8. ASSUME NEW p \in DirPages(d), p # i PROVE Alike(d, z, p)
    BY <1>7, <2>6, <2>8 DEF Alike
  <2>9. ASSUME NEW p PROVE Alike(g, z, p)
    BY <2>1, <2>2, <2>5, <2>6 DEF Alike
  <2> QED
    BY <2>4, <2>7, <2>8, <2>9
<1>15. Grows(d, r.dev)
  BY <1>7, <1>12, <1>14, GrowsAlike
<1>16. r \in Calls
  BY <1>10 DEF e
<1>17. Sound(r.dev) /\ r.dev \in Devs /\ \A p : Alike(g, r.dev, p)
  <2>1. \A p : Alike(g, g, p)
    BY DEF Alike
  <2>2. r.dev \in Devs
    BY <1>16, CallFields
  <2> QED
    BY <1>7, <1>12, <1>14, <2>1, <2>2
<1>18. Shows(r.dev, q, chunks)
  <2>1. q \in Places
    BY <1>2, Constants
  <2> QED
    BY <1>7, <1>17, <2>1, ShowsAlike
<1>19. Stored(r.dev, c.han[h].name, chunks)
  BY <1>15, <1>17, <1>18, OldStores
<1> HIDE DEF r
<1> QED
  BY <1>10, <1>12, <1>15, <1>17, <1>19 DEF Fine, e

----------------------------------------------------------------------------
(* owWriteFile *)

LEMMA ReleasedFine ==
  ASSUME NEW c \in Calls, NEW h, NEW condition
  PROVE  LET e == ReleasedIf(c, h, condition)
         IN  e.dev = c.dev /\ e.hung = c.hung /\ e.ok = c.ok
  BY DEF ReleasedIf, Released, Calls

\* What may be written: a file without a page, a file or directory of one, or a
\* longer file in a place of the directory from where the bitmap is written.
Storable(c, h, u, chunks) ==
  /\ Supplied(c.dev, u)
  /\ u # 0 => \A y \in Dir(c.dev, u) : y.e.name # c.han[h].name
  /\ Len(chunks) = 0 => c.han[h].name \notin Dirs /\ ~Readable(c.dev[Avail(c.dev[0].bm)])
  /\ Len(chunks) = 1 => Stands(c.han[h].name, chunks[1])
  /\ Len(chunks) >= 2 =>
       /\ u = 0 /\ c.han[h].name \notin Dirs /\ c.left > Len(chunks)
       /\ \A k \in 1 .. Len(chunks) : Readable(chunks[k])
       /\ LastNamed(Root(c.dev), c.han[h].name).dpage # 0 /\ Full(c.dev[0])

Writing(c, h, u, chunks) ==
  /\ Fine(c) /\ u = CdPage(c.cd) /\ u \in DirsOf(c.dev)
  /\ c.ok => Storable(c, h, u, chunks)

\* One page is written if a page is free.
LEMMA OneChunk ==
  ASSUME NEW c \in Calls, NEW strt \in Places, NEW chunks \in Seq(PageType), Len(chunks) = 1
  PROVE  ExtWrite(c, strt, chunks) = Chunk(Require(c, Avail(c.bm) # 0), strt, chunks[1], 0)
<1>1. PICK X : Chunked(c, strt, chunks, X)
  BY ExtWriteSteps
<1> QED
  BY <1>1 DEF Chunked

\* The entry is not in page 0, so there is a later page in the directory.
LEMMA LaterSpot ==
  ASSUME NEW c \in Calls, Fine(c), NEW u, u = 0, NEW i \in ToSet(Walk(c.dev, u)), i # 0,
         FoundSpot(c, c, Walk(c.dev, u)), Full(c.dev[0])
  PROVE  c.spot # 0
<1> DEFINE w == Walk(c.dev, u)
<1>1. SUFFICES ASSUME c.spot = 0 PROVE FALSE
  OBVIOUS
<1>2. c.spot = Last(w)
  BY <1>1 DEF FoundSpot
<1>3. c.dev \in Devs /\ Sound(c.dev) /\ u \in Starts(c.dev)
  BY CallFields, EntryIn DEF Fine
<1>4. w \in Seq(Places) /\ Len(w) \in Nat \ {0} /\ w[1] = u /\ NoTwice(w)
  BY <1>3, StartLive
<1> HIDE DEF w
<1>5. Last(w) = w[Len(w)] /\ \A x : x \in ToSet(w) <=> \E k \in 1 .. Len(w) : w[k] = x
  BY <1>4, LastIn, InSet
<1>6. Len(w) = 1
  <2>1. 1 \in 1 .. Len(w) /\ Len(w) \in 1 .. Len(w)
    BY <1>4
  <2>2. w[1] = w[Len(w)]
    BY <1>1, <1>2, <1>4, <1>5
  <2> QED
    BY <1>4, <2>1, <2>2 DEF NoTwice
<1>7. PICK k \in 1 .. Len(w) : w[k] = i
  BY <1>5 DEF w
<1>8. k = 1
  BY <1>6, <1>7
<1> QED
  BY <1>4, <1>7, <1>8

LEMMA NovelFine ==
  ASSUME NEW c \in Calls, NEW h \in Handles \cup {0}, NEW u, Novel(c, u, h),
         NEW chunks \in Seq(PageType), Len(chunks) \in {0, 1},
         Len(chunks) = 0 => c.han[h].name \notin Dirs /\ ~Readable(c.dev[Avail(c.dev[0].bm)]),
         Len(chunks) = 1 => Stands(c.han[h].name, chunks[1]),
         Recorded(Filled(c, h, chunks), h) \in Calls
  PROVE  /\ Fine(Recorded(Filled(c, h, chunks), h))
         /\ Grows(c.dev, Recorded(Filled(c, h, chunks), h).dev)
         /\ Len(chunks) = 1 /\ u = 0 /\ Recorded(Filled(c, h, chunks), h).ok =>
              Stored(Recorded(Filled(c, h, chunks), h).dev, c.han[h].name, chunks)
<1> DEFINE e == Filled(c, h, chunks)
           q == c.han[h].spage
           single == Len(chunks) = 1
           page == chunks[1]
           pg == [page EXCEPT !.next = 0]
<1>0. single => page \in PageType /\ Stands(c.han[h].name, page)
  <2>1. ASSUME single PROVE page \in PageType
    <3>1. 1 \in 1 .. Len(chunks)
      BY <2>1
    <3> QED
      BY <3>1
  <2> QED
    BY <2>1
<1>1. e \in Calls /\ Fine(e) /\ e.info = NoInfo /\ (e.ok => HasRoom(e, u, h))
      /\ Alikes(c.dev, e.dev)
      /\ (single /\ e.ok => q \in Pages /\ e.dev[q] = pg /\ e.han = c.han)
  <2>1. CASE Len(chunks) = 0
    <3>1. chunks = <<>>
      BY <2>1
    <3> QED
      BY <2>1, <3>1, NoneFine
  <2>2. CASE Len(chunks) = 1
    <3>1. c.bm = c.dev[0].bm /\ c.dev \in Devs /\ Sound(c.dev) /\ q = Avail(c.bm)
      BY CallFields DEF Novel, Fine
    <3>2. 0 \in c.bm
      BY <3>1, SoundEnds, StartLive, EntryIn
    <3>3. Avail(c.bm) # 0
      BY <3>1, <3>2, FreePages2 DEF Novel
    <3>4. q \in Places
      BY CallFields, HanFields
    <3>5. Require(c, Avail(c.bm) # 0) = c
      BY <3>3 DEF Require
    <3>6. e = Chunk(c, q, page, 0)
      BY <2>2, <3>4, <3>5, OneChunk DEF Filled
    <3>7. page \in PageType /\ Stands(c.han[h].name, page)
      BY <2>2, <1>0
    <3> HIDE DEF page, e
    <3>8. q \in Pages
      BY <3>1, <3>3, AvailType, CallFields
    <3> QED
      BY <3>6, <3>7, <3>8, OneNewFine DEF pg
  <2> QED
    BY <2>1, <2>2
<1> HIDE DEF e, single, page, pg
<1>2. Fine(Recorded(e, h)) /\ Grows(e.dev, Recorded(e, h).dev)
  BY <1>1, RecordedFine
<1>3. Grows(c.dev, Recorded(e, h).dev)
  <2>1. c.dev \in Devs /\ e.dev \in Devs /\ Sound(c.dev)
    BY <1>1, CallFields DEF Novel, Fine
  <2> QED
    BY <1>1, <1>2, <2>1, GrowsAfter
<1>4. ASSUME single, u = 0, Recorded(e, h).ok
      PROVE  Stored(Recorded(e, h).dev, c.han[h].name, chunks)
  <2> DEFINE entry == EntryFor(e, h)
             f == Recorded(e, h)
  <2>1. e.ok /\ Filed(e.dev, f.dev, entry)
    BY <1>1, <1>4, RecordedFine
  <2>2. entry.spage = q /\ entry.name = c.han[h].name
    BY <1>1, <1>4, <2>1 DEF EntryFor
  <2> HIDE DEF entry
  <2>3. f.dev \in Devs /\ e.dev \in Devs
    <3>1. f \in Calls
      BY DEF e
    <3> QED
      BY <1>1, <3>1, CallFields
  <2> HIDE DEF f
  <2>4. PICK y \in Dir(f.dev, 0) : y.e = entry
    BY <2>1 DEF Filed
  <2>5. Alike(e.dev, f.dev, q)
    BY <2>1, <2>2 DEF Filed
  <2>6. q \in Pages /\ q \in Places /\ e.dev[q] = pg
    BY <1>1, <1>4, <2>1, Constants
  <2>7. At(e.dev, q).next = 0 /\ At(e.dev, q).data = page.data
    <3>1. pg.next = 0 /\ pg.data = page.data
      BY <1>0, <1>4, PageFields DEF pg
    <3> QED
      BY <2>3, <2>6, <3>1, AtType
  <2> HIDE DEF q
  <2>8. Shows(f.dev, q, chunks)
    BY <1>4, <2>3, <2>5, <2>6, <2>7, OneShows DEF Alike, single, page
  <2>9. Stored(f.dev, c.han[h].name, chunks)
    BY <2>2, <2>4, <2>8 DEF Stored
  <2> QED
    BY <2>9 DEF f
<1> QED
  BY <1>2, <1>3, <1>4 DEF e, single

LEMMA OldFine ==
  ASSUME NEW c \in Calls, NEW h \in Handles \cup {0}, Old(c, h),
         NEW chunks \in Seq(PageType), Len(chunks) \in {0, 1},
         Len(chunks) = 1 => Stands(c.han[h].name, chunks[1]),
         Recorded(Filled(c, h, chunks), h) \in Calls
  PROVE  /\ Fine(Recorded(Filled(c, h, chunks), h))
         /\ c.han[h].name \notin Dirs => Grows(c.dev, Recorded(Filled(c, h, chunks), h).dev)
         /\ c.han[h].name \notin Dirs /\ Len(chunks) = 1 /\ Recorded(Filled(c, h, chunks), h).ok =>
              Stored(Recorded(Filled(c, h, chunks), h).dev, c.han[h].name, chunks)
<1> DEFINE e == Filled(c, h, chunks)
           q == c.han[h].spage
           single == Len(chunks) = 1
           page == chunks[1]
           pg == [page EXCEPT !.next = 0]
<1>0. single => page \in PageType /\ Stands(c.han[h].name, page)
  <2>1. ASSUME single PROVE page \in PageType
    <3>1. 1 \in 1 .. Len(chunks)
      BY <2>1
    <3> QED
      BY <3>1
  <2> QED
    BY <2>1
<1>1. e \in Calls /\ Fine(e) /\ (e.ok => e.info # NoInfo /\ Unread(e))
      /\ (c.han[h].name \notin Dirs => \A r \in DirPages(c.dev) : Alike(c.dev, e.dev, r))
      /\ (single /\ e.ok => e.dev[q] = pg)
  <2>1. CASE Len(chunks) = 0
    <3>1. chunks = <<>>
      BY <2>1
    <3> QED
      BY <2>1, <3>1, NoneOldFine DEF Alike
  <2>2. CASE Len(chunks) = 1
    <3> DEFINE r == Require(c, Avail(c.bm) # 0)
    <3>1. q \in Places
      BY CallFields, HanFields
    <3>2. e = Chunk(r, q, page, 0)
      BY <2>2, <3>1, OneChunk DEF Filled
    <3>3. page \in PageType /\ Stands(c.han[h].name, page)
      BY <2>2, <1>0
    <3>4. CASE Avail(c.bm) # 0
      <4>1. r = c
        BY <3>4 DEF Require
      <4> HIDE DEF page, e
      <4>2. e = Chunk(c, c.han[h].spage, page, 0)
        BY <3>2, <4>1
      <4>3. /\ e \in Calls /\ Fine(e) /\ e.info # NoInfo /\ (e.ok => Unread(e))
            /\ c.han[h].name \notin Dirs => \A p \in DirPages(c.dev) : Alike(c.dev, e.dev, p)
            /\ e.ok => e.dev[q] = [page EXCEPT !.next = 0]
        <5>1. e \in Calls /\ Fine(e)
          BY <3>3, <4>2, OneOldFine
        <5>4. e.info # NoInfo
          <6> DEFINE p == c.han[h].spage
          <6>1. p \in Pages /\ 0 \in Places /\ c.info # NoInfo /\ e = Chunk(c, p, page, 0)
            BY <4>2, OldStart, Constants DEF Old
          <6> HIDE DEF p
          <6>2. Keeps(c, e)
            BY <3>3, <6>1, ChunkLays DEF Lays
          <6> QED
            BY <6>1, <6>2 DEF Keeps
        <5>5. e.ok => Unread(e)
          BY <3>3, <4>2, OneOldFine
        <5>2. c.han[h].name \notin Dirs => \A p \in DirPages(c.dev) : Alike(c.dev, e.dev, p)
          BY <3>3, <4>2, OneOldFine
        <5>3. e.ok => e.dev[q] = [page EXCEPT !.next = 0]
          BY <3>3, <4>2, OneOldFine
        <5> QED
          BY <5>1, <5>2, <5>3, <5>4, <5>5
      <4> HIDE DEF q
      <4> QED
        BY <4>3 DEF pg
    <3>5. CASE Avail(c.bm) = 0
      <4>1. r = Fail(c)
        BY <3>5 DEF Require
      <4>2. ~e.ok /\ e.dev = c.dev /\ e.hung = c.hung
        BY <3>2, <4>1 DEF Chunk, Write_Page, Mark, Fail, Calls
      <4>3. e \in Calls
        BY <3>1, ExtWriteStuck DEF Filled
      <4> QED
        BY <4>2, <4>3 DEF Fine, Old, Alike
    <3> QED
      BY <3>4, <3>5
  <2> QED
    BY <2>1, <2>2
<1> HIDE DEF e, single, page, pg
<1>2. Fine(Recorded(e, h)) /\ (e.ok => \A r : Alike(e.dev, Recorded(e, h).dev, r))
      /\ (Recorded(e, h).ok => e.ok)
  <2> DEFINE u == 0
             f == Recorded(e, h)
  <2> HIDE DEF u
  <2>1. /\ Fine(f) /\ Grows(e.dev, f.dev)
        /\ e.info # NoInfo => \A r : Alike(e.dev, f.dev, r)
        /\ f.ok => e.ok
    BY <1>1, RecordedFine
  <2> HIDE DEF f
  <2>2. Fine(f) /\ (e.ok => \A r : Alike(e.dev, f.dev, r)) /\ (f.ok => e.ok)
    BY <1>1, <2>1
  <2> QED
    BY <2>2 DEF f
<1>3. ASSUME c.han[h].name \notin Dirs PROVE Grows(c.dev, Recorded(e, h).dev)
  <2>1. CASE e.ok
    <3>1. ASSUME NEW r \in DirPages(c.dev) PROVE Alike(c.dev, Recorded(e, h).dev, r)
      <4>1. Alike(c.dev, e.dev, r) /\ Alike(e.dev, Recorded(e, h).dev, r)
        BY <1>1, <1>2, <1>3, <2>1
      <4> QED
        BY <4>1 DEF Alike
    <3> QED
      BY <3>1, GrowsAlike
  <2>2. CASE ~e.ok
    <3>1. Recorded(e, h) = e
      BY <2>2 DEF Recorded
    <3> QED
      BY <1>1, <1>3, <3>1, GrowsAlike
  <2> QED
    BY <2>1, <2>2
<1>4. ASSUME c.han[h].name \notin Dirs, single, Recorded(e, h).ok
      PROVE  Stored(Recorded(e, h).dev, c.han[h].name, chunks)
  <2> DEFINE f == Recorded(e, h)
  <2>1. f.dev \in Devs /\ e.dev \in Devs
    <3>1. f \in Calls
      BY DEF e
    <3> QED
      BY <1>1, <3>1, CallFields
  <2>2. /\ Sound(f.dev) /\ Grows(c.dev, f.dev) /\ Alike(e.dev, f.dev, q)
        /\ e.dev[q] = pg
    BY <1>1, <1>2, <1>3, <1>4 DEF Fine
  <2> HIDE DEF f
  <2>3. q \in Pages /\ q \in Places
    BY OldStart, Constants
  <2>4. At(e.dev, q).next = 0 /\ At(e.dev, q).data = page.data
    <3>1. pg.next = 0 /\ pg.data = page.data
      BY <1>0, <1>4, PageFields DEF pg
    <3> QED
      BY <2>1, <2>2, <2>3, <3>1, AtType
  <2>5. Shows(f.dev, q, chunks)
    <3> HIDE DEF q
    <3> QED
      BY <1>4, <2>1, <2>2, <2>3, <2>4, OneShows DEF Alike, single, page
  <2>6. Stored(f.dev, c.han[h].name, chunks)
    BY <1>4, <2>1, <2>2, <2>5, OldStores
  <2> QED
    BY <2>6 DEF f
<1> QED
  BY <1>2, <1>3, <1>4 DEF e, single

\* The directory that is to be written is a new one.
Plain(c, h) == c.han[h].name \in Dirs => \A y \in Dir(c.dev, 0) : y.e.name # c.han[h].name

\* What was written to a file of the root is there.
Reading(c, h, u, chunks, e) ==
  u = 0 /\ Len(chunks) >= 1 /\ c.han[h].name \notin Dirs /\ e.ok => Stored(e.dev, c.han[h].name, chunks)

LEMMA WriteFileFine ==
  ASSUME NEW c \in Calls, NEW h \in Handles \cup {0}, NEW u,
         NEW chunks \in Seq(PageType), Writing(c, h, u, chunks)
  PROVE  /\ Fine(owWriteFile(c, h, chunks)) /\ owWriteFile(c, h, chunks) \in Calls
         /\ Plain(c, h) => Grows(c.dev, owWriteFile(c, h, chunks).dev)
         /\ Reading(c, h, u, chunks, owWriteFile(c, h, chunks))
<1> DEFINE n == Len(chunks)
           d == c.dev
           p == Placed(Prepared(c, h, n), h)
           e == Filled(p, h, chunks)
           r == Recorded(e, h)
<1>1. n \in Nat
  OBVIOUS
<1>2. owWriteFile(c, h, chunks) \in Calls
  <2> DEFINE S == WriteSet(c, h)
  <2>1. WriteSet(c, h) \subseteq S
    OBVIOUS
  <2> HIDE DEF S
  <2>2. Goes(c, owWriteFile(c, h, chunks), S)
    BY <2>1, WriteFileGoes
  <2> QED
    BY <2>2 DEF Goes
<1> HIDE DEF n
<1>3. Fine(c) /\ u = CdPage(c.cd) /\ u \in DirsOf(d) /\ (c.ok => Storable(c, h, u, chunks))
  BY DEF Writing
<1>4. /\ Quiet(c, p) /\ p \in Calls
      /\ p.ok => /\ c.han[h].name # NoName /\ Sighted(c, p, u, h, n)
                 /\ p.info = NoInfo => p.han[h].spage = Avail(p.bm)
  BY <1>3, PlacedFine
<1>5. owWriteFile(c, h, chunks) = LetGo(r, h, n)
  BY DEF owWriteFile, n
<1> HIDE DEF p
<1>6. Fine(p) /\ p.dev = d /\ p.left = c.left /\ p.han[h].spage \in Places
  BY <1>3, <1>4, CallFields, HanFields DEF Fine, Quiet
<1>10. r \in Calls
  <2> DEFINE S == Places
  <2>1. p.han[h].spage \in S /\ FreeIn(p, S)
    BY <1>6, Constants DEF FreeIn
  <2> HIDE DEF S
  <2>2. Writes(p, e, S)
    BY <1>4, <1>6, <2>1, ExtWriteWrites DEF Filled
  <2>3. e \in Calls /\ (e.ok => p.ok) /\ e.han = p.han
    BY <2>2 DEF Writes, Goes, Keeps
  <2> HIDE DEF e
  <2>4. e.ok => Ready(e, h, S)
    <3>1. 0 \in S /\ e.spot \in S /\ e.han[h].spage \in S /\ Pages \ e.bm \subseteq S
          /\ e.info.dpage \in S
      BY <2>3, CallFields, HanFields, Constants DEF Infos, S
    <3>2. e.ok => e.han[h].name # NoName
      BY <1>4, <2>3 DEF Sighted, Finds
    <3> QED
      BY <3>1, <3>2 DEF Ready
  <2>5. Goes(e, r, S)
    BY <2>3, <2>4, RecordedGoes
  <2> QED
    BY <2>5 DEF Goes
<1>7. ASSUME ~p.ok PROVE Fine(r) /\ Grows(d, r.dev) /\ ~r.ok
  <2>1. e \in Calls /\ e.hung = p.hung /\ ~e.ok /\ e.dev = p.dev
    BY <1>4, <1>6, <1>7, ExtWriteStuck DEF Filled
  <2> HIDE DEF e
  <2>2. r = e
    BY <2>1 DEF Recorded
  <2> QED
    BY <2>1, <2>2, <1>6, GrowsSame DEF Fine
<1>8. ASSUME p.ok
      PROVE  Fine(r) /\ (Plain(c, h) => Grows(d, r.dev)) /\ Reading(c, h, u, chunks, r)
  <2>1. /\ p.bm = d[0].bm /\ FoundSpot(p, p, Walk(d, u)) /\ Finds(c, p, h)
        /\ n <= Room(p, Full(p.dbuf)) /\ p.han[h].name = c.han[h].name
    BY <1>4, <1>6, <1>8 DEF Sighted, FoundSpot, Finds
  <2>0. Storable(c, h, u, chunks) /\ Supplied(d, u)
    BY <1>3, <1>4, <1>8 DEF Quiet, Storable
  <2>2. /\ n = 0 => p.han[h].name \notin Dirs /\ ~Readable(p.dev[Avail(p.dev[0].bm)])
        /\ n = 1 => Stands(p.han[h].name, chunks[1])
    BY <2>0, <2>1, <1>6 DEF Storable, n
  <2>3. n = 0 \/ n = 1 \/ n >= 2
    BY <1>1 DEF n
  <2>4. CASE p.info = NoInfo
    <3>1. \A y \in Dir(d, u) : y.e.name # p.han[h].name
      <4>1. u = 0 => \A y \in Dir(d, u) : y.e.name # c.han[h].name
        BY <2>1, <2>4 DEF Finds
      <4> QED
        BY <2>0, <2>1, <4>1 DEF Storable
    <3>2. Novel(p, u, h)
      BY <1>3, <1>4, <1>6, <1>8, <2>0, <2>1, <2>4, <3>1 DEF Novel
    <3>3. ~(n >= 2)
      <4>1. SUFFICES ASSUME n >= 2 PROVE FALSE
        OBVIOUS
      <4>2. LastNamed(Root(d), c.han[h].name) = NoInfo
        BY <2>1, <2>4 DEF Finds
      <4> QED
        BY <2>0, <4>1, <4>2 DEF Storable, n, NoInfo
    <3> QED
      <4>1. /\ Fine(r) /\ Grows(p.dev, r.dev)
            /\ n = 1 /\ u = 0 /\ r.ok => Stored(r.dev, p.han[h].name, chunks)
        BY <1>4, <1>6, <1>10, <2>2, <2>3, <3>2, <3>3, NovelFine DEF n
      <4>2. n >= 1 => n = 1
        BY <1>1, <2>3, <3>3
      <4> HIDE DEF r
      <4> QED
        BY <1>6, <2>1, <4>1, <4>2 DEF Reading, n
  <2>5. CASE p.info # NoInfo
    <3>1. Old(p, h)
      BY <1>6, <1>8, <2>1, <2>5 DEF Old, Finds
    <3>2. CASE n = 0 \/ n = 1
      <4>1. /\ Fine(r) /\ (p.han[h].name \notin Dirs => Grows(p.dev, r.dev))
            /\ p.han[h].name \notin Dirs /\ n = 1 /\ r.ok => Stored(r.dev, p.han[h].name, chunks)
        BY <1>4, <1>10, <2>2, <3>1, <3>2, OldFine DEF n
      <4>2. p.han[h].name \in Dirs => ~Plain(c, h)
        BY <1>6, <2>1, <3>1 DEF Old, Plain
      <4>3. n >= 1 => n = 1
        BY <1>1, <3>2
      <4> HIDE DEF r
      <4> QED
        BY <1>6, <2>1, <4>1, <4>2, <4>3 DEF Reading, n
    <3>3. CASE n >= 2
      <4>1. /\ u = 0 /\ c.han[h].name \notin Dirs /\ c.left > n
            /\ \A k \in 1 .. n : Readable(chunks[k])
            /\ LastNamed(Root(d), c.han[h].name).dpage # 0 /\ Full(d[0])
        BY <2>0, <3>3 DEF Storable, n
      <4>2. p.info.dpage # 0 /\ p.info.dpage \in ToSet(Walk(d, u))
        BY <1>4, <1>6, <2>1, <3>1, <4>1, OldStart DEF Finds
      <4>3. p.spot # 0
        BY <1>4, <1>6, <2>1, <4>1, <4>2, LaterSpot
      <4>4. Cardinality(Pages \ p.bm) >= n - 1
        <5>1. Cardinality(Pages \ p.bm) \in Nat
          BY <1>4, CallFields, FreeCount
        <5> DEFINE card == Cardinality(Pages \ p.bm)
                   more == IF card + 1 > MaxP THEN 0 ELSE 1
                   less == IF Full(p.dbuf) THEN 1 ELSE 0
        <5>2. more \in {0, 1} /\ less \in {0, 1} /\ card \in Nat /\ n \in Nat
          BY <1>1, <5>1 DEF n
        <5>3. n <= card + more - less
          <6> DEFINE full == Full(p.dbuf)
          <6>1. n <= Room(p, full)
            BY <2>1
          <6> HIDE DEF full
          <6>2. GetMaxWrite(p.bm) = card + more
            BY DEF GetMaxWrite
          <6>3. Room(p, full) = GetMaxWrite(p.bm) - less
            BY DEF Room, full
          <6> HIDE DEF card, more, less
          <6> QED
            BY <5>2, <6>1, <6>2, <6>3
        <5> HIDE DEF card, more, less
        <5> QED
          BY <5>2, <5>3 DEF card
      <4>5. n >= 2
        BY <3>3
      <4>6. Fine(r) /\ Grows(p.dev, r.dev) /\ Stored(r.dev, p.han[h].name, chunks)
        BY <1>4, <1>6, <1>10, <2>1, <3>1, <4>1, <4>2, <4>3, <4>4, <4>5, ManyFine DEF n
      <4> HIDE DEF r
      <4> QED
        BY <1>6, <2>1, <4>6 DEF Reading
    <3> QED
      BY <2>3, <3>2, <3>3
  <2> QED
    BY <2>4, <2>5
<1>9. Fine(r) /\ (Plain(c, h) => Grows(d, r.dev)) /\ Reading(c, h, u, chunks, r)
  BY <1>7, <1>8 DEF Reading
<1> HIDE DEF r
<1>11. Fine(LetGo(r, h, n)) /\ LetGo(r, h, n).dev = r.dev /\ LetGo(r, h, n).ok = r.ok
  BY <1>9, <1>10, ReleasedFine DEF LetGo, Fine
<1> QED
  BY <1>2, <1>5, <1>9, <1>11 DEF Reading

----------------------------------------------------------------------------
(* owCreateFile, owCreateDir *)

LEMMA CreateFileFine ==
  ASSUME NEW c \in Calls, Fine(c), NEW h \in Handles, NEW name \in Files,
         NEW u, u = CdPage(c.cd), u \in DirsOf(c.dev), ~c.blind,
         Supplied(c.dev, u), ~Readable(c.dev[Avail(c.dev[0].bm)])
  PROVE  Fine(owCreateFile(c, h, name)) /\ Grows(c.dev, owCreateFile(c, h, name).dev)
<1> DEFINE open == [c.han[h] EXCEPT !.name = name, !.spage = 0, !.attr = FALSE]
           han == [c.han EXCEPT ![h] = open]
           d == [c EXCEPT !.han = han]
           f == FindDirectoryInfo(d, u, name)
           b == ReadBitMap(f)
           new == f.info = NoInfo
           r == Require(b, new)
           e == <<>>
           w == owWriteFile(r, h, e)
           o == ReleasedIf(w, h, ~w.ok)
<1>1. c.han \in Hans /\ h \in DOMAIN c.han
  BY CallFields DEF Hans
<1>2. open \in Open(Names) /\ open \in Open(Files) /\ open.name = name
  <2>1. c.han[h] \in Open(Files) /\ name \in Names
    BY <1>1, HanFields, Constants
  <2> QED
    BY <2>1, Constants DEF Open
<1>3. owCreateFile(c, h, name) = o
  <2>1. d = [c EXCEPT !.han[h] = [@ EXCEPT !.name = name, !.spage = 0, !.attr = FALSE]]
    OBVIOUS
  <2>2. b.info = f.info
    BY DEF ReadBitMap, Fail
  <2> QED
    BY <2>1, <2>2 DEF owCreateFile, Create, OrRelease
<1> HIDE DEF open
<1>4. han \in Hans /\ han[h] = open
  <2>1. han \in Hans
    BY <1>1, <1>2, HansWith
  <2> QED
    BY <1>1, <2>1
<1> HIDE DEF han
<1>5. /\ d \in Calls /\ d.dev = c.dev /\ d.cd = c.cd /\ d.han = han /\ d.hung = c.hung
      /\ d.ok = c.ok /\ d.blind = c.blind
  BY <1>4 DEF Calls
<1> HIDE DEF d
<1>6. Fine(d)
  BY <1>5 DEF Fine
<1>7. /\ f \in Calls /\ f.dev = d.dev /\ ~f.hung /\ (f.ok <=> d.ok) /\ Looks(d, f)
      /\ d.ok /\ ~d.blind /\ f.info = NoInfo => \A y \in Dir(d.dev, u) : y.e.name # name
  BY <1>5, <1>6, FindFine
<1> HIDE DEF f
<1>8. /\ r \in Calls /\ r.dev = c.dev /\ r.cd = c.cd /\ r.han = han /\ ~r.hung
      /\ r.ok => f.ok /\ f.info = NoInfo
  <2>1. /\ b \in Calls /\ b.dev = f.dev /\ b.cd = f.cd /\ b.han = f.han /\ b.hung = f.hung
        /\ b.ok => f.ok
    <3> DEFINE S == {}
    <3>1. Goes(f, b, S) /\ Keeps(f, b) /\ b.dev = f.dev /\ b.cd = f.cd
      BY <1>7, ReadBitMapGoes
    <3>2. b.hung = f.hung
      BY <1>7 DEF ReadBitMap, Fail, Calls
    <3> QED
      BY <3>1, <3>2 DEF Goes, Keeps
  <2> HIDE DEF b
  <2>2. /\ r \in Calls /\ r.dev = b.dev /\ r.cd = b.cd /\ r.han = b.han /\ r.hung = b.hung
        /\ r.ok => b.ok /\ new
    BY <2>1 DEF Require, Fail, Calls
  <2> QED
    BY <1>5, <1>7, <2>1, <2>2 DEF Looks
<1> HIDE DEF r
<1>9. r.han[h].name = name /\ name \notin Dirs
  BY <1>2, <1>4, <1>8, FileAssumption
<1>10. r.ok => Storable(r, h, u, e)
  <2>1. Len(e) = 0
    OBVIOUS
  <2> HIDE DEF e
  <2> QED
    BY <1>5, <1>7, <1>8, <1>9, <2>1 DEF Storable
<1>11. Writing(r, h, u, e)
  BY <1>8, <1>10 DEF Writing, Fine
<1>12. e \in Seq(PageType)
  OBVIOUS
<1> HIDE DEF e
<1>13. Fine(w) /\ w \in Calls /\ Grows(c.dev, w.dev)
  BY <1>8, <1>9, <1>11, <1>12, WriteFileFine DEF Plain
<1> HIDE DEF w
<1>14. Fine(o) /\ o.dev = w.dev
  BY <1>13, ReleasedFine DEF Fine
<1> QED
  BY <1>3, <1>13, <1>14

\* The flag and the current directory are no part of the part.
LEMMA FlagFine ==
  ASSUME NEW c \in Calls
  PROVE  /\ Flagged(c).dev = c.dev /\ Flagged(c).hung = c.hung
         /\ Unflagged(c).dev = c.dev /\ Unflagged(c).hung = c.hung /\ Unflagged(c).ok = c.ok
         /\ ToRoot(c).dev = c.dev /\ ToRoot(c).hung = c.hung
         /\ Fail(c).dev = c.dev /\ Fail(c).hung = c.hung
  BY DEF Flagged, Unflagged, ToRoot, Fail, Calls

LEMMA CreateDirFine ==
  ASSUME NEW c \in Calls, Fine(c), NEW name \in Dirs,
         NEW u, u = CdPage(c.cd), u \in DirsOf(c.dev), ~c.blind, Supplied(c.dev, u)
  PROVE  Fine(owCreateDir(c, name)) /\ (u = 0 => Grows(c.dev, owCreateDir(c, name).dev))
<1> DEFINE z == 0
           open == [c.han[z] EXCEPT !.name = name]
           han == [c.han EXCEPT ![z] = open]
           d == [c EXCEPT !.han = han]
           fits == Len(d.cd) # MaxDepth
           r == Require(d, fits)
           f == FindDirectoryInfo(r, u, name)
           g == Flagged(f)
           chunks == <<DirPage>>
           w == owWriteFile(g, z, chunks)
           t == ToRoot(Unflagged(w))
           o == IF ~f.ok \/ f.info # NoInfo THEN Fail(f) ELSE t
<1>1. c.han \in Hans /\ z \in DOMAIN c.han /\ z \in Handles \cup {0} /\ z \notin Handles
  BY CallFields, Constants DEF Hans
<1>2. open \in Open(Names) /\ open.name = name
  <2>1. c.han[z] \in Open(Names) /\ name \in Names
    BY <1>1, HanFields, Constants
  <2> QED
    BY <2>1 DEF Open
<1>3. owCreateDir(c, name) = o
  <2>1. r.cd = c.cd
    BY DEF Require, Fail
  <2>2. owCreateDir(c, name) = MakeDir(f)
    BY DEF owCreateDir, Named
  <2> HIDE DEF f
  <2> QED
    BY <2>2 DEF MakeDir
<1> HIDE DEF open, z
<1>4. han \in Hans /\ han[z] = open
  <2>1. han \in Hans
    BY <1>1, <1>2, HansWith
  <2> QED
    BY <1>1, <2>1
<1> HIDE DEF han
<1>5. /\ d \in Calls /\ d.dev = c.dev /\ d.cd = c.cd /\ d.han = han /\ d.hung = c.hung
      /\ d.blind = c.blind
  BY <1>4 DEF Calls
<1> HIDE DEF d, fits
<1>6. /\ r \in Calls /\ r.dev = c.dev /\ r.cd = c.cd /\ r.han = han /\ r.hung = c.hung
      /\ r.blind = c.blind
  BY <1>5 DEF Require, Fail, Calls
<1> HIDE DEF r
<1>7. Fine(r)
  BY <1>6 DEF Fine
<1>8. /\ f \in Calls /\ f.dev = r.dev /\ ~f.hung /\ (f.ok <=> r.ok) /\ Looks(r, f)
      /\ r.ok /\ ~r.blind /\ f.info = NoInfo => \A y \in Dir(r.dev, u) : y.e.name # name
  BY <1>6, <1>7, FindFine
<1> HIDE DEF f
<1>9. Fine(f)
  BY <1>6, <1>8 DEF Fine
<1>10. ASSUME f.ok, f.info = NoInfo PROVE Fine(t) /\ (u = 0 => Grows(c.dev, t.dev))
  <2>1. g \in Calls /\ g.dev = c.dev /\ g.hung = f.hung /\ g.han = f.han /\ g.cd = f.cd
    BY <1>6, <1>8 DEF Flagged, Calls
  <2> HIDE DEF g
  <2>2. g.han[z].name = name /\ g.cd = c.cd
    BY <1>2, <1>4, <1>6, <1>8, <2>1 DEF Looks
  <2>3. chunks \in Seq(PageType) /\ Len(chunks) = 1 /\ chunks[1] = DirPage
    BY PageSame
  <2>4. Stands(name, DirPage)
    BY DEF Stands, DirPage, Readable, IsDir, Blank
  <2> HIDE DEF chunks
  <2>5. Storable(g, z, u, chunks)
    BY <1>6, <1>8, <1>10, <2>1, <2>2, <2>3, <2>4 DEF Storable
  <2>6. Writing(g, z, u, chunks)
    BY <1>8, <2>1, <2>2, <2>5 DEF Writing, Fine
  <2>7. u = 0 => Plain(g, z)
    BY <1>6, <1>8, <1>10, <2>1, <2>2 DEF Plain
  <2>8. Fine(w) /\ w \in Calls /\ (u = 0 => Grows(c.dev, w.dev))
    BY <1>1, <2>1, <2>3, <2>6, <2>7, WriteFileFine
  <2> HIDE DEF w
  <2>9. Unflagged(w) \in Calls
    BY <2>8, FlaggedGoes
  <2> QED
    BY <2>8, <2>9, FlagFine DEF Fine
<1> HIDE DEF t
<1>11. Fine(Fail(f)) /\ Grows(c.dev, Fail(f).dev)
  BY <1>6, <1>8, <1>9, FlagFine, GrowsSame DEF Fine
<1>12. Fine(o) /\ (u = 0 => Grows(c.dev, o.dev))
  BY <1>10, <1>11
<1> QED
  BY <1>3, <1>12

----------------------------------------------------------------------------
(* The part stays sound *)

\* A call that may be trusted begins with a sound part, and with contact if it
\* does not say otherwise.
LEMMA AttemptFine ==
  ASSUME TypeOK, SoundKept, NEW c \in Attempts
  PROVE  /\ Begins(c) /\ c \in Calls /\ c.ok /\ ~c.hung /\ c.dev = dev /\ c.cd = CD
         /\ dev \in Devs /\ CdPage(CD) \in Places
         /\ trusted => Fine(c) /\ Sound(dev)
         /\ ~c.lost => c.left = MaxWrites
<1>1. Begins(c) /\ c \in Calls
  BY AttemptBegins
<1>2. c.ok /\ c.dev = dev /\ c.cd = CD
  BY <1>1 DEF Begins
<1>4. ~c.hung /\ (~c.lost => c.left = MaxWrites)
  <2>1. c = Untouched \/ c \in Lost \/ c = Blind
    BY DEF Attempts
  <2>2. CASE c = Untouched
    BY <2>2 DEF Untouched, Call
  <2>3. CASE c = Blind
    BY <2>3 DEF Blind, Call
  <2>4. CASE c \in Lost
    <3>1. PICK cut \in (0 .. MaxWrites - 1) \X BOOLEAN : c = Call(cut[1], cut[2], TRUE, FALSE)
      BY <2>4 DEF Lost
    <3> QED
      BY <3>1 DEF Call
  <2> QED
    BY <2>1, <2>2, <2>3, <2>4
<1>5. CdPage(CD) \in Places
  BY <1>1, <1>2, CdPageType
<1>6. dev \in Devs
  BY <1>1, <1>2, CallFields
<1> QED
  BY <1>1, <1>2, <1>4, <1>5, <1>6 DEF SoundKept, Fine

\* The names a call is about, and the calls that are about no other.
Mine(op, name, h) == {name} \cup (IF op = "rename" THEN {Han[h].name} ELSE {})
Calm(op, name) ==
  op # "format" /\ ~(op = "delete" /\ name \in Dirs) /\ ~(op = "mkdir" /\ CD # <<>>)

\* The directories keep what the call is not about.
Undisturbed ==
  trusted /\ trusted' /\ Calm(last'.op, last'.name) =>
    Moved(dev, dev', Mine(last'.op, last'.name, last'.hnd))

\* It is enough to look at calls that may be trusted.
LEMMA AfterKept ==
  ASSUME NEW e, NEW op, op # "format", NEW pg, NEW name, NEW size, NEW h,
         After(e, pg, op, name, size, h),
         trusted /\ ~Misuse(e, pg, op, name, size, h) =>
           Fine(e) /\ (Calm(op, name) => Moved(dev, e.dev, Mine(op, name, h)))
  PROVE  SoundKept' /\ Undisturbed
<1>1. trusted' = (trusted /\ ~Misuse(e, pg, op, name, size, h)) /\ dev' = e.dev /\ hung' = e.hung
  BY DEF After, Outcome
<1>2. last'.op = op /\ last'.name = name /\ last'.hnd = h
  BY DEF After, Outcome
<1> HIDE DEF Misuse
<1> QED
  BY <1>1, <1>2 DEF SoundKept, Fine, Undisturbed

LEMMA CreateKept == TypeOK /\ SoundKept /\ owCreate => SoundKept' /\ Undisturbed
<1> SUFFICES ASSUME TypeOK, SoundKept, owCreate PROVE SoundKept' /\ Undisturbed
  OBVIOUS
<1> DEFINE h == Min(FreeHandles(Han))
           u == CdPage(CD)
<1>1. PICK c \in Attempts, name \in Files :
        /\ FreeHandles(Han) # {}
        /\ After(owCreateFile(c, h, name), u, "create", name, 0, h)
  BY DEF owCreate
<1> DEFINE e == owCreateFile(c, h, name)
           S == Pages
<1>2. h \in Handles
  BY <1>1, FreeHandle
<1>3. /\ c \in Calls /\ c.dev = dev /\ c.cd = CD /\ u \in Places /\ dev \in Devs
      /\ trusted => Fine(c)
  BY AttemptFine
<1> HIDE DEF h
<1>4. e.blind = c.blind
  <2> DEFINE T == Writable(c.dev, c.cd, name)
  <2>1. Writable(c.dev, c.cd, name) \subseteq T
    OBVIOUS
  <2> HIDE DEF T
  <2>2. Goes(c, e, T)
    BY <1>2, <1>3, <2>1, CreateFileGoes
  <2> HIDE DEF e
  <2> QED
    BY <2>2 DEF Goes
<1> HIDE DEF e
<1>5. ASSUME trusted, ~Misuse(e, u, "create", name, 0, h)
      PROVE  Fine(e) /\ Grows(dev, e.dev)
  <2>1. ~c.blind /\ u \in DirsOf(dev) /\ ~OutOfPages("create") /\ ~StalePage("create")
    BY <1>4, <1>5 DEF Misuse, NoDirectory
  <2>2. Supplied(dev, u) /\ ~Readable(dev[Avail(dev[0].bm)])
    BY <2>1 DEF OutOfPages, StalePage, FreePages, Supplied
  <2> QED
    BY <1>2, <1>3, <1>5, <2>1, <2>2, CreateFileFine DEF e
<1>6. trusted /\ ~Misuse(e, u, "create", name, 0, h) =>
        Fine(e) /\ (Calm("create", name) => Moved(dev, e.dev, Mine("create", name, h)))
  BY <1>5 DEF Grows
<1> QED
  BY <1>1, <1>6, AfterKept DEF e

LEMMA MakeDirKept == TypeOK /\ SoundKept /\ owMakeDir => SoundKept' /\ Undisturbed
<1> SUFFICES ASSUME TypeOK, SoundKept, owMakeDir PROVE SoundKept' /\ Undisturbed
  OBVIOUS
<1> DEFINE u == CdPage(CD)
           z == 0
<1>1. PICK c \in Attempts, name \in Dirs :
        After(owCreateDir(c, name), u, "mkdir", name, z, z)
  BY DEF owMakeDir
<1> DEFINE e == owCreateDir(c, name)
<1>2. /\ c \in Calls /\ c.dev = dev /\ c.cd = CD /\ u \in Places /\ dev \in Devs
      /\ trusted => Fine(c)
  BY AttemptFine
<1> HIDE DEF z
<1>3. e.blind = c.blind
  <2> DEFINE T == Writable(c.dev, c.cd, name)
  <2>1. Writable(c.dev, c.cd, name) \subseteq T
    OBVIOUS
  <2> HIDE DEF T
  <2> QED
    BY <1>2, <2>1, CreateDirGoes DEF Goes
<1> HIDE DEF e
<1>4. ASSUME trusted, ~Misuse(e, u, "mkdir", name, z, z)
      PROVE  Fine(e) /\ (CD = <<>> => Grows(dev, e.dev))
  <2>1. ~c.blind /\ u \in DirsOf(dev) /\ ~OutOfPages("mkdir")
    BY <1>3, <1>4 DEF Misuse, NoDirectory
  <2>2. Supplied(dev, u)
    BY <2>1 DEF OutOfPages, FreePages, Supplied
  <2>3. CD = <<>> => u = 0
    BY DEF CdPage
  <2>4. Fine(e) /\ (u = 0 => Grows(dev, e.dev))
    BY <1>2, <1>4, <2>1, <2>2, CreateDirFine DEF e
  <2> QED
    BY <2>3, <2>4
<1>5. trusted /\ ~Misuse(e, u, "mkdir", name, z, z) =>
        Fine(e) /\ (Calm("mkdir", name) => Moved(dev, e.dev, Mine("mkdir", name, z)))
  BY <1>4 DEF Grows, Calm
<1> QED
  BY <1>1, <1>5, AfterKept DEF e

\* What is written to a file.
LEMMA DataIs ==
  ASSUME NEW f \in Files, NEW n \in Sizes
  PROVE  /\ Len(Data(f, n)) = n
         /\ \A k \in 1 .. n : Readable(Data(f, n)[k]) /\ Stands(f, Data(f, n)[k])
<1>1. n \in Nat
  BY SizesType
<1>2. f \notin Dirs
  BY FileAssumption
<1>3. \A k \in 1 .. n : Data(f, n)[k].head = "none"
  BY <1>1 DEF Data, Blank
<1>4. Len(Data(f, n)) = n
  BY <1>1 DEF Data
<1> HIDE DEF Data
<1> QED
  BY <1>2, <1>3, <1>4 DEF Readable, Stands

\* A write that may be trusted leaves the part sound, and when it succeeds what
\* it wrote is in the file.
LEMMA WriteFits ==
  ASSUME TypeOK, SoundKept, trusted, NEW c \in Attempts, NEW h \in Handles, NEW n \in Sizes,
         NEW name, name = Han[h].name, name # NoName, NEW chunks, chunks = Data(name, n),
         NEW e, e = owWriteFile(c, h, chunks), ~Misuse(e, CdPage(CD), "write", name, n, h)
  PROVE  Fine(e) /\ Grows(dev, e.dev) /\ (e.ok => Stored(e.dev, name, chunks))
<1> DEFINE u == CdPage(CD)
<1>2. name \in Files /\ name \notin Dirs
  BY FileAssumption DEF TypeOK
<1>3. /\ c \in Calls /\ c.dev = dev /\ c.cd = CD /\ u \in Places /\ dev \in Devs
      /\ Fine(c) /\ (~c.lost => c.left = MaxWrites) /\ Begins(c)
  BY AttemptFine
<1>4. c.han[h].name = name
  BY <1>3 DEF Begins
<1>5. /\ chunks \in Seq(PageType) /\ Len(chunks) = n
      /\ \A k \in 1 .. n : Readable(chunks[k]) /\ Stands(name, chunks[k])
  BY <1>2, DataType, DataIs
<1>6. e.blind = c.blind /\ e.lost = c.lost
  <2> DEFINE T == WriteSet(c, h)
  <2>1. WriteSet(c, h) \subseteq T
    OBVIOUS
  <2> HIDE DEF T
  <2>2. h \in Handles \cup {0}
    OBVIOUS
  <2>3. Goes(c, e, T)
    BY <1>3, <1>5, <2>1, <2>2, WriteFileGoes
  <2> QED
    BY <2>3 DEF Goes
<1>7. n \in Nat /\ n # 0 /\ n < MaxWrites
  BY SizesType DEF MaxWrites
<1>8. /\ u \in DirsOf(dev) /\ ~OutOfPages("write") /\ ~WriteBelow("write")
      /\ ~LongWrite(e, "write", name, n)
  BY DEF Misuse, NoDirectory
<1>9. Supplied(dev, u) /\ u = 0
  BY <1>8 DEF OutOfPages, FreePages, Supplied, WriteBelow, CdPage
<1>10. n >= 2 => ~c.lost /\ LastNamed(Root(dev), name).dpage # 0 /\ Full(dev[0])
  BY <1>6, <1>7, <1>8 DEF LongWrite
<1>11. n >= 2 => c.left > n
  BY <1>3, <1>7, <1>10
<1>12. n = 1 => Stands(name, chunks[1])
  BY <1>5
<1>13. Storable(c, h, u, chunks)
  BY <1>2, <1>3, <1>4, <1>5, <1>7, <1>9, <1>10, <1>11, <1>12 DEF Storable
<1>14. Writing(c, h, u, chunks)
  BY <1>3, <1>8, <1>13 DEF Writing
<1>15. Plain(c, h) /\ Len(chunks) >= 1
  BY <1>2, <1>4, <1>5, <1>7 DEF Plain
<1>16. h \in Handles \cup {0}
  OBVIOUS
<1>17. Fine(e) /\ Grows(dev, e.dev) /\ Reading(c, h, u, chunks, e)
  BY <1>3, <1>5, <1>14, <1>15, <1>16, WriteFileFine
<1> QED
  BY <1>2, <1>4, <1>9, <1>15, <1>17 DEF Reading

LEMMA WriteKept == TypeOK /\ SoundKept /\ owWrite => SoundKept' /\ Undisturbed
<1> SUFFICES ASSUME TypeOK, SoundKept, owWrite PROVE SoundKept' /\ Undisturbed
  OBVIOUS
<1> DEFINE u == CdPage(CD)
<1>1. PICK c \in Attempts, h \in Handles, n \in Sizes :
        /\ Han[h].name # NoName
        /\ After(owWriteFile(c, h, Data(Han[h].name, n)), u, "write", Han[h].name, n, h)
  BY DEF owWrite
<1> DEFINE name == Han[h].name
           chunks == Data(name, n)
           e == owWriteFile(c, h, chunks)
<1> HIDE DEF chunks, e
<1>2. trusted /\ ~Misuse(e, u, "write", name, n, h) => Fine(e) /\ Grows(dev, e.dev)
  BY <1>1, WriteFits DEF chunks, e
<1>3. After(e, u, "write", name, n, h)
  BY <1>1 DEF e, chunks
<1>4. trusted /\ ~Misuse(e, u, "write", name, n, h) =>
        Fine(e) /\ (Calm("write", name) => Moved(dev, e.dev, Mine("write", name, h)))
  BY <1>2 DEF Grows
<1> QED
  BY <1>3, <1>4, AfterKept

\* ReadsBack, of one step.
WrittenReads ==
  trusted /\ trusted' /\ last'.op = "write" /\ last'.ok =>
    \E x \in ToSet(Root(dev')) :
      /\ x.e.name = last'.name
      /\ Contents(dev', x.e.spage) =
           [k \in 1 .. last'.size |-> <<last'.name, k, last'.size>>]

LEMMA ReadStep ==
  ASSUME TypeOK, TypeOK', SoundKept, Next
  PROVE  WrittenReads
<1> SUFFICES ASSUME trusted, trusted', last'.op = "write", last'.ok
             PROVE  \E x \in ToSet(Root(dev')) :
                      /\ x.e.name = last'.name
                      /\ Contents(dev', x.e.spage) =
                           [k \in 1 .. last'.size |-> <<last'.name, k, last'.size>>]
  BY DEF WrittenReads
<1> DEFINE u == CdPage(CD)
<1>1. owWrite
  BY CallTold
<1>2. PICK c \in Attempts, h \in Handles, n \in Sizes :
        /\ Han[h].name # NoName
        /\ After(owWriteFile(c, h, Data(Han[h].name, n)), u, "write", Han[h].name, n, h)
  BY <1>1 DEF owWrite
<1> DEFINE name == Han[h].name
           chunks == Data(name, n)
           e == owWriteFile(c, h, chunks)
<1> HIDE DEF chunks, e
<1>3. After(e, u, "write", name, n, h)
  BY <1>2 DEF e, chunks
<1>4. last'.name = name /\ last'.size = n /\ e.ok /\ dev' = e.dev
      /\ ~Misuse(e, u, "write", name, n, h)
  BY <1>3 DEF After, Outcome
<1>5. Stored(dev', name, chunks)
  BY <1>2, <1>4, WriteFits DEF chunks, e
<1>6. PICK y \in Dir(dev', 0) : y.e.name = name /\ Shows(dev', y.e.spage, chunks)
  BY <1>5 DEF Stored
<1>7. Dir(dev', 0) = ToSet(Root(dev'))
  BY DEF Dir, Root
<1>8. dev' \in Devs
  BY DEF TypeOK, Devs
<1>9. Contents(dev', y.e.spage) = [k \in 1 .. n |-> <<name, k, n>>]
  <2> DEFINE w == Walk(dev', y.e.spage)
  <2>1. Len(chunks) = n /\ n \in Nat /\ \A k \in 1 .. n : chunks[k].data = <<name, k, n>>
    <3>1. n \in Nat
      BY SizesType
    <3>2. \A k \in 1 .. n : chunks[k].data = <<name, k, n>>
      BY <3>1 DEF chunks, Data, Blank
    <3>3. Len(chunks) = n
      BY <3>1 DEF chunks, Data
    <3> QED
      BY <3>1, <3>2, <3>3
  <2>2. DOMAIN w = 1 .. n
    <3>1. w \in Seq(Places)
      <4> DEFINE d == dev'
                 s == y.e.spage
      <4>1. d \in Devs /\ s \in Places
        <5>1. 0 \in Places
          BY Constants
        <5>2. \A x \in Dir(dev', 0) : x.e.spage \in Places
          BY <1>8, <5>1, DirType
        <5> QED
          BY <1>6, <1>8, <5>2
      <4> HIDE DEF d, s
      <4>2. Walk(d, s) \in Seq(Places)
        BY <4>1, WalkType
      <4> QED
        BY <4>2 DEF d, s
    <3> QED
      BY <1>6, <2>1, <3>1 DEF Shows
  <2>3. \A k \in 1 .. n : At(dev', w[k]).data = <<name, k, n>>
    BY <1>6, <2>1 DEF Shows
  <2> HIDE DEF w
  <2>4. [k \in DOMAIN w |-> At(dev', w[k]).data] = [k \in 1 .. n |-> <<name, k, n>>]
    BY <2>2, <2>3
  <2> QED
    BY <2>4 DEF w, Contents
<1> QED
  BY <1>4, <1>6, <1>7, <1>9

----------------------------------------------------------------------------
(* What a call lets go of *)

\* Where the entry is in its page.
LEMMA SlotOf ==
  ASSUME NEW page \in PageType, NEW pos \in 1 .. Len(Items(page)), Items(page)[pos] # Header
  PROVE  /\ Slot(page, pos) \in 1 .. Len(page.slots)
         /\ page.slots[Slot(page, pos)] = Items(page)[pos]
         /\ ~(pos = 1 /\ IsDir(page))
<1>1. /\ Len(Items(page)) = Len(page.slots) + Headers(page) /\ Len(page.slots) \in Nat
      /\ \A i \in 1 .. Len(page.slots) : Items(page)[i + Headers(page)] = page.slots[i]
      /\ IsDir(page) => Items(page)[1] = Header
  BY ItemsIs
<1>2. ~(pos = 1 /\ IsDir(page))
  BY <1>1
<1> DEFINE k == Slot(page, pos)
<1>3. k = pos - Headers(page) /\ Headers(page) = IF IsDir(page) THEN 1 ELSE 0
  BY DEF Slot, Headers
<1> HIDE DEF k
<1>4. k \in 1 .. Len(page.slots) /\ k + Headers(page) = pos
  <2>1. CASE IsDir(page)
    BY <1>1, <1>2, <1>3, <2>1
  <2>2. CASE ~IsDir(page)
    BY <1>1, <1>3, <2>2
  <2> QED
    BY <2>1, <2>2
<1> QED
  BY <1>1, <1>2, <1>4 DEF k

\* What is listed is no header.
LEMMA ListedEntry ==
  ASSUME NEW d \in Devs, Sound(d), NEW u \in DirsOf(d), NEW x \in Dir(d, u)
  PROVE  x.e # Header
<1>1. x \in EntriesOf(d) /\ Chained(d)
  BY EntryIn, SoundChained
<1>2. x.e.spage # 0
  BY <1>1 DEF Chained
<1> QED
  BY <1>2 DEF Header

\* All entries stay that do not have the name, or that one entry, if it may go.
Spends(d, e, name) == \A N : name \in N => Moved(d, e, N)
Loses(d, e, x) == \A N : Lets(d, x, N) => Moved(d, e, N)

LEMMA SpendsSame ==
  ASSUME NEW d, NEW e, e = d
  PROVE  /\ \A N : Moved(d, e, N)
         /\ \A x : Loses(d, e, x)
         /\ \A name : Spends(d, e, name)
BY GrowsSame DEF Grows, Loses, Spends

LEMMA MovedSame ==
  ASSUME NEW d, NEW e, NEW f, NEW N, Moved(d, e, N), \A r : Alike(e, f, r)
  PROVE  Moved(d, f, N)
<1> SUFFICES ASSUME NEW r \in DirPages(d) PROVE Moves(d, f, r, N)
  BY DEF Moved
<1>1. Moves(d, e, r, N)
  BY DEF Moved
<1>2. At(f, r).slots = At(e, r).slots /\ At(f, r).next = At(e, r).next
  BY DEF Alike
<1> QED
  BY <1>1, <1>2 DEF Moves

\* An entry gets another attribute or name.
LEMMA ChangeSpends ==
  ASSUME NEW d \in Devs, NEW e \in Devs, Sound(d), NEW p \in Pages, Patched(d, e, p),
         NEW k, NEW names, Changes(d[p], e[p], k, names)
  PROVE  Spends(d, e, d[p].slots[k].name)
<1> SUFFICES ASSUME NEW N, d[p].slots[k].name \in N, NEW r \in DirPages(d) PROVE Moves(d, e, r, N)
  BY DEF Spends, Moved
<1>1. At(d, p) = d[p] /\ At(e, p) = e[p]
  BY AtType
<1>2. CASE r = p
  <2>1. ASSUME NEW i \in 1 .. Len(d[p].slots)
        PROVE  \E j \in 1 .. Len(e[p].slots) : Remains(d[p].slots[i], e[p].slots[j], N)
    <3>1. i \in 1 .. Len(e[p].slots) /\ (i = k \/ i # k)
      BY DEF Changes
    <3>2. Remains(d[p].slots[i], e[p].slots[i], N)
      BY <3>1 DEF Changes, Remains
    <3> QED
      BY <3>1, <3>2
  <2> QED
    BY <1>1, <1>2, <2>1 DEF Moves, Changes
<1>3. CASE r # p
  BY <1>3, DirPagesLive, AlikeMoves DEF Patched
<1> QED
  BY <1>2, <1>3

\* An entry is taken out of a page that has others.
LEMMA RemoveLoses ==
  ASSUME NEW d \in Devs, NEW e \in Devs, Sound(d), NEW u \in DirsOf(d), NEW x \in Dir(d, u),
         NEW p, p = x.dpage, Patched(d, e, p), e[p].next = d[p].next,
         e[p].slots = RemoveAt(d[p].slots, Slot(d[p], x.pos))
  PROVE  Loses(d, e, x.e)
<1> DEFINE s == d[p].slots
           t == e[p].slots
           k == Slot(d[p], x.pos)
<1>1. u \in Places /\ u \in Starts(d)
  BY EntryIn
<1>2. /\ p \in ToSet(Walk(d, u)) /\ x.pos \in 1 .. Len(Items(d[p])) /\ x.e = Items(d[p])[x.pos]
      /\ x.e # Header
  BY <1>1, DirType, ListedEntry
<1>3. p \in Pages /\ d[p] \in PageType
  BY <1>1, <1>2, StartLive
<1>4. k \in 1 .. Len(s) /\ s[k] = x.e /\ s \in Seq(Entries) /\ Len(s) \in Nat
  BY <1>2, <1>3, SlotOf, PageFields, ItemsIs
<1>5. /\ Len(t) = Len(s) - 1
      /\ \A i \in 1 .. Len(s) - 1 : (i < k => t[i] = s[i]) /\ (i >= k => t[i] = s[i + 1])
  <2>1. t = RemoveAt(s, k)
    OBVIOUS
  <2> HIDE DEF s, t, k
  <2> QED
    BY <1>4, <2>1, RemoveAtIs
<1>6. At(d, p) = d[p] /\ At(e, p) = e[p]
  BY <1>3, AtType
<1>7. ASSUME NEW i \in 1 .. Len(s), i # k PROVE \E j \in 1 .. Len(t) : t[j] = s[i]
  <2> HIDE DEF s, t, k
  <2>1. CASE i < k
    <3>1. i \in 1 .. Len(t) /\ t[i] = s[i]
      BY <2>1, <1>4, <1>5
    <3> QED
      BY <3>1
  <2>2. CASE i > k
    <3>1. i - 1 \in 1 .. Len(t) /\ i - 1 >= k /\ (i - 1) + 1 = i /\ i - 1 \in 1 .. Len(s) - 1
      BY <2>2, <1>4, <1>5
    <3>2. t[i - 1] = s[i]
      BY <3>1, <1>5
    <3> QED
      BY <3>1, <3>2
  <2> QED
    BY <2>1, <2>2, <1>4, <1>7
<1> SUFFICES ASSUME NEW N, Lets(d, x.e, N), NEW r \in DirPages(d) PROVE Moves(d, e, r, N)
  BY DEF Loses, Moved
<1>8. CASE r = p
  <2>1. ASSUME NEW i \in 1 .. Len(s)
        PROVE  Lets(d, s[i], N) \/ \E j \in 1 .. Len(t) : Remains(s[i], t[j], N)
    <3>1. CASE i = k
      BY <3>1, <1>4
    <3>2. CASE i # k
      <4>1. PICK j \in 1 .. Len(t) : t[j] = s[i]
        BY <1>7, <3>2
      <4>2. Remains(s[i], t[j], N)
        BY <4>1 DEF Remains
      <4> QED
        BY <4>2
    <3> QED
      BY <3>1, <3>2
  <2> QED
    BY <1>6, <1>8, <2>1 DEF Moves
<1>9. CASE r # p
  BY <1>9, DirPagesLive, AlikeMoves DEF Patched
<1> QED
  BY <1>8, <1>9

\* A walk goes from a page to the next.
LEMMA WalkSteps ==
  ASSUME NEW d \in Devs, NEW s \in Places
  PROVE  /\ Len(Walk(d, s)) \in Nat
         /\ \A i \in 1 .. Len(Walk(d, s)) - 1 : Walk(d, s)[i + 1] = At(d, Walk(d, s)[i]).next
<1> DEFINE w == Walk(d, s)
<1>1. w \in Path(d, s)
  BY WalkPath
<1> HIDE DEF w
<1>2. /\ Len(w) \in Nat
      /\ \A i \in 1 .. Len(w) - 1 : w[i + 1] = At(d, w[i]).next
  BY <1>1, PathFields
<1> QED
  BY <1>2 DEF w

\* An entry goes with its page, which has no other.
LEMMA UnlinkLoses ==
  ASSUME NEW d \in Devs, NEW e \in Devs, Sound(d), NEW u \in DirsOf(d), NEW x \in Dir(d, u),
         Len(Items(d[x.dpage])) = 1, NEW p, p = x.pdpage, Patched(d, e, p),
         e[p].slots = d[p].slots, e[p].next = d[x.dpage].next
  PROVE  Loses(d, e, x.e)
<1> DEFINE w == Walk(d, u)
           a == x.dpage
<1>1. u \in Starts(d) /\ u \in Places
  BY EntryIn
<1>2. /\ a \in ToSet(w) /\ x.pos \in 1 .. Len(Items(d[a])) /\ x.e = Items(d[a])[x.pos]
      /\ x.e # Header /\ p \in ToSet(w)
  BY <1>1, DirType, ListedEntry
<1>3. /\ a \in Pages /\ d[a] \in PageType /\ At(d, a) = d[a]
      /\ p \in Pages /\ At(d, p) = d[p] /\ At(e, p) = e[p]
  BY <1>1, <1>2, StartLive, AtType
<1>4. Len(d[a].slots) = 1 /\ d[a].slots[1] = x.e
  <2>1. /\ Slot(d[a], x.pos) \in 1 .. Len(d[a].slots) /\ d[a].slots[Slot(d[a], x.pos)] = x.e
    BY <1>2, <1>3, SlotOf
  <2>2. 1 = Len(d[a].slots) + Headers(d[a]) /\ Len(d[a].slots) \in Nat /\ Headers(d[a]) \in {0, 1}
    BY <1>3, ItemsIs
  <2>3. Len(d[a].slots) = 1
    <3> DEFINE n == Len(d[a].slots)
               k == Slot(d[a], x.pos)
               h == Headers(d[a])
    <3>1. n \in Nat /\ h \in {0, 1} /\ 1 = n + h /\ k \in 1 .. n
      BY <2>1, <2>2
    <3> HIDE DEF n, k, h
    <3>2. n = 1
      BY <3>1
    <3> QED
      BY <3>2 DEF n
  <2> HIDE DEF a
  <2>4. Slot(d[a], x.pos) = 1
    BY <2>1, <2>3
  <2> QED
    BY <2>1, <2>3, <2>4
<1>5. At(d, p).next = a
  <2>1. PICK k \in 1 .. Len(w) : \E j \in Spots(d, w, k) : x = Entry(d, w, k, j)
    BY <1>1, ListingIs
  <2>2. PICK j \in Spots(d, w, k) : x = Entry(d, w, k, j)
    BY <2>1
  <2>3. a = w[k] /\ p = w[Before(k)]
    BY <2>2 DEF Entry
  <2>4. k # 1
    <3>1. SUFFICES ASSUME k = 1 PROVE FALSE
      OBVIOUS
    <3>2. At(d, w[k]) = d[a]
      BY <1>3, <2>3
    <3>3. j \in 2 .. 1
      BY <2>2, <3>1, <3>2 DEF Spots
    <3> QED
      BY <3>3
  <2>5. Len(w) \in Nat /\ \A i \in 1 .. Len(w) - 1 : w[i + 1] = At(d, w[i]).next
    BY <1>1, WalkSteps
  <2> HIDE DEF w, a
  <2>6. k - 1 \in 1 .. Len(w) - 1 /\ (k - 1) + 1 = k /\ p = w[k - 1]
    BY <2>3, <2>4, <2>5 DEF Before
  <2> QED
    BY <2>3, <2>5, <2>6
<1> SUFFICES ASSUME NEW N, Lets(d, x.e, N), NEW r \in DirPages(d) PROVE Moves(d, e, r, N)
  BY DEF Loses, Moved
<1>6. CASE r = p
  <2>1. Gone(d, At(d, p).next, N)
    BY <1>3, <1>4, <1>5 DEF Gone
  <2>2. At(e, p).next = At(d, At(d, p).next).next /\ At(e, p).slots = At(d, p).slots
    BY <1>3, <1>5
  <2> HIDE DEF a
  <2> QED
    BY <1>6, <2>1, <2>2 DEF Moves, Remains
<1>7. CASE r # p
  BY <1>7, DirPagesLive, AlikeMoves DEF Patched
<1> QED
  BY <1>6, <1>7

----------------------------------------------------------------------------
(* Unlink, and the bitmap after it *)

LEMMA WrittenPatched ==
  ASSUME NEW d \in Devs, NEW p \in Pages, NEW page \in PageType
  PROVE  LET e == [d EXCEPT ![p] = page]
         IN  /\ e \in Devs /\ e[p] = page /\ Patched(d, e, p)
             /\ \A r \in Pages : r # p => e[r] = d[r]
<1> DEFINE e == [d EXCEPT ![p] = page]
<1>1. e \in Devs /\ e[p] = page /\ \A r \in Pages : r # p => e[r] = d[r]
  BY DEF Devs
<1> HIDE DEF e
<1>2. ASSUME NEW r \in Places, r # p PROVE Alike(d, e, r)
  <2>1. CASE r \in Pages
    <3>1. At(d, r) = d[r] /\ At(e, r) = e[r]
      BY <1>1, <2>1, AtType
    <3> QED
      BY <1>1, <1>2, <2>1, <3>1 DEF Alike
  <2>2. CASE r \notin Pages
    BY <2>2 DEF Alike, At
  <2> QED
    BY <2>1, <2>2
<1> QED
  BY <1>1, <1>2 DEF Patched, e

\* The entry is out of the directory, and so is the page it had for itself.
Unlinks(c, e, u, x) ==
  /\ Erases(c.dev, e.dev, u, x)
  /\ \/ e.bm = c.bm
     \/ /\ e.bm = c.bm \ {x.dpage} /\ x.dpage \in ToSet(Walk(c.dev, u))
        /\ x.dpage \notin ToSet(Walk(e.dev, u))

LEMMA UnlinkFine ==
  ASSUME NEW c \in Calls, Fine(c), NEW u \in DirsOf(c.dev), NEW x \in Dir(c.dev, u), x = c.info
  PROVE  LET e == Unlink(c, x)
         IN  /\ e \in Calls /\ Fine(e) /\ (e.ok => c.ok /\ Unlinks(c, e, u, x))
             /\ Loses(c.dev, e.dev, x.e)
<1> DEFINE d == c.dev
           page == d[x.dpage]
           before == d[x.pdpage]
           linked == [before EXCEPT !.next = page.next]
           r == Clear(c, x.dpage)
           without == Without(page, x.pos)
           e == Unlink(c, x)
<1>1. d \in Devs /\ Sound(d) /\ ~c.hung
  BY CallFields DEF Fine
<1>2. /\ u \in Starts(d) /\ u \in Places /\ d[0].head = "root" /\ Live(d) \subseteq d[0].bm
      /\ 0 \in Pages
  BY <1>1, EntryIn, SoundEnds, Constants DEF Sound
<1>3. x.dpage \in ToSet(Walk(d, u)) /\ x.pdpage \in ToSet(Walk(d, u)) /\ x.pos \in 1 .. Len(Items(page))
  BY <1>1, <1>2, DirType
<1>4. /\ x.dpage \in Pages /\ x.pdpage \in Pages /\ At(d, x.dpage) = page
      /\ page \in PageType /\ before \in PageType
  BY <1>1, <1>2, <1>3, StartLive
<1>5. linked \in PageType /\ without \in PageType
  BY <1>3, <1>4, PageFields, PageSame, WithoutType
<1>6. e = IF Len(Items(page)) = 1 THEN Write_Page(r, x.pdpage, linked)
          ELSE Write_Page(c, x.dpage, without)
  <2>1. At(c.dev, x.dpage) = page
    BY <1>4
  <2> QED
    BY <2>1 DEF Unlink
<1>7. CASE Len(Items(page)) = 1
  <2>1. /\ r \in Calls /\ r.dev = d /\ r.hung = c.hung /\ (r.ok => c.ok)
        /\ r.ok => r.bm = c.bm \ {x.dpage}
    BY <1>4 DEF Clear, Fail, Calls
  <2> HIDE DEF r
  <2> DEFINE f == [d EXCEPT ![x.pdpage] = linked]
             p == x.pdpage
  <2>2. f \in Devs /\ f[p] = linked /\ Patched(d, f, p) /\ \A q \in Pages : q # p => f[q] = d[q]
    BY <1>1, <1>4, <1>5, WrittenPatched
  <2>3. linked.head = before.head /\ linked.slots = before.slots /\ linked.bm = before.bm
        /\ linked.data = before.data /\ linked.next = page.next
    BY <1>4, PageFields
  <2>4. Puts(r, e, p, linked)
    BY <1>4, <1>5, <1>6, <1>7, <2>1, WritePuts
  <2> HIDE DEF linked, f, e
  <2>5. f[0].head = d[0].head /\ f[0].bm = d[0].bm
    BY <1>2, <1>4, <2>2, <2>3
  <2>6. Erases(d, f, u, x) /\ x.dpage \notin ToSet(Walk(f, u))
    BY <1>1, <1>2, <1>7, <2>2, <2>3, <2>5, UnlinkSound
  <2>7. /\ e \in Calls /\ ~e.hung /\ (e.dev = d \/ e.dev = f)
        /\ e.ok => c.ok /\ e.dev = f /\ e.bm = c.bm \ {x.dpage}
    BY <1>1, <2>1, <2>4 DEF Puts, f
  <2>8. Sound(f)
    BY <2>6 DEF Erases
  <2>9. Fine(e) /\ (e.ok => Unlinks(c, e, u, x))
    BY <1>1, <1>3, <2>6, <2>7, <2>8 DEF Fine, Unlinks
  <2>10. Loses(d, f, x.e)
    BY <1>1, <1>7, <2>2, <2>3, UnlinkLoses
  <2>11. Loses(d, e.dev, x.e)
    BY <2>7, <2>10, SpendsSame
  <2> QED
    BY <2>7, <2>9, <2>11 DEF e
<1>8. CASE Len(Items(page)) # 1
  <2> DEFINE f == [d EXCEPT ![x.dpage] = without]
             p == x.dpage
             s == RemoveAt(page.slots, Slot(page, x.pos))
  <2>1. f \in Devs /\ f[p] = without /\ Patched(d, f, p) /\ \A q \in Pages : q # p => f[q] = d[q]
    BY <1>1, <1>4, <1>5, WrittenPatched
  <2>2. /\ without.head = page.head /\ without.slots = s
        /\ without.bm = page.bm /\ without.data = page.data /\ without.next = page.next
    BY <1>4, PageFields DEF Without
  <2>3. Puts(c, e, p, without)
    BY <1>4, <1>5, <1>6, <1>8, WritePuts
  <2> HIDE DEF without, f, e
  <2>4. f[0].head = d[0].head /\ f[0].bm = d[0].bm
    BY <1>2, <1>4, <2>1, <2>2
  <2>5. Erases(d, f, u, x)
    BY <1>1, <1>2, <2>1, <2>2, <2>4, RemoveSlotSound
  <2>6. /\ e \in Calls /\ ~e.hung /\ (e.dev = d \/ e.dev = f)
        /\ e.ok => c.ok /\ e.dev = f /\ e.bm = c.bm
    BY <1>1, <2>3 DEF Puts, f
  <2>7. Sound(f)
    BY <2>5 DEF Erases
  <2>8. Fine(e) /\ (e.ok => Unlinks(c, e, u, x))
    BY <1>1, <2>5, <2>6, <2>7 DEF Fine, Unlinks
  <2>9. Loses(d, f, x.e)
    BY <1>1, <2>1, <2>2, RemoveLoses DEF s
  <2>10. Loses(d, e.dev, x.e)
    BY <2>6, <2>9, SpendsSame
  <2> QED
    BY <2>6, <2>8, <2>10 DEF e
<1> QED
  BY <1>7, <1>8

\* The bitmap is written, or it is not.
LEMMA BitMapPuts ==
  ASSUME NEW c \in Calls, c.dev[0].head = "root"
  PROVE  LET e == WriteBitMap(c)
         IN  /\ e \in Calls /\ e.hung = c.hung
             /\ e.dev = c.dev \/ (c.ok /\ e.dev = Bitmapped(c.dev, c.bm))
<1> DEFINE zero == 0
           page == [c.dev[0] EXCEPT !.bm = c.bm]
<1>1. zero \in Pages /\ page \in PageType
  BY CallFields, Constants, PageSame DEF Devs
<1>2. WriteBitMap(c) = Write_Page(c, zero, page)
  BY DEF WriteBitMap
<1>3. Bitmapped(c.dev, c.bm) = [c.dev EXCEPT ![zero] = page]
  BY DEF Bitmapped
<1> HIDE DEF zero, page
<1>4. Puts(c, WriteBitMap(c), zero, page)
  BY <1>1, <1>2, WritePuts
<1> QED
  BY <1>3, <1>4 DEF Puts

\* The bitmap may be cut off: then pages stay marked that nothing is in.
LEMMA ErasedFine ==
  ASSUME NEW c \in Calls, Fine(c), NEW u \in DirsOf(c.dev),
         c.ok => /\ c.info \in Dir(c.dev, u)
                 /\ c.bm = c.dev[0].bm \ ToSet(Walk(c.dev, c.info.e.spage))
  PROVE  /\ Fine(Erased(c)) /\ Erased(c) \in Calls
         /\ Erased(c).dev = c.dev \/ (c.ok /\ Loses(c.dev, Erased(c).dev, c.info.e))
<1>1. CASE ~c.ok
  BY <1>1 DEF Erased
<1>2. CASE c.ok
  <2> DEFINE x == c.info
             d == c.dev
             z == x.e.spage
             e == Unlink(c, x)
             r == Clear(e, z)
             w == WriteBitMap(r)
  <2>1. x \in Dir(d, u) /\ c.bm = d[0].bm \ ToSet(Walk(d, z)) /\ d \in Devs /\ Sound(d)
    BY <1>2, CallFields DEF Fine
  <2>2. e \in Calls /\ Fine(e) /\ (e.ok => Unlinks(c, e, u, x))
        /\ Loses(d, e.dev, x.e)
    BY <2>1, UnlinkFine
  <2>3. Erased(c) = ToRoot(w)
    BY <1>2 DEF Erased
  <2> HIDE DEF e
  <2>4. /\ r \in Calls /\ r.dev = e.dev /\ r.hung = e.hung /\ (r.ok => e.ok)
        /\ r.ok => r.bm = e.bm \ {z}
    BY <2>2 DEF Clear, Fail, Calls
  <2> HIDE DEF r
  <2>5. Sound(e.dev) /\ ~e.hung /\ e.dev \in Devs
    BY <2>2, CallFields DEF Fine
  <2>6. r.dev[0].head = "root"
    BY <2>4, <2>5 DEF Sound
  <2>7. w \in Calls /\ w.hung = r.hung /\ (w.dev = r.dev \/ (r.ok /\ w.dev = Bitmapped(r.dev, r.bm)))
    BY <2>4, <2>6, BitMapPuts
  <2> HIDE DEF w
  <2>8. ASSUME r.ok PROVE Live(e.dev) \subseteq r.bm
    <3>1. e.ok /\ Unlinks(c, e, u, x)
      BY <2>2, <2>4, <2>8
    <3>2. Erases(d, e.dev, u, x)
      BY <3>1 DEF Unlinks
    <3>3. /\ Live(e.dev) \subseteq Live(d)
          /\ \A p \in Live(e.dev) : /\ p \notin ToSet(Walk(d, z))
                                    /\ p \in ToSet(Walk(d, u)) => p \in ToSet(Walk(e.dev, u))
      BY <2>1, <2>5, <3>2, ErasedLive
    <3>4. Live(d) \subseteq d[0].bm
      BY <2>1, SoundEnds
    <3>5. z \in ToSet(Walk(d, z))
      BY <2>1, EntryIn, ChainHead
    <3>6. Live(e.dev) \subseteq c.bm
      BY <2>1, <3>3, <3>4
    <3>7. Live(e.dev) \subseteq e.bm
      BY <3>1, <3>3, <3>6 DEF Unlinks
    <3> QED
      BY <2>4, <2>8, <3>3, <3>5, <3>7
  <2>9. r.ok => /\ Sound(Bitmapped(r.dev, r.bm))
                /\ \A p : Alike(e.dev, Bitmapped(r.dev, r.bm), p)
    <3>1. r.bm \in SUBSET Pages
      BY <2>4, CallFields
    <3> QED
      BY <2>4, <2>5, <2>8, <3>1, BitmappedIs DEF Alikes
  <2>10. Fine(w)
    BY <2>4, <2>5, <2>7, <2>9 DEF Fine
  <2>11. ToRoot(w) \in Calls
    <3> DEFINE S == {}
    <3>1. Goes(w, ToRoot(w), S)
      BY <2>7, ToRootGoes
    <3> QED
      BY <3>1 DEF Goes
  <2>12. Loses(d, w.dev, x.e)
    <3>1. CASE w.dev = r.dev
      BY <2>2, <2>4, <3>1
    <3>2. CASE w.dev # r.dev
      <4>1. \A p : Alike(e.dev, w.dev, p)
        BY <2>7, <2>9, <3>2
      <4> QED
        BY <2>2, <4>1, MovedSame DEF Loses
    <3> QED
      BY <3>1, <3>2
  <2>13. ToRoot(w).dev = w.dev /\ Fine(ToRoot(w))
    BY <2>7, <2>10, FlagFine DEF Fine, ToRoot, Calls
  <2> QED
    BY <1>2, <2>3, <2>11, <2>12, <2>13
<1> QED
  BY <1>1, <1>2

----------------------------------------------------------------------------
(* owDeleteFile, owRemoveDir *)

\* What a chain that comes to an end is read to.
LEMMA ExtReadFine ==
  ASSUME NEW c \in Calls, ~c.hung, NEW z \in Places, Stops(At(c.dev, Last(Walk(c.dev, z))))
  PROVE  /\ ~ExtRead(c, z).hung /\ ExtRead(c, z) \in Calls
         /\ ExtRead(c, z).ok => c.ok /\ ExtRead(c, z).bm = c.bm \ ToSet(Walk(c.dev, z))
         /\ ~Freeing(c, z).hung /\ Freeing(c, z) \in Calls
<1> DEFINE w == Walk(c.dev, z)
           read == {p \in ToSet(w) : Readable(At(c.dev, p))}
           bm == c.bm \ read
           ends == Ends(c.dev, w)
           d == ExtRead(c, z)
           again == [d EXCEPT !.ok = TRUE]
           S == {}
<1>1. ExtRead(c, z) \in Calls /\ Freeing(c, z) \in Calls
  BY ExtReadGoes, FreeingGoes DEF Goes
<1>2. ~Loops(c.dev, w) /\ ends \in BOOLEAN /\ (ends => read = ToSet(w))
  <2>1. ~Loops(c.dev, w)
    BY DEF Loops, LoopsIn, Stops
  <2>2. ends \in BOOLEAN
    BY DEF Ends, EndsIn
  <2>3. ends => read = ToSet(w)
    BY EndsReadable, CallFields
  <2> QED
    BY <2>1, <2>2, <2>3
<1>3. d = IF ~c.ok THEN c ELSE [c EXCEPT !.bm = bm, !.ok = ends]
  BY <1>2 DEF ExtRead, Freed
<1> HIDE DEF bm, ends
<1>4. ~d.hung /\ (d.ok => c.ok /\ d.bm = bm /\ ends)
  BY <1>3 DEF Calls
<1>5. d.ok => d.bm = c.bm \ ToSet(w)
  BY <1>2, <1>4 DEF bm
<1>6. Freeing(c, z) = d \/ Freeing(c, z) = Clear(again, z)
  BY DEF Freeing, Forgiven
<1> HIDE DEF d
<1>7. again \in Calls /\ ~again.hung
  BY <1>1, <1>4 DEF Calls, d
<1> HIDE DEF again
<1>8. ~Clear(again, z).hung
  BY <1>7 DEF Clear, Fail, Calls
<1>9. ~Freeing(c, z).hung
  BY <1>4, <1>6, <1>8
<1> QED
  BY <1>1, <1>4, <1>5, <1>9 DEF d

\* What is known of an entry that is to go.
LEMMA EntryEnds ==
  ASSUME NEW d \in Devs, Sound(d), NEW u \in DirsOf(d), NEW x \in Dir(d, u)
  PROVE  /\ x.e.spage \in Places /\ Stops(At(d, Last(Walk(d, x.e.spage))))
         /\ Ends(d, Walk(d, x.e.spage)) \/ ~Readable(At(d, x.e.spage))
<1>1. x \in EntriesOf(d) /\ x.e.spage \in Places /\ x.e.spage \in Starts(d)
  BY EntryIn
<1>2. Whole(d, x)
  BY <1>1 DEF Sound
<1>3. Stops(At(d, Last(Walk(d, x.e.spage))))
  BY <1>1, SoundEnds
<1> QED
  BY <1>1, <1>2, <1>3 DEF Whole

LEMMA DeleteFine ==
  ASSUME NEW c \in Calls, Fine(c), NEW u \in DirsOf(c.dev), NEW name,
         c.ok /\ c.info # NoInfo => c.info \in Dir(c.dev, u)
  PROVE  /\ Fine(Delete(c, name))
         /\ \/ Delete(c, name).dev = c.dev
            \/ c.ok /\ c.info # NoInfo /\ Loses(c.dev, Delete(c, name).dev, c.info.e)
<1> DEFINE open == OpenOn(c.han, name)
           z == c.info.e.spage
           a == Close(c, open)
           b == ReadBitMap(a)
           f == Freeing(b, z)
           g == Erased(f)
           S == {}
<1>1. Fine(Fail(c)) /\ Fail(c).dev = c.dev
  BY FlagFine DEF Fine, Fail, Calls
<1>2. ASSUME c.ok, c.info # NoInfo
      PROVE  Fine(g) /\ (g.dev = c.dev \/ Loses(c.dev, g.dev, c.info.e))
  <2>1. c.info \in Dir(c.dev, u) /\ c.dev \in Devs /\ Sound(c.dev) /\ ~c.hung
    BY <1>2, CallFields DEF Fine
  <2>2. /\ z \in Places /\ Stops(At(c.dev, Last(Walk(c.dev, z))))
        /\ Ends(c.dev, Walk(c.dev, z)) \/ ~Readable(At(c.dev, z))
    BY <2>1, EntryEnds
  <2>3. a \in Calls /\ a.dev = c.dev /\ a.info = c.info
    <3>1. open \in SUBSET Handles
      BY DEF OpenOn
    <3> HIDE DEF open
    <3>2. Goes(c, a, S) /\ a.dev = c.dev /\ a.info = c.info
      BY <3>1, CloseGoes
    <3> QED
      BY <3>2 DEF Goes
  <2>4. a.hung = c.hung
    BY DEF Close, Released, Calls
  <2> HIDE DEF a, z
  <2>5. b \in Calls /\ b.dev = c.dev /\ b.info = c.info /\ (b.ok => b.bm = c.dev[0].bm)
    <3>1. Goes(a, b, S) /\ Keeps(a, b) /\ b.dev = a.dev /\ (b.ok => b.bm = a.dev[0].bm)
      BY <2>3, ReadBitMapGoes
    <3> QED
      BY <2>3, <3>1 DEF Goes, Keeps
  <2>6. b.hung = a.hung
    BY <2>3 DEF ReadBitMap, Fail, Calls
  <2> HIDE DEF b
  <2>7. f \in Calls /\ ~f.hung
    BY <2>1, <2>2, <2>4, <2>5, <2>6, ExtReadFine
  <2>8. f.dev = c.dev /\ f.info = c.info
    BY <2>5, FreeingGoes
  <2>9. f.ok => f.bm = c.dev[0].bm \ ToSet(Walk(c.dev, z))
    BY <2>2, <2>5, FreeingBits
  <2> HIDE DEF f
  <2>10. Fine(f)
    BY <2>1, <2>7, <2>8 DEF Fine
  <2>11. f.info \in Dir(f.dev, u) /\ u \in DirsOf(f.dev)
    BY <2>1, <2>8
  <2>12. f.ok => f.bm = f.dev[0].bm \ ToSet(Walk(f.dev, f.info.e.spage))
    BY <2>8, <2>9 DEF z
  <2>13. Fine(g) /\ (g.dev = f.dev \/ Loses(f.dev, g.dev, f.info.e))
    BY <2>7, <2>10, <2>11, <2>12, ErasedFine
  <2> HIDE DEF g
  <2> QED
    BY <2>8, <2>13
<1>3. Delete(c, name) = Fail(c) \/ (c.ok /\ c.info # NoInfo /\ Delete(c, name) = g)
  BY DEF Delete
<1> QED
  BY <1>1, <1>2, <1>3

LEMMA DeleteFileFine ==
  ASSUME NEW c \in Calls, Fine(c), NEW name, NEW u, u = CdPage(c.cd), u \in DirsOf(c.dev)
  PROVE  /\ Fine(owDeleteFile(c, name))
         /\ name \notin Dirs => Spends(c.dev, owDeleteFile(c, name).dev, name)
<1> DEFINE may == name \in Files \/ c.internal
           r == Require(c, may)
           f == FindDirectoryInfo(r, u, name)
<1>1. owDeleteFile(c, name) = Delete(f, name)
  BY DEF owDeleteFile
<1>2. r \in Calls /\ r.dev = c.dev /\ r.hung = c.hung
  BY DEF Require, Fail, Calls
<1> HIDE DEF r
<1>3. Fine(r)
  BY <1>2 DEF Fine
<1>4. /\ f \in Calls /\ f.dev = r.dev /\ ~f.hung /\ (f.ok <=> r.ok)
      /\ r.ok => Sought(r.dev, u, name, f.info)
  BY <1>2, <1>3, FindFine
<1> HIDE DEF f
<1>5. Fine(f) /\ u \in DirsOf(f.dev)
  BY <1>2, <1>3, <1>4 DEF Fine
<1>6. f.ok /\ f.info # NoInfo => f.info \in Dir(f.dev, u)
  BY <1>4 DEF Sought, Dir
<1> DEFINE e == Delete(f, name)
<1>7. Fine(e) /\ (e.dev = f.dev \/ (f.ok /\ f.info # NoInfo /\ Loses(f.dev, e.dev, f.info.e)))
  BY <1>4, <1>5, <1>6, DeleteFine
<1> HIDE DEF e
<1>8. ASSUME name \notin Dirs PROVE Spends(c.dev, e.dev, name)
  <2>1. CASE e.dev = f.dev
    BY <1>2, <1>4, <2>1, SpendsSame
  <2>2. CASE f.ok /\ f.info # NoInfo /\ Loses(f.dev, e.dev, f.info.e)
    <3>1. f.info.e.name = name
      BY <1>4, <2>2 DEF Sought
    <3> QED
      BY <1>2, <1>4, <1>8, <2>2, <3>1 DEF Spends, Loses, Lets
  <2> QED
    BY <1>7, <2>1, <2>2
<1> QED
  BY <1>1, <1>7, <1>8 DEF e

LEMMA RemoveDirFine ==
  ASSUME NEW c \in Calls, Fine(c), NEW name, NEW u \in DirsOf(c.dev)
  PROVE  /\ Fine(owRemoveDir(c, u, name))
         /\ Spends(c.dev, owRemoveDir(c, u, name).dev, name)
<1> DEFINE f == FindDirectoryInfo(c, u, name)
           z == f.info.e.spage
           a == Flagged(f)
           b == ReadBitMap(a)
           r == ExtRead(b, z)
           g == Unflagged(Erased(r))
<1>1. /\ f \in Calls /\ f.dev = c.dev /\ ~f.hung /\ (f.ok <=> c.ok)
      /\ c.ok => Sought(c.dev, u, name, f.info)
  BY FindFine
<1>2. owRemoveDir(c, u, name) = RemoveEmpty(f)
  BY DEF owRemoveDir
<1> HIDE DEF f
<1>3. owRemoveDir(c, u, name) = Fail(f) \/
        (/\ f.ok /\ f.info # NoInfo /\ Empty(At(f.dev, z))
         /\ owRemoveDir(c, u, name) = g)
  BY <1>2 DEF RemoveEmpty
<1>4. Fine(Fail(f)) /\ Spends(c.dev, Fail(f).dev, name)
  <2>1. Fail(f).dev = c.dev
    BY <1>1 DEF Fail, Calls
  <2> QED
    BY <1>1, <2>1, FlagFine, SpendsSame DEF Fine
<1>5. ASSUME f.ok, f.info # NoInfo, Empty(At(f.dev, z))
      PROVE  Fine(g) /\ Spends(c.dev, g.dev, name)
  <2>1. f.info \in Dir(c.dev, u) /\ c.dev \in Devs /\ Sound(c.dev)
    BY <1>1, <1>5, CallFields DEF Fine, Sought, Dir
  <2> DEFINE x == f.info
  <2>0. name \in Dirs => Dir(c.dev, x.e.spage) = {}
    <3> SUFFICES ASSUME name \in Dirs PROVE Dir(c.dev, z) = {}
      OBVIOUS
    <3>1. x.e.name = name
      BY <1>1, <1>5 DEF Sought
    <3>2. x \in EntriesOf(c.dev) /\ z \in Places
      BY <2>1, EntryIn
    <3>3. IsDir(At(c.dev, z))
      BY <2>1, <3>1, <3>2 DEF Sound, Whole
    <3>4. At(c.dev, z) \in PageType
      BY <2>1, <3>2, AtType
    <3>5. Len(Items(At(c.dev, z))) = 1 /\ At(c.dev, z).next = 0 /\ At(c.dev, z).data = <<>>
      BY <1>1, <1>5 DEF Empty
    <3> DEFINE page == At(c.dev, z)
    <3>6. page.slots = <<>>
      <4> HIDE DEF page
      <4>1. Len(page.slots) = 0
        <5>1. 1 = Len(page.slots) + Headers(page) /\ Len(page.slots) \in Nat
          BY <3>4, <3>5, ItemsIs DEF page
        <5>2. Headers(page) = 1
          BY <3>3 DEF Headers, page
        <5> DEFINE n == Len(page.slots)
        <5>3. n \in Nat /\ 1 = n + 1
          BY <5>1, <5>2
        <5> HIDE DEF n
        <5>4. n = 0
          BY <5>3
        <5> QED
          BY <5>4 DEF n
      <4>2. page.slots \in Seq(Entries)
        BY <3>4, PageFields DEF page
      <4> DEFINE s == page.slots
      <4>3. s \in Seq(Entries) /\ Len(s) = 0
        BY <4>1, <4>2
      <4> HIDE DEF s
      <4>4. s = <<>>
        BY <4>3
      <4> QED
        BY <4>4 DEF s
    <3>7. Readable(page)
      BY <3>3 DEF Readable, IsDir
    <3> QED
      BY <2>1, <3>2, <3>3, <3>5, <3>6, <3>7, LonePage
  <2>2. z \in Places /\ Stops(At(c.dev, Last(Walk(c.dev, z))))
    BY <2>1, EntryEnds
  <2>3. a \in Calls /\ a.dev = c.dev /\ ~a.hung /\ a.info = f.info
    BY <1>1 DEF Flagged, Calls
  <2> HIDE DEF a, z
  <2>4. b \in Calls /\ b.dev = c.dev /\ b.info = f.info /\ (b.ok => b.bm = c.dev[0].bm)
    <3> DEFINE S == {}
    <3> QED
      BY <2>3, ReadBitMapGoes DEF Goes, Keeps
  <2>5. ~b.hung
    BY <2>3 DEF ReadBitMap, Fail, Calls
  <2> HIDE DEF b
  <2>6. r \in Calls /\ ~r.hung /\ (r.ok => r.bm = c.dev[0].bm \ ToSet(Walk(c.dev, z)))
    BY <2>2, <2>4, <2>5, ExtReadFine
  <2>7. r.dev = c.dev /\ r.info = f.info
    BY <2>4, ExtReadGoes
  <2> HIDE DEF r
  <2>8. Fine(r) /\ u \in DirsOf(r.dev) /\ r.info \in Dir(r.dev, u)
    BY <2>1, <2>6, <2>7 DEF Fine
  <2>9. r.ok => r.bm = r.dev[0].bm \ ToSet(Walk(r.dev, r.info.e.spage))
    BY <2>6, <2>7 DEF z
  <2> DEFINE e == Erased(r)
  <2>10. /\ Fine(e) /\ e \in Calls
         /\ e.dev = r.dev \/ Loses(r.dev, e.dev, r.info.e)
    BY <2>6, <2>8, <2>9, ErasedFine
  <2> HIDE DEF e
  <2>11. Unflagged(e).dev = e.dev /\ Fine(Unflagged(e))
    BY <2>10, FlagFine DEF Fine, Unflagged, Calls
  <2>12. Spends(c.dev, e.dev, name)
    <3>1. CASE e.dev = r.dev
      BY <2>7, <3>1, SpendsSame
    <3>2. CASE Loses(r.dev, e.dev, r.info.e)
      <4>1. x.e.name = name /\ Loses(c.dev, e.dev, x.e)
        BY <1>1, <1>5, <2>7, <3>2 DEF Sought
      <4> QED
        BY <2>0, <4>1 DEF Spends, Loses, Lets
    <3> QED
      BY <2>10, <3>1, <3>2
  <2> QED
    BY <2>11, <2>12 DEF e
<1> QED
  BY <1>3, <1>4, <1>5

----------------------------------------------------------------------------
(* owAttribute, owReNameFile *)

LEMMA ChangeFine ==
  ASSUME NEW c \in Calls, Fine(c), NEW u \in DirsOf(c.dev), NEW p \in ToSet(Walk(c.dev, u)),
         NEW page \in PageType, NEW k,
         Changes(c.dev[p], page, k, {y.e.name : y \in Dir(c.dev, u)})
  PROVE  /\ Fine(Write_Page(c, p, page))
         /\ Spends(c.dev, Write_Page(c, p, page).dev, c.dev[p].slots[k].name)
<1> DEFINE d == c.dev
           e == [d EXCEPT ![p] = page]
           w == Write_Page(c, p, page)
<1>1. d \in Devs /\ Sound(d) /\ ~c.hung
  BY CallFields DEF Fine
<1>2. /\ u \in Starts(d) /\ d[0].head = "root" /\ Live(d) \subseteq d[0].bm /\ 0 \in Pages
  BY <1>1, EntryIn, SoundEnds, Constants DEF Sound
<1>3. p \in Pages /\ d[p] \in PageType
  BY <1>1, <1>2, StartLive
<1>4. e \in Devs /\ e[p] = page /\ Patched(d, e, p) /\ \A q \in Pages : q # p => e[q] = d[q]
  BY <1>1, <1>3, WrittenPatched
<1>5. Puts(c, w, p, page)
  BY <1>3, WritePuts
<1> HIDE DEF e, w
<1>6. page.head = d[p].head /\ page.bm = d[p].bm /\ Changes(d[p], e[p], k, {y.e.name : y \in Dir(d, u)})
  BY <1>4 DEF Changes
<1>7. e[0].head = "root" /\ Live(d) \subseteq e[0].bm
  BY <1>2, <1>3, <1>4, <1>6
<1>8. Sound(e)
  BY <1>1, <1>4, <1>6, <1>7, EditSlotSound
<1>9. Fine(w)
  BY <1>1, <1>5, <1>8 DEF Puts, Fine, e
<1>10. Spends(d, e, d[p].slots[k].name)
  BY <1>1, <1>3, <1>4, <1>6, ChangeSpends
<1>11. w.dev = d \/ w.dev = e
  BY <1>5 DEF Puts, e
<1>12. Spends(d, w.dev, d[p].slots[k].name)
  BY <1>10, <1>11, SpendsSame
<1> QED
  BY <1>9, <1>12 DEF w

LEMMA NewAttrFine ==
  ASSUME NEW c \in Calls, Fine(c), NEW u \in DirsOf(c.dev), NEW attr \in BOOLEAN,
         c.ok /\ c.info # NoInfo => c.info \in Dir(c.dev, u)
  PROVE  /\ Fine(NewAttr(c, attr))
         /\ \/ NewAttr(c, attr).dev = c.dev
            \/ c.ok /\ c.info # NoInfo /\ Spends(c.dev, NewAttr(c, attr).dev, c.info.e.name)
<1> DEFINE x == c.info
           p == x.dpage
           page == c.dev[p]
           k == Slot(page, x.pos)
           s == page.slots
           t == [s EXCEPT ![k].attr = attr]
           new == [page EXCEPT !.slots = t]
<1>1. Fine(Fail(c)) /\ Fail(c).dev = c.dev
  BY DEF Fail, Calls, Fine
<1>2. NewAttr(c, attr) = Fail(c) \/ NewAttr(c, attr) = c
        \/ (c.ok /\ x # NoInfo /\ NewAttr(c, attr) = Write_Page(c, p, new))
  BY DEF NewAttr
<1>3. ASSUME c.ok, x # NoInfo 
      PROVE  /\ Fine(Write_Page(c, p, new))
             /\ Spends(c.dev, Write_Page(c, p, new).dev, x.e.name)
  <2>1. x \in Dir(c.dev, u) /\ c.dev \in Devs /\ Sound(c.dev) /\ u \in Places /\ u \in Starts(c.dev)
    BY <1>3, CallFields, EntryIn DEF Fine
  <2>2. /\ p \in ToSet(Walk(c.dev, u)) /\ x.pos \in 1 .. Len(Items(page))
        /\ x.e = Items(page)[x.pos] /\ x.e # Header
    BY <2>1, DirType, ListedEntry
  <2>3. p \in Pages /\ page \in PageType
    BY <2>1, <2>2, StartLive
  <2>4. k \in 1 .. Len(s) /\ s[k] = x.e /\ s \in Seq(Entries) /\ Len(s) \in Nat
    BY <2>2, <2>3, SlotOf, PageFields, ItemsIs
  <2> HIDE DEF k, p, x, page
  <2>5. t \in Seq(Entries)
    BY <2>3, <2>4, EntryWith, PageFields
  <2>6. /\ Len(t) = Len(s) /\ \A i \in 1 .. Len(s) : i # k => t[i] = s[i]
        /\ t[k] = [s[k] EXCEPT !.attr = attr]
    BY <2>3, <2>4
  <2>7. t[k].spage = s[k].spage /\ t[k].name = s[k].name
    <3>1. s[k] \in Entries
      BY <2>4
    <3> QED
      BY <2>6, <3>1 DEF Entries
  <2> HIDE DEF t
  <2>8. /\ new \in PageType /\ new.head = page.head /\ new.next = page.next /\ new.bm = page.bm
        /\ new.data = page.data /\ new.slots = t
    BY <2>3, <2>5, PageSame, PageFields
  <2> HIDE DEF new
  <2>9. Changes(page, new, k, {y.e.name : y \in Dir(c.dev, u)})
    BY <2>4, <2>6, <2>7, <2>8 DEF Changes
  <2> DEFINE w == Write_Page(c, p, new)
  <2>10. Fine(w) /\ Spends(c.dev, w.dev, s[k].name)
    BY <2>2, <2>8, <2>9, ChangeFine DEF page
  <2> QED
    BY <2>4, <2>10
<1> QED
  BY <1>1, <1>2, <1>3

LEMMA AttributeFine ==
  ASSUME NEW c \in Calls, Fine(c), NEW u, u = CdPage(c.cd), u \in DirsOf(c.dev),
         NEW name, NEW attr \in BOOLEAN
  PROVE  /\ Fine(owAttribute(c, name, attr))
         /\ Spends(c.dev, owAttribute(c, name, attr).dev, name)
<1> DEFINE f == FindDirectoryInfo(c, u, name)
<1>1. owAttribute(c, name, attr) = NewAttr(f, attr)
  BY DEF owAttribute
<1>2. /\ f \in Calls /\ f.dev = c.dev /\ ~f.hung /\ (f.ok <=> c.ok)
      /\ c.ok => Sought(c.dev, u, name, f.info)
  BY FindFine
<1> HIDE DEF f
<1>3. Fine(f) /\ u \in DirsOf(f.dev)
  BY <1>2 DEF Fine
<1>4. f.ok /\ f.info # NoInfo => f.info \in Dir(f.dev, u)
  BY <1>2 DEF Sought, Dir
<1> DEFINE e == NewAttr(f, attr)
<1>5. Fine(e) /\ (e.dev = f.dev \/ (f.ok /\ f.info # NoInfo /\ Spends(f.dev, e.dev, f.info.e.name)))
  BY <1>2, <1>3, <1>4, NewAttrFine
<1> HIDE DEF e
<1>6. CASE e.dev = f.dev
  BY <1>1, <1>2, <1>5, <1>6, SpendsSame DEF e
<1>7. CASE f.ok /\ f.info # NoInfo /\ Spends(f.dev, e.dev, f.info.e.name)
  <2>1. f.info.e.name = name
    BY <1>2, <1>7 DEF Sought
  <2> QED
    BY <1>1, <1>2, <1>5, <1>7, <2>1 DEF e
<1> QED
  BY <1>5, <1>6, <1>7

\* The place in the handle is that of an entry, which gets a name that the
\* directory does not have.
LEMMA RenameFine ==
  ASSUME NEW c \in Calls, Fine(c), NEW u \in DirsOf(c.dev), NEW h \in Handles, NEW name \in Files,
         c.ok /\ c.info = NoInfo => \A y \in Dir(c.dev, u) : y.e.name # name,
         c.han[h].name # NoName,
         HasEntry(At(c.dev, c.han[h].dpage), c.han[h].pos, c.han[h].name),
         c.han[h].dpage \in ToSet(Walk(c.dev, u))
  PROVE  /\ Fine(Rename(c, h, name))
         /\ Spends(c.dev, Rename(c, h, name).dev, c.han[h].name)
<1> DEFINE p == c.han[h].dpage
           pos == c.han[h].pos
           page == c.dev[p]
           attr == c.han[h].attr
           new == Renamed(page, pos, name, attr)
<1>1. /\ Fine(Fail(c)) /\ Fine(Fail(Released(c, h)))
      /\ Fail(c).dev = c.dev /\ Fail(Released(c, h)).dev = c.dev
  BY DEF Fail, Released, Calls, Fine
<1>2. \/ Rename(c, h, name) \in {c, Fail(c), Fail(Released(c, h))}
      \/ (c.ok /\ c.info = NoInfo /\ Rename(c, h, name) = Write_Page(c, p, new))
  BY DEF Rename
<1>3. ASSUME c.ok, c.info = NoInfo 
      PROVE  /\ Fine(Write_Page(c, p, new))
             /\ Spends(c.dev, Write_Page(c, p, new).dev, c.han[h].name)
  <2>1. c.dev \in Devs /\ Sound(c.dev) /\ ~c.hung /\ u \in Starts(c.dev) /\ u \in Places
    BY CallFields, EntryIn DEF Fine
  <2>2. p \in ToSet(Walk(c.dev, u)) /\ p \in Pages /\ page \in PageType /\ At(c.dev, p) = page
        /\ p \in Live(c.dev)
    BY <2>1, StartLive
  <2>3. attr \in BOOLEAN /\ pos \in Nat /\ c.han[h].name \in Files /\ name \in Names
        /\ c.han[h] \in Open(Files)
    BY CallFields, HanFields, Constants DEF Open
  <2>4. /\ pos \in 1 .. Len(Items(page)) /\ Items(page)[pos].name = c.han[h].name
        /\ Len(Items(page)) \in Nat
    <3>1. Items(page) \in Seq(Listed) /\ Len(Items(page)) \in Nat
      BY <2>2, ItemsType
    <3>2. HasEntry(page, pos, c.han[h].name)
      BY <2>2
    <3> QED
      BY <3>1, <3>2 DEF HasEntry, NamesIn
  <2>5. new \in PageType
    BY <2>2, <2>3, RenamedType
  <2>6. page.data = <<>>
    BY <2>1, <2>2, PageBare
  <2> QED
    <3> DEFINE k == Slot(page, pos)
               s == page.slots
               t == [s EXCEPT ![k] = [@ EXCEPT !.name = name, !.attr = attr]]
    <3>1. Items(page)[pos] # Header
      BY <2>4 DEF Header
    <3>2. k \in 1 .. Len(s) /\ s[k] = Items(page)[pos] /\ ~(pos = 1 /\ IsDir(page))
      BY <2>2, <2>4, <3>1, SlotOf
    <3>3. s \in Seq(Entries) /\ Len(s) \in Nat
      BY <2>2, PageFields, ItemsIs
    <3>4. new = SlotRenamed(page, k, name, attr)
      <4> DEFINE n == Len(Items(page))
                 B == pos = 1 /\ IsDir(page)
      <4>1. pos <= n /\ ~B /\ n \in Nat
        BY <2>4, <3>2
      <4> DEFINE slot == SlotRenamed(page, Slot(page, pos), name, attr)
      <4>2. new = slot
        <5> HIDE DEF page, slot, n
        <5>1. new = CASE B -> HeaderRenamed(page, name, attr)
                      [] pos <= n /\ ~B -> slot
                      [] pos = n + 1 -> [page EXCEPT !.next = Stray]
                      [] pos > n + 1 -> page
          BY <2>6 DEF Renamed, n, slot
        <5> HIDE DEF new, pos, B
        <5> QED
          BY <2>3, <4>1, <5>1
      <4> QED
        BY <4>2
    <3>5. new = [page EXCEPT !.slots = t]
      BY <3>4 DEF SlotRenamed
    <3> HIDE DEF new, k, page, p
    <3>6. /\ Len(t) = Len(s) /\ \A i \in 1 .. Len(s) : i # k => t[i] = s[i]
          /\ t[k] = [s[k] EXCEPT !.name = name, !.attr = attr]
      BY <3>2, <3>3
    <3>7. t[k].spage = s[k].spage /\ t[k].name = name
      <4>1. s[k] \in Entries
        BY <3>2, <3>3
      <4> QED
        BY <3>6, <4>1 DEF Entries
    <3> HIDE DEF t
    <3>8. /\ new.head = page.head /\ new.next = page.next /\ new.bm = page.bm
          /\ new.data = page.data /\ new.slots = t
      BY <2>2, <3>5, PageFields
    <3>9. s[k].name \notin Dirs /\ name \notin Dirs
      BY <2>3, <2>4, <3>2, FileAssumption
    <3>10. name \notin {y.e.name : y \in Dir(c.dev, u)}
      BY <1>3
    <3>11. Changes(page, new, k, {y.e.name : y \in Dir(c.dev, u)})
      BY <3>2, <3>6, <3>7, <3>8, <3>9, <3>10 DEF Changes
    <3>12. s[k].name = c.han[h].name
      BY <2>4, <3>2
    <3> DEFINE w == Write_Page(c, p, new)
    <3>13. Fine(w) /\ Spends(c.dev, w.dev, s[k].name)
      BY <2>2, <2>5, <3>11, ChangeFine DEF page
    <3> QED
      BY <3>12, <3>13
<1> DEFINE e == Rename(c, h, name)
<1>4. CASE e \in {c, Fail(c), Fail(Released(c, h))}
  <2>1. Fine(e) /\ e.dev = c.dev
    BY <1>1, <1>4
  <2> QED
    BY <2>1, SpendsSame
<1> QED
  BY <1>2, <1>3, <1>4

LEMMA ReNameFileFine ==
  ASSUME NEW c \in Calls, Fine(c), NEW u, u = CdPage(c.cd), u \in DirsOf(c.dev), ~c.blind,
         NEW h \in Handles, NEW name \in Files, c.han[h].name # NoName,
         HasEntry(At(c.dev, c.han[h].dpage), c.han[h].pos, c.han[h].name),
         c.han[h].dpage \in ToSet(Walk(c.dev, u))
  PROVE  /\ Fine(owReNameFile(c, h, name))
         /\ Spends(c.dev, owReNameFile(c, h, name).dev, c.han[h].name)
<1> DEFINE f == FindDirectoryInfo(c, u, name)
           r == Rename(f, h, name)
<1>1. owReNameFile(c, h, name) = ReleasedIf(r, h, r.ok)
  BY DEF owReNameFile, ReleasedWhenDone
<1>2. /\ f \in Calls /\ f.dev = c.dev /\ ~f.hung /\ (f.ok <=> c.ok) /\ Looks(c, f)
      /\ c.ok /\ ~c.blind /\ f.info = NoInfo => \A y \in Dir(c.dev, u) : y.e.name # name
  BY FindFine
<1> HIDE DEF f
<1>3. Fine(f) /\ f.han = c.han
  BY <1>2 DEF Fine, Looks
<1>4. Fine(r) /\ Spends(f.dev, r.dev, f.han[h].name)
  BY <1>2, <1>3, RenameFine
<1>5. r \in Calls
  <2> DEFINE S == Places
  <2>1. f.han[h].dpage \in S /\ name \in Names
    BY <1>2, CallFields, HanFields, Constants
  <2> HIDE DEF S
  <2>2. Goes(f, r, S)
    BY <1>2, <2>1, RenameGoes
  <2> QED
    BY <2>2 DEF Goes
<1> HIDE DEF r
<1>6. Fine(ReleasedIf(r, h, r.ok)) /\ ReleasedIf(r, h, r.ok).dev = r.dev
  BY <1>4, <1>5, ReleasedFine DEF Fine
<1> QED
  BY <1>1, <1>2, <1>3, <1>4, <1>6

----------------------------------------------------------------------------
(* owFormat *)

\* A part with an empty root.
LEMMA RootSound ==
  ASSUME NEW d \in Devs, d[0] = RootPage
  PROVE  Sound(d)
<1> DEFINE zero == 0
<1>1. /\ d[0].head = "root" /\ d[0].bm = {0} /\ d[0].slots = <<>> /\ d[0].next = 0
      /\ d[0].data = <<>>
  BY DEF RootPage, Blank
<1>2. zero \in Places /\ At(d, zero) = d[zero] /\ Readable(d[zero]) /\ IsDir(d[zero])
  BY <1>1, Constants, AtType DEF Readable, IsDir
<1>3. At(d, zero).next = 0 /\ At(d, zero).slots = <<>> /\ At(d, zero).data = <<>>
  BY <1>1, <1>2
<1> HIDE DEF zero
<1>4. Ends(d, Walk(d, zero)) /\ ToSet(Walk(d, zero)) = {zero} /\ Dir(d, zero) = {}
      /\ Bare(d, zero)
  BY <1>2, <1>3, LonePage
<1>5. DirsOf(d) = {zero}
  <2>1. PICK D : Levels(d, D)
    BY DirsOfLevels
  <2> DEFINE K == {k \in 0 .. MaxDepth : D[k] = {zero}}
  <2>2. MaxDepth \in Nat /\ 0 \in K
    BY <2>1, FileAssumption DEF Levels, zero
  <2>3. ASSUME NEW k \in 0 .. MaxDepth, k # 0, k - 1 \in K PROVE k \in K
    <3>1. D[k] = {zero} \cup Below(d, {zero})
      BY <2>1, <2>3 DEF Levels
    <3>2. Below(d, {zero}) = {}
      BY <1>4 DEF Below, Dir
    <3> QED
      BY <3>1, <3>2
  <2> HIDE DEF K
  <2>4. \A k \in 0 .. MaxDepth : k \in K
    BY <2>2, <2>3, Upto
  <2>5. MaxDepth \in K
    BY <2>2, <2>4
  <2> QED
    BY <2>1, <2>5 DEF Levels, K
<1>6. EntriesOf(d) = {}
  BY <1>4, <1>5 DEF EntriesOf, Dir
<1>7. \A s \in DirsOf(d) : Unique(Listing(d, Walk(d, s))) /\ Bare(d, s)
  BY <1>2, <1>4, <1>5, UniqueIs
<1>8. d[0].head = "root" /\ Ends(d, Walk(d, 0)) /\ RootChain(d) \subseteq d[0].bm
  BY <1>1, <1>4 DEF RootChain, zero
<1> QED
  BY <1>6, <1>7, <1>8 DEF Sound, Apart

LEMMA FormatFine ==
  ASSUME NEW c \in Calls, ~c.hung
  PROVE  LET e == owFormat(c)
         IN  /\ ~e.hung /\ (e.dev = c.dev \/ Sound(e.dev)) /\ (e.ok => Sound(e.dev))
<1> DEFINE zero == 0
           one == {0}
           cd == <<>>
           a == [c EXCEPT !.cd = cd]
           w == Write_Page(a, zero, RootPage)
           b == [w EXCEPT !.bm = one]
           v == WriteBitMap(b)
           f == [c.dev EXCEPT ![zero] = RootPage]
           g == Bitmapped(b.dev, one)
<1>1. zero \in Pages /\ one \in SUBSET Pages /\ cd \in Seq(Places) /\ RootPage \in PageType
      /\ c.dev \in Devs
  BY Constants, CallFields, PageSame
<1>2. owFormat(c) = Closed(v)
  BY DEF owFormat
<1>3. RootPage.head = "root" /\ RootPage = [RootPage EXCEPT !.bm = one]
  BY DEF RootPage, Blank
<1>4. f \in Devs /\ f[zero] = RootPage
  BY <1>1, WrittenPatched
<1>5. Sound(f)
  BY <1>4, RootSound DEF zero
<1> HIDE DEF one, cd, zero, RootPage
<1>6. a \in Calls /\ a.dev = c.dev /\ ~a.hung
  BY <1>1 DEF Calls
<1> HIDE DEF a
<1>7. Puts(a, w, zero, RootPage)
  BY <1>1, <1>6, WritePuts
<1>8. /\ w \in Calls /\ ~w.hung /\ (w.dev = c.dev \/ w.dev = f) /\ (w.ok => w.dev = f)
  BY <1>6, <1>7 DEF Puts
<1> HIDE DEF w
<1>9. b \in Calls /\ b.dev = w.dev /\ ~b.hung /\ b.ok = w.ok /\ b.bm = one
  BY <1>1, <1>8 DEF Calls
<1> HIDE DEF b
<1>10. b.ok => g = f
  <2>1. SUFFICES ASSUME b.ok PROVE g = f
    OBVIOUS
  <2>2. b.dev = f
    BY <1>8, <1>9, <2>1
  <2>3. g = [f EXCEPT ![zero] = [f[zero] EXCEPT !.bm = one]]
    BY <2>2 DEF Bitmapped, zero
  <2>4. g = [f EXCEPT ![zero] = RootPage]
    BY <1>3, <1>4, <2>3
  <2> HIDE DEF g
  <2> QED
    BY <1>1, <2>4 DEF Devs
<1> HIDE DEF f, g
<1>11. /\ v \in Calls /\ ~v.hung /\ (v.dev = b.dev \/ (b.ok /\ v.dev = g)) /\ (v.ok => b.ok)
  <2>1. CASE b.dev[0].head = "root"
    <3>1. v \in Calls /\ v.hung = b.hung /\ (v.dev = b.dev \/ (b.ok /\ v.dev = g))
      BY <1>9, <2>1, BitMapPuts DEF g
    <3>2. v.ok => b.ok
      BY <1>9, WriteBitMapBits
    <3> QED
      BY <1>9, <3>1, <3>2
  <2>2. CASE b.dev[0].head # "root"
    <3>1. v = Fail(b)
      BY <2>2 DEF WriteBitMap
    <3> QED
      BY <1>9, <3>1 DEF Fail, Calls
  <2> QED
    BY <2>1, <2>2
<1> HIDE DEF v
<1>12. Closed(v).dev = v.dev /\ Closed(v).hung = v.hung /\ Closed(v).ok = v.ok
  BY <1>11 DEF Closed, Calls
<1>13. /\ ~owFormat(c).hung
       /\ owFormat(c).dev = c.dev \/ owFormat(c).dev = f
       /\ owFormat(c).ok => owFormat(c).dev = f
  BY <1>2, <1>8, <1>9, <1>10, <1>11, <1>12
<1> QED
  BY <1>5, <1>13 DEF f, zero

----------------------------------------------------------------------------
(* Every call *)

LEMMA DeleteKept == TypeOK /\ SoundKept /\ owDelete => SoundKept' /\ Undisturbed
<1> SUFFICES ASSUME TypeOK, SoundKept, owDelete PROVE SoundKept' /\ Undisturbed
  OBVIOUS
<1> DEFINE u == CdPage(CD)
           z == 0
<1>1. PICK c \in Attempts, name \in Names :
        After(owDeleteFile(c, name), u, "delete", name, z, z)
  BY DEF owDelete
<1> DEFINE e == owDeleteFile(c, name)
<1>2. c \in Calls /\ c.dev = dev /\ c.cd = CD /\ (trusted => Fine(c))
  BY AttemptFine
<1> HIDE DEF z
<1>3. ASSUME trusted, ~Misuse(e, u, "delete", name, z, z)
      PROVE  Fine(e) /\ (name \notin Dirs => Spends(dev, e.dev, name))
  <2>1. u \in DirsOf(dev)
    BY <1>3 DEF Misuse, NoDirectory
  <2> QED
    BY <1>2, <1>3, <2>1, DeleteFileFine
<1> HIDE DEF e
<1>4. trusted /\ ~Misuse(e, u, "delete", name, z, z) =>
        Fine(e) /\ (Calm("delete", name) => Moved(dev, e.dev, Mine("delete", name, z)))
  BY <1>3 DEF Spends, Calm, Mine
<1> QED
  BY <1>1, <1>4, AfterKept DEF e

LEMMA AttributeKept == TypeOK /\ SoundKept /\ owSetAttribute => SoundKept' /\ Undisturbed
<1> SUFFICES ASSUME TypeOK, SoundKept, owSetAttribute PROVE SoundKept' /\ Undisturbed
  OBVIOUS
<1> DEFINE u == CdPage(CD)
           z == 0
<1>1. PICK c \in Attempts, name \in Names, attr \in BOOLEAN :
        After(owAttribute(c, name, attr), u, "attribute", name, z, z)
  BY DEF owSetAttribute
<1> DEFINE e == owAttribute(c, name, attr)
<1>2. c \in Calls /\ c.dev = dev /\ c.cd = CD /\ (trusted => Fine(c))
  BY AttemptFine
<1> HIDE DEF z
<1>3. ASSUME trusted, ~Misuse(e, u, "attribute", name, z, z)
      PROVE  Fine(e) /\ Spends(dev, e.dev, name)
  <2>1. u \in DirsOf(dev)
    BY <1>3 DEF Misuse, NoDirectory
  <2> QED
    BY <1>2, <1>3, <2>1, AttributeFine
<1> HIDE DEF e
<1>4. trusted /\ ~Misuse(e, u, "attribute", name, z, z) =>
        Fine(e) /\ (Calm("attribute", name) => Moved(dev, e.dev, Mine("attribute", name, z)))
  BY <1>3 DEF Spends, Mine
<1> QED
  BY <1>1, <1>4, AfterKept DEF e

LEMMA ReNameKept == TypeOK /\ SoundKept /\ owReName => SoundKept' /\ Undisturbed
<1> SUFFICES ASSUME TypeOK, SoundKept, owReName PROVE SoundKept' /\ Undisturbed
  OBVIOUS
<1> DEFINE u == CdPage(CD)
           z == 0
<1>1. PICK c \in Attempts, h \in Handles, name \in Files :
        /\ Han[h].name # NoName
        /\ After(owReNameFile(c, h, name), u, "rename", name, z, h)
  BY DEF owReName
<1> DEFINE e == owReNameFile(c, h, name)
           S == {Han[h].dpage}
<1>2. /\ c \in Calls /\ c.dev = dev /\ c.cd = CD /\ u \in Places /\ dev \in Devs
      /\ (trusted => Fine(c)) /\ Begins(c)
  BY AttemptFine
<1>3. c.han[h] = Han[h]
  BY <1>2 DEF Begins
<1>4. e.blind = c.blind
  <2>1. c.han[h].dpage \in S /\ name \in Names
    BY <1>3, Constants
  <2> HIDE DEF S
  <2>2. Goes(c, e, S)
    BY <1>2, <2>1, ReNameFileGoes
  <2> HIDE DEF e
  <2> QED
    BY <2>2 DEF Goes
<1> HIDE DEF e, z
<1>5. ASSUME trusted, ~Misuse(e, u, "rename", name, z, h)
      PROVE  Fine(e) /\ Spends(dev, e.dev, Han[h].name)
  <2>1. ~c.blind /\ u \in DirsOf(dev) /\ ~StaleRename("rename", h)
    BY <1>4, <1>5 DEF Misuse, NoDirectory
  <2>2. HasEntry(At(dev, Han[h].dpage), Han[h].pos, Han[h].name)
        /\ Han[h].dpage \in ToSet(Walk(dev, u))
    <3>1. Walk(dev, u) \in Seq(Places)
      BY <1>2, WalkType
    <3>2. Contains(Walk(dev, u), Han[h].dpage)
      BY <2>1 DEF StaleRename
    <3>3. Han[h].dpage \in ToSet(Walk(dev, u))
      BY <3>1, <3>2, InSet DEF Contains
    <3> QED
      BY <2>1, <3>3 DEF StaleRename
  <2> QED
    BY <1>1, <1>2, <1>3, <1>5, <2>1, <2>2, ReNameFileFine DEF e
<1>6. trusted /\ ~Misuse(e, u, "rename", name, z, h) =>
        Fine(e) /\ (Calm("rename", name) => Moved(dev, e.dev, Mine("rename", name, h)))
  BY <1>5 DEF Spends, Mine
<1> QED
  BY <1>1, <1>6, AfterKept DEF e

LEMMA DropDirKept == TypeOK /\ SoundKept /\ owDropDir => SoundKept' /\ Undisturbed
<1> SUFFICES ASSUME TypeOK, SoundKept, owDropDir PROVE SoundKept' /\ Undisturbed
  OBVIOUS
<1> DEFINE z == 0
<1>1. PICK c \in Attempts, name \in Dirs, pg \in ParentPages(CD) :
        After(owRemoveDir(c, pg, name), pg, "rmdir", name, z, z)
  BY DEF owDropDir
<1> DEFINE e == owRemoveDir(c, pg, name)
<1>2. c \in Calls /\ c.dev = dev /\ (trusted => Fine(c))
  BY AttemptFine
<1> HIDE DEF z
<1>3. ASSUME trusted, ~Misuse(e, pg, "rmdir", name, z, z)
      PROVE  Fine(e) /\ Spends(dev, e.dev, name)
  <2>1. pg \in DirsOf(dev)
    BY <1>3 DEF Misuse, NoDirectory
  <2> QED
    BY <1>2, <1>3, <2>1, RemoveDirFine
<1> HIDE DEF e
<1>4. trusted /\ ~Misuse(e, pg, "rmdir", name, z, z) =>
        Fine(e) /\ (Calm("rmdir", name) => Moved(dev, e.dev, Mine("rmdir", name, z)))
  BY <1>3 DEF Spends, Mine
<1> QED
  BY <1>1, <1>4, AfterKept DEF e

LEMMA FormatKept == TypeOK /\ SoundKept /\ owFormatPart => SoundKept' /\ Undisturbed
<1> SUFFICES ASSUME TypeOK, SoundKept, owFormatPart PROVE SoundKept' /\ Undisturbed
  OBVIOUS
<1> DEFINE z == 0
<1>1. PICK c \in Attempts : After(owFormat(c), z, "format", NoName, z, z)
  BY DEF owFormatPart
<1> DEFINE e == owFormat(c)
<1>2. c \in Calls /\ c.dev = dev /\ ~c.hung /\ (trusted => Sound(dev))
  BY AttemptFine
<1>3. ~e.hung /\ (e.dev = dev \/ Sound(e.dev)) /\ (e.ok => Sound(e.dev))
  BY <1>2, FormatFine
<1> HIDE DEF e, z
<1>4. (trusted' => e.ok \/ trusted) /\ dev' = e.dev /\ hung' = e.hung
  BY <1>1 DEF After, Outcome, e
<1>5. Undisturbed
  BY <1>1 DEF After, Outcome, Undisturbed, Calm
<1> QED
  BY <1>2, <1>3, <1>4, <1>5 DEF SoundKept

\* A call that only reads.
LEMMA OutcomeKept ==
  ASSUME NEW e, NEW op, NEW name, NEW size, NEW h, Outcome(e, op, name, size, h),
         trusted' => Fine(e) /\ e.dev = dev
  PROVE  SoundKept' /\ Undisturbed
<1>1. SoundKept'
  BY DEF Outcome, SoundKept, Fine
<1>2. trusted' => dev' = dev
  BY DEF Outcome
<1>3. Undisturbed
  BY <1>2, SpendsSame DEF Undisturbed
<1> QED
  BY <1>1, <1>3

LEMMA UntouchedFine ==
  ASSUME TypeOK, SoundKept
  PROVE  /\ Untouched \in Calls /\ Untouched.dev = dev /\ Untouched.cd = CD /\ Untouched.ok
         /\ ~Untouched.hung /\ (trusted => Fine(Untouched))
<1>1. Begins(Untouched) /\ Untouched \in Calls
  BY UntouchedBegins
<1>2. ~Untouched.hung
  BY DEF Untouched, Call
<1> HIDE DEF Untouched
<1> QED
  BY <1>1, <1>2 DEF Begins, SoundKept, Fine

LEMMA OpenKept == TypeOK /\ SoundKept /\ owOpen => SoundKept' /\ Undisturbed
<1> SUFFICES ASSUME TypeOK, SoundKept, owOpen PROVE SoundKept' /\ Undisturbed
  OBVIOUS
<1> DEFINE h == Min(FreeHandles(Han))
           c == Untouched
           u == CdPage(CD)
           z == 0
<1>1. PICK name \in Files :
        /\ Outcome(owOpenFile(c, h, name), "open", name, z, h)
        /\ trusted' = (trusted /\ ~NoDirectory(u))
  BY DEF owOpen
<1> DEFINE e == owOpenFile(c, h, name)
           f == FindDirectoryInfo(c, u, name)
<1>2. c \in Calls /\ c.dev = dev /\ c.cd = CD /\ (trusted => Fine(c))
  BY UntouchedFine
<1> HIDE DEF c, h, z
<1>3. ASSUME trusted' PROVE Fine(e) /\ e.dev = dev
  <2>1. Fine(c) /\ u \in DirsOf(c.dev)
    BY <1>1, <1>2, <1>3 DEF NoDirectory
  <2>2. f \in Calls /\ f.dev = c.dev /\ ~f.hung
    BY <1>2, <2>1, FindFine
  <2>3. e = Opened(f, h, name)
    BY <1>2 DEF owOpenFile
  <2> HIDE DEF f, e
  <2>4. e.dev = f.dev /\ e.hung = f.hung
    BY <2>2, <2>3 DEF Opened, Fail, Calls
  <2> QED
    BY <1>2, <2>1, <2>2, <2>4 DEF Fine
<1> HIDE DEF e
<1> QED
  BY <1>1, <1>3, OutcomeKept DEF e

LEMMA CloseKept == TypeOK /\ SoundKept /\ owCloseFile => SoundKept' /\ Undisturbed
<1> SUFFICES ASSUME TypeOK, SoundKept, owCloseFile PROVE SoundKept' /\ Undisturbed
  OBVIOUS
<1> DEFINE c == Untouched
           z == 0
<1>1. PICK h \in Handles :
        Outcome(Released(c, h), "close", Han[h].name, z, h) /\ trusted' = trusted
  BY DEF owCloseFile
<1>2. c \in Calls /\ c.dev = dev /\ (trusted => Fine(c))
  BY UntouchedFine
<1> HIDE DEF c, z
<1>3. Released(c, h).dev = c.dev /\ Released(c, h).hung = c.hung
  BY <1>2 DEF Released, Calls
<1> DEFINE e == Released(c, h)
<1>4. trusted' => Fine(e) /\ e.dev = dev
  BY <1>1, <1>2, <1>3 DEF Fine
<1> HIDE DEF e
<1> QED
  BY <1>1, <1>4, OutcomeKept DEF e

\* A step along a path reads one directory.
LEMMA StepFine ==
  ASSUME NEW c \in Calls, Fine(c), CdPage(c.cd) \in DirsOf(c.dev), NEW name
  PROVE  Fine(Step(c, name)) /\ Step(c, name).dev = c.dev
<1> DEFINE f == FindDirectoryInfo(c, CdPage(c.cd), name)
<1>1. CASE name = ".."
  BY <1>1 DEF Step, Fail, Calls, Fine
<1>2. CASE name # ".."
  <2>1. f \in Calls /\ f.dev = c.dev /\ ~f.hung
    BY FindFine
  <2>2. Step(c, name) = Enter(f)
    BY <1>2 DEF Step
  <2> HIDE DEF f
  <2>3. Enter(f).dev = f.dev /\ Enter(f).hung = f.hung
    BY <2>1 DEF Enter, Fail, Calls
  <2> QED
    BY <2>1, <2>2, <2>3 DEF Fine
<1> QED
  BY <1>1, <1>2

LEMMA AlongFine ==
  ASSUME NEW c \in Calls, Fine(c), CdPage(c.cd) \in DirsOf(c.dev), NEW N,
         NEW path \in Seq(N), Len(path) \in {0, 1}
  PROVE  Fine(Along(c, path)) /\ Along(c, path).dev = c.dev
<1>1. PICK P : Steps(c, path, P)
  BY AlongSteps
<1>2. CASE Len(path) = 0
  BY <1>1, <1>2 DEF Steps
<1>3. CASE Len(path) = 1
  <2>1. 1 \in 0 .. Len(path) /\ 1 # 0 /\ 1 - 1 = 0
    BY <1>3
  <2>2. Along(c, path) = Step(c, path[1])
    BY <1>1, <1>3, <2>1 DEF Steps
  <2> DEFINE name == path[1]
  <2> HIDE DEF name
  <2>3. Fine(Step(c, name)) /\ Step(c, name).dev = c.dev
    BY StepFine
  <2> QED
    BY <2>2, <2>3 DEF name
<1> QED
  BY <1>2, <1>3

LEMMA ChangeKept == TypeOK /\ SoundKept /\ owChange => SoundKept' /\ Undisturbed
<1> SUFFICES ASSUME TypeOK, SoundKept, owChange PROVE SoundKept' /\ Undisturbed
  OBVIOUS
<1> DEFINE N == Dirs \cup {".."}
           none == <<>>
           M == {none} \cup {<<name>> : name \in N}
           c == Untouched
           z == 0
<1>1. PICK absolute \in BOOLEAN, path \in M :
        /\ Outcome(owChangeDirectory(c, path, absolute), "chdir", NoName, z, z)
        /\ trusted' = (trusted /\ ~NoDirectory(IF absolute THEN 0 ELSE CdPage(CD)))
  BY DEF owChange
<1>2. path \in Seq(N) /\ Len(path) \in {0, 1}
  <2>1. none \in Seq(N) /\ Len(none) = 0 /\ \A name \in N : <<name>> \in Seq(N) /\ Len(<<name>>) = 1
    OBVIOUS
  <2> HIDE DEF none, N
  <2> QED
    BY <2>1
<1> HIDE DEF M, N
<1> DEFINE d == IF absolute THEN [c EXCEPT !.cd = none] ELSE c
           u == IF absolute THEN 0 ELSE CdPage(CD)
           a == Along(d, path)
           e == owChangeDirectory(c, path, absolute)
<1>3. c \in Calls /\ c.dev = dev /\ c.cd = CD /\ (trusted => Fine(c))
  BY UntouchedFine
<1> HIDE DEF c, z
<1>4. /\ d \in Calls /\ d.dev = c.dev /\ d.hung = c.hung /\ CdPage(d.cd) = u
  <2>1. none \in Seq(Places) /\ CdPage(none) = 0
    BY DEF CdPage
  <2> HIDE DEF none
  <2> QED
    BY <1>3, <2>1 DEF Calls
<1>5. e = OrBack(a, c.cd)
  BY DEF owChangeDirectory
<1> HIDE DEF d
<1>6. a \in Calls
  BY <1>2, <1>4, AlongEnters DEF Enters
<1> HIDE DEF e
<1>7. ASSUME trusted' PROVE Fine(e) /\ e.dev = dev
  <2>1. Fine(d) /\ CdPage(d.cd) \in DirsOf(d.dev)
    BY <1>1, <1>3, <1>4, <1>7 DEF NoDirectory, Fine
  <2>2. Fine(a) /\ a.dev = d.dev
    BY <1>2, <1>4, <2>1, AlongFine
  <2> HIDE DEF a
  <2>3. e.dev = a.dev /\ e.hung = a.hung
    BY <1>5, <1>6 DEF OrBack, Calls
  <2> QED
    BY <1>3, <1>4, <2>2, <2>3 DEF Fine
<1> QED
  BY <1>1, <1>7, OutcomeKept DEF e

LEMMA StepKept == TypeOK /\ SoundKept /\ [Next]_vars => SoundKept' /\ (Undisturbed \/ UNCHANGED vars)
<1> SUFFICES ASSUME TypeOK, SoundKept, [Next]_vars PROVE SoundKept' /\ (Undisturbed \/ UNCHANGED vars)
  OBVIOUS
<1>1. CASE Next
  <2>1. Restart => SoundKept' /\ Undisturbed
    <3>1. Restart => dev' = dev
      BY DEF Restart
    <3>2. Restart => Undisturbed
      BY <3>1, SpendsSame DEF Undisturbed
    <3> QED
      BY <3>2 DEF Restart, SoundKept
  <2> QED
    BY <1>1, <2>1, CreateKept, WriteKept, DeleteKept, AttributeKept, ReNameKept, MakeDirKept,
       DropDirKept, FormatKept, OpenKept, CloseKept, ChangeKept DEF Next
<1>2. CASE UNCHANGED vars
  BY <1>2 DEF vars, SoundKept
<1> QED
  BY <1>1, <1>2

\* Whatever was called since the part was formatted, and wherever contact was
\* lost, the directory can be read and has every name once, every file ends, no
\* two files share a page, every page in use is marked in the bitmap, and no
\* call runs for ever; as long as there was no Misuse.
THEOREM FileSoundKept == Spec => []SoundKept
<1>1. Init => SoundKept
  BY DEF Init, SoundKept
<1>2. TypeOK /\ SoundKept /\ [Next]_vars => SoundKept'
  BY StepKept
<1> QED
  BY <1>1, <1>2, FileTypeCorrect, PTL DEF Spec

\* No page of another entry changes.
LEMMA PagesStay == TypeOK /\ SoundKept /\ [Next]_vars => [OthersPages]_vars
<1> SUFFICES ASSUME TypeOK, SoundKept, Next, trusted, trusted', last'.op # "format"
             PROVE  \E g \in Home(last'.op) :
                      \A x \in Others(g, last'.op, last'.name) :
                        \A p \in Chain(dev, x) : dev'[p] = dev[p]
  BY DEF OthersPages
<1>1. PICK g \in Home(last'.op) : TouchesOnly(g) /\ Careful(g)
  BY StepTouches DEF Directed
<1>2. ASSUME NEW x \in Others(g, last'.op, last'.name), NEW p \in Chain(dev, x), dev' # dev
      PROVE  dev'[p] = dev[p]
  <2>1. Sound(dev) /\ g \in DirsOf(dev) /\ ~StaleRename(last'.op, last'.hnd)
    BY <1>1, <1>2 DEF SoundKept, Careful
  <2>2. p \in Pages /\ ~Touches(g, last'.op, last'.name, last'.hnd, p)
    BY <2>1, <1>2, Untouchable
  <2> QED
    BY <1>1, <2>2 DEF TouchesOnly
<1> QED
  BY <1>1, <1>2

\* As long as there was no Misuse, no call changes a page of a file or directory
\* that it was not called for, cut off anywhere or not (the half of OthersKept
\* that is about pages; here for every directory but the one the call works in,
\* for owDeleteFile of a directory, and for owCreateDir below the root).
THEOREM FileOthersPages == Spec => [][OthersPages]_vars
<1>1. TypeOK /\ SoundKept /\ [Next]_vars => [OthersPages]_vars
  BY PagesStay
<1> HIDE DEF OthersPages
<1> QED
  BY <1>1, FileTypeCorrect, FileSoundKept, PTL DEF Spec

\* What OthersKept says of a step.
OthersStay ==
  trusted /\ trusted' /\ dev' # dev /\ last'.op # "format"
  /\ ~(last'.op = "delete" /\ last'.name \in Dirs)
  /\ ~(last'.op = "mkdir" /\ CD # <<>>) =>
  \A x \in EntriesOf(dev) :
    \/ x.e.name \in Dirs \cup {last'.name}
    \/ last'.op = "rename" /\ x.e.name = Han[last'.hnd].name
    \/ /\ \E y \in EntriesOf(dev') : y.e = x.e
       /\ \A p \in Chain(dev, x) : dev'[p] = dev[p]

LEMMA OthersStep ==
  ASSUME TypeOK, TypeOK', SoundKept, SoundKept', [Next]_vars
  PROVE  [OthersStay]_vars
<1> SUFFICES ASSUME trusted, trusted', dev' # dev, Calm(last'.op, last'.name),
                    NEW x \in EntriesOf(dev), x.e.name \notin Dirs \cup {last'.name},
                    ~(last'.op = "rename" /\ x.e.name = Han[last'.hnd].name)
             PROVE  /\ \E y \in EntriesOf(dev') : y.e = x.e
                    /\ \A p \in Chain(dev, x) : dev'[p] = dev[p]
  BY DEF OthersStay, Calm
<1>1. Sound(dev) /\ Sound(dev') /\ dev \in Devs /\ dev' \in Devs
  BY DEF SoundKept, TypeOK, Devs
<1> DEFINE N == Mine(last'.op, last'.name, last'.hnd)
<1>2. Moved(dev, dev', N)
  <2>1. ~UNCHANGED vars
    BY DEF vars
  <2>2. Undisturbed
    BY <2>1, StepKept
  <2> QED
    BY <2>2 DEF Undisturbed
<1>3. x.e.name \notin Dirs \cup N
  BY DEF Mine
<1> HIDE DEF N
<1>4. \E y \in EntriesOf(dev') : y.e = x.e
  <2>1. Spares(dev, dev', N)
    BY <1>1, <1>2, MovedSpares
  <2> QED
    BY <1>3, <2>1 DEF Spares
<1>5. OthersPages
  BY PagesStay DEF vars
<1>6. PICK g \in Home(last'.op) :
        \A z \in Others(g, last'.op, last'.name) : \A p \in Chain(dev, z) : dev'[p] = dev[p]
  BY <1>5 DEF OthersPages, Calm
<1>7. x \in Others(g, last'.op, last'.name)
  BY DEF Others
<1> QED
  BY <1>4, <1>6, <1>7

\* As long as there was no Misuse, a call on one file, cut off anywhere, leaves
\* every other file in its directory, with the entry it had, and changes no page
\* of it; but for owFormat, owDeleteFile of a directory, and owCreateDir below
\* the root.
THEOREM FileOthersKept == Spec => OthersKept
<1>1. TypeOK /\ TypeOK' /\ SoundKept /\ SoundKept' /\ [Next]_vars => [OthersStay]_vars
  BY OthersStep
<1>2. OthersKept <=> [][OthersStay]_vars
  BY DEF OthersKept, OthersStay
<1> HIDE DEF OthersStay
<1> QED
  BY <1>1, <1>2, FileTypeCorrect, FileSoundKept, PTL DEF Spec

\* As long as there was no Misuse, a write that succeeds is what a reader of that
\* file gets: an entry of the root has its name, and the pages that follow from
\* it hold what was written, one by one and no more (owWriteFile, ExtWrite and
\* the entry that is added to the directory or found there).
THEOREM FileReadsBack == Spec => ReadsBack
<1>1. TypeOK /\ TypeOK' /\ SoundKept /\ [Next]_vars => [WrittenReads]_vars
  BY ReadStep
<1>2. ReadsBack <=> [][WrittenReads]_vars
  BY DEF ReadsBack, WrittenReads
<1> HIDE DEF WrittenReads
<1> QED
  BY <1>1, <1>2, FileTypeCorrect, FileSoundKept, PTL DEF Spec

\* As long as there was no Misuse, a deletion that succeeds takes an entry of that
\* name out and frees all its pages, and nothing else but the page of the
\* directory it emptied (owDeleteFile, Unlink and owReadFile of the chain).
THEOREM FileDeleteFrees == Spec => DeleteFrees
<1>1. TypeOK /\ TypeOK' /\ SoundKept /\ SoundKept' /\ [Next]_vars => [Deletes]_vars
  BY DeleteStep
<1>2. DeleteFrees <=> [][Deletes]_vars
  BY DEF DeleteFrees, Deletes
<1> HIDE DEF Deletes
<1> QED
  BY <1>1, <1>2, FileTypeCorrect, FileSoundKept, PTL DEF Spec
=============================================================================
