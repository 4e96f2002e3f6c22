------------------------------- MODULE OwFile -------------------------------
(***************************************************************************)
(* The file system of the SDK (owfile.c, and the page chains of owpgrw.c)  *)
(* on a DS1963S: a directory that starts in page 0 with the bitmap of the  *)
(* used pages in its header, files and sub-directories as chains of pages, *)
(* file handles, a current directory.                                      *)
(*                                                                         *)
(* A call reads pages and writes them one by one, and contact with the     *)
(* button may be lost before any write, or after it and before it was      *)
(* verified.  A call in progress is a record c with the state, the locals  *)
(* that later steps use, and left, how many pages can still be written;    *)
(* each function of the code is an operator from the record before it to   *)
(* the record after it, and does nothing once the call has failed.         *)
(*                                                                         *)
(* A page that was never written has a length byte that is no packet's.    *)
(* The page cache of owcache.c stays empty (AddPage adds only what         *)
(* FindPage has found), so every read reads the part.  Extensions 100 to   *)
(* 102 (add files, which this part does not have, and monetary files),     *)
(* program jobs and the cursor of owFirstFile and owNextFile are left out. *)
(***************************************************************************)
EXTENDS Naturals, FiniteSets, Sequences, SequencesExt, FiniteSetsExt

CONSTANTS
  Files, Dirs,  \* names with an extension, names of directories
  MaxP,         \* maxPages(): the last page
  DirSlots,     \* entries in a directory page (4), the header is one
  Sizes,        \* lengths of what is written, in pages
  Handles,      \* 1 .. 4 for Han[0] to Han[3]
  MaxDepth,     \* levels of the current directory (10)
  MaxCalls,     \* bound: calls that may write
  MaxCuts       \* bound: calls that lose contact

Pages == 0 .. MaxP
Names == Files \cup Dirs

ASSUME FileAssumption ==
  /\ Files \cap Dirs = {} /\ MaxP \in Nat \ {0} /\ DirSlots \in Nat \ {0, 1}
  /\ Sizes \subseteq Nat \ {0} /\ Handles \subseteq 1 .. 4
  /\ \E longest \in Sizes : \A n \in Sizes : n <= longest
  /\ MaxDepth \in Nat /\ MaxCalls \in Nat /\ MaxCuts \in Nat

VARIABLES
  dev,       \* the pages of the part
  Han,       \* the open files
  CD,        \* start pages of the directories on the current path
  Internal,  \* the flag that lets calls use the internal handle
  hung,      \* the call runs for ever
  last,      \* the last call
  calls,     \* how many calls there were that may write
  cuts,      \* how many of them lost contact
  trusted    \* history: formatted, and no Misuse since

vars == <<dev, Han, CD, Internal, hung, last, calls, cuts, trusted>>

NoName == "none"
Stray  == MaxP + 1   \* a page number that is no page

\* A page is a directory page (with a header that has the bitmap, with the
\* header of a sub-directory, or without one), the k-th page of what was
\* written to a file, or blank.  The last page of a file is not filled.
Blank == [head |-> "blank", bm |-> {}, slots |-> <<>>, data |-> <<>>, next |-> 0]
RootPage == [Blank EXCEPT !.head = "root", !.bm = {0}]
DirPage  == [Blank EXCEPT !.head = "sub"]
Data(f, n) == [k \in 1 .. n |-> [Blank EXCEPT !.head = "none", !.data = <<f, k, n>>]]
Garbled == <<NoName, 0, 0>>

At(d, p)  == IF p \in Pages THEN d[p] ELSE Blank
IsDir(page)  == page.head \in {"root", "sub"}
Readable(page) == page.head # "blank"

\* What a directory page holds, its header first; it is full when its length
\* is 29, as is a page of data with more data behind it.
Header == [name |-> NoName, spage |-> 0, attr |-> FALSE]
Items(page) == (IF IsDir(page) THEN <<Header>> ELSE <<>>) \o page.slots
Full(page)  == IF page.data = <<>> THEN Len(Items(page)) = DirSlots ELSE page.next # 0

NoFile == [name |-> NoName, spage |-> 0, dpage |-> 0, pos |-> 1, attr |-> FALSE]

----------------------------------------------------------------------------
(* What is on the part *)

Longer(w, page) ==
  IF ~Readable(page) \/ page.next = 0 \/ Contains(w, page.next) THEN w
  ELSE Append(w, page.next)
Grown(d, w) == Longer(w, At(d, Last(w)))

\* The pages from s on, up to the last one, one that cannot be read, or one
\* before a page that was there already.
Walk(d, s) ==
  LET W[k \in 0 .. MaxP + 1] ==
        IF k = 0 THEN <<s>> ELSE Grown(d, W[k - 1])
  IN  W[MaxP + 1]

EndsIn(page)  == Readable(page) /\ page.next = 0
LoopsIn(page) == Readable(page) /\ page.next # 0
Ends(d, w)  == EndsIn(At(d, Last(w)))
Loops(d, w) == LoopsIn(At(d, Last(w)))

Spread(items, p, prev, header) ==
  [j \in 1 .. Len(items) - header |->
     [e |-> items[j + header], dpage |-> p, pdpage |-> prev, pos |-> j + header]]

\* The entries of the directory in the pages w, with the page of each, the
\* page before, and the position in the page.
Listing(d, w) ==
  FlattenSeq([k \in DOMAIN w |->
    IF k = 1 THEN Spread(Items(At(d, w[1])), w[1], w[1], 1)
    ELSE Spread(Items(At(d, w[k])), w[k], w[k - 1], 0)])

NoInfo == [e |-> Header, dpage |-> 0, pdpage |-> 0, pos |-> 0]
Having(list, name) == {k \in DOMAIN list : list[k].e.name = name}
FirstNamed(list, name) ==
  IF Having(list, name) = {} THEN NoInfo ELSE list[Min(Having(list, name))]
LastNamed(list, name) ==
  IF Having(list, name) = {} THEN NoInfo ELSE list[Max(Having(list, name))]

\* FindEmpties: the first free page and the second, 0 when there is none.
Avail(bm) == IF Pages \subseteq bm THEN 0 ELSE Min(Pages \ bm)
Behind(bm) == Avail(bm \cup {Avail(bm)})

\* GetMaxWrite, in pages.
GetMaxWrite(bm) ==
  Cardinality(Pages \ bm) + (IF Cardinality(Pages \ bm) + 1 > MaxP THEN 0 ELSE 1)

----------------------------------------------------------------------------
(* Steps of a call *)

\* The handle 4 is 0 here: it keeps nothing from call to call.  lost: contact
\* is lost for a write; blind: for the first search of the directory.
Call(left, torn, lost, blind) ==
  [dev |-> dev, han |-> [h \in Handles \cup {0} |-> IF h = 0 THEN NoFile ELSE Han[h]],
   cd |-> CD, internal |-> Internal, bm |-> {},
   info |-> NoInfo, spot |-> 0, dbuf |-> Blank, newpg |-> Blank,
   left |-> left, torn |-> torn, lost |-> lost, blind |-> blind, ok |-> TRUE, hung |-> FALSE]

Fail(c) == [c EXCEPT !.ok = FALSE]
Hang(c) == [c EXCEPT !.ok = FALSE, !.hung = TRUE]
Require(c, condition) == IF condition THEN c ELSE Fail(c)

\* Contact may be lost before the write or after it (torn).
Write_Page(c, p, page) ==
  IF ~c.ok THEN c
  ELSE IF c.left > 0 THEN [c EXCEPT !.dev[p] = page, !.left = @ - 1]
  ELSE IF c.torn THEN [c EXCEPT !.dev[p] = page, !.ok = FALSE]
  ELSE Fail(c)

\* BitMapChange
Mark(c, p) ==
  IF c.ok /\ p \in Pages THEN [c EXCEPT !.bm = @ \cup {p}] ELSE Fail(c)
Clear(c, p) ==
  IF c.ok /\ p \in Pages THEN [c EXCEPT !.bm = @ \ {p}] ELSE Fail(c)

ReadBitMap(c) ==
  IF c.ok /\ c.dev[0].head = "root" THEN [c EXCEPT !.bm = c.dev[0].bm] ELSE Fail(c)

WriteBitMap(c) ==
  IF c.dev[0].head = "root" THEN Write_Page(c, 0, [c.dev[0] EXCEPT !.bm = c.bm])
  ELSE Fail(c)

\* The first page of the current directory.
CdPage(cd) == IF cd = <<>> THEN 0 ELSE Last(cd)

\* A search comes to its end when it has found the name or the last page.
Found(c, info, endless) ==
  IF info = NoInfo /\ endless THEN Hang(c) ELSE [c EXCEPT !.info = info]

FindDirectoryInfo(c, s, name) ==
  IF ~c.ok THEN c
  ELSE IF ~IsDir(At(c.dev, s)) \/ c.blind THEN [c EXCEPT !.info = NoInfo]
  ELSE Found(c, FirstNamed(Listing(c.dev, Walk(c.dev, s)), name), Loops(c.dev, Walk(c.dev, s)))

\* A page of a file goes to the first free page and is marked.
Chunk(c, at, page, next) == Mark(Write_Page(c, at, [page EXCEPT !.next = next]), at)
MarkChunk(c, page, final) == Mark(Require(c, Avail(c.bm) # 0), Avail(c.bm))
NextChunk(c, page, final) ==
  Chunk(Require(c, Avail(c.bm) # 0), Avail(c.bm), page, IF final THEN 0 ELSE Behind(c.bm))

\* The first page is given, and points to the first free page.
ExtWrite(c, strt, chunks) ==
  LET n == Len(chunks)
      X[k \in 1 .. n] ==
        IF k = 1
        THEN Chunk(Require(c, Avail(c.bm) # 0), strt, chunks[1], IF n = 1 THEN 0 ELSE Avail(c.bm))
        ELSE NextChunk(X[k - 1], chunks[k], k = n)
  IN  IF n = 0 THEN Mark(c, strt) ELSE X[n]

\* Reads a file to its end and frees its pages in the bitmap.
FreedFirst(c, w) ==
  IF ~c.ok THEN c
  ELSE IF Loops(c.dev, w) THEN Hang(c)
  ELSE [c EXCEPT !.bm = @ \ {w[1]}, !.ok = Ends(c.dev, w)]
Freed(c, w) ==
  IF ~c.ok THEN c
  ELSE IF Loops(c.dev, w) THEN Hang(c)
  ELSE [c EXCEPT !.bm = @ \ {p \in ToSet(w) : Readable(At(c.dev, p))}, !.ok = Ends(c.dev, w)]
ExtRead(c, s) == Freed(c, Walk(c.dev, s))

----------------------------------------------------------------------------
(* owWriteFile *)

Room(c, full) == GetMaxWrite(c.bm) - (IF full THEN 1 ELSE 0)
Roomy(c, full, n) == Require(c, c.ok /\ Room(c, full) > 0 /\ n <= Room(c, full))

\* ReadNumEntry(-1): the first page of the directory w that has room, or the
\* last one.
Spotted(c, w, k) ==
  IF ~c.ok \/ ~IsDir(At(c.dev, w[1])) THEN Fail(c)
  ELSE IF k = 0 THEN Hang(c)
  ELSE IF ~Readable(At(c.dev, w[k])) THEN Fail(c)
  ELSE [c EXCEPT !.spot = w[k], !.dbuf = c.dev[w[k]]]

FindSpot(c, w) ==
  Spotted(c, w, SelectInSeq(w, LAMBDA p : ~Full(At(c.dev, p)) \/ ~LoopsIn(At(c.dev, p))))

\* The entry is looked for in the root, wherever the current directory is,
\* to the last page; the last one that matches counts.
Taken(c, h, info) ==
  IF info = NoInfo THEN [c EXCEPT !.info = info]
  ELSE [c EXCEPT !.info = info, !.newpg = c.dev[info.dpage],
                 !.han[h] = [@ EXCEPT !.spage = info.e.spage, !.attr = info.e.attr,
                                      !.dpage = c.spot, !.pos = info.pos]]
ToTheEnd(c, w) ==
  IF Loops(c.dev, w) THEN Hang(c) ELSE Require(c, Ends(c.dev, w))
Located(c, h, w) ==
  IF c.ok THEN ToTheEnd(Taken(c, h, LastNamed(Listing(c.dev, w), c.han[h].name)), w) ELSE c

Placed(c, h) ==
  IF c.ok /\ c.info = NoInfo THEN [c EXCEPT !.han[h].spage = Avail(c.bm)] ELSE c

\* Page 0 takes the bitmap with it.
Bits(c) == IF c.spot = 0 THEN c ELSE WriteBitMap(c)
WithBits(c, page) == IF c.spot = 0 THEN [page EXCEPT !.bm = c.bm] ELSE page

\* A new entry, in a page of its own when there is no room.
Added(page, entry) ==
  IF page.data = <<>> THEN [page EXCEPT !.slots = Append(@, entry)]
  ELSE [page EXCEPT !.data = Garbled]
AddIn(c, entry) ==
  Write_Page(Bits(c), c.spot, WithBits(c, Added(c.dbuf, entry)))
AddBehind(c, avail) ==
  Write_Page(Bits(c), c.spot, WithBits(c, [c.dbuf EXCEPT !.next = avail]))
AddPageUnmarked(c, entry, avail) ==
  AddBehind(Write_Page(c, avail, [Blank EXCEPT !.head = "none", !.slots = <<entry>>]), avail)
AddPage(c, entry, avail) ==
  AddBehind(Mark(Write_Page(c, avail, [Blank EXCEPT !.head = "none", !.slots = <<entry>>]), avail),
            avail)
AddEntry(c, h) ==
  IF Full(c.dbuf)
  THEN AddPage([c EXCEPT !.han[h].attr = FALSE],
               [name |-> c.han[h].name, spage |-> c.han[h].spage, attr |-> FALSE], Avail(c.bm))
  ELSE AddIn([c EXCEPT !.han[h].attr = FALSE],
             [name |-> c.han[h].name, spage |-> c.han[h].spage, attr |-> FALSE])

\* The page an old entry is in is written back as it was read.
Recorded(c, h) ==
  IF ~c.ok THEN c
  ELSE IF c.info = NoInfo THEN AddEntry(c, h)
  ELSE Write_Page(Bits(c), c.info.dpage, c.newpg)

Released(c, h) == [c EXCEPT !.han[h].name = NoName]
ReleasedIf(c, h, condition) == IF condition THEN Released(c, h) ELSE c
LetGo(c, h, n) == ReleasedIf(c, h, c.ok /\ n > 0)

Filled(c, h, chunks) == ExtWrite(c, c.han[h].spage, chunks)
RoomyFor(c, n) == Roomy(c, Full(c.dbuf), n)

Prepared(c, h, n) ==
  RoomyFor(Located(FindSpot(Roomy(ReadBitMap(Require(c, c.han[h].name # NoName)), FALSE, n),
                            Walk(c.dev, CdPage(c.cd))),
                   h, Walk(c.dev, 0)), n)

WriteReleased(c, h, chunks) ==
  Recorded(LetGo(Filled(Placed(Prepared(c, h, Len(chunks)), h), h, chunks), h, Len(chunks)), h)
owWriteFile(c, h, chunks) ==
  LetGo(Recorded(Filled(Placed(Prepared(c, h, Len(chunks)), h), h, chunks), h), h, Len(chunks))

----------------------------------------------------------------------------
(* The other functions *)

FreeHandles(han) == {h \in Handles : han[h].name = NoName}
OpenOn(han, name) == {h \in Handles : han[h].name = name}
Named(c, h, name) == [c EXCEPT !.han[h].name = name]

\* A failure lets go of the handle, which keeps its old place otherwise.
OrRelease(c, h) == ReleasedIf(c, h, ~c.ok)
Create(c, h) ==
  OrRelease(owWriteFile(Require(ReadBitMap(c), c.info = NoInfo), h, <<>>), h)
owCreateFile(c, h, name) ==
  Create(FindDirectoryInfo(
           [c EXCEPT !.han[h] = [@ EXCEPT !.name = name, !.spage = 0, !.attr = FALSE]],
           CdPage(c.cd), name), h)

Opened(c, h, name) ==
  IF ~c.ok \/ c.info = NoInfo THEN Fail(c)
  ELSE [c EXCEPT !.han[h] = [name |-> name, spage |-> c.info.e.spage, attr |-> c.info.e.attr,
                             dpage |-> c.info.dpage, pos |-> c.info.pos]]
owOpenFile(c, h, name) ==
  Opened(FindDirectoryInfo(c, CdPage(c.cd), name), h, name)

\* The first page of the directory is left as it is, but the entry of a page
\* that has no other goes with the page, and its place is free.
Slot(page, pos) == pos - (IF IsDir(page) THEN 1 ELSE 0)
WithoutNext(page, pos) == [page EXCEPT !.slots = RemoveAt(@, pos)]
Without(page, pos) == [page EXCEPT !.slots = RemoveAt(@, Slot(page, pos))]
Unlink(c, i) ==
  IF Len(Items(At(c.dev, i.dpage))) = 1
  THEN Write_Page(Clear(c, i.dpage), i.pdpage,
                  [c.dev[i.pdpage] EXCEPT !.next = c.dev[i.dpage].next])
  ELSE Write_Page(c, i.dpage, Without(c.dev[i.dpage], i.pos))
ToRoot(c) == IF c.ok THEN [c EXCEPT !.cd = <<>>] ELSE c
Erased(c) ==
  IF c.ok THEN ToRoot(WriteBitMap(Clear(Unlink(c, c.info), c.info.e.spage))) ELSE c

Close(c, open) == IF open = {} THEN c ELSE Released(c, Min(open))

\* A page that cannot be read ends the file; its first page is freed then.
Forgiven(c, s, before) ==
  IF before /\ ~c.ok /\ ~c.hung THEN Clear([c EXCEPT !.ok = TRUE], s) ELSE c
Freeing(c, s) == Forgiven(ExtRead(c, s), s, c.ok)

\* The first open handle of that name is closed, also when the rest fails.
Delete(c, name) ==
  IF ~c.ok \/ c.info = NoInfo \/ (c.info.e.attr /\ name \in Files) THEN Fail(c)
  ELSE Erased(Freeing(ReadBitMap(Close(c, OpenOn(c.han, name))), c.info.e.spage))
owDeleteFile(c, name) ==
  Delete(FindDirectoryInfo(Require(c, name \in Files \/ c.internal), CdPage(c.cd), name), name)

NewAttr(c, attr) ==
  IF ~c.ok \/ c.info = NoInfo THEN Fail(c)
  ELSE IF c.info.e.attr = attr THEN c
  ELSE Write_Page(c, c.info.dpage,
         [c.dev[c.info.dpage] EXCEPT !.slots[Slot(c.dev[c.info.dpage], c.info.pos)].attr = attr])
owAttribute(c, name, attr) == NewAttr(FindDirectoryInfo(c, CdPage(c.cd), name), attr)

\* What is at a position of a page gets a new name: an entry, a header, what
\* is behind the last entry (the pointer to the next page), or data.
HeaderRenamed(page, name, attr) ==
  [page EXCEPT !.head = "none", !.bm = {},
     !.slots = <<[name |-> name, spage |-> IF page.head = "root" THEN 0 ELSE Stray,
                  attr |-> attr]>> \o @]
SlotRenamed(page, i, name, attr) ==
  [page EXCEPT !.slots[i] = [@ EXCEPT !.name = name, !.attr = attr]]
Renamed(page, pos, name, attr) ==
  IF page.data # <<>> THEN [page EXCEPT !.data = Garbled]
  ELSE CASE pos = 1 /\ IsDir(page) -> HeaderRenamed(page, name, attr)
         [] pos <= Len(Items(page)) /\ ~(pos = 1 /\ IsDir(page)) ->
              SlotRenamed(page, Slot(page, pos), name, attr)
         [] pos = Len(Items(page)) + 1 -> [page EXCEPT !.next = Stray]
         [] pos > Len(Items(page)) + 1 -> page

\* The new name goes where the handle says the old one is.
Rename(c, h, name) ==
  IF ~c.ok THEN c
  ELSE IF c.info # NoInfo THEN Fail(Released(c, h))
  ELSE IF ~Readable(At(c.dev, c.han[h].dpage)) THEN Fail(c)
  ELSE Write_Page(c, c.han[h].dpage,
         Renamed(c.dev[c.han[h].dpage], c.han[h].pos, name, c.han[h].attr))
ReleasedWhenDone(c, h) == ReleasedIf(c, h, c.ok)
owReNameFile(c, h, name) ==
  ReleasedWhenDone(Rename(FindDirectoryInfo(c, CdPage(c.cd), name), h, name), h)

\* The internal flag is on while the directory is written, and stays on when
\* that fails.
Flagged(c) == [c EXCEPT !.internal = TRUE]
Unflagged(c) == IF c.ok THEN [c EXCEPT !.internal = FALSE] ELSE c

MakeDir(c) ==
  IF ~c.ok \/ c.info # NoInfo THEN Fail(c)
  ELSE ToRoot(Unflagged(owWriteFile(Flagged(c), 0, <<DirPage>>)))
owCreateDir(c, name) ==
  MakeDir(FindDirectoryInfo(Require(Named(c, 0, name), Len(c.cd) # MaxDepth), CdPage(c.cd), name))

\* Empty: the length of the packet is 8, and no page follows.
Empty(page) == page.data = <<>> /\ Len(Items(page)) = 1 /\ page.next = 0
RemoveEmpty(c) ==
  IF ~c.ok \/ c.info = NoInfo \/ ~Empty(At(c.dev, c.info.e.spage)) THEN Fail(c)
  ELSE Unflagged(Erased(ExtRead(ReadBitMap(Flagged(c)), c.info.e.spage)))
owRemoveDir(c, pg, name) == RemoveEmpty(FindDirectoryInfo(c, pg, name))

\* CD.Entry[CD.ne-2], which is outside the array with less than two entries.
ParentPages(cd) == IF Len(cd) < 2 THEN Pages \cup {Stray} ELSE {cd[Len(cd) - 1]}

\* One step along a path.
Enter(c) == IF ~c.ok \/ c.info = NoInfo THEN Fail(c)
            ELSE [c EXCEPT !.cd = Append(@, c.info.e.spage)]
Step(c, name) ==
  IF name = ".." THEN (IF c.cd = <<>> THEN Fail(c) ELSE [c EXCEPT !.cd = Front(@)])
  ELSE Enter(FindDirectoryInfo(c, CdPage(c.cd), name))
Along(c, path) ==
  LET P[k \in 0 .. Len(path)] == IF k = 0 THEN c ELSE Step(P[k - 1], path[k])
  IN  P[Len(path)]
OrBack(c, cd) == IF c.ok THEN c ELSE [c EXCEPT !.cd = cd]
owChangeDirectory(c, path, absolute) ==
  OrBack(Along(IF absolute THEN [c EXCEPT !.cd = <<>>] ELSE c, path), c.cd)

Closed(c) == IF c.ok THEN [c EXCEPT !.han = [h \in DOMAIN @ |-> [@[h] EXCEPT !.name = NoName]]] ELSE c
owFormat(c) ==
  Closed(WriteBitMap([Write_Page([c EXCEPT !.cd = <<>>], 0, RootPage) EXCEPT !.bm = {0}]))

----------------------------------------------------------------------------
(* The calls *)

Init ==
  /\ dev = [p \in Pages |-> Blank]
  /\ Han = [h \in Handles |-> NoFile]
  /\ CD = <<>> /\ Internal = FALSE /\ hung = FALSE
  /\ last = [op |-> "none", name |-> NoName, size |-> 0, hnd |-> 0, ok |-> TRUE, blind |-> FALSE]
  /\ calls = 0 /\ cuts = 0 /\ trusted = FALSE

\* A call writes at most so many pages: a file, two for a new page of the
\* directory, and page 0.
MaxWrites == 3 + Max(Sizes)

Untouched == Call(MaxWrites, FALSE, FALSE, FALSE)
Lost == {Call(cut[1], cut[2], TRUE, FALSE) : cut \in (0 .. MaxWrites - 1) \X BOOLEAN}
Blind == Call(MaxWrites, FALSE, FALSE, TRUE)
Attempts ==
  IF hung \/ calls = MaxCalls THEN {}
  ELSE {Untouched} \cup IF cuts = MaxCuts THEN {} ELSE Lost \cup {Blind}

Outcome(c, op, name, size, h) ==
  /\ dev' = c.dev /\ Han' = [k \in Handles |-> c.han[k]]
  /\ CD' = c.cd /\ Internal' = c.internal /\ hung' = c.hung
  /\ last' = [op |-> op, name |-> name, size |-> size, hnd |-> h,
              ok |-> c.ok, blind |-> c.blind]

----------------------------------------------------------------------------
(* Calls the code gets wrong, told from the state before them; history only *)

Root(d) == Listing(d, Walk(d, 0))
FreePages == Cardinality(Pages \ dev[0].bm)
NamesIn(page) == [k \in DOMAIN Items(page) |-> Items(page)[k].name]
HasEntry(page, pos, name) == pos \in DOMAIN NamesIn(page) /\ NamesIn(page)[pos] = name

\* The pages of a longer file are marked, but page 0 is written as it was read
\* before, unless the entry is in a later page of the root, and page 0 full;
\* and a write that is cut off has chained pages it has not marked.
LongWrite(c, op, name, size) ==
  /\ op = "write" /\ size > 1
  /\ c.lost \/ LastNamed(Root(dev), name).dpage = 0 \/ ~Full(dev[0])

\* The place in the handle is not where the entry is, or not in the directory
\* where the new name was looked for.
StaleRename(op, h) ==
  /\ op = "rename"
  /\ \/ ~HasEntry(At(dev, Han[h].dpage), Han[h].pos, Han[h].name)
     \/ ~Contains(Walk(dev, CdPage(CD)), Han[h].dpage)

\* The entry of the file is looked for in the root.
WriteBelow(op) == op = "write" /\ CD # <<>>

\* No free page is page 0, and the new page of the directory goes there.
OutOfPages(op) ==
  /\ op \in {"create", "write", "mkdir"}
  /\ \/ FreePages = 0
     \/ FreePages = 1 /\ \A p \in ToSet(Walk(dev, CdPage(CD))) : Full(At(dev, p))

\* The page of the new file still leads to the pages of an old one.
StalePage(op) == op = "create" /\ Readable(dev[Avail(dev[0].bm)])

\* The directories that can be reached, by their first page.
DirsOf(d) ==
  LET D[k \in 0 .. MaxDepth] ==
        IF k = 0 THEN {0}
        ELSE D[k - 1] \cup {x.e.spage : x \in {y \in UNION {ToSet(Listing(d, Walk(d, s))) :
                                                       s \in D[k - 1]} : y.e.name \in Dirs}}
  IN  D[MaxDepth]

\* The directory that is searched is none, but is still in the current path, or
\* stands where owRemoveDir looks for the one above.
NoDirectory(pg) == pg \notin DirsOf(dev)

\* A directory that could not be read is taken for one without the name.
Misuse(c, pg, op, name, size, h) ==
  \/ c.blind
  \/ NoDirectory(pg)
  \/ LongWrite(c, op, name, size)
  \/ StaleRename(op, h)
  \/ WriteBelow(op)
  \/ OutOfPages(op)
  \/ StalePage(op)

\* A call that lost contact has failed.
After(c, pg, op, name, size, h) ==
  /\ c.lost => ~c.ok
  /\ trusted' = \/ op = "format" /\ c.ok
                \/ trusted /\ ~Misuse(c, pg, op, name, size, h)
  /\ Outcome(c, op, name, size, h)
  /\ calls' = calls + 1
  /\ cuts' = cuts + (IF c.lost \/ c.blind THEN 1 ELSE 0)

owCreate ==
  \E c \in Attempts, name \in Files :
    /\ OpenOn(Han, name) = {} /\ FreeHandles(Han) # {}
    /\ After(owCreateFile(c, Min(FreeHandles(Han)), name), CdPage(CD), "create", name, 0,
             Min(FreeHandles(Han)))
owWrite ==
  \E c \in Attempts, h \in Handles, n \in Sizes :
    /\ Han[h].name # NoName
    /\ After(owWriteFile(c, h, Data(Han[h].name, n)), CdPage(CD), "write", Han[h].name, n, h)
owDelete ==
  \E c \in Attempts, name \in Names :
    After(owDeleteFile(c, name), CdPage(CD), "delete", name, 0, 0)
owSetAttribute ==
  \E c \in Attempts, name \in Names, attr \in BOOLEAN :
    After(owAttribute(c, name, attr), CdPage(CD), "attribute", name, 0, 0)
owReName ==
  \E c \in Attempts, h \in Handles, name \in Files :
    /\ Han[h].name # NoName
    /\ After(owReNameFile(c, h, name), CdPage(CD), "rename", name, 0, h)
owMakeDir ==
  \E c \in Attempts, name \in Dirs :
    After(owCreateDir(c, name), CdPage(CD), "mkdir", name, 0, 0)
owDropDir ==
  \E c \in Attempts, name \in Dirs, pg \in ParentPages(CD) :
    After(owRemoveDir(c, pg, name), pg, "rmdir", name, 0, 0)
owFormatPart ==
  \E c \in Attempts : After(owFormat(c), 0, "format", NoName, 0, 0)

owOpen ==
  \E name \in Files :
    /\ ~hung /\ FreeHandles(Han) # {}
    /\ Outcome(owOpenFile(Untouched, Min(FreeHandles(Han)), name), "open", name, 0,
               Min(FreeHandles(Han)))
    /\ trusted' = (trusted /\ ~NoDirectory(CdPage(CD)))
    /\ UNCHANGED <<calls, cuts>>
owCloseFile ==
  \E h \in Handles :
    /\ ~hung /\ Han[h].name # NoName
    /\ Outcome(Released(Untouched, h), "close", Han[h].name, 0, h)
    /\ UNCHANGED <<calls, cuts, trusted>>
owChange ==
  \E absolute \in BOOLEAN, path \in {<<>>} \cup {<<name>> : name \in Dirs \cup {".."}} :
    /\ ~hung /\ (absolute \/ path # <<>>)
    /\ Outcome(owChangeDirectory(Untouched, path, absolute), "chdir", NoName, 0, 0)
    /\ Len(CD') <= MaxDepth
    /\ trusted' = (trusted /\ ~NoDirectory(IF absolute THEN 0 ELSE CdPage(CD)))
    /\ UNCHANGED <<calls, cuts>>

\* A new process.
Restart ==
  /\ Han' = [h \in Handles |-> NoFile] /\ CD' = <<>>
  /\ Internal' = FALSE /\ hung' = FALSE
  /\ last' = [op |-> "restart", name |-> NoName, size |-> 0, hnd |-> 0, ok |-> TRUE,
              blind |-> FALSE]
  /\ UNCHANGED <<dev, calls, cuts, trusted>>

Next ==
  \/ owCreate \/ owWrite \/ owDelete \/ owSetAttribute \/ owReName
  \/ owMakeDir \/ owDropDir \/ owFormatPart
  \/ owOpen \/ owCloseFile \/ owChange \/ Restart

Spec == Init /\ [][Next]_vars

----------------------------------------------------------------------------
(* Properties *)

PageType ==
  [head : {"root", "sub", "none", "blank"}, bm : SUBSET Pages, next : 0 .. Stray,
   slots : Seq([name : Names, spage : 0 .. Stray, attr : BOOLEAN]),
   data : {<<>>, Garbled} \cup {<<f, k, n>> : f \in Files, k \in 1 .. Max(Sizes), n \in Sizes}]

TypeOK ==
  /\ dev \in [Pages -> PageType]
  /\ Han \in [Handles -> [name : Files \cup {NoName}, spage : 0 .. Stray,
                          dpage : 0 .. Stray, pos : Nat, attr : BOOLEAN]]
  /\ CD \in Seq(0 .. Stray) /\ Len(CD) <= MaxDepth
  /\ Internal \in BOOLEAN /\ hung \in BOOLEAN /\ trusted \in BOOLEAN
  /\ calls \in 0 .. MaxCalls /\ cuts \in 0 .. MaxCuts

\* The entries that can be reached.
EntriesOf(d) == UNION {ToSet(Listing(d, Walk(d, s))) : s \in DirsOf(d)}

Unique(list) == \A i, j \in DOMAIN list : list[i].e.name = list[j].e.name => i = j
Contents(d, s) == [k \in DOMAIN Walk(d, s) |-> At(d, Walk(d, s)[k]).data]

Chain(d, x) == ToSet(Walk(d, x.e.spage))
RootChain(d) == ToSet(Walk(d, 0))

\* A file that was created and not written starts in a page nobody wrote.
Whole(d, x) ==
  IF x.e.name \in Dirs THEN IsDir(At(d, x.e.spage)) /\ Ends(d, Walk(d, x.e.spage))
  ELSE Ends(d, Walk(d, x.e.spage)) \/ ~Readable(At(d, x.e.spage))

Apart(d, entries) ==
  /\ \A x, y \in entries : x # y => Chain(d, x) \cap Chain(d, y) = {}
  /\ \A x \in entries : Chain(d, x) \cap RootChain(d) = {}
  /\ \A x \in entries : Chain(d, x) \subseteq d[0].bm
  /\ RootChain(d) \subseteq d[0].bm

Bare(d, s) == \A p \in ToSet(Walk(d, s)) : At(d, p).data = <<>>

Sound(d) ==
  /\ d[0].head = "root" /\ Ends(d, Walk(d, 0))
  /\ \A x \in EntriesOf(d) : Whole(d, x)
  /\ \A s \in DirsOf(d) : Unique(Listing(d, Walk(d, s))) /\ Bare(d, s)
  /\ Apart(d, EntriesOf(d))

\* The directory can be read, no page of it is a file's, every name in it is
\* there once, every file ends, no two share a page, and every page in use is
\* marked, whatever was called since the part was formatted, cut off anywhere,
\* except the calls of Misuse; and no call runs for ever (owWriteFile,
\* owDeleteFile, owReNameFile, owCreateDir, owRemoveDir).
SoundKept == trusted => Sound(dev) /\ ~hung

\* A call on one file, cut off anywhere, changes nothing of any other: neither
\* its entry nor its pages.  Two calls do: owDeleteFile of a directory while
\* Internal is left over, and owCreateDir below the root of a name the root has.
OthersKept ==
  [][trusted /\ trusted' /\ dev' # dev /\ last'.op # "format"
     /\ ~(last'.op = "delete" /\ last'.name \in Dirs)
     /\ ~(last'.op = "mkdir" /\ CD # <<>>) =>
     \A x \in EntriesOf(dev) :
       \/ x.e.name \in Dirs \cup {last'.name}
       \/ last'.op = "rename" /\ x.e.name = Han[last'.hnd].name
       \/ /\ \E y \in EntriesOf(dev') : y.e = x.e
          /\ \A p \in Chain(dev, x) : dev'[p] = dev[p]]_vars

\* What owWriteFile has written is what a reader of that file gets.
ReadsBack ==
  [][trusted /\ trusted' /\ last'.op = "write" /\ last'.ok =>
     \E x \in ToSet(Root(dev')) :
       /\ x.e.name = last'.name
       /\ Contents(dev', x.e.spage) =
            [k \in 1 .. last'.size |-> <<last'.name, k, last'.size>>]]_vars

\* Delete frees all pages of the file and no page of another (owDeleteFile
\* reads the chain to free it, then frees the first page again, and Unlink may
\* free a page of the directory).
DeleteFrees ==
  [][trusted /\ trusted' /\ last'.op = "delete" /\ last'.ok =>
     \E x \in EntriesOf(dev) :
       /\ x.e.name = last'.name /\ \A y \in EntriesOf(dev') : y.e # x.e
       /\ dev'[0].bm \subseteq dev[0].bm \ Chain(dev, x)
       /\ dev[0].bm \ dev'[0].bm \subseteq Chain(dev, x) \cup {x.dpage}]_vars

\* "The bitmap bits are set each time a pages is written and verified"
\* (owpgrw.c:271-272): on the part, after owWriteFile.
FileRecorded ==
  [][last'.op = "write" /\ last'.ok =>
     \A x \in ToSet(Root(dev')) : x.e.name = last'.name => Chain(dev', x) \subseteq dev'[0].bm]_vars
=============================================================================
