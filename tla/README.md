# Verification of fakeds1963s

The repository emulates a DS1963S SHA iButton that sits behind a DS2480B
serial-to-1-Wire bridge, so that programs written against the Dallas 1-Wire SDK
can run without the hardware. This directory holds TLA+ models of the emulator's
own code (about 1250 lines of C) and of the part of the SDK in `client/ow` that
talks to it, model-checked with TLC, and proofs checked by TLAPS.

## 1. The system

    SDK (client/ow)     owfile.c, owpgrw.c     sha18.c, shaib.c     shadebit.c, sha33.c
                                |                     |                     |
                        ownetu.c, owtrnu.c, owllu.c, owsesu.c, ds2480ut.c
      |  WriteCOM / ReadCOM
      +-- simlink.c  (in process) ----------------+
      +-- /dev/pts/N -- fakeds1963s.c (daemon) ---+--> ds2480sim.c --> ds1963s.c
      +-- /dev/tty1963s -- fake-ds1963s.c --------+      bridge          button
                            (kernel module)               process, reset_pulse

| component | state it keeps | operations | interacts by |
|---|---|---|---|
| bridge, `ds2480sim.c` | mode, speed, search flag and block, config registers | `ds2480_process` over the bytes of one write, `ds2480_master_reset` | called by the three front ends; calls `button->process` and `button->reset_pulse` |
| button, `ds1963s.c` | nvram, secrets, scratchpad, TA, E/S, counters, `cmd_state` | ROM commands, Read/Write/Erase/Copy Scratchpad, Read Authenticated Page, Compute SHA | called by the bridge with one batch of data bytes |
| daemon, `fakeds1963s.c` | master and kept slave descriptors, `g_stop`, two threads | set-up, reader loop, signal handler, shutdown | pty with a client, `ds2480_process` |
| kernel module, `fake-ds1963s.c` | `g_serial_info`, tty driver, mutex | load, unload, open, write, close, port shutdown | tty core, `ds2480_process` |
| in-process link, `simlink.c` | `g_state`, `g_outbuffer`, `g_bufsize` | OpenCOM, CloseCOM, WriteCOM, ReadCOM, FlushCOM | called by the SDK, calls `ds2480_process` |
| link layers, `ds2480ut.c`, `owllu.c`, `owtrnu.c`, `owsesu.c` | UMode, UBaud, USpeed, ULevel, UVersion | detection, reset, bits, bytes, power, speed, blocks, sessions | one packet at a time over a link |
| device search, `ownetu.c` | LastDiscrepancy, LastFamilyDiscrepancy, LastDevice, SerialNum | owFirst, owNext, owSkipFamily, owFamilySearchSetup, owVerify, owAccess | the bridge's search accelerator, or bit by bit |
| file system, `owfile.c`, `owpgrw.c` | handles `Han`, current directory `CD`, `Internal`; on the part: directory pages, bitmap, page chains | create, write, open, close, delete, rename, attribute, directories, format | pages read and written one by one |
| SHA functions, `sha18.c`, `shaib.c` | none but `in_overdrive`; what a call needs is in the button's registers | data pages, authenticated reads, secrets, signatures, challenge and response | blocks behind a reset and a Resume, or behind a select |
| debits, `shadebit.c`, `sha33.c` | `SHAUser.accountFile`; on the token: a page with a header and two records | verify user and data, recover, debit, retry, refresh | four signed writes of 8 bytes to a DS1961S, signed by a coprocessor |
| CRC and SHA-1, `extern/` | none | crc16, crc8, SHA-1 | called by the button and the SDK |

What is hard about them:

* The bridge is a decoder with two nested loops, signed returns added to an
  unsigned index, and no state for what a write boundary cuts in two.
* The button's answers depend on the order of commands: which address and status
  registers an earlier command left, and which handler a batch reaches.
* The daemon has two threads, a signal handler that may run on either, blocking
  calls on a pty whose queues fill, and a shutdown that frees what the reader uses.
* The kernel module has failing allocations at five places, writes under a mutex
  and a port shutdown without it.
* The SDK's globals are a belief about the bridge, changed before a packet is known
  to have been understood; any exchange may fail, and the code detects the bridge anew.
* The search keeps its place between calls while devices come and go.
* The file system, the SHA functions and a debit change the part in several writes, any of
  which may be the last; a debit is repaired by the next terminal, from what the CRCs tell it.

What makes each correct: the bridge decodes every unit of the stream once and in
order, reads only its own write, keeps inside its reply room and returns; the
button's copies reach only what they were addressed to and authorised for, the
secrets stay sealed, and a host that believes a reply is right to; the daemon
never uses what it freed, leaks nothing, loses no reply and stops when told; the
kernel module does the same and gives each session a fresh bridge; the SDK and the
bridge stay in step or the SDK knows that they do not; a search reports every device
once; a file system stays readable and a call on one file leaves the others alone;
a page of the button is written or not, never in part, and a signature is over what
the caller was given with it; a debit happens or does not, and the terminal is told
which. `PROJECT.json` lists the hazards, line by line.

## 2. Modules

| module | what it is |
|---|---|
| `DS2480Codes` | byte codes of `extern/ds2480.h` and the bit-field decoding of a command byte |
| `DS2480Stream` | abstract: the stream of the host is decoded unit by unit; writes do not exist |
| `DS2480Sim` | the bridge as coded: one action per branch of the two loops, a write at a time |
| `DS1963S` | the button: one action per command handler |
| `FakePty` | the daemon: one action per step of `main` and of `reader_loop`, the handler on either thread, the client |
| `FakeTty` | the kernel module: load, unload, the tty operations |
| `OwLink` | the SDK's link layers and `simlink.c`, with a bridge that decodes as `DS2480Stream` does |
| `OwSearch` | the device search and `owVerify`, with devices that arrive and leave |
| `OwFile` | the file system on a part, calls cut off anywhere |
| `Sha18` | composes `sha18.c` and `shaib.c` with `DS1963S`: functions as sequences of exchanges with the button |
| `Debit` | debits from a DS1961S, its page torn or cut off anywhere, the retries and the recovery |
| `MC*` | instances for TLC |
| `DS2480SimProofs`, `DriverProofs` (of `FakePty` and `FakeTty`), `OwLinkProofs`, `OwSearchProofs`, `OwFileProofs` and `OwFileSoundProofs`, `Sha18Proofs` (also of `DS1963S`), `DebitProofs` | theorems |

### DS2480Sim
`device` is the part of `struct _ds2480_state_t` that is ever read. `pc` names the loop:
`idle` (not called), `top` (the outer loop), `cmd` and `data` (the inner ones),
`dispatch` (data mode after its loop). The stream of the host is one sequence,
and a write is the part `first..lim` of it, so a C index is a position minus `first`.
An action handles one byte of an inner loop. `Push` is OPUSH with its return of -1, which
`ds2480_process` adds to `i`: the run starts again where it began. `AllocFail` is the
-ENOMEM of `ds2480_process_data`, added to an unsigned index. `Dispatch` hands the bytes to the
search accelerator or the button and applies the mode switch. `bus` is
history: replies pushed, reset pulses, data bytes handed on. The button's reply is
any length in `ReplyLens`; a search block's 16 bytes are counted.

### DS1963S
`nvram`, `secrets` and `scratchpad` are one array, as in memory. A batch (one call of
`button->process`) is a sequence of one or two commands; which handler a command reaches
depends on `cmd_state` as in the code. LATCH_ES is split into `AA` and `E`. HIDE, MATCH and SEC are
zero for ever in the code, and the branches they guard are left out. SHA results
are the value `MAC`; CRC bytes are left out, but `reply` tells whether the handler computed one. `count`,
`outsize` and `fault` keep the lengths: `fault` is a fill of negative length, after which nothing is
modelled. `provided` and `everRead` are history.

### FakePty
`mpc` follows `main` statement by statement; `rpc` is the reader. Bytes in the two directions of the
tty are counted. A signal runs `on_signal` on main or on the reader and
ends a pause only on main. The client opens, closes, sends and receives as it likes.

### FakeTty
`mod` follows `fakeds1963s_init` and `fakeds1963s_exit`. `touched` is set by a use of freed
memory. The tty core is external: an open file pins the module, a file is
closed when no write runs on it, the port is shut down by its last close, and
unread replies go with it. A write takes the mutex (`Lock`), has the bridge answer into its own
`outbuf` (`Respond`) and puts that into the port before it gives the mutex up (`Answer`); `flip` is what
waits in the port, each byte marked with the client whose write it answers, and cut off at `FlipCap`. `due`
(answered by the bridge and not read) and `lost` (some reply did not fit) are history.

### OwLink
Everything runs in one process, so a call of the SDK is one action, and the state is one record `link`:
the bridge's mode, speed, baud register and search flag, the SDK's UMode, USpeed, UBaud and ULevel, and
`rx`, what is left in `g_outbuffer`. A function of the SDK is an operator from the link before it to the
link after it, and calls compose as in the code: owBlock calls owTouchReset, which on a failed read calls DS2480Detect.
The button answers a batch with what it was sent, with something else, with one byte too many (as after a
Resume), or not at all. The bridge decodes a packet unit by unit (`Decode`), which is what `DS2480Sim` does with
packets that end outside an escape (`DecodesStream`, `SimRefinesStream`); the 1024 bytes of `g_outbuffer` hold the replies to any packet.
`Plain` is data that the bridge does not take for commands: no timing byte in it, and no longer a packet than `sendlen` can count.

### OwSearch
The search is the code's loop over the discrepancies, on codes of any length; the bridge's 16-byte
search block is the path it takes through the devices present (`Path`). `wanted`, `took`, `since` and `seen` are
history: which devices an enumeration was asked for, which took part, which it reported.
Where the CRC bits begin is a constant: two codes never differ first in their CRC.

### OwFile
A page is a directory page, a page of a file, or blank; a file page says which piece of which write it is.
A call is a record `c` that each function of the code transforms: the part, the handles, the bitmap as read
(`bm`), the locals `info`, `spot`, `dbuf`, `newpg`, and `left`, the writes that still succeed. Contact may be lost
before a write or after it (`torn`), or in the first search of the directory (`blind`). Handle 4, which
owCreateDir and owRemoveDir use internally, is number 0 here and keeps nothing between calls.
`trusted` becomes true with a format and false with a call of `Misuse`: the calls the code gets wrong, each
told from the state before it (section 3). Abstractions: data is never taken for a directory entry; the last page of
a file is not filled; data renamed over becomes `Garbled`; a page number out of range is `Stray`; the length byte of a
page never written is no packet's; the page cache stays empty, because AddPage adds only what FindPage has found.
owCreateDir and owRemoveDir select the part with owAccess, which always fails against the emulator's Match ROM, so the
model is of the file system on a part that answers.

### Sha18
`Program` gives each function as a sequence of exchanges: a block of bytes, sent behind a reset or right behind a
select, and the check of what comes back. `SendBlock`, `Answer` (the actions of `DS1963S`) and `Accept` or `Refuse`
take one exchange; `LoseContact` ends a call before the button has seen a block or after it has answered. A
buffer holds one value throughout, and a CRC is good exactly when the handler computed one. SelectSHA
is its last owVerify, a Search ROM in one block; the longer fills that overdrive speed asks for are left out (every handler
fills the whole block, so they change no answer). InstallSystemSecret18 and BindSecretToiButton18 always stop in
CopySecretSHA18, because the address of a secret gets no CRC from the button; the exchanges behind that point are
modelled and never sent. `macOf` (what the last SHA result is over) and `may` (what a page may hold) are history.

### Debit
`page` is the account page of the token, a record of its three segments that are used; `file` is the copy in `SHAUser`. A segment
holds what the code tells apart: which record the header points at and whether the fields every update sets are whole, the balance, the
transaction ID, and whether the CRC fits; the CRC of B also says over which record A it was computed. `pc` follows
ExecuteTransaction from the write to the loop that reads the page back; `by` says who has called WriteDataPageSHA33. Each
segment is an action: written, not written, written and not confirmed, or torn. `before`, `after`, `spoiled` and `torn` are history. The token
and the coprocessor are external. A read of the page that failed and was not noticed (`sha33.c:410`) ends in a MAC
that the token refuses, because the MAC covers the page.

## 3. Runs

| run | shows | bounds |
|---|---|---|
| `sim_stream` | types; `DS2480Sim` implements `DS2480Stream` (safety and liveness) when no write ends inside an escape | all streams of 3 bytes of 9 kinds, 4 behind MODE_DATA, 4 behind a search command, and 5 bytes of mode switches; all cuts |
| `sim_limits` | no byte before the write is read; replies to command bytes stay in the room; a call returns unless it is starved | room for 4 bytes, 4 command bytes or up to 7 bytes of data and commands, a button that answers up to 3, ENOMEM 3 (so that both sides of the wrap are reached), 2 failures |
| `button_pages` | registers, reply lengths, secrets, reach of a copy, fills under the SDK's packets | 2 pages of 4 cells (one without and one with a counter), an address past nvram |
| `sha` | pages are whole, calls succeed exactly when they can, signatures are over what is returned | 3 pages of 3 cells (signs data; signs nothing; has a counter and signs both), 2 values, any number of calls and losses |
| `debit` | which balance is found after a debit that was cut off; what a terminal is told; the header is the commit | balances 0 to 3 with wrap-around, amounts 1 and 2, 2 transaction IDs, 1 retry, 2 torn segments; any number of debits, losses and recoveries |
| `pty` | lifetime, shutdown and service of the daemon | buffers of 2, replies of 0, 1, 3, 3 bytes sent: both queues fill and replies take several writes |
| `tty` | load failures, writes against each other and against close, replies in order, sessions, unload | 3 files, replies up to 2, flip buffer of 3 |
| `link` | globals and bridge in step, data delivered once | blocks with an escape, with a timing byte, too long, and so many escapes that `sendlen` wraps (UChar 8) and a tail of commands is sent; any number of calls |
| `search` | enumerations complete and in order, owVerify exact | 4 devices in 3 families, 6-bit codes with 2 CRC bits, any number of calls, arrivals and departures |
| `file` | the file system stays sound, other files untouched | 5 pages, 2 files and a directory, 2 entries a page (so that a directory grows), files of 1 and 2 pages, 5 writing calls of which 2 are cut off; restarts, opens and closes unbounded |

TypeOK is the one type invariant of each module that has one; the types of `FakeTty` (`TtyTypeOK`) are part of the invariant that is proved, and no run lists them; the button in `Sha18` is typed by its own, and the types of `Debit` are part of the invariant that is proved. `CHECK_DEADLOCK FALSE`
stands where the program may stop: the host has sent its stream, the daemon or the module has ended.

Four runs give TLC a VIEW. What it hides in `link` and `file` is what the last call returned, which no later step
reads and only action properties look at; in `sha` it is the history of the button, and between calls what the host kept of the call
before, which the next call overwrites; in `debit` it is the locals of a function that does not run. `file` has symmetry in the two files, whose names no definition tells apart,
and no liveness.

`ButtonCopyReach` proves for any address what `button_pages` checks at page addresses.

Runs that TLC must find violated show where the code departs from what the
repository says of it:

| run | the repository says | the code |
|---|---|---|
| `link_data` | `owtrnu.c:55`: a block of data is transferred | not one with the byte 0xC1, which ends data mode |
| `file_lost` | `owpgrw.c:271`: the bitmap is set for each page written | page 0 is written as it was read before; the second page stays free |

Departures that are plain in the code, that a model states as it is, and that have no run of their own:

* Bridge: an escape 0xE3 0xE3 that two writes share loses its byte and leaves data mode (`ds2480sim.c:146`, against 134-135;
  `DecodesStream` is of writes that do not end inside one). A timing byte in command mode leaves the baud register (`ds2480sim.c:78`; `DetectExact` says what follows from it).
  `ds2480_process` never fails, it loops (`simlink.c:120` expects a failure; `ReturnsOrStarves`, and `SimStarvedForever` proves the loop).
* Button: a copy moves 31 of 32 bytes (`ds1963s.c:237`; `sha18.c:271` says verified; `CopyReach`, `PagesWhole`) and accepts
  registers that nobody has read (`ds1963s.c:227`). Compute SHA answers success where nothing was computed
  (`ds1963s.c:111`, 139-141; `sha18.c:614`; `SignsWhatItReturns` names the pages). The write cycle counters never move (`ds1963s.c:241`;
  `sha18.c:469`). A padded Write Scratchpad does not set the status byte to 0x1F (`sha18.c:261`; `ds1963s.c:162`: a read does).
* SHA functions: ReadAuthPageSHA18 returns 0, a counter value, when its last read fails (`sha18.c:550`, against 470). ReadMemoryPageSHA18 without
  a Resume sends its block behind a reset, where it meets the ROM handler and comes back as sent (`sha18.c:448`); its -1 for a failed
  select is not FALSE (`sha18.c:427`). InstallSystemSecret18, BindSecretToiButton18 and MatchScratchpadSHA18 never succeed against the
  emulator (`ds1963s.c:183`, 302; `SucceedsExactly`).
* Link layers: owWriteByte(0) reports success when the exchange failed (`owllu.c:294`). owLevel(MODE_PROGRAM) changes UMode without
  sending (`owllu.c:448`). `sendlen` is a uchar that wraps (`owtrnu.c:81`): the tail of the packet is sent, without the byte that switches
  to data mode, and runs as commands that turn a search on or lose the baud rate (the exception `Plain` of the three properties). owAccess always fails against the emulator
  (`ds1963s.c:330`). The globals of `simlink.c` are one set for all ports.
* Debits: ExecuteTransaction returns FALSE for a debit that was made, when its first write was not confirmed and the page is right
  (`shadebit.c:705`). A retry signs whatever it reads, a torn balance too, and returns TRUE (`shadebit.c:721`). A recovery signs a torn record B
  (`shadebit.c:557`). A torn record A behind a good record B is rejected, since the CRC of B covers A (`shadebit.c:576`). A debit of more
  than the balance wraps (`shadebit.c:665`). RefreshPage33 takes the -1 of RefreshScratchpad33 for success and may load the challenge over the
  header (`sha33.c:651`); with a Resume the CRC includes the Resume byte, so that it is always -1 (`sha33.c:614`).
* Search: owSkipFamily trusts a LastFamilyDiscrepancy that a search behind it does not set back (`ownetu.c:362`).
* File system, the calls of `Misuse`: a file of several pages whose entry is in page 0 (`owfile.c:674`, run `file_lost`), or cut off; a
  rename through a handle whose place is stale (`owfile.c:1066`); a write below the root (`owfile.c:488`); a call that needs one more page
  than there is (`owfile.c:611`); a file created in a page that still leads to old ones (`owpgrw.c:296`); a directory page that
  could not be read (`owfile.c:1899`); a search in a directory that has been removed, which may still be the current one after a call
  cut off, or which owRemoveDir finds before its array (`owfile.c:170`): its old page leads to pages that are in use again, and taking
  an entry out of it frees the page of a live directory. `Internal` stays set when owCreateDir or owRemoveDir fails (`owfile.c:131-138`).

Properties that hold and deserve a word:

* `DecodesStream` is a refinement: the position of the abstract decoder is the index of
  whichever loop is running, and its `bus` counts the bytes collected in `processed` as delivered.
* `CleansUp` and `StopNoticed` say exactly where
  the code fails to clean up or to stop, and that it does so nowhere else: the
  failure of `tty_alloc_driver` (reads a freed bridge), the failure of
  `tty_register_driver` (forgets two objects), and a main thread in `pause()` that a
  signal has missed.
* `RepliesInOrder` is what the mutex of the kernel module is for: without it, or with it given up before the reply is in the port, two
  clients that write at once get their replies exchanged. It ends at a reply that does not fit, of which the driver takes no notice.
* `StaysInSync` and `DetectExact` together are the contract of the link layers: a call leaves the SDK and the bridge in step, or says that
  the bridge was not found again, and it is not found exactly when the baud register is not at 9600. Both except data that is not `Plain`,
  and `StaysInSync` a request for program level. `Delivered` says that success means the button was handed the caller's bytes, once, and that the
  result is the beginning of the answer to them; the exception is owWriteByte(0), whose failure looks like an echo.
* `PagesWhole` holds because a copy is the only step that changes a page and is authorised only after a read-back of the same call: a call
  cut off anywhere leaves residues (an address, the authorisation bit, SHA bytes in the scratchpad) that no later call takes for its own.
* `SignsWhatItReturns` relates the signature a caller gets to the page and the data of the same call, and names the one failure the
  caller is not told of.
* `Atomic` compares what the next terminal would find, recovery included, with the two balances of the last debit; its four exceptions are
  the places where `shadebit.c` fails, and without a torn segment there is none. `CommitsAtHeader` says why it holds: the header is
  written last. `TellsTruth` relates the result to the page across retries that have turned to the other record twice.
* `SoundKept` and `OthersKept` quantify over every sequence of calls and every place where contact may be lost. What
  they except is `Misuse`, decided from the state before a call: outside of it the code is right in every case of the run.

### Fairness
* `DS2480Sim`: weak fairness of the running call and of the host sending its stream. The code has no wait inside a call.
* `FakePty`: both threads run; cancellation acts at the next `read` or `write`; a client with the slave open
  reads what there is (strong, since it may close and open), and a client comes back. Signals and failures are not fair.
  The assumption about clients is what `BytesServed` rests on: with a client that never reads, the reader blocks in `write` for ever.
* `FakeTty`: a write that is running runs on; the mutex reaches every waiter (a kernel `struct mutex` hands off).
* `OwLink`, `OwSearch`, `OwFile`, `Sha18`, `Debit`: none. A call is one action, or a bounded number of exchanges; what must happen is stated
  of the step that returns. That a call of the file system may run for ever is a state (`hung`), and `SoundKept` excludes it.

## 4. Proofs

All theorems hold for every value of the constants that the named assumptions
(`SimAssumption`, `ButtonAssumption`, `PtyAssumption`, `TtyAssumption`, `LinkAssumption`, `SearchAssumption`, `FileAssumption`,
`ShaAssumption`, `DebitAssumption`) allow. `MacCells # {}` in `ButtonAssumption` says that a SHA result has bytes: without any, a signature that was not
computed would equal one that was.

* `DS2480SimProofs`: `SimInv` is `TypeOK`, `CommandRepliesFit` and `IndexInv`. `ReadsOwnWrite` is not
  inductive: it says nothing of an index that has passed the end of the write, which an error still moves.
  `IndexInv` keeps every index at or above `first`. `SimStarvedForever` (no step leads out of a call that has
  met a full buffer) needs `RunInv` on top: the bytes between
  the start of a run and its index are command bytes, so that the run ends in the same full buffer when it is repeated.
  The refinement: `SimDecodesUnlessDisturbed` maps every step to a step of `DS2480Stream` or to a stutter, except the three that `Disturbance`
  names: a failed allocation, a push into a full room, a mode switch read off an escape that the end of the write has cut. `StreamInv`
  adds to `SimInv` that a run of data bytes ends where the code leaves its loop. `SimRefinesStream` removes the exceptions from their causes: no
  cut escapes, no failing allocation, and a room that covers `r` replies a byte and one search block (`Roomy`), for which `RoomInv` bounds
  what was pushed by what was read. `sim_stream` is an instance of its hypotheses.
* `Sha18Proofs`, the button: `ButtonInv` adds to the type invariant that `E` is zero before the first Read
  Scratchpad (the length of a copy is then zero) and that the history agrees with the registers. `ButtonCopyReach` and `ButtonSecretsSealed` are
  action properties proved from it; the second assumes `PageAddressed`, that the host sends page addresses only, because
  without it a copy near the end of nvram does reach the secrets. `ButtonEnoughReply` assumes `SentWhole`: every memory command
  comes whole, in one batch, and is one the button knows. `ReplyInv` carries the length of the packet from the batch to the handler it will meet,
  through the ROM layer, which may have taken a byte of it.
* `DriverProofs`, the daemon: `PtyInv` says what main holds at each of its steps, that
  the reader runs only while main serves, and that reply bytes balance. `EIOOnlyAtShutdown` (the kept slave is open while the reader waits) is
  proved and not run.
* `DriverProofs`, the kernel module: `TtyInv` is `TtyTypeOK`, what each step of the load holds (`TtyHoldings`), `TouchesOnlyOnNoDriver`, that an open file pins the module
  (`Pinned`), mutual exclusion of writers (`WritesExclude`), `Between` (with no open file the bridge is reset and no reply waits) and
  `Delivery`: what is due is what waits in the port and, behind it, the reply of the holder of the mutex. `TtyRepliesInOrder` follows from that.
  `TtyResetOutsideWrites` follows: the last close finds no file in a write, hence nobody holds the mutex.
* `OwSearchProofs`: `SearchInv` is `TypeOK`, `NoFalseError`, and two parts about an enumeration: `Fresh` (before its first search it
  starts at the front, or at the front of the family it was set up for) and `Running` (LastDiscrepancy is the last position of the
  last walk where a branch is left, and every device to report was reported or comes later). Completeness and order follow for ROM codes of
  any length and any set of devices. The lemmas are about the order of codes: where two first differ, and that a search takes the least one
  behind the discrepancy. The assumption on codes is that two never differ first in their CRC. `SearchVerifyExact` rests on it: the answer that
  agrees with the selected number up to its CRC is that device (`SameBeforeCrc`), and then the CRC bits alone are as many good bits as
  owVerify asks for (`CrcBitsAreGood`).
* `OwLinkProofs`: `LinkTypes`, `LinkStaysInSync`, `LinkDetectExact` and `LinkDelivered`, for any blocks, ROM codes and answers, any length of a search
  block and any width of `sendlen`. A call is one action, so the work is not in the interleaving but in the packets. The decoder over a packet is a
  recursive function, and what it does to a packet of any length is proved by induction (`Upto`: a statement about a set, by way of a least
  counterexample). `CommandPacket`: commands that are `Tame` leave the bridge in command mode at its baud rate and without a search. `DataPacketLink`: a block
  without a timing byte, escaped by one loop and unescaped by the other, arrives as it was; the two indices run apart by the number
  of escapes (`Reached`). `SearchPacketLink`: the packet of owNext ends with the accelerator off. `DetectLink`: a detection puts both sides in step from any state, in
  the middle of a block too. Above the packets each function is one of a few relations, which compose as the calls do: `Keeps` (commands only), `Does`
  (commands, then data), `Stays`. `InSync` is not kept inside a call, since a failed detection may leave another baud rate and owOverdriveAccess goes on
  behind one; `Stay` and `Found` say what is kept, and a call turns them into the properties (`Outcome`).
* `OwFileProofs`: `FileTypeCorrect` holds of anything that may be on the part, also after the calls of `Misuse`: chains that loop or lead out of the
  part, data where a directory should be. So every function has to be followed on every input, and not on the sound parts only. A relation
  `Goes(c, e, S)` (types are kept, the current directory stays or becomes the root, a failure is final, no page outside `S` is written)
  composes as the functions do. The recursive functions are handled by `Recursion` (such a function exists, and stays in
  a set that its step keeps) and `Upto`; a chain of any length is known by what leads from page to page (`Leads`), an entry by the
  place it was found at (`Entered`). The sets `S` give `FileTouches`, the pages each call may write.
* `OwFileSoundProofs`: `FileSoundKept`. Contact may be lost after any write, so what a call has left has to be sound after each: `Fine(c)`, kept by each
  function (`<name>Fine`). `Sound` is about chains that a step bound computes (`Walk`); a `Path` is the same chain without the bound, page by page, and
  by counting pages (`FiniteSetTheorems`) one that ends has no page twice and fits the bound. `Chained` says of a sound part what its directories and
  files are, chain by chain. A call writes one directory page at a time: `Edited` is what such a write makes of the entries of one directory (those
  of before, but for one that is new, renamed or gone), and `EditedSound` takes a sound part to a sound one, given that the chain of a new entry is of
  pages nobody has (`Novel`) or is a chain of before (`Old`). Writes outside every chain change nothing that is reached (`Alikes`). A file of many
  pages is written front to back: `Laid` says that what is written so far is a chain of the file's first page and of pages that were free, each
  with its chunk, and that the last one leads to the page that comes next. The bitmap is written before an entry points at new pages and after it has let go of old ones, which is why marks are never
  missing. `FileOthersKept` is about two states, so `Sound` after the call does not give it: `Moved(d, e, N)` says, page by page of every
  directory, that an entry stays unless its name is one of `N` (an empty directory among them), and that the page leads where it did unless the next
  page held only such entries. It holds of one write and composes over those before it; `MovedDirs` carries it down the tree from the root,
  and `MovedHolding` along each chain.
  With that, `FileOthersPages` and `FileDeleteFrees` follow: `Sound` says that chains are apart and marked, so a page that is free, or in the
  directory, is in no other chain; what remains is that the directory the call works in is the root or an entry (`DirsOfType`, `Careful`).
  `FileReadsBack` joins two halves: what the pages hold when they are written (`Shows`: of one page, or by `Laid`), and that the entry is in the root
  afterwards, leading to the first of them (`Stored`). An entry that was found there stays by `Moved`; one that is new was put into a slot of a directory
  page or of a page behind it (`Filed`), and none of these writes touches the pages of the file. `Sound` has a part
  for this, that no page of a directory holds data (`Bare`): the code takes a page of data for full by the page that follows it, and not by its entries.
* `Sha18Proofs`, the functions: a sequence of exchanges is `Proper` if it copies to a page only right behind an exchange that has read the
  scratchpad back, only to the page of the call, and only in a call that writes; each function is shown to be one, whatever its
  arguments (`Programs`). `ShaInv` carries this through the run: what is left of a call is lawful, a read-back or a copy that
  is on its way says what the scratchpad holds (`Flight`, `Primed`), and every page is whole. Without `Flight` the invariant is not inductive:
  `PagesWhole` says nothing of the scratchpad a copy will take. The lemmas `PageStart`, `PageCells` and `PagesApart` are the
  arithmetic of pages for any page size. For `ShaSucceedsExactly` and `ShaSignsWhatItReturns`, `SureInv` follows a call that has lost no contact. If
  the button has what the call needs, its sequence is `Secure`: what each exchange demands of registers and scratchpad (`Demands`) the one
  before has supplied (`Supplies`), and the first demands nothing, so that what earlier calls left does not matter. Otherwise it is `Doomed`: an exchange
  to which the button has no good answer comes before the return. The properties are about the step that returns and say nothing of the exchanges
  before it; `SureInv` is what makes them inductive.
* `DebitProofs`: `DebitInv` says that a write is always an update on its way (`Updates`: the record pointed at is not touched before the header is)
  or a recovery (`Fixes`), and that a debit that nothing has spoiled keeps the record it started from (`Half`, `Target`, `Sound`);
  and that without a torn segment the page stays `Whole`. `Atomic`
  alone is not inductive: it says nothing of the record behind the header, which the header will make the valid one. The lemmas are about one segment,
  written or torn; the theorems hold for balances of any width, any amounts, and any number of retries and torn segments.

Only model-checked:

* Liveness, and whatever rests on fairness: the fairness part of `DecodesStream`, `ReturnsOrStarves`, `StopNoticed`, `BytesServed`, `WritesReturn`.
* `BlockTransferred` and `file_lost` are violated; a counterexample needs no proof.

## 5. Not modelled

* SHA-1 (a pure function; one opaque value here) and the CRCs; the contents of search replies; debug output.
* owProgramPulse and owProgramByte (no programming voltage), the packet helpers of owtrnu.c (owBlock with a CRC).
* Of the file system: extensions 100 to 102 (files to add to, monetary files), program jobs and EPROM parts, the copying of
  owReadFile, the cursor of owFirstFile and owNextFile.
* Of the SHA protocols: FindNewSHA and its callers (FindNewSHA never clears `needsFirst`, so that after one empty pass every
  search starts from the first device), the secrets of DS1961S parts, the parsing of a coprocessor file.
* Memory banks (`rawmem.c`, `mb*.c`) and the other device families. Most are tables of functions for parts the emulator is not. The three banks
  of family 0x18 (`mbscr.c`, `mbnv.c`, `mbsha.c`) send the commands of `Sha18` again, at addresses that need not be the start of a page.
* Of debits: the account of a DS1963S (one page, which `Sha18` writes whole or not), installation, and `shadbtvm.c`, the same protocol with a
  coprocessor in software.
* The SDK's other links and applications, and the two example programs.
* Answers that arrive late or in pieces over the pty: the link of `OwLink` is `simlink.c`, which answers at once.
* `ds2480_soft_reset` and `ds1963s_reset` have no caller.

## 6. What is left

1. `PtyLink`: the link layers over the daemon, where a packet may arrive in pieces and a flush races a reply; sessions that
   follow each other without a bridge reset.
2. `FindNewSHA`: the three lists of known parts over `OwSearch`.
3. `Crc`: `crc16_iter` and the crc8 table against the shift registers.
4. The account of a DS1963S: the transactions of `shadebit.c` over `Sha18`; the banks of family 0x18 with partial pages.
5. Proofs: liveness, should a prover for it be at hand.
