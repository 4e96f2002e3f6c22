------------------------------ MODULE FakePty ------------------------------
(***************************************************************************)
(* The userspace daemon of fakeds1963s.c: the main thread that sets the    *)
(* emulator up, waits for a signal and takes it down, the reader thread    *)
(* that serves the master side of the pty, the signal handler, and the     *)
(* client on the slave side.  The bytes are counted, not looked at: what   *)
(* ds2480_process makes of them is the business of DS2480Sim.              *)
(***************************************************************************)
EXTENDS Integers

CONSTANTS
  InBuf,     \* sizeof(inbuf): most bytes one read returns
  ReplyLens, \* how many bytes ds2480_process may answer one read with
  InCap,     \* bytes the tty holds for the master's read
  OutCap,    \* bytes the tty holds for the slave's read
  MaxSend    \* bound: bytes the client sends in a behaviour

ASSUME PtyAssumption ==
  /\ InBuf \in Nat \ {0} /\ InCap \in Nat \ {0} /\ OutCap \in Nat \ {0}
  /\ ReplyLens \subseteq Nat
  /\ MaxSend \in Nat

VARIABLES
  mpc, rpc,        \* main thread, reader thread
  button, state,   \* "none", "live", "freed"
  mfd, keepopen,   \* "none", "open", "closed"
  handler, g_stop, \* sigaction done; the flag the handler sets
  cancel,          \* pthread_cancel has been called
  inq, outq,       \* bytes in the tty, towards the master and the slave
  pending,         \* outlen - written
  client,          \* is the slave open in a client?
  sent, got, produced   \* history: bytes sent, received, answered

heap    == <<button, state>>
fds     == <<mfd, keepopen>>
signals == <<handler, g_stop>>
link    == <<inq, outq, client, sent, got>>
vars == <<mpc, rpc, heap, fds, signals, cancel, link, pending, produced>>

Init ==
  /\ mpc = "initButton" /\ rpc = "none"
  /\ button = "none" /\ state = "none"
  /\ mfd = "none" /\ keepopen = "none"
  /\ handler = FALSE /\ g_stop = FALSE /\ cancel = FALSE
  /\ inq = 0 /\ outq = 0 /\ pending = 0
  /\ client = FALSE
  /\ sent = 0 /\ got = 0 /\ produced = 0

----------------------------------------------------------------------------
(* main: setting up.  A step that fails undoes what was done before it.     *)

MainRest == UNCHANGED <<rpc, link, pending, produced>>

InitButton ==
  /\ mpc = "initButton"
  /\ \/ button' = "live" /\ mpc' = "initState"
     \/ UNCHANGED button /\ mpc' = "exit"
  /\ UNCHANGED <<state, fds, signals, cancel>> /\ MainRest

InitState ==
  /\ mpc = "initState"
  /\ \/ state' = "live" /\ mpc' = "openMaster" /\ UNCHANGED button
     \/ button' = "freed" /\ mpc' = "exit" /\ UNCHANGED state
  /\ UNCHANGED <<fds, signals, cancel>> /\ MainRest

\* open_pty failed: open_pty closed what it had opened, main frees the rest.
GiveUp == /\ state' = "freed" /\ button' = "freed" /\ mpc' = "exit"
          /\ mfd' = IF mfd = "open" THEN "closed" ELSE mfd

OpenMaster ==
  /\ mpc = "openMaster"
  /\ \/ mfd' = "open" /\ mpc' = "grant" /\ UNCHANGED heap
     \/ GiveUp
  /\ UNCHANGED <<keepopen, signals, cancel>> /\ MainRest

\* grantpt, unlockpt, ptsname
Grant ==
  /\ mpc = "grant"
  /\ \/ mpc' = "openSlave" /\ UNCHANGED <<heap, mfd>>
     \/ GiveUp
  /\ UNCHANGED <<keepopen, signals, cancel>> /\ MainRest

OpenSlave ==
  /\ mpc = "openSlave"
  /\ \/ keepopen' = "open" /\ mpc' = "handlers" /\ UNCHANGED <<heap, mfd>>
     \/ GiveUp /\ UNCHANGED keepopen
  /\ UNCHANGED <<signals, cancel>> /\ MainRest

InstallHandlers ==
  /\ mpc = "handlers"
  /\ handler' = TRUE /\ mpc' = "spawn"
  /\ UNCHANGED <<heap, fds, g_stop, cancel>> /\ MainRest

Spawn ==
  /\ mpc = "spawn"
  /\ \/ rpc' = "read" /\ mpc' = "check" /\ UNCHANGED <<heap, fds>>
     \/ /\ GiveUp /\ keepopen' = "closed"
        /\ UNCHANGED rpc
  /\ UNCHANGED <<signals, cancel, link, pending, produced>>

----------------------------------------------------------------------------
(* main: waiting and taking down *)

\* while (!g_stop) pause(): between the test and the pause a signal is only
\* noticed by the handler.
Check ==
  /\ mpc = "check"
  /\ mpc' = IF g_stop THEN "cancel" ELSE "beforePause"
  /\ UNCHANGED <<heap, fds, signals, cancel>> /\ MainRest

Pause ==
  /\ mpc = "beforePause" /\ mpc' = "paused"
  /\ UNCHANGED <<heap, fds, signals, cancel>> /\ MainRest

\* Mutant: the reader is joined without having been cancelled.
CancelForgets ==
  /\ mpc = "cancel" /\ mpc' = "join"
  /\ UNCHANGED <<heap, fds, signals, cancel>> /\ MainRest

Cancel ==
  /\ mpc = "cancel" /\ mpc' = "join"
  /\ cancel' = TRUE
  /\ UNCHANGED <<heap, fds, signals>> /\ MainRest

\* Mutant: main does not wait for the reader.
JoinAtOnce ==
  /\ mpc = "join" /\ mpc' = "closeMaster"
  /\ UNCHANGED <<heap, fds, signals, cancel>> /\ MainRest

Join ==
  /\ mpc = "join" /\ rpc = "done" /\ mpc' = "closeMaster"
  /\ UNCHANGED <<heap, fds, signals, cancel>> /\ MainRest

CloseMaster ==
  /\ mpc = "closeMaster" /\ mpc' = "closeKeep" /\ mfd' = "closed"
  /\ UNCHANGED <<heap, keepopen, signals, cancel>> /\ MainRest

\* Mutant: the slave is left open.
CloseKeepForgets ==
  /\ mpc = "closeKeep" /\ mpc' = "freeState"
  /\ UNCHANGED <<heap, fds, signals, cancel>> /\ MainRest

CloseKeep ==
  /\ mpc = "closeKeep" /\ mpc' = "freeState" /\ keepopen' = "closed"
  /\ UNCHANGED <<heap, mfd, signals, cancel>> /\ MainRest

FreeState ==
  /\ mpc = "freeState" /\ mpc' = "freeButton" /\ state' = "freed"
  /\ UNCHANGED <<button, fds, signals, cancel>> /\ MainRest

FreeButton ==
  /\ mpc = "freeButton" /\ mpc' = "exit" /\ button' = "freed"
  /\ UNCHANGED <<state, fds, signals, cancel>> /\ MainRest

----------------------------------------------------------------------------
(* on_signal, on either thread.  In main it ends a pause; in the reader a    *)
(* blocked read or write returns EINTR and is tried again.                  *)

Alive == rpc \in {"read", "process", "write"}

SignalMain ==
  /\ handler /\ mpc # "exit"
  /\ g_stop' = TRUE
  /\ mpc' = IF mpc = "paused" THEN "check" ELSE mpc
  /\ UNCHANGED <<rpc, heap, fds, handler, cancel, link, pending, produced>>

SignalReader ==
  /\ handler /\ Alive
  /\ g_stop' = TRUE
  /\ UNCHANGED <<mpc, rpc, heap, fds, handler, cancel, link, pending, produced>>

----------------------------------------------------------------------------
(* reader_loop *)

ReaderRest == UNCHANGED <<mpc, heap, fds, signals, cancel, client, sent, got>>

\* Mutant: read waits until it can fill the buffer.
ReadWhole ==
  /\ rpc = "read" /\ inq >= InBuf
  /\ inq' = inq - InBuf
  /\ rpc' = "process"
  /\ UNCHANGED <<outq, pending, produced>> /\ ReaderRest

Read ==
  /\ rpc = "read" /\ inq > 0
  /\ \E n \in 1 .. InBuf : n <= inq /\ inq' = inq - n
  /\ rpc' = "process"
  /\ UNCHANGED <<outq, pending, produced>> /\ ReaderRest

\* ds2480_process
Process ==
  /\ rpc = "process"
  /\ pending' \in ReplyLens
  /\ produced' = produced + pending'
  /\ rpc' = IF pending' = 0 THEN "read" ELSE "write"
  /\ UNCHANGED <<inq, outq>> /\ ReaderRest

\* Mutant: a partial write counts as a whole one.
LeftAfterAll(w) == 0
\* Mutant: the rest is taken to be one byte shorter than it is.
LeftAfterShort(w) == pending - w - 1
LeftAfter(w) == pending - w

\* write takes as much as the tty has room for and blocks when it has none.
Write ==
  /\ rpc = "write" /\ outq < OutCap
  /\ \E w \in 1 .. OutCap - outq :
       /\ w <= pending
       /\ outq' = outq + w
       /\ pending' = LeftAfter(w)
  /\ rpc' = IF pending' = 0 THEN "read" ELSE "write"
  /\ UNCHANGED <<inq, produced>> /\ ReaderRest

\* An error of read or write ends the thread; nobody is told.  EIO, which
\* read reports when no slave is open, is one of them (EIOOnlyAtShutdown).
ReaderFails ==
  /\ rpc \in {"read", "write"}
  /\ rpc' = "done"
  /\ UNCHANGED <<inq, outq, pending, produced>> /\ ReaderRest

\* read and write are cancellation points.
Cancelled ==
  /\ cancel /\ rpc \in {"read", "write"}
  /\ rpc' = "done"
  /\ UNCHANGED <<inq, outq, pending, produced>> /\ ReaderRest

----------------------------------------------------------------------------
(* The client, and the tty between *)

ClientRest == UNCHANGED <<mpc, rpc, heap, fds, signals, cancel, pending, produced>>

ClientOpen ==
  /\ ~client /\ keepopen = "open" /\ client' = TRUE
  /\ UNCHANGED <<inq, outq, sent, got>> /\ ClientRest

ClientClose ==
  /\ client /\ client' = FALSE
  /\ UNCHANGED <<inq, outq, sent, got>> /\ ClientRest

Send ==
  /\ client /\ inq < InCap /\ sent < MaxSend
  /\ inq' = inq + 1 /\ sent' = sent + 1
  /\ UNCHANGED <<outq, client, got>> /\ ClientRest

Receive ==
  /\ client /\ outq > 0
  /\ outq' = outq - 1 /\ got' = got + 1
  /\ UNCHANGED <<inq, client, sent>> /\ ClientRest

----------------------------------------------------------------------------
Main == \/ InitButton \/ InitState \/ OpenMaster \/ Grant \/ OpenSlave
        \/ InstallHandlers \/ Spawn \/ Check \/ Pause \/ Cancel \/ Join
        \/ CloseMaster \/ CloseKeep \/ FreeState \/ FreeButton
Reader == Read \/ Process \/ Write \/ Cancelled
Client == ClientOpen \/ ClientClose \/ Send \/ Receive

Next == \/ Main \/ Reader \/ ReaderFails
        \/ SignalMain \/ SignalReader
        \/ Client

\* Both threads run; a client that has the slave open reads its replies; a
\* client comes back.  Signals and errors need not happen.
Spec == /\ Init /\ [][Next]_vars
        /\ WF_vars(Main) /\ WF_vars(Read \/ Process \/ Write)
        /\ WF_vars(Cancelled)
        /\ SF_vars(Receive) /\ WF_vars(ClientOpen)

----------------------------------------------------------------------------
(* Properties *)

TypeOK ==
  /\ mpc \in {"initButton", "initState", "openMaster", "grant", "openSlave",
              "handlers", "spawn", "check", "beforePause", "paused", "cancel",
              "join", "closeMaster", "closeKeep", "freeState", "freeButton",
              "exit"}
  /\ rpc \in {"none", "read", "process", "write", "done"}
  /\ button \in {"none", "live", "freed"} /\ state \in {"none", "live", "freed"}
  /\ mfd \in {"none", "open", "closed"} /\ keepopen \in {"none", "open", "closed"}
  /\ handler \in BOOLEAN /\ g_stop \in BOOLEAN /\ cancel \in BOOLEAN
  /\ client \in BOOLEAN
  /\ inq \in Nat /\ outq \in Nat /\ pending \in Nat
  /\ sent \in Nat /\ got \in Nat /\ produced \in Nat

\* As long as the reader thread runs, what it uses is there: the bridge and
\* the button in ds2480_process, the master in read and write
\* (fakeds1963s.c:189-194 frees them after pthread_join).
NoUseAfterFree ==
  /\ rpc = "process" => state = "live" /\ button = "live"
  /\ rpc \in {"read", "write"} => mfd = "open"

\* Whichever way main ends, it has freed and closed what it had.
NothingLeaks ==
  mpc = "exit" => /\ button # "live" /\ state # "live"
                  /\ mfd # "open" /\ keepopen # "open"

\* fakeds1963s.c:62-64: the end of the slave side "should only happen on
\* shutdown": a client that closes does not end the reader.
EIOOnlyAtShutdown == rpc = "read" => keepopen = "open"

\* When the reader waits for the next write of the client, every reply byte is
\* in the tty or with the client, partial and interrupted writes included.
RepliesHandedOver == rpc = "read" => produced = got + outq

\* A signal ends the daemon: the reader leaves its blocking calls, main joins
\* it and takes everything down.  The exception is a main thread in pause(): a
\* signal caught between the test of g_stop and pause() (fakeds1963s.c:186-187),
\* or on the reader thread, does not wake it.
StopNoticed == g_stop ~> mpc \in {"exit", "paused"}

\* What the client sent is taken from the tty, unless the daemon is being
\* stopped, never came up, or its reader has died of an error.
BytesServed == inq > 0 ~> (inq = 0 \/ g_stop \/ rpc = "done" \/ mpc = "exit")
=============================================================================
