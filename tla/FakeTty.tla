------------------------------ MODULE FakeTty ------------------------------
(***************************************************************************)
(* The kernel module of fake-ds1963s.c: loading and unloading it, with     *)
(* every allocation that can fail, and the tty operations that its clients *)
(* reach through the tty core.  The tty core is modelled by what it        *)
(* guarantees its drivers: an open file pins the module, a file is         *)
(* released when no write on it is running, and the port is shut down by   *)
(* the close of its last file.  A byte of a reply is the client whose      *)
(* write it answers.                                                       *)
(***************************************************************************)
EXTENDS Integers, SequencesExt

CONSTANTS
  Clients,   \* open files of the device
  TtyReplyLens, \* how many bytes ds2480_process may answer a write with
  FlipCap,   \* bytes the port's flip buffer holds
  NoClient   \* nobody holds the mutex

ASSUME TtyAssumption ==
  /\ NoClient \notin Clients
  /\ TtyReplyLens \subseteq Nat
  /\ FlipCap \in Nat

VARIABLES
  mod,                          \* where loading and unloading stand
  info, port, driver,           \* "none", "live", "freed"
  g_button, g_state,            \* the same: the button and the bridge
  touched,                      \* freed memory has been used
  bridge,                       \* "fresh" after ds2480_master_reset, else "used"
  file,                         \* per client: "closed", "open", and inside a write
                                \* "write", "locked", "answered"
  mutex,                        \* who holds g_serial_info->m
  outbuf,                       \* per client: the reply its write has not delivered
  flip,                         \* the bytes that wait in the port for the clients
  due,                          \* history: what the bridge answered and nobody read
  lost                          \* history: some reply of this session did not fit

owned   == <<info, port, g_button, g_state, driver>>
replies == <<outbuf, flip, due, lost>>
ttyVars == <<mod, owned, touched, bridge, file, mutex, replies>>

TtyInit ==
  /\ mod = "kzalloc"
  /\ info = "none" /\ port = "none" /\ g_button = "none" /\ g_state = "none"
  /\ driver = "none"
  /\ touched = FALSE /\ bridge = "used"
  /\ file = [c \in Clients |-> "closed"] /\ mutex = NoClient
  /\ outbuf = [c \in Clients |-> <<>>] /\ flip = <<>>
  /\ due = <<>> /\ lost = FALSE

----------------------------------------------------------------------------
(* fakeds1963s_init: each step succeeds, or undoes the steps before it.     *)

NoTraffic == UNCHANGED <<file, mutex, replies>>

AllocInfo ==
  /\ mod = "kzalloc"
  /\ \/ info' = "live" /\ port' = "live" /\ mod' = "button"
     \/ UNCHANGED <<info, port>> /\ mod' = "failed"
  /\ UNCHANGED <<g_button, g_state, driver, touched, bridge>> /\ NoTraffic

AllocButton ==
  /\ mod = "button"
  /\ \/ g_button' = "live" /\ mod' = "state" /\ UNCHANGED <<info, port>>
     \/ /\ port' = "freed" /\ info' = "freed" /\ mod' = "failed"
        /\ UNCHANGED g_button
  /\ UNCHANGED <<g_state, driver, touched, bridge>> /\ NoTraffic

AllocState ==
  /\ mod = "state"
  /\ \/ /\ g_state' = "live" /\ bridge' = "fresh" /\ mod' = "driver"
        /\ UNCHANGED <<info, port, g_button>>
     \/ /\ g_button' = "freed" /\ port' = "freed" /\ info' = "freed"
        /\ mod' = "failed" /\ UNCHANGED <<g_state, bridge>>
  /\ UNCHANGED <<driver, touched>> /\ NoTraffic

\* The failure path frees the bridge and then finds the button through it.
AllocDriver ==
  /\ mod = "driver"
  /\ \/ driver' = "live" /\ mod' = "register"
        /\ UNCHANGED <<info, port, g_button, g_state, touched>>
     \/ /\ g_state' = "freed" /\ touched' = TRUE /\ g_button' = "freed"
        /\ port' = "freed" /\ info' = "freed"
        /\ mod' = "noDriver" /\ UNCHANGED driver
  /\ UNCHANGED bridge /\ NoTraffic

\* The failure path keeps info and driver.
RegisterDriver ==
  /\ mod = "register"
  /\ \/ mod' = "loaded" /\ UNCHANGED <<port, g_button, g_state>>
     \/ /\ port' = "freed" /\ g_button' = "freed" /\ g_state' = "freed"
        /\ mod' = "notRegistered"
  /\ UNCHANGED <<info, driver, touched, bridge>> /\ NoTraffic

----------------------------------------------------------------------------
(* The tty operations *)

Touches(objects) == touched' = (touched \/ \E o \in objects : o # "live")

Opened == {c \in Clients : file[c] # "closed"}

Open(c) ==
  /\ mod = "loaded" /\ file[c] = "closed"
  /\ file' = [file EXCEPT ![c] = "open"]
  /\ UNCHANGED <<mod, owned, touched, bridge, mutex, replies>>

LastClose(c) == Opened = {c}

\* What was not read goes with the last file.
Closed(c) ==
  /\ file[c] = "open"
  /\ file' = [file EXCEPT ![c] = "closed"]
  /\ IF LastClose(c)
     THEN flip' = <<>> /\ due' = <<>> /\ lost' = FALSE /\ UNCHANGED outbuf
     ELSE UNCHANGED replies
  /\ UNCHANGED <<mod, owned, mutex>>

\* Mutants: the reset done at every close of a file (in .close, where it is
\* not the tty core's last close); not done at all.
CloseResets(c) == Closed(c) /\ bridge' = "fresh" /\ Touches({info, g_state})
CloseKeeps(c)  == Closed(c) /\ UNCHANGED <<bridge, touched>>

\* tty_port_close; for the last file the tty core calls port_shutdown, which
\* resets the bridge without the mutex.
Close(c) ==
  /\ Closed(c)
  /\ IF LastClose(c)
     THEN bridge' = "fresh" /\ Touches({info, g_state})
     ELSE UNCHANGED <<bridge, touched>>

EnterWrite(c) ==
  /\ file[c] = "open"
  /\ file' = [file EXCEPT ![c] = "write"]
  /\ Touches({info})
  /\ UNCHANGED <<mod, owned, bridge, mutex, replies>>

Lock(c) ==
  /\ file[c] = "write" /\ mutex = NoClient
  /\ mutex' = c /\ file' = [file EXCEPT ![c] = "locked"]
  /\ UNCHANGED <<mod, owned, touched, bridge, replies>>

ReplyTo(c, n) == [i \in 1 .. n |-> c]

\* ds2480_process answers into outbuf.
Responded(c) ==
  /\ file[c] = "locked"
  /\ bridge' = "used"
  /\ \E n \in TtyReplyLens :
       /\ outbuf' = [outbuf EXCEPT ![c] = ReplyTo(c, n)]
       /\ due' = IF lost THEN due ELSE due \o ReplyTo(c, n)
  /\ Touches({info, g_state, g_button})
  /\ file' = [file EXCEPT ![c] = "answered"]
  /\ UNCHANGED <<mod, owned, flip, lost>>

\* Mutant: the mutex is given up as soon as the bridge has answered.
RespondUnlocks(c) == Responded(c) /\ mutex' = NoClient

\* The mutex stays held until the reply is in the port.
Respond(c) == Responded(c) /\ UNCHANGED mutex

Fits(reply) == Len(flip) + Len(reply) <= FlipCap

\* tty_insert_flip_string takes what fits; the driver does not look at how
\* much that was.
Flipped(reply) ==
  IF Fits(reply) THEN flip \o reply ELSE SubSeq(flip \o reply, 1, FlipCap)

\* Mutant: a return between mutex_lock and mutex_unlock.
AnswerKeepsLock(c) ==
  /\ file[c] = "answered"
  /\ file' = [file EXCEPT ![c] = "open"]
  /\ outbuf' = [outbuf EXCEPT ![c] = <<>>]
  /\ UNCHANGED <<mod, owned, touched, bridge, mutex, flip, due, lost>>

\* The reply goes into the port; mutex_unlock.
Answer(c) ==
  /\ file[c] = "answered"
  /\ flip' = Flipped(outbuf[c])
  /\ lost' = (lost \/ ~Fits(outbuf[c]))
  /\ due' = IF lost' THEN <<>> ELSE due
  /\ Touches({info, port})
  /\ mutex' = NoClient
  /\ file' = [file EXCEPT ![c] = "open"]
  /\ outbuf' = [outbuf EXCEPT ![c] = <<>>]
  /\ UNCHANGED <<mod, owned, bridge>>

ReadReply(c) ==
  /\ file[c] = "open" /\ flip # <<>>
  /\ flip' = Tail(flip) /\ due' = IF lost THEN due ELSE Tail(due)
  /\ UNCHANGED <<mod, owned, touched, bridge, file, mutex, outbuf, lost>>

----------------------------------------------------------------------------
(* fakeds1963s_exit; the module cannot go while a file is open.             *)

Unload ==
  /\ mod = "loaded" /\ Opened = {}
  /\ mod' = "unregistered"
  /\ Touches({info, g_state})
  /\ UNCHANGED <<owned, bridge>> /\ NoTraffic

PutDriver ==
  /\ mod = "unregistered" /\ mod' = "freeing"
  /\ driver' = "freed" /\ port' = "freed"
  /\ UNCHANGED <<info, g_button, g_state, touched, bridge>> /\ NoTraffic

\* Mutant: no kfree(g_serial_info).
FreeAllButInfo ==
  /\ mod = "freeing" /\ mod' = "unloaded"
  /\ g_state' = "freed" /\ g_button' = "freed"
  /\ UNCHANGED <<info, port, driver, touched, bridge>> /\ NoTraffic

FreeAll ==
  /\ mod = "freeing" /\ mod' = "unloaded"
  /\ g_state' = "freed" /\ g_button' = "freed" /\ info' = "freed"
  /\ UNCHANGED <<port, driver, touched, bridge>> /\ NoTraffic

----------------------------------------------------------------------------
Load == AllocInfo \/ AllocButton \/ AllocState \/ AllocDriver \/ RegisterDriver
Unloading == Unload \/ PutDriver \/ FreeAll
Serve(c) == Lock(c) \/ Respond(c) \/ Answer(c)
Traffic(c) == Open(c) \/ Close(c) \/ EnterWrite(c) \/ Serve(c) \/ ReadReply(c)

TtyNext == Load \/ Unloading \/ \E c \in Clients : Traffic(c)

\* A write that has been entered runs on.  Locks are handed to waiters in
\* turn (struct mutex hands off to a starved waiter), hence SF.
TtySpec == /\ TtyInit /\ [][TtyNext]_ttyVars
           /\ \A c \in Clients :
                SF_ttyVars(Lock(c)) /\ WF_ttyVars(Respond(c) \/ Answer(c))

----------------------------------------------------------------------------
(* Properties *)

Life == {"none", "live", "freed"}

\* Every variable keeps its type.
TtyTypeOK ==
  /\ mod \in {"kzalloc", "button", "state", "driver", "register", "loaded",
              "failed", "noDriver", "notRegistered",
              "unregistered", "freeing", "unloaded"}
  /\ info \in Life /\ port \in Life /\ g_button \in Life /\ g_state \in Life
  /\ driver \in Life
  /\ touched \in BOOLEAN /\ bridge \in {"fresh", "used"}
  /\ file \in [Clients -> {"closed", "open", "write", "locked", "answered"}]
  /\ mutex \in Clients \cup {NoClient}
  /\ outbuf \in [Clients -> Seq(Clients)]
  /\ flip \in Seq(Clients) /\ due \in Seq(Clients) /\ lost \in BOOLEAN

\* Freed memory is used on one path only, the failure of tty_alloc_driver,
\* which reads state->button after it has freed state
\* (fake-ds1963s.c:142-143); the operations and the unload never meet any.
TouchesOnlyOnNoDriver == touched => mod = "noDriver"

\* A load that fails and an unload leave nothing behind, except for the
\* failure of tty_register_driver, which forgets the driver and
\* g_serial_info (fake-ds1963s.c:166-172).
LeaksOnlyOnNotRegistered ==
  mod \in {"failed", "noDriver", "unloaded"}
    => "live" \notin {info, port, g_button, g_state, driver}

\* Every failure path of the load, and the unload, undoes exactly what was
\* done, but for those two defects (fake-ds1963s.c:95-200).
CleansUp == TouchesOnlyOnNoDriver /\ LeaksOnlyOnNotRegistered

\* port_shutdown resets the bridge without the mutex: no write is in the
\* critical section then (fake-ds1963s.c:47-51, 66-78).
ResetOutsideWrites ==
  [][bridge = "used" /\ bridge' = "fresh" => mutex = NoClient]_ttyVars

\* Whoever opens the device first finds the bridge in its reset state and no
\* reply of an earlier session (fake-ds1963s.c:47-55).
FreshStart == mod = "loaded" /\ Opened = {} => bridge = "fresh" /\ flip = <<>>

\* However many clients write at once, the port holds the replies whole and
\* in the order the bridge gave them, and only the reply of a write that is
\* still running is missing, until a reply does not fit in the port: the
\* driver takes no notice of that (fake-ds1963s.c:66-78).
RepliesInOrder ==
  ~lost => /\ IsPrefix(flip, due)
           /\ (\A c \in Clients : file[c] # "answered") => flip = due

\* Every write returns.
WritesReturn ==
  \A c \in Clients : file[c] = "write" ~> file[c] = "open"
=============================================================================
