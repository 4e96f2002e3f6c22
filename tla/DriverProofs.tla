---------------------------- MODULE DriverProofs ----------------------------
(***************************************************************************)
(* Proofs about the two programs that serve the bridge to a client: the    *)
(* daemon behind a pty and the kernel module behind a tty.                 *)
(*                                                                         *)
(* The daemon: every safety property follows from where main is, which of  *)
(* its four resources it holds there and where the reader may then be, and *)
(* from the balance of the reply bytes.                                    *)
(*                                                                         *)
(* The kernel module: what is allocated follows from where loading stands, *)
(* failure paths included; the operations touch nothing but that, because  *)
(* a file is open only while the module is loaded; and the mutex is held   *)
(* exactly by the write in its critical section.                           *)
(***************************************************************************)
EXTENDS FakePty, FakeTty, SequenceTheorems, TLAPS

----------------------------------------------------------------------------
(* The daemon *)

Setup == {"initButton", "initState", "openMaster", "grant", "openSlave",
          "handlers", "spawn"}
Serving == {"check", "beforePause", "paused", "cancel", "join"}
TakingDown == {"closeMaster", "closeKeep", "freeState", "freeButton", "exit"}

\* What main holds, by its program counter.
Holdings ==
  /\ button = "live" <=> mpc \notin {"initButton", "exit"}
  /\ state = "live" <=> mpc \notin {"initButton", "initState", "freeButton", "exit"}
  /\ mfd = "open" <=> mpc \in {"grant", "openSlave", "handlers", "spawn",
                               "closeMaster"} \cup Serving
  /\ keepopen = "open" <=> mpc \in {"handlers", "spawn", "closeMaster",
                                    "closeKeep"} \cup Serving

\* The reader runs while main serves, and only then.
ReaderPlace ==
  /\ mpc \in Setup => rpc = "none"
  /\ Alive => mpc \in Serving

\* Every reply byte is with the client, in the tty or still to be written.
Balance ==
  /\ produced = got + outq + pending
  /\ rpc \in {"none", "read", "process"} => pending = 0

PtyInv == TypeOK /\ Holdings /\ ReaderPlace /\ Balance

LEMMA PtyInit == Init => PtyInv
<1> SUFFICES ASSUME Init PROVE PtyInv
  OBVIOUS
<1>1. TypeOK
  BY DEF Init, TypeOK
<1>2. Holdings /\ ReaderPlace
  BY DEF Init, Holdings, ReaderPlace, Alive, Setup, Serving
<1>3. Balance
  BY DEF Init, Balance
<1> QED
  BY <1>1, <1>2, <1>3 DEF PtyInv

----------------------------------------------------------------------------
(* Main's steps move what it holds; the others leave all of that alone. *)

LEMMA MainKeepsPlace ==
  ASSUME TypeOK, Holdings, ReaderPlace, Main
  PROVE  Holdings' /\ ReaderPlace'
<1> USE DEF TypeOK, Holdings, ReaderPlace, Alive, Setup, Serving, heap, fds
<1>1. CASE InitButton
  BY <1>1 DEF InitButton, MainRest
<1>2. CASE InitState
  BY <1>2 DEF InitState, MainRest
<1>3. CASE OpenMaster
  BY <1>3 DEF OpenMaster, GiveUp, MainRest
<1>4. CASE Grant
  BY <1>4 DEF Grant, GiveUp, MainRest
<1>5. CASE OpenSlave
  BY <1>5 DEF OpenSlave, GiveUp, MainRest
<1>6. CASE InstallHandlers
  BY <1>6 DEF InstallHandlers, MainRest
<1>7. CASE Spawn
  BY <1>7 DEF Spawn, GiveUp
<1>8. CASE Check
  BY <1>8 DEF Check, MainRest
<1>9. CASE Pause
  BY <1>9 DEF Pause, MainRest
<1>10. CASE Cancel
  BY <1>10 DEF Cancel, MainRest
<1>11. CASE Join
  BY <1>11 DEF Join, MainRest
<1>12. CASE CloseMaster
  BY <1>12 DEF CloseMaster, MainRest
<1>13. CASE CloseKeep
  BY <1>13 DEF CloseKeep, MainRest
<1>14. CASE FreeState
  BY <1>14 DEF FreeState, MainRest
<1>15. CASE FreeButton
  BY <1>15 DEF FreeButton, MainRest
<1> QED
  BY <1>1, <1>2, <1>3, <1>4, <1>5, <1>6, <1>7, <1>8, <1>9, <1>10, <1>11,
     <1>12, <1>13, <1>14, <1>15 DEF Main

LEMMA OthersKeepPlace ==
  ASSUME TypeOK, Holdings, ReaderPlace,
         Reader \/ ReaderFails \/ SignalMain \/ SignalReader \/ Client
  PROVE  Holdings' /\ ReaderPlace'
<1> USE DEF TypeOK, Holdings, ReaderPlace, Alive, Setup, Serving, heap, fds
<1>1. CASE Read
  BY <1>1 DEF Read, ReaderRest
<1>2. CASE Process
  BY <1>2 DEF Process, ReaderRest
<1>3. CASE Write
  BY <1>3 DEF Write, ReaderRest
<1>4. CASE Cancelled
  BY <1>4 DEF Cancelled, ReaderRest
<1>5. CASE ReaderFails
  BY <1>5 DEF ReaderFails, ReaderRest
<1>6. CASE SignalMain
  BY <1>6 DEF SignalMain
<1>7. CASE SignalReader
  BY <1>7 DEF SignalReader
<1>8. CASE ClientOpen
  BY <1>8 DEF ClientOpen, ClientRest
<1>9. CASE ClientClose
  BY <1>9 DEF ClientClose, ClientRest
<1>10. CASE Send
  BY <1>10 DEF Send, ClientRest
<1>11. CASE Receive
  BY <1>11 DEF Receive, ClientRest
<1> QED
  BY <1>1, <1>2, <1>3, <1>4, <1>5, <1>6, <1>7, <1>8, <1>9, <1>10, <1>11
     DEF Reader, Client

----------------------------------------------------------------------------
(* Types *)

LEMMA NatSum ==
  ASSUME NEW x \in Nat, NEW y \in Nat
  PROVE  x + y \in Nat
OBVIOUS

LEMMA ReplyLensNat ==
  ASSUME NEW n \in ReplyLens
  PROVE  n \in Nat
BY PtyAssumption

LEMMA MainKeepsType ==
  ASSUME TypeOK, Main
  PROVE  TypeOK'
<1> USE PtyAssumption DEF TypeOK, heap, fds, signals, link
<1>1. CASE InitButton
  BY <1>1 DEF InitButton, MainRest
<1>2. CASE InitState
  BY <1>2 DEF InitState, MainRest
<1>3. CASE OpenMaster
  BY <1>3 DEF OpenMaster, GiveUp, MainRest
<1>4. CASE Grant
  BY <1>4 DEF Grant, GiveUp, MainRest
<1>5. CASE OpenSlave
  BY <1>5 DEF OpenSlave, GiveUp, MainRest
<1>6. CASE InstallHandlers
  BY <1>6 DEF InstallHandlers, MainRest
<1>7. CASE Spawn
  BY <1>7 DEF Spawn, GiveUp
<1>8. CASE Check
  BY <1>8 DEF Check, MainRest
<1>9. CASE Pause
  BY <1>9 DEF Pause, MainRest
<1>10. CASE Cancel
  BY <1>10 DEF Cancel, MainRest
<1>11. CASE Join
  BY <1>11 DEF Join, MainRest
<1>12. CASE CloseMaster
  BY <1>12 DEF CloseMaster, MainRest
<1>13. CASE CloseKeep
  BY <1>13 DEF CloseKeep, MainRest
<1>14. CASE FreeState
  BY <1>14 DEF FreeState, MainRest
<1>15. CASE FreeButton
  BY <1>15 DEF FreeButton, MainRest
<1> QED
  BY <1>1, <1>2, <1>3, <1>4, <1>5, <1>6, <1>7, <1>8, <1>9, <1>10, <1>11,
     <1>12, <1>13, <1>14, <1>15 DEF Main

LEMMA OthersKeepType ==
  ASSUME TypeOK,
         Reader \/ ReaderFails \/ SignalMain \/ SignalReader \/ Client
  PROVE  TypeOK'
<1> USE PtyAssumption DEF TypeOK, heap, fds, signals, link
<1>1. CASE Read
  BY <1>1 DEF Read, ReaderRest
<1>2. CASE Process
  <2>1. pending' \in Nat
    BY <1>2, ReplyLensNat DEF Process
  <2>2. produced' \in Nat
    <3>1. produced' = produced + pending'
      BY <1>2 DEF Process
    <3> QED
      BY <2>1, <3>1, NatSum DEF TypeOK
  <2> QED
    <3>1. /\ UNCHANGED <<mpc, heap, fds, signals, cancel, client, sent, got>>
          /\ UNCHANGED <<inq, outq>>
          /\ rpc' \in {"read", "write"}
      BY <1>2, <2>1 DEF Process, ReaderRest
    <3> QED
      BY <2>1, <2>2, <3>1
<1>3. CASE Write
  <2>1. PICK w \in 1 .. OutCap - outq :
           w <= pending /\ outq' = outq + w /\ pending' = pending - w
    BY <1>3 DEF Write, LeftAfter
  <2>2. outq' \in Nat /\ pending' \in Nat
    BY <2>1
  <2> QED
    BY <1>3, <2>2 DEF Write, ReaderRest
<1>4. CASE Cancelled
  BY <1>4 DEF Cancelled, ReaderRest
<1>5. CASE ReaderFails
  BY <1>5 DEF ReaderFails, ReaderRest
<1>6. CASE SignalMain
  BY <1>6 DEF SignalMain
<1>7. CASE SignalReader
  BY <1>7 DEF SignalReader
<1>8. CASE ClientOpen
  BY <1>8 DEF ClientOpen, ClientRest
<1>9. CASE ClientClose
  <2>1. client' = FALSE
    BY <1>9 DEF ClientClose
  <2>2. client' \in BOOLEAN
    BY <2>1
  <2> QED
    BY <1>9, <2>2 DEF ClientClose, ClientRest
<1>10. CASE Send
  BY <1>10 DEF Send, ClientRest
<1>11. CASE Receive
  BY <1>11 DEF Receive, ClientRest
<1> QED
  BY <1>1, <1>2, <1>3, <1>4, <1>5, <1>6, <1>7, <1>8, <1>9, <1>10, <1>11
     DEF Reader, Client

----------------------------------------------------------------------------
(* The balance of the reply bytes *)

\* The sum with a new last term.
LEMMA SameSum ==
  ASSUME NEW p, NEW q, NEW g, NEW o, NEW n \in Nat, NEW g2, NEW o2,
         p = g + o, q = p + n, g2 = g, o2 = o
  PROVE  q = g2 + o2 + n
OBVIOUS

LEMMA MainKeepsBalance ==
  ASSUME TypeOK, ReaderPlace, Balance, Main
  PROVE  Balance'
<1> USE PtyAssumption DEF TypeOK, Balance, ReaderPlace, Setup, Serving, Alive, heap, fds, signals, link
<1>1. CASE InitButton
  BY <1>1 DEF InitButton, MainRest
<1>2. CASE InitState
  BY <1>2 DEF InitState, MainRest
<1>3. CASE OpenMaster
  BY <1>3 DEF OpenMaster, GiveUp, MainRest
<1>4. CASE Grant
  BY <1>4 DEF Grant, GiveUp, MainRest
<1>5. CASE OpenSlave
  BY <1>5 DEF OpenSlave, GiveUp, MainRest
<1>6. CASE InstallHandlers
  BY <1>6 DEF InstallHandlers, MainRest
<1>7. CASE Spawn
  BY <1>7 DEF Spawn, GiveUp
<1>8. CASE Check
  BY <1>8 DEF Check, MainRest
<1>9. CASE Pause
  BY <1>9 DEF Pause, MainRest
<1>10. CASE Cancel
  BY <1>10 DEF Cancel, MainRest
<1>11. CASE Join
  BY <1>11 DEF Join, MainRest
<1>12. CASE CloseMaster
  BY <1>12 DEF CloseMaster, MainRest
<1>13. CASE CloseKeep
  BY <1>13 DEF CloseKeep, MainRest
<1>14. CASE FreeState
  BY <1>14 DEF FreeState, MainRest
<1>15. CASE FreeButton
  BY <1>15 DEF FreeButton, MainRest
<1> QED
  BY <1>1, <1>2, <1>3, <1>4, <1>5, <1>6, <1>7, <1>8, <1>9, <1>10, <1>11,
     <1>12, <1>13, <1>14, <1>15 DEF Main

LEMMA OthersKeepBalance ==
  ASSUME TypeOK, Balance,
         Reader \/ ReaderFails \/ SignalMain \/ SignalReader \/ Client
  PROVE  Balance'
<1> USE PtyAssumption DEF TypeOK, Balance, Alive, link
<1>1. CASE Read
  BY <1>1 DEF Read, ReaderRest
<1>2. CASE Process
  <2>1. pending' \in Nat /\ pending = 0 /\ produced = got + outq
    BY <1>2, ReplyLensNat DEF Process
  <2>2. produced' = produced + pending' /\ got' = got /\ outq' = outq
    BY <1>2 DEF Process, ReaderRest
  <2>3. produced' = got' + outq' + pending'
    BY <2>1, <2>2, SameSum
  <2> QED
    BY <1>2, <2>3 DEF Process
<1>3. CASE Write
  <2>1. PICK w \in 1 .. OutCap - outq :
           w <= pending /\ outq' = outq + w /\ pending' = pending - w
    BY <1>3 DEF Write, LeftAfter
  <2>2. produced' = produced /\ got' = got
    BY <1>3 DEF Write, ReaderRest
  <2>3. produced' = got' + outq' + pending'
    BY <2>1, <2>2
  <2> QED
    BY <1>3, <2>3 DEF Write
<1>4. CASE Cancelled
  BY <1>4 DEF Cancelled, ReaderRest
<1>5. CASE ReaderFails
  BY <1>5 DEF ReaderFails, ReaderRest
<1>6. CASE SignalMain
  BY <1>6 DEF SignalMain
<1>7. CASE SignalReader
  BY <1>7 DEF SignalReader
<1>8. CASE ClientOpen
  BY <1>8 DEF ClientOpen, ClientRest
<1>9. CASE ClientClose
  BY <1>9 DEF ClientClose, ClientRest
<1>10. CASE Send
  BY <1>10 DEF Send, ClientRest
<1>11. CASE Receive
  BY <1>11 DEF Receive, ClientRest
<1> QED
  BY <1>1, <1>2, <1>3, <1>4, <1>5, <1>6, <1>7, <1>8, <1>9, <1>10, <1>11
     DEF Reader, Client

----------------------------------------------------------------------------
(* Theorems *)

LEMMA PtyStep == PtyInv /\ [Next]_vars => PtyInv'
<1> SUFFICES ASSUME PtyInv, [Next]_vars PROVE PtyInv'
  OBVIOUS
<1> USE DEF PtyInv
<1>1. CASE Main
  BY <1>1, MainKeepsType, MainKeepsPlace, MainKeepsBalance
<1>2. CASE Reader \/ ReaderFails \/ SignalMain \/ SignalReader \/ Client
  BY <1>2, OthersKeepType, OthersKeepPlace, OthersKeepBalance
<1>3. CASE UNCHANGED vars
  BY <1>3 DEF vars, heap, fds, signals, link, TypeOK, Holdings, ReaderPlace,
              Balance, Alive
<1> QED
  BY <1>1, <1>2, <1>3 DEF Next

THEOREM PtyInductive == Spec => []PtyInv
BY PtyInit, PtyStep, PTL DEF Spec

\* Every variable of the daemon keeps its type.
THEOREM PtyTypeCorrect == Spec => []TypeOK
<1>1. PtyInv => TypeOK
  BY DEF PtyInv
<1> QED
  BY PtyInductive, <1>1, PTL

\* The reader thread never meets a freed bridge, a freed button or a closed
\* master (fakeds1963s.c:189-194).
THEOREM PtyNoUseAfterFree == Spec => []NoUseAfterFree
<1>1. PtyInv => NoUseAfterFree
  BY DEF PtyInv, Holdings, ReaderPlace, Alive, Serving, NoUseAfterFree
<1> QED
  BY PtyInductive, <1>1, PTL

\* Whichever step of the set-up fails, and on shutdown, main ends with nothing
\* allocated and nothing open (fakeds1963s.c:141-177, 189-195).
THEOREM PtyNothingLeaks == Spec => []NothingLeaks
<1>1. PtyInv => NothingLeaks
  BY DEF PtyInv, Holdings, Serving, NothingLeaks
<1> QED
  BY PtyInductive, <1>1, PTL

\* The slave that main keeps open is open whenever the reader waits, so a
\* client that closes does not end it (fakeds1963s.c:61-65, 111-115).
THEOREM PtyEIOOnlyAtShutdown == Spec => []EIOOnlyAtShutdown
<1>1. PtyInv => EIOOnlyAtShutdown
  BY DEF PtyInv, Holdings, ReaderPlace, Alive, Serving, EIOOnlyAtShutdown
<1> QED
  BY PtyInductive, <1>1, PTL

\* Partial and interrupted writes lose no reply byte (fakeds1963s.c:76-86).
THEOREM PtyRepliesHandedOver == Spec => []RepliesHandedOver
<1>1. PtyInv => RepliesHandedOver
  BY DEF PtyInv, TypeOK, Balance, RepliesHandedOver
<1> QED
  BY PtyInductive, <1>1, PTL

----------------------------------------------------------------------------
(* The kernel module *)

Registered == {"register", "loaded", "unregistered"}

\* What the module holds, by the step of loading or unloading it is at.
TtyHoldings ==
  /\ info = "live" <=> mod \in {"button", "state", "driver", "notRegistered",
                                "freeing"} \cup Registered
  /\ port = "live" <=> mod \in {"button", "state", "driver"} \cup Registered
  /\ g_button = "live" <=> mod \in {"state", "driver", "freeing"} \cup Registered
  /\ g_state = "live" <=> mod \in {"driver", "freeing"} \cup Registered
  /\ driver = "live" <=> mod \in {"notRegistered"} \cup Registered

\* An open file pins the module.
Pinned == mod # "loaded" => \A c \in Clients : file[c] = "closed"

\* One client at a time is between mutex_lock and mutex_unlock.
WritesExclude ==
  \A c \in Clients : file[c] \in {"locked", "answered"} <=> mutex = c

\* Between two sessions the bridge is reset and no reply waits.
Between ==
  (\A c \in Clients : file[c] = "closed") =>
    /\ flip = <<>>
    /\ mod \in {"driver", "register", "loaded"} => bridge = "fresh"

\* What the bridge answered and nobody read is what waits in the port and, behind
\* it, the reply of the write that holds the mutex.
Delivery ==
  /\ \A c \in Clients : file[c] # "answered" => outbuf[c] = <<>>
  /\ ~lost => due = IF mutex = NoClient THEN flip ELSE flip \o outbuf[mutex]

TtyInv ==
  /\ TtyTypeOK /\ TtyHoldings /\ TouchesOnlyOnNoDriver
  /\ Pinned /\ WritesExclude /\ Between /\ Delivery

LEMMA OpenedNone == Opened = {} <=> \A c \in Clients : file[c] = "closed"
BY DEF Opened

LEMMA TtyStart == TtyInit => TtyInv
<1> SUFFICES ASSUME TtyInit PROVE TtyInv
  OBVIOUS
<1> USE TtyAssumption
<1>1. TtyTypeOK
  <2>1. file \in [Clients -> {"closed", "open", "write", "locked", "answered"}]
    BY DEF TtyInit
  <2>2. touched \in BOOLEAN /\ lost \in BOOLEAN
    BY DEF TtyInit
  <2>3. /\ mod = "kzalloc" /\ bridge = "used" /\ mutex = NoClient
        /\ info = "none" /\ port = "none" /\ g_button = "none"
        /\ g_state = "none" /\ driver = "none"
    BY DEF TtyInit
  <2>4. flip \in Seq(Clients) /\ due \in Seq(Clients)
    BY DEF TtyInit
  <2>5. outbuf \in [Clients -> Seq(Clients)]
    BY DEF TtyInit
  <2> QED
    BY <2>1, <2>2, <2>3, <2>4, <2>5 DEF TtyTypeOK, Life
<1>2. TtyHoldings /\ TouchesOnlyOnNoDriver
  BY DEF TtyInit, TtyHoldings, Registered, TouchesOnlyOnNoDriver
<1>3. Pinned /\ WritesExclude /\ Between /\ Delivery
  BY DEF TtyInit, Pinned, WritesExclude, Between, Delivery
<1> QED
  BY <1>1, <1>2, <1>3 DEF TtyInv

----------------------------------------------------------------------------
(* Types *)

LEMMA LoadKeepsType ==
  ASSUME TtyTypeOK, Load \/ Unloading
  PROVE  TtyTypeOK'
<1> USE TtyAssumption DEF TtyTypeOK, Life, owned, replies, NoTraffic, Touches
<1>1. CASE AllocInfo
  BY <1>1 DEF AllocInfo
<1>2. CASE AllocButton
  BY <1>2 DEF AllocButton
<1>3. CASE AllocState
  BY <1>3 DEF AllocState
<1>4. CASE AllocDriver
  BY <1>4 DEF AllocDriver
<1>5. CASE RegisterDriver
  BY <1>5 DEF RegisterDriver
<1>6. CASE Unload
  BY <1>6 DEF Unload
<1>7. CASE PutDriver
  BY <1>7 DEF PutDriver
<1>8. CASE FreeAll
  BY <1>8 DEF FreeAll
<1> QED
  BY <1>1, <1>2, <1>3, <1>4, <1>5, <1>6, <1>7, <1>8 DEF Load, Unloading

LEMMA ReplyType ==
  ASSUME NEW c \in Clients, NEW n \in TtyReplyLens
  PROVE  ReplyTo(c, n) \in Seq(Clients)
<1>1. n \in Nat
  BY TtyAssumption
<1> QED
  BY <1>1 DEF ReplyTo

LEMMA FlippedType ==
  ASSUME TtyTypeOK, NEW reply \in Seq(Clients)
  PROVE  Flipped(reply) \in Seq(Clients)
<1> DEFINE whole == flip \o reply
<1>1. whole \in Seq(Clients) /\ Len(whole) = Len(flip) + Len(reply)
  BY ConcatProperties DEF TtyTypeOK
<1> HIDE DEF whole
<1>2. ASSUME ~Fits(reply) PROVE SubSeq(whole, 1, FlipCap) \in Seq(Clients)
  <2>1. \A i \in 1 .. FlipCap : whole[i] \in Clients
    <3>1. FlipCap \in Nat /\ Len(whole) \in Nat /\ FlipCap < Len(whole)
      BY <1>1, <1>2, TtyAssumption DEF Fits, TtyTypeOK
    <3> QED
      BY <1>1, <3>1, ElementOfSeq
  <2> QED
    BY <2>1, TtyAssumption, SubSeqProperties
<1> QED
  BY <1>1, <1>2 DEF Flipped, whole

\* Whoever finds something to read finds it due.
LEMMA ReadsWhatIsDue ==
  ASSUME TtyInv, ~lost, flip # <<>>
  PROVE  due # <<>>
<1>1. /\ flip \in Seq(Clients) /\ outbuf \in [Clients -> Seq(Clients)]
      /\ mutex \in Clients \cup {NoClient}
  BY DEF TtyInv, TtyTypeOK
<1>2. \A s \in Seq(Clients) : flip \o s # <<>>
  BY <1>1, ConcatEqualIffEmpty
<1> QED
  BY <1>1, <1>2 DEF TtyInv, Delivery

LEMMA TrafficKeepsType ==
  ASSUME TtyInv, NEW c \in Clients, Traffic(c)
  PROVE  TtyTypeOK'
<1>0. TtyTypeOK
  BY DEF TtyInv
<1> USE <1>0, TtyAssumption DEF TtyTypeOK, Life, owned
<1>1. CASE Open(c)
  BY <1>1 DEF Open, replies
<1>2. CASE Close(c)
  <2>1. bridge' \in {"fresh", "used"} /\ touched' \in BOOLEAN
    BY <1>2 DEF Close, Touches
  <2>2. outbuf' = outbuf
    BY <1>2 DEF Close, Closed, replies
  <2>3. flip' \in Seq(Clients) /\ due' \in Seq(Clients)
    <3>1. (flip' = <<>> /\ due' = <<>>) \/ (flip' = flip /\ due' = due)
      BY <1>2 DEF Close, Closed, replies
    <3>2. <<>> \in Seq(Clients)
      OBVIOUS
    <3> QED
      BY <3>1, <3>2
  <2>4. lost' \in BOOLEAN
    BY <1>2 DEF Close, Closed, replies
  <2>5. /\ file' \in [Clients -> {"closed", "open", "write", "locked", "answered"}]
        /\ UNCHANGED <<mod, info, port, g_button, g_state, driver, mutex>>
    BY <1>2 DEF Close, Closed
  <2> QED
    BY <2>1, <2>2, <2>3, <2>4, <2>5
<1>3. CASE EnterWrite(c)
  BY <1>3 DEF EnterWrite, Touches, replies
<1>4. CASE Lock(c)
  BY <1>4 DEF Lock, replies
<1>5. CASE Respond(c)
  <2>1. PICK n \in TtyReplyLens :
          /\ outbuf' = [outbuf EXCEPT ![c] = ReplyTo(c, n)]
          /\ due' = IF lost THEN due ELSE due \o ReplyTo(c, n)
    BY <1>5 DEF Respond, Responded
  <2>2. ReplyTo(c, n) \in Seq(Clients)
    BY ReplyType
  <2>3. outbuf' \in [Clients -> Seq(Clients)] /\ due' \in Seq(Clients)
    BY <2>1, <2>2, ConcatProperties
  <2>4. touched' \in BOOLEAN
    BY <1>5 DEF Respond, Responded, Touches
  <2>5. /\ file' \in [Clients -> {"closed", "open", "write", "locked", "answered"}]
        /\ bridge' = "used" /\ flip' = flip /\ lost' = lost
        /\ UNCHANGED <<mod, info, port, g_button, g_state, driver, mutex>>
    BY <1>5 DEF Respond, Responded
  <2> QED
    BY <2>3, <2>4, <2>5
<1>6. CASE Answer(c)
  <2>1. flip' \in Seq(Clients)
    BY <1>6, FlippedType DEF Answer
  <2>2. touched' \in BOOLEAN /\ lost' \in BOOLEAN
    BY <1>6 DEF Answer, Touches
  <2>3. outbuf' \in [Clients -> Seq(Clients)] /\ due' \in Seq(Clients)
    BY <1>6 DEF Answer
  <2>4. /\ file' \in [Clients -> {"closed", "open", "write", "locked", "answered"}]
        /\ mutex' = NoClient /\ bridge' = bridge
        /\ UNCHANGED <<mod, info, port, g_button, g_state, driver>>
    BY <1>6 DEF Answer
  <2> QED
    BY <2>1, <2>2, <2>3, <2>4
<1>7. CASE ReadReply(c)
  <2>1. flip' \in Seq(Clients)
    BY <1>7, HeadTailProperties DEF ReadReply
  <2>2. due' \in Seq(Clients)
    BY <1>7, ReadsWhatIsDue, HeadTailProperties DEF ReadReply
  <2> QED
    BY <1>7, <2>1, <2>2 DEF ReadReply
<1> QED
  BY <1>1, <1>2, <1>3, <1>4, <1>5, <1>6, <1>7 DEF Traffic, Serve

----------------------------------------------------------------------------
(* Loading and unloading *)

LEMMA LoadKeepsHoldings ==
  ASSUME TtyInv, Load \/ Unloading
  PROVE  TtyHoldings' /\ TouchesOnlyOnNoDriver'
<1> USE DEF TtyInv, TtyTypeOK, Life, TtyHoldings, Registered,
            TouchesOnlyOnNoDriver, owned, Touches
<1>1. CASE AllocInfo
  BY <1>1 DEF AllocInfo
<1>2. CASE AllocButton
  BY <1>2 DEF AllocButton
<1>3. CASE AllocState
  BY <1>3 DEF AllocState
<1>4. CASE AllocDriver
  BY <1>4 DEF AllocDriver
<1>5. CASE RegisterDriver
  BY <1>5 DEF RegisterDriver
<1>6. CASE Unload
  BY <1>6 DEF Unload
<1>7. CASE PutDriver
  BY <1>7 DEF PutDriver
<1>8. CASE FreeAll
  BY <1>8 DEF FreeAll
<1> QED
  BY <1>1, <1>2, <1>3, <1>4, <1>5, <1>6, <1>7, <1>8 DEF Load, Unloading

LEMMA LoadKeepsSessions ==
  ASSUME TtyInv, Load \/ Unloading
  PROVE  Pinned' /\ WritesExclude' /\ Between' /\ Delivery'
<1>1. UNCHANGED <<file, mutex, outbuf, flip, due, lost>>
  BY DEF Load, Unloading, AllocInfo, AllocButton, AllocState, AllocDriver,
         RegisterDriver, Unload, PutDriver, FreeAll, NoTraffic, replies
<1>2. \A c \in Clients : file[c] = "closed"
  BY OpenedNone DEF TtyInv, Pinned, Load, Unloading, AllocInfo, AllocButton,
     AllocState, AllocDriver, RegisterDriver, Unload, PutDriver, FreeAll
<1>3. Pinned' /\ WritesExclude' /\ Delivery'
  BY <1>1, <1>2 DEF TtyInv, Pinned, WritesExclude, Delivery
<1>4. flip' = <<>>
  BY <1>1, <1>2 DEF TtyInv, Between
<1>5. mod' \in {"driver", "register", "loaded"} => bridge' = "fresh"
  BY <1>2 DEF TtyInv, Between, Load, Unloading, AllocInfo, AllocButton,
     AllocState, AllocDriver, RegisterDriver, Unload, PutDriver, FreeAll
<1> QED
  BY <1>3, <1>4, <1>5 DEF Between

----------------------------------------------------------------------------
(* The tty operations run while the module is loaded. *)

LEMMA TrafficLoaded ==
  ASSUME TtyInv, NEW c \in Clients, Traffic(c)
  PROVE  mod = "loaded" /\ UNCHANGED <<mod, owned>>
<1>1. mod = "loaded"
  BY DEF TtyInv, Pinned, Traffic, Serve, Open, Close, EnterWrite, Lock,
         Respond, Responded, Answer, ReadReply, Closed
<1>2. UNCHANGED <<mod, owned>>
  BY DEF Traffic, Serve, Open, Close, Closed, EnterWrite, Lock, Respond,
         Responded, Answer, ReadReply
<1> QED
  BY <1>1, <1>2

LEMMA TrafficTouchesLive ==
  ASSUME TtyInv, NEW c \in Clients, Traffic(c)
  PROVE  TtyHoldings' /\ TouchesOnlyOnNoDriver'
<1>1. mod = "loaded" /\ UNCHANGED <<mod, owned>>
  BY TrafficLoaded
<1>2. info = "live" /\ g_state = "live" /\ g_button = "live" /\ port = "live"
  BY <1>1 DEF TtyInv, TtyHoldings, Registered
<1>3. touched = FALSE
  BY <1>1 DEF TtyInv, TtyTypeOK, TouchesOnlyOnNoDriver
<1>4. touched' = FALSE
  BY <1>2, <1>3 DEF Traffic, Serve, Open, Close, Closed, EnterWrite, Lock, Respond,
     Responded, Answer, ReadReply, Touches
<1> QED
  BY <1>1, <1>4 DEF TtyInv, TtyHoldings, owned, TouchesOnlyOnNoDriver

LEMMA TrafficKeepsSessions ==
  ASSUME TtyInv, NEW c \in Clients, Traffic(c)
  PROVE  Pinned' /\ WritesExclude' /\ Between'
<1> USE TtyAssumption DEF TtyInv, TtyTypeOK
<1>1. Pinned'
  BY TrafficLoaded DEF Pinned
<1> HIDE DEF TtyInv, TtyTypeOK
<1> USE DEF TtyInv
<1>0. file \in [Clients -> {"closed", "open", "write", "locked", "answered"}]
  BY DEF TtyTypeOK
<1>2. CASE Open(c)
  <2>1. file'[c] = "open"
    BY <1>0, <1>2 DEF Open
  <2> QED
    BY <1>1, <1>2, <2>1 DEF Open, WritesExclude, Between
<1>3. CASE Close(c)
  <2>1. WritesExclude'
    BY <1>0, <1>3 DEF Close, Closed, WritesExclude
  <2>2. CASE LastClose(c)
    BY <1>1, <1>3, <2>1, <2>2 DEF Close, Closed, Between
  <2>3. CASE ~LastClose(c)
    <3>1. PICK d \in Clients : d # c /\ file[d] # "closed"
      BY <1>3, <2>3 DEF Close, Closed, LastClose, Opened
    <3>2. file'[d] # "closed"
      BY <1>0, <1>3, <3>1 DEF Close, Closed
    <3> QED
      BY <1>1, <2>1, <3>2 DEF Between
  <2> QED
    BY <2>2, <2>3
<1>4. CASE EnterWrite(c)
  <2>1. file'[c] = "write"
    BY <1>0, <1>4 DEF EnterWrite
  <2> QED
    BY <1>1, <1>4, <2>1 DEF EnterWrite, WritesExclude, Between
<1>5. CASE Lock(c)
  <2>1. file'[c] = "locked"
    BY <1>0, <1>5 DEF Lock
  <2> QED
    BY <1>1, <1>5, <2>1 DEF Lock, WritesExclude, Between
<1>6. CASE Respond(c)
  <2>1. file'[c] = "answered"
    BY <1>0, <1>6 DEF Respond, Responded
  <2>2. WritesExclude'
    BY <1>0, <1>6 DEF Respond, Responded, WritesExclude
  <2> QED
    BY <1>1, <2>1, <2>2 DEF Between
<1>7. CASE Answer(c)
  <2>1. file'[c] = "open"
    BY <1>0, <1>7 DEF Answer
  <2>2. WritesExclude'
    BY <1>0, <1>7 DEF Answer, WritesExclude
  <2> QED
    BY <1>1, <2>1, <2>2 DEF Between
<1>8. CASE ReadReply(c)
  <2>1. file[c] = "open" /\ file' = file /\ mutex' = mutex
    BY <1>8 DEF ReadReply
  <2> QED
    BY <1>1, <2>1 DEF WritesExclude, Between
<1> QED
  BY <1>2, <1>3, <1>4, <1>5, <1>6, <1>7, <1>8 DEF Traffic, Serve

----------------------------------------------------------------------------
(* The replies *)

LEMMA TailOfConcat ==
  ASSUME NEW S, NEW s \in Seq(S), NEW t \in Seq(S), s # <<>>
  PROVE  Tail(s \o t) = Tail(s) \o t
<1>1. /\ s \o t \in Seq(S) /\ Len(s \o t) = Len(s) + Len(t)
      /\ Tail(s) \in Seq(S) /\ Len(Tail(s)) = Len(s) - 1
  BY ConcatProperties, HeadTailProperties
<1>2. Len(s) \in Nat \ {0} /\ Len(t) \in Nat
  BY EmptySeq, LenProperties
<1>3. s \o t # <<>>
  BY ConcatEqualIffEmpty
<1>4. /\ Tail(s \o t) \in Seq(S) /\ Len(Tail(s \o t)) = Len(s) + Len(t) - 1
      /\ \A i \in 1 .. Len(s) + Len(t) - 1 : Tail(s \o t)[i] = (s \o t)[i + 1]
  BY <1>1, <1>3, HeadTailProperties
<1>5. /\ Tail(s) \o t \in Seq(S)
      /\ Len(Tail(s) \o t) = Len(s) + Len(t) - 1
  BY <1>1, <1>2, ConcatProperties
<1>6. ASSUME NEW i \in 1 .. Len(s) + Len(t) - 1
      PROVE  Tail(s \o t)[i] = (Tail(s) \o t)[i]
  <2>1. Tail(s \o t)[i] = IF i + 1 <= Len(s) THEN s[i + 1] ELSE t[i + 1 - Len(s)]
    BY <1>2, <1>4, ConcatProperties
  <2>2. (Tail(s) \o t)[i] = IF i <= Len(s) - 1 THEN Tail(s)[i]
                            ELSE t[i - (Len(s) - 1)]
    BY <1>1, <1>2, ConcatProperties
  <2>3. i <= Len(s) - 1 => Tail(s)[i] = s[i + 1]
    BY <1>1, <1>2, HeadTailProperties
  <2> QED
    BY <1>2, <2>1, <2>2, <2>3
<1> QED
  BY <1>4, <1>5, <1>6, SeqEqual

LEMMA PrefixOfConcat ==
  ASSUME NEW S, NEW s \in Seq(S), NEW t \in Seq(S)
  PROVE  IsPrefix(s, s \o t)
<1>1. SubSeq(s \o t, 1, Len(s)) = SubSeq(s, 1, Len(s))
  <2>1. CASE Len(s) = 0
    <3> DEFINE whole == s \o t
    <3> HIDE DEF whole
    <3>1. SubSeq(whole, 1, 0) = <<>> /\ SubSeq(s, 1, 0) = <<>>
      BY SubSeqEmpty
    <3> QED
      BY <2>1, <3>1 DEF whole
  <2>2. CASE Len(s) # 0
    <3>1. Len(s) \in Nat /\ 1 \in 1 .. Len(s) /\ Len(s) \in 1 .. Len(s)
      BY <2>2, LenProperties
    <3> QED
      BY <3>1, SubSeqOfConcat1
  <2> QED
    BY <2>1, <2>2
<1>2. Len(s) <= Len(s \o t)
  BY ConcatProperties, LenProperties
<1> QED
  BY <1>1, <1>2 DEF IsPrefix

\* Only the holder of the mutex adds to what is due, and it gives the mutex up
\* when its reply stands behind all that was due before.
LEMMA TrafficKeepsDelivery ==
  ASSUME TtyInv, NEW c \in Clients, Traffic(c)
  PROVE  Delivery'
<1> USE TtyAssumption DEF TtyInv
<1>0. /\ file \in [Clients -> {"closed", "open", "write", "locked", "answered"}]
      /\ mutex \in Clients \cup {NoClient}
      /\ outbuf \in [Clients -> Seq(Clients)]
      /\ flip \in Seq(Clients) /\ due \in Seq(Clients) /\ lost \in BOOLEAN
  BY DEF TtyTypeOK
<1>1. CASE Open(c) \/ EnterWrite(c)
  BY <1>0, <1>1 DEF Open, EnterWrite, replies, Delivery
<1>2. CASE Close(c)
  <2>1. /\ file' = [file EXCEPT ![c] = "closed"] /\ file[c] = "open"
        /\ mutex' = mutex /\ outbuf' = outbuf
    BY <1>2 DEF Close, Closed, replies
  <2>2. CASE LastClose(c)
    <3>1. \A d \in Clients : file[d] \notin {"locked", "answered"}
      BY <2>1, <2>2 DEF LastClose, Opened
    <3>2. mutex = NoClient
      BY <1>0, <3>1 DEF WritesExclude
    <3> QED
      BY <1>0, <1>2, <2>1, <2>2, <3>2 DEF Close, Closed, Delivery
  <2>3. CASE ~LastClose(c)
    BY <1>0, <1>2, <2>1, <2>3 DEF Close, Closed, replies, Delivery
  <2> QED
    BY <2>2, <2>3
<1>3. CASE Lock(c)
  <2>1. mutex = NoClient /\ mutex' = c /\ file[c] = "write"
    BY <1>3 DEF Lock
  <2>2. outbuf[c] = <<>> /\ flip \o outbuf[c] = flip
    BY <1>0, <2>1, ConcatEmptySeq DEF Delivery
  <2> QED
    BY <1>0, <1>3, <2>1, <2>2 DEF Lock, replies, Delivery
<1>4. CASE Respond(c)
  <2>1. PICK n \in TtyReplyLens :
          /\ outbuf' = [outbuf EXCEPT ![c] = ReplyTo(c, n)]
          /\ due' = IF lost THEN due ELSE due \o ReplyTo(c, n)
    BY <1>4 DEF Respond, Responded
  <2>2. /\ file' = [file EXCEPT ![c] = "answered"] /\ file[c] = "locked"
        /\ UNCHANGED <<mutex, flip, lost>>
    BY <1>4 DEF Respond, Responded
  <2>3. mutex = c /\ c # NoClient
    BY <2>2 DEF WritesExclude
  <2>4. ~lost => due = flip
    <3>1. outbuf[c] = <<>> /\ flip \o outbuf[c] = flip
      BY <1>0, <2>2, ConcatEmptySeq DEF Delivery
    <3> QED
      BY <2>3, <3>1 DEF Delivery
  <2>5. outbuf'[c] = ReplyTo(c, n)
    BY <1>0, <2>1
  <2>6. \A d \in Clients : file'[d] # "answered" => outbuf'[d] = <<>>
    BY <1>0, <2>1, <2>2 DEF Delivery
  <2> QED
    BY <2>1, <2>2, <2>3, <2>4, <2>5, <2>6 DEF Delivery
<1>5. CASE Answer(c)
  <2>1. mutex = c /\ c # NoClient /\ mutex' = NoClient
    BY <1>5 DEF Answer, WritesExclude
  <2>2. \A d \in Clients : file'[d] # "answered" => outbuf'[d] = <<>>
    BY <1>0, <1>5 DEF Answer, Delivery
  <2>3. ~lost' => due' = flip'
    BY <1>5, <2>1 DEF Answer, Flipped, Delivery
  <2> QED
    BY <2>1, <2>2, <2>3 DEF Delivery
<1>6. CASE ReadReply(c)
  <2>1. /\ flip # <<>> /\ flip' = Tail(flip)
        /\ due' = IF lost THEN due ELSE Tail(due)
        /\ UNCHANGED <<file, mutex, outbuf, lost>>
    BY <1>6 DEF ReadReply
  <2>2. \A s \in Seq(Clients) : Tail(flip \o s) = Tail(flip) \o s
    BY <1>0, <2>1, TailOfConcat
  <2> QED
    BY <1>0, <2>1, <2>2 DEF Delivery
<1> QED
  BY <1>1, <1>2, <1>3, <1>4, <1>5, <1>6 DEF Traffic, Serve

----------------------------------------------------------------------------
LEMMA TtyStep == TtyInv /\ [TtyNext]_ttyVars => TtyInv'
<1> SUFFICES ASSUME TtyInv, [TtyNext]_ttyVars PROVE TtyInv'
  OBVIOUS
<1>1. CASE Load \/ Unloading
  <2>1. TtyTypeOK'
    BY <1>1, LoadKeepsType DEF TtyInv
  <2> QED
    BY <1>1, <2>1, LoadKeepsHoldings, LoadKeepsSessions DEF TtyInv
<1>2. ASSUME NEW c \in Clients, Traffic(c) PROVE TtyInv'
  <2>1. TtyTypeOK'
    BY <1>2, TrafficKeepsType DEF TtyInv
  <2> QED
    BY <1>2, <2>1, TrafficTouchesLive, TrafficKeepsSessions,
       TrafficKeepsDelivery DEF TtyInv
<1>3. CASE UNCHANGED ttyVars
  BY <1>3 DEF TtyInv, TtyTypeOK, TtyHoldings, TouchesOnlyOnNoDriver, Pinned,
     WritesExclude, Between, Delivery, ttyVars, owned, replies
<1> QED
  BY <1>1, <1>2, <1>3 DEF TtyNext

LEMMA TtyAlways == TtySpec => []TtyInv
BY TtyStart, TtyStep, PTL DEF TtySpec

\* Whatever fails while the module loads, and however its files are used,
\* freed memory is used on one path only, and an unload or a failed load
\* leaves something allocated on one path only (fake-ds1963s.c:95-200).
THEOREM TtyCleansUp == TtySpec => []CleansUp
<1>1. TtyInv => CleansUp
  BY DEF TtyInv, TtyHoldings, Registered, CleansUp, TouchesOnlyOnNoDriver,
         LeaksOnlyOnNotRegistered
<1> QED
  BY <1>1, TtyAlways, PTL

\* A client that finds nobody else at the device finds a bridge that was
\* reset and no reply of an earlier session (fake-ds1963s.c:47-55).
THEOREM TtyFreshStart == TtySpec => []FreshStart
<1>1. TtyInv => FreshStart
  BY OpenedNone DEF TtyInv, Between, FreshStart
<1> QED
  BY <1>1, TtyAlways, PTL

\* port_shutdown never resets the bridge while a write is in the critical
\* section, although it does not take the mutex (fake-ds1963s.c:47-51).
THEOREM TtyResetOutsideWrites == TtySpec => ResetOutsideWrites
<1>1. TtyInv /\ [TtyNext]_ttyVars
        => [bridge = "used" /\ bridge' = "fresh" => mutex = NoClient]_ttyVars
  <2> SUFFICES ASSUME TtyInv, TtyNext, bridge = "used", bridge' = "fresh"
               PROVE  mutex = NoClient
    OBVIOUS
  <2> USE DEF TtyInv
  <2>1. CASE Load \/ Unloading
    <3>1. \A c \in Clients : file[c] = "closed"
      BY <2>1, OpenedNone DEF Pinned, Load, Unloading, AllocInfo, AllocButton,
         AllocState, AllocDriver, RegisterDriver, Unload, PutDriver, FreeAll
    <3> QED
      BY <3>1 DEF WritesExclude, TtyTypeOK
  <2>2. ASSUME NEW c \in Clients, Traffic(c) PROVE mutex = NoClient
    <3>1. Close(c) /\ LastClose(c)
      BY <2>2 DEF Traffic, Serve, Open, Close, EnterWrite, Lock, Respond,
         Responded, Answer, ReadReply
    <3>2. \A d \in Clients : file[d] \notin {"locked", "answered"}
      BY <3>1 DEF Close, Closed, LastClose, Opened
    <3> QED
      BY <3>2 DEF WritesExclude, TtyTypeOK
  <2> QED
    BY <2>1, <2>2 DEF TtyNext
<1> QED
  BY <1>1, TtyAlways, PTL DEF TtySpec, ResetOutsideWrites

\* Any number of clients that write at once read whole replies in the order
\* the bridge gave them, as long as what they leave unread fits in the port
\* (fake-ds1963s.c:66-78).
THEOREM TtyRepliesInOrder == TtySpec => []RepliesInOrder
<1>1. TtyInv => RepliesInOrder
  <2> SUFFICES ASSUME TtyInv, ~lost PROVE
        /\ IsPrefix(flip, due)
        /\ (\A c \in Clients : file[c] # "answered") => flip = due
    BY DEF RepliesInOrder
  <2> USE DEF TtyInv
  <2>1. /\ flip \in Seq(Clients) /\ outbuf \in [Clients -> Seq(Clients)]
        /\ mutex \in Clients \cup {NoClient}
    BY DEF TtyTypeOK
  <2>2. \A s \in Seq(Clients) : IsPrefix(flip, flip \o s)
    BY <2>1, PrefixOfConcat
  <2>3. flip \o <<>> = flip /\ <<>> \in Seq(Clients)
    BY <2>1, ConcatEmptySeq
  <2>4. CASE mutex = NoClient
    <3>1. due = flip
      BY <2>4 DEF Delivery
    <3> QED
      BY <2>2, <2>3, <3>1
  <2>5. CASE mutex # NoClient
    <3>1. mutex \in Clients /\ due = flip \o outbuf[mutex]
      BY <2>1, <2>5 DEF Delivery
    <3>2. file[mutex] # "answered" => outbuf[mutex] = <<>>
      BY <3>1 DEF Delivery
    <3> QED
      BY <2>1, <2>2, <2>3, <3>1, <3>2
  <2> QED
    BY <2>4, <2>5
<1> QED
  BY <1>1, TtyAlways, PTL
=============================================================================
