---------------------------- MODULE OwLinkProofs ----------------------------
(***************************************************************************)
(* The link of the SDK for every block, every serial number, every byte,   *)
(* every length of a search block and every value of a uchar: a call       *)
(* leaves the SDK and the bridge in step, a detection tells what is there, *)
(* and a call that reports success has handed the button its data.         *)
(*                                                                         *)
(* From the packet up.  What a decoder does over a packet is an induction  *)
(* over its bytes (Upto): a packet of commands that are tame, one of data  *)
(* that is escaped, and the packet of a search.  What a function keeps of  *)
(* the link is then one of a few relations (Keeps, Does, Stays), which the *)
(* functions hand on to those that call them, up to the calls (Outcome).   *)
(***************************************************************************)
EXTENDS OwLink, WellFoundedInduction, TLAPS

----------------------------------------------------------------------------
(* Induction, as a statement about a set. *)

\* What holds at 0 and passes from k - 1 to k holds up to n.
LEMMA Upto ==
  ASSUME NEW n \in Nat, NEW S, 0 \in S,
         \A k \in 0 .. n : k # 0 /\ k - 1 \in S => k \in S
  PROVE  \A k \in 0 .. n : k \in S
<1> DEFINE T == {k \in 0 .. n : k \notin S}
<1>1. SUFFICES ASSUME T # {} PROVE FALSE
  OBVIOUS
<1>2. T \in SUBSET Nat
  OBVIOUS
<1>3. \E m \in T : \A k \in T : ~ (<<k, m>> \in OpToRel(<, Nat))
  BY <1>1, <1>2, NatLessThanWellFounded, WFMin
<1>4. PICK m \in T : \A k \in T : ~ (<<k, m>> \in OpToRel(<, Nat))
  BY <1>3
<1>5. m \in 0 .. n /\ m \notin S /\ m # 0
  OBVIOUS
<1>6. m - 1 \in T
  BY <1>5
<1>7. <<m - 1, m>> \in Nat \X Nat /\ <<m - 1, m>>[1] < <<m - 1, m>>[2]
  BY <1>5
<1>8. <<m - 1, m>> \in OpToRel(<, Nat)
  BY <1>7 DEF OpToRel
<1> QED
  BY <1>4, <1>6, <1>8

----------------------------------------------------------------------------
(* The decoder goes through a packet: the recursive function is defined. *)

\* D goes through the packet as the loop of cmd_process does.
Run(L, bytes, how, D) ==
  /\ D[0] = At(L, <<>>, FALSE)
  /\ \A k \in 1 .. Len(bytes) : D[k] = Decode(D[k - 1], bytes, k, how)
  /\ WriteCOM(L, bytes, how) = Dispatch(D[Len(bytes)].link, D[Len(bytes)].batch, how)

\* Every packet has its run.
LEMMA Runs ==
  ASSUME NEW L, NEW bytes \in Seq(Byte), NEW how
  PROVE  \E D : Run(L, bytes, how, D)
<1> DEFINE n == Len(bytes)
           Step(d, k) == IF k = 0 THEN At(L, <<>>, FALSE) ELSE Decode(d, bytes, k, how)
           Good(m, g) == g = [k \in 0 .. m |-> IF k = 0 THEN At(L, <<>>, FALSE)
                                               ELSE Decode(g[k - 1], bytes, k, how)]
           S == {m \in 0 .. n : \E g : Good(m, g)}
<1>1. n \in Nat
  OBVIOUS
<1>2. 0 \in S
  <2>1. Good(0, [k \in 0 .. 0 |-> At(L, <<>>, FALSE)])
    OBVIOUS
  <2>2. \E g : Good(0, g)
    BY <2>1
  <2> HIDE DEF Good
  <2> QED
    BY <2>2, <1>1
<1>3. ASSUME NEW m \in 0 .. n, m # 0, m - 1 \in S PROVE m \in S
  <2>1. PICK g : Good(m - 1, g)
    BY <1>3
  <2> DEFINE h == [k \in 0 .. m |-> IF k = m THEN Decode(g[m - 1], bytes, m, how) ELSE g[k]]
  <2>2. Good(m, h)
    <3>1. ASSUME NEW k \in 0 .. m
          PROVE  h[k] = IF k = 0 THEN At(L, <<>>, FALSE) ELSE Decode(h[k - 1], bytes, k, how)
      <4>1. CASE k = m
        <5>1. h[k] = Decode(g[m - 1], bytes, m, how) /\ h[k - 1] = g[k - 1]
          BY <4>1, <1>3
        <5> QED
          BY <5>1, <4>1, <1>3
      <4>2. CASE k # m /\ k # 0
        <5>1. h[k] = g[k] /\ h[k - 1] = g[k - 1] /\ k \in 0 .. (m - 1)
          BY <4>2
        <5>2. g[k] = Decode(g[k - 1], bytes, k, how)
          BY <5>1, <4>2, <2>1
        <5> QED
          BY <5>1, <5>2, <4>2
      <4>3. CASE k # m /\ k = 0
        <5>1. h[k] = g[k] /\ k \in 0 .. (m - 1)
          BY <4>3
        <5>2. g[k] = At(L, <<>>, FALSE)
          BY <5>1, <4>3, <2>1
        <5> QED
          BY <5>1, <5>2, <4>3
      <4> QED
        BY <4>1, <4>2, <4>3
    <3> QED
      BY <3>1
  <2> QED
    BY <2>2
<1>4. n \in S
  <2>1. \A m \in 0 .. n : m # 0 /\ m - 1 \in S => m \in S
    BY <1>3
  <2> HIDE DEF S
  <2>2. \A m \in 0 .. n : m \in S
    BY <1>1, <1>2, <2>1, Upto
  <2> QED
    BY <1>1, <2>2
<1>5. \E g : Good(n, g)
  BY <1>4
<1> DEFINE D == CHOOSE g : Good(n, g)
<1>6. Good(n, D)
  BY <1>5
<1>7. WriteCOM(L, bytes, how) = Dispatch(D[n].link, D[n].batch, how)
  BY DEF WriteCOM
<1>8. Run(L, bytes, how, D)
  <2> HIDE DEF D
  <2> QED
    BY <1>1, <1>6, <1>7 DEF Run
<1> QED
  BY <1>8

----------------------------------------------------------------------------
(* What any packet leaves alone: the SDK's globals. *)

Decoders == [link : Links, batch : Seq(Byte), esc : BOOLEAN]

\* The bridge never writes the SDK's globals.
SdkSame(L, M) ==
  /\ M.UMode = L.UMode /\ M.UBaud = L.UBaud /\ M.USpeed = L.USpeed
  /\ M.ULevel = L.ULevel /\ M.got = L.got /\ M.ok = L.ok /\ M.detected = L.detected

\* The SDK's bookkeeping never writes the bridge.
BridgeSame(L, M) ==
  /\ M.mode = L.mode /\ M.speed = L.speed /\ M.baud = L.baud /\ M.search = L.search

LEMMA LinkFields ==
  ASSUME NEW L \in Links
  PROVE  /\ L.mode \in {"COMMAND", "DATA"} /\ L.speed \in Speeds /\ L.baud \in 0 .. 14
         /\ L.search \in BOOLEAN /\ L.srch \in Nat
         /\ L.UMode \in {"COMMAND", "DATA"} /\ L.UBaud \in {PARMSET_9600, PARMSET_115200}
         /\ L.USpeed \in {SPEEDSEL_FLEX, SPEEDSEL_OD}
         /\ L.rx \in Seq(Byte) /\ L.got \in Seq(Byte) /\ L.handed \in Seq(Byte)
         /\ L.ok \in BOOLEAN /\ L.detected \in {"not tried", "yes", "no"}
<1>1. L.srch \in 0 .. SearchLen - 1
  BY DEF Links
<1>2. L.srch \in Nat
  BY <1>1, LinkAssumption
<1> QED
  BY <1>2 DEF Links

\* However the button answers.
Ways == {"echo", "other", "more", "none"}

LEMMA Concatenated ==
  ASSUME NEW s \in Seq(Byte), NEW t \in Seq(Byte)
  PROVE  s \o t \in Seq(Byte)
  OBVIOUS

\* Whatever the button answers is bytes.
LEMMA AnswerType ==
  ASSUME NEW how \in Ways, NEW batch \in Seq(Byte)
  PROVE  Answer(how, batch) \in Seq(Byte)
<1>1. how \in {"echo", "other", "more", "none"}
  BY DEF Ways
<1>2. [k \in 1 .. Len(batch) |-> 0] \in Seq(Byte)
  BY DEF Byte
<1>3. Append(batch, Surplus) \in Seq(Byte)
  BY DEF Byte, Surplus
<1> QED
  BY <1>1, <1>2, <1>3 DEF Answer

LEMMA SearchedLink ==
  ASSUME NEW L \in Links, NEW n \in Nat
  PROVE  LET M == Searched(L, n)
         IN  M \in Links /\ SdkSame(L, M) /\ BridgeSame(L, M) /\ M.handed = L.handed
<1>1. SearchLen \in Nat /\ SearchLen > 0
  BY LinkAssumption
<1>2. (n % SearchLen) \in 0 .. SearchLen - 1 /\ (n \div SearchLen) \in Nat
  BY <1>1
<1> DEFINE m == SearchLen * (n \div SearchLen)
<1>3. m \in Nat
  BY <1>1, <1>2
<1> HIDE DEF m
<1>4. [k \in 1 .. m |-> 0] \in Seq(Byte)
  BY <1>3 DEF Byte
<1> DEFINE q == L.rx \o [k \in 1 .. m |-> 0]
<1>5. q \in Seq(Byte)
  BY <1>4, LinkFields, Concatenated
<1> HIDE DEF q
<1> DEFINE r == (n % SearchLen)
<1> HIDE DEF r
<1>6. [L EXCEPT !.srch = r, !.rx = q] \in Links
  BY <1>2, <1>5 DEF Links, r
<1>7. Searched(L, n) = [L EXCEPT !.srch = r, !.rx = q]
  BY DEF Searched, r, q, m
<1> QED
  BY <1>6, <1>7 DEF SdkSame, BridgeSame, Links

\* The collected bytes go to the button or to the accelerator, and
\* nothing that the SDK believes changes.
LEMMA DispatchLink ==
  ASSUME NEW L \in Links, NEW batch \in Seq(Byte), NEW how \in Ways
  PROVE  LET M == Dispatch(L, batch, how)
         IN  /\ M \in Links /\ SdkSame(L, M) /\ BridgeSame(L, M)
             /\ L.search => M.handed = L.handed
             /\ ~L.search => /\ M.handed = L.handed \o batch
                             /\ M.rx = L.rx \o Answer(how, batch)
<1>1. CASE L.search
  <2>1. L.srch + Len(batch) \in Nat
    <3>1. L.srch \in Nat
      BY LinkFields
    <3>2. Len(batch) \in Nat
      OBVIOUS
    <3> QED
      BY <3>1, <3>2
  <2>2. Dispatch(L, batch, how) = Searched(L, L.srch + Len(batch))
    BY <1>1 DEF Dispatch
  <2> QED
    BY <1>1, <2>1, <2>2, SearchedLink
<1>2. CASE ~L.search
  <2> DEFINE q == L.rx \o Answer(how, batch)
             h == L.handed \o batch
  <2>1. q \in Seq(Byte) /\ h \in Seq(Byte)
    BY AnswerType, LinkFields, Concatenated
  <2>2. Dispatch(L, batch, how) = [L EXCEPT !.rx = q, !.handed = h]
    BY <1>2 DEF Dispatch
  <2> HIDE DEF q, h
  <2>3. [L EXCEPT !.rx = q, !.handed = h] \in Links
    BY <2>1 DEF Links
  <2>4. SdkSame(L, [L EXCEPT !.rx = q, !.handed = h])
        /\ BridgeSame(L, [L EXCEPT !.rx = q, !.handed = h])
        /\ [L EXCEPT !.rx = q, !.handed = h].rx = q
        /\ [L EXCEPT !.rx = q, !.handed = h].handed = h
    BY DEF SdkSame, BridgeSame, Links
  <2> QED
    BY <1>2, <2>2, <2>3, <2>4 DEF q, h
<1> QED
  BY <1>1, <1>2 DEF Links

\* The fields of a command byte.
LEMMA CodeFacts ==
  ASSUME NEW c \in Byte
  PROVE  /\ SpeedOf(c) \in Speeds
         /\ ParmSet(c) \in 0 .. 14 /\ ParmReply(c) \in Byte
         /\ c >= 128 => BitReply(c) \in Byte
         /\ ChmodReply(c) \in Byte /\ RESET_REPLY \in Byte
         /\ SearchOn(c) \in BOOLEAN
<1>1. SpeedOf(c) \in Speeds
  BY DEF SpeedOf, Speeds, Byte
<1>2. ParmSet(c) \in 0 .. 14
  BY DEF ParmSet, Byte
<1>3. ParmReply(c) \in Byte
  BY <1>2 DEF ParmReply, ParmSel, Byte
<1>4. BitReply(c) \in Byte
  BY DEF BitReply, Byte
<1>5. ChmodReply(c) \in Byte
  BY DEF ChmodReply, Byte
<1> QED
  BY <1>1, <1>2, <1>3, <1>4, <1>5 DEF RESET_REPLY, SearchOn, Byte
\* One command byte.
LEMMA CommandLink ==
  ASSUME NEW L \in Links, NEW c \in Byte
  PROVE  LET M == Command(L, c)
         IN  /\ M \in Links /\ SdkSame(L, M) /\ M.mode = L.mode /\ M.handed = L.handed
             /\ M.speed = L.speed
                  \/ (IsComm(c) /\ Funct(c) # "chmod" /\ M.speed = SpeedOf(c))
             /\ M.search = L.search \/ (IsComm(c) /\ Funct(c) = "search" /\ M.search = SearchOn(c))
             /\ M.baud = L.baud \/ (IsConfig(c) /\ ParmSel(c) = PARMSEL_BAUDRATE)
<1> DEFINE s == SpeedOf(c)
           Rx(b) == Append(L.rx, b)
<1>1. s \in Speeds /\ SearchOn(c) \in BOOLEAN /\ ParmSet(c) \in 0 .. 14
  BY CodeFacts
<1>2. \A b \in Byte : Rx(b) \in Seq(Byte)
  <2>1. L.rx \in Seq(Byte)
    BY LinkFields
  <2> QED
    BY <2>1
<1>0. ~ (IsComm(c) /\ IsConfig(c))
  BY DEF IsComm, IsConfig, Byte
<1>3. CASE IsComm(c) /\ Funct(c) = "bit"
  <2>1. Command(L, c) = [L EXCEPT !.speed = s, !.rx = Rx(BitReply(c))]
    BY <1>3, <1>0 DEF Command
  <2>2. BitReply(c) \in Byte
    BY <1>3, CodeFacts DEF IsComm
  <2> DEFINE r == Rx(BitReply(c))
  <2>3. r \in Seq(Byte)
    BY <1>2, <2>2
  <2> HIDE DEF r
  <2>4. [L EXCEPT !.speed = s, !.rx = r] \in Links
    BY <1>1, <2>3 DEF Links
  <2> QED
    BY <1>3, <2>1, <2>4 DEF Links, SdkSame, r
<1>4. CASE IsComm(c) /\ Funct(c) = "search"
  <2> DEFINE t == SearchOn(c)
  <2>1. Command(L, c) = [L EXCEPT !.speed = s, !.search = t]
    BY <1>4, <1>0 DEF Command
  <2>2. t \in BOOLEAN
    BY <1>1
  <2> HIDE DEF t
  <2>4. [L EXCEPT !.speed = s, !.search = t] \in Links
    BY <1>1, <2>2 DEF Links
  <2> QED
    BY <1>4, <2>1, <2>4 DEF Links, SdkSame, t
<1>5. CASE IsComm(c) /\ Funct(c) = "reset"
  <2>1. Command(L, c) = [L EXCEPT !.speed = s, !.rx = Rx(RESET_REPLY)]
    BY <1>5, <1>0 DEF Command
  <2>2. RESET_REPLY \in Byte
    BY CodeFacts
  <2> DEFINE r == Rx(RESET_REPLY)
  <2>3. r \in Seq(Byte)
    BY <1>2, <2>2
  <2> HIDE DEF r
  <2>4. [L EXCEPT !.speed = s, !.rx = r] \in Links
    BY <1>1, <2>3 DEF Links
  <2> QED
    BY <1>5, <2>1, <2>4 DEF Links, SdkSame, r
<1>6. ASSUME NEW b \in Byte, Command(L, c) = [L EXCEPT !.rx = Append(@, b)] PROVE
         /\ Command(L, c) \in Links /\ SdkSame(L, Command(L, c))
         /\ Command(L, c).mode = L.mode /\ Command(L, c).handed = L.handed
         /\ Command(L, c).speed = L.speed
         /\ Command(L, c).search = L.search /\ Command(L, c).baud = L.baud
  <2> DEFINE r == Rx(b)
  <2>1. Command(L, c) = [L EXCEPT !.rx = r]
    BY <1>6
  <2>3. r \in Seq(Byte)
    BY <1>2
  <2> HIDE DEF r
  <2>4. [L EXCEPT !.rx = r] \in Links
    BY <2>3 DEF Links
  <2> QED
    BY <2>1, <2>4 DEF Links, SdkSame
<1>7. CASE IsComm(c) /\ Funct(c) = "chmod"
  <2>1. Command(L, c) = [L EXCEPT !.rx = Append(@, ChmodReply(c))]
    BY <1>7, <1>0 DEF Command
  <2>2. ChmodReply(c) \in Byte
    BY CodeFacts
  <2> QED
    BY <2>1, <2>2, <1>6
<1>8. CASE IsConfig(c) /\ ParmSel(c) = PARMSEL_BAUDRATE
  <2>2. ParmReply(c) \in Byte
    BY CodeFacts
  <2> DEFINE r == Rx(ParmReply(c))
             p == ParmSet(c)
  <2>1. Command(L, c) = [L EXCEPT !.baud = p, !.rx = r]
    BY <1>8, <1>0 DEF Command, PARMSEL_BAUDRATE
  <2>3. r \in Seq(Byte) /\ p \in 0 .. 14
    BY <1>1, <1>2, <2>2
  <2> HIDE DEF r, p
  <2>4. [L EXCEPT !.baud = p, !.rx = r] \in Links
    BY <2>3 DEF Links
  <2> QED
    BY <1>8, <2>1, <2>4 DEF Links, SdkSame
<1>9. CASE IsConfig(c) /\ ParmSel(c) = 0
  <2> DEFINE b == IF ParmRead(c) = PARMSEL_BAUDRATE THEN L.baud ELSE 0
  <2>1. Command(L, c) = [L EXCEPT !.rx = Append(@, b)]
    BY <1>9, <1>0 DEF Command, PARMSEL_BAUDRATE
  <2>2. b \in Byte
    <3>1. L.baud \in 0 .. 14
      BY LinkFields
    <3> QED
      BY <3>1 DEF Byte
  <2> HIDE DEF b
  <2> QED
    BY <2>1, <2>2, <1>6
<1>10. CASE IsConfig(c) /\ ParmSel(c) \notin {0, PARMSEL_BAUDRATE}
  <2>1. Command(L, c) = [L EXCEPT !.rx = Append(@, ParmReply(c))]
    BY <1>10, <1>0 DEF Command
  <2>2. ParmReply(c) \in Byte
    BY CodeFacts
  <2> QED
    BY <2>1, <2>2, <1>6
<1>11. CASE ~IsComm(c) /\ ~IsConfig(c)
  <2>1. Command(L, c) = L
    BY <1>11 DEF Command
  <2> QED
    BY <2>1 DEF SdkSame
<1>12. Funct(c) \in {"bit", "search", "reset", "chmod"}
  BY DEF Funct
<1> QED
  BY <1>3, <1>4, <1>5, <1>7, <1>8, <1>9, <1>10, <1>11, <1>12

\* A byte in command mode.
LEMMA InCommandModeLink ==
  ASSUME NEW L \in Links, NEW c \in Byte
  PROVE  /\ InCommandMode(L, c) \in Links /\ SdkSame(L, InCommandMode(L, c))
         /\ c \notin {MODE_DATA, MODE_COMMAND} => InCommandMode(L, c) = Command(L, c)
         /\ c = MODE_DATA => InCommandMode(L, c) = [L EXCEPT !.mode = "DATA"]
         /\ c = MODE_COMMAND => InCommandMode(L, c) = L
<1>1. CASE c \notin {MODE_DATA, MODE_COMMAND}
  <2>1. InCommandMode(L, c) = Command(L, c)
    BY <1>1 DEF InCommandMode
  <2> QED
    BY <1>1, <2>1, CommandLink
<1>2. CASE c = MODE_DATA
  <2>1. InCommandMode(L, c) = [L EXCEPT !.mode = "DATA"]
    BY <1>2 DEF InCommandMode, MODE_DATA, MODE_COMMAND
  <2>2. [L EXCEPT !.mode = "DATA"] \in Links
    BY DEF Links
  <2>3. SdkSame(L, [L EXCEPT !.mode = "DATA"])
    BY DEF Links, SdkSame
  <2> QED
    BY <1>2, <2>1, <2>2, <2>3 DEF MODE_DATA, MODE_COMMAND
<1>3. CASE c = MODE_COMMAND
  <2>1. InCommandMode(L, c) = L
    BY <1>3 DEF InCommandMode, MODE_DATA, MODE_COMMAND
  <2> QED
    BY <1>3, <2>1 DEF SdkSame, MODE_DATA, MODE_COMMAND
<1> QED
  BY <1>1, <1>2, <1>3
LEMMA DecoderFields ==
  ASSUME NEW d \in Decoders
  PROVE  d.link \in Links /\ d.batch \in Seq(Byte) /\ d.esc \in BOOLEAN
  BY DEF Decoders

LEMMA AtType ==
  ASSUME NEW L \in Links, NEW batch \in Seq(Byte), NEW esc \in BOOLEAN
  PROVE  At(L, batch, esc) \in Decoders
  BY DEF At, Decoders

\* The ways a byte of a packet is taken.
LEMMA DecodeCases ==
  ASSUME NEW d \in Decoders, NEW bytes \in Seq(Byte), NEW k \in 1 .. Len(bytes),
         NEW how \in Ways
  PROVE  LET c == bytes[k]
             escape == k < Len(bytes) /\ bytes[k + 1] = MODE_COMMAND
             M == Dispatch(d.link, d.batch, how)
             e == Decode(d, bytes, k, how)
         IN  /\ d.esc => e = At(d.link, d.batch, FALSE)
             /\ ~d.esc /\ d.link.mode = "COMMAND" =>
                  e = At(InCommandMode(d.link, c), <<>>, FALSE)
             /\ ~d.esc /\ d.link.mode = "DATA" =>
                  /\ c = MODE_COMMAND /\ escape => e = At(d.link, Append(d.batch, c), TRUE)
                  /\ c = MODE_COMMAND /\ ~escape =>
                       e = At([M EXCEPT !.mode = "COMMAND"], <<>>, FALSE)
                  /\ c = TIMING =>
                       e = At([M EXCEPT !.mode = "COMMAND", !.baud = PARMSET_9600], <<>>, FALSE)
                  /\ c \notin {MODE_COMMAND, TIMING} => e = At(d.link, Append(d.batch, c), FALSE)
<1>1. MODE_COMMAND # TIMING
  BY DEF MODE_COMMAND, TIMING
<1> DEFINE c == bytes[k]
           escape == k < Len(bytes) /\ bytes[k + 1] = MODE_COMMAND
<1>2. Decode(d, bytes, k, how) =
        IF d.esc THEN At(d.link, d.batch, FALSE)
        ELSE IF d.link.mode = "COMMAND" THEN At(InCommandMode(d.link, c), <<>>, FALSE)
        ELSE InDataMode(d, c, escape, how)
  BY DEF Decode
<1> HIDE DEF c, escape
<1>3. /\ c = MODE_COMMAND /\ escape =>
           InDataMode(d, c, escape, how) = At(d.link, Append(d.batch, c), TRUE)
      /\ c = MODE_COMMAND /\ ~escape =>
           InDataMode(d, c, escape, how)
             = At([Dispatch(d.link, d.batch, how) EXCEPT !.mode = "COMMAND"], <<>>, FALSE)
      /\ c = TIMING =>
           InDataMode(d, c, escape, how)
             = At([Dispatch(d.link, d.batch, how) EXCEPT !.mode = "COMMAND",
                     !.baud = PARMSET_9600], <<>>, FALSE)
      /\ c \notin {MODE_COMMAND, TIMING} =>
           InDataMode(d, c, escape, how) = At(d.link, Append(d.batch, c), FALSE)
  BY <1>1 DEF InDataMode
<1> QED
  BY <1>2, <1>3 DEF c, escape

\* A byte that ends data mode.
LEMMA LeaveData ==
  ASSUME NEW L \in Links
  PROVE  /\ [L EXCEPT !.mode = "COMMAND"] \in Links
         /\ SdkSame(L, [L EXCEPT !.mode = "COMMAND"])
         /\ [L EXCEPT !.mode = "COMMAND", !.baud = PARMSET_9600] \in Links
         /\ SdkSame(L, [L EXCEPT !.mode = "COMMAND", !.baud = PARMSET_9600])
<1>1. [L EXCEPT !.mode = "COMMAND"] \in Links
  BY DEF Links
<1>2. SdkSame(L, [L EXCEPT !.mode = "COMMAND"])
  BY DEF Links, SdkSame
<1>3. [L EXCEPT !.mode = "COMMAND", !.baud = PARMSET_9600] \in Links
  <2> DEFINE p == PARMSET_9600
  <2>1. p \in 0 .. 14
    BY DEF PARMSET_9600
  <2> HIDE DEF p
  <2>2. [L EXCEPT !.mode = "COMMAND", !.baud = p] \in Links
    BY <2>1 DEF Links
  <2> QED
    BY <2>2 DEF p
<1>4. SdkSame(L, [L EXCEPT !.mode = "COMMAND", !.baud = PARMSET_9600])
  BY DEF Links, SdkSame
<1> QED
  BY <1>1, <1>2, <1>3, <1>4

LEMMA SdkSameTransitive ==
  ASSUME NEW L, NEW M, NEW N, SdkSame(L, M), SdkSame(M, N)
  PROVE  SdkSame(L, N)
  BY DEF SdkSame

\* A step of the decoder keeps its types and the SDK's globals.
LEMMA DecodeLink ==
  ASSUME NEW d \in Decoders, NEW bytes \in Seq(Byte), NEW k \in 1 .. Len(bytes),
         NEW how \in Ways
  PROVE  Decode(d, bytes, k, how) \in Decoders /\ SdkSame(d.link, Decode(d, bytes, k, how).link)
<1> DEFINE c == bytes[k]
           escape == k < Len(bytes) /\ bytes[k + 1] = MODE_COMMAND
           M == Dispatch(d.link, d.batch, how)
           e == Decode(d, bytes, k, how)
<1>1. d.link \in Links /\ d.batch \in Seq(Byte) /\ d.esc \in BOOLEAN
  BY DecoderFields
<1>2. c \in Byte
  OBVIOUS
<1>3. Append(d.batch, c) \in Seq(Byte) /\ <<>> \in Seq(Byte)
  BY <1>1, <1>2
<1>4. M \in Links /\ SdkSame(d.link, M)
  BY <1>1, DispatchLink
<1>5. SdkSame(d.link, d.link)
  BY DEF SdkSame
<1>6. d.link.mode \in {"COMMAND", "DATA"}
  BY <1>1, LinkFields
<1> HIDE DEF c, M
<1>7. CASE d.esc
  <2>1. e = At(d.link, d.batch, FALSE)
    BY <1>7, DecodeCases
  <2> QED
    BY <2>1, <1>1, <1>5 DEF At, Decoders
<1>8. CASE ~d.esc /\ d.link.mode = "COMMAND"
  <2>1. e = At(InCommandMode(d.link, c), <<>>, FALSE)
    BY <1>8, DecodeCases DEF c
  <2>2. InCommandMode(d.link, c) \in Links /\ SdkSame(d.link, InCommandMode(d.link, c))
    BY <1>1, <1>2, InCommandModeLink
  <2> QED
    BY <2>1, <2>2, <1>3 DEF At, Decoders
<1>9. CASE ~d.esc /\ d.link.mode = "DATA"
  <2>1. \/ e = At(d.link, Append(d.batch, c), TRUE)
        \/ e = At([M EXCEPT !.mode = "COMMAND"], <<>>, FALSE)
        \/ e = At([M EXCEPT !.mode = "COMMAND", !.baud = PARMSET_9600], <<>>, FALSE)
        \/ e = At(d.link, Append(d.batch, c), FALSE)
    BY <1>9, DecodeCases DEF c, M
  <2>2. /\ [M EXCEPT !.mode = "COMMAND"] \in Links
        /\ SdkSame(d.link, [M EXCEPT !.mode = "COMMAND"])
        /\ [M EXCEPT !.mode = "COMMAND", !.baud = PARMSET_9600] \in Links
        /\ SdkSame(d.link, [M EXCEPT !.mode = "COMMAND", !.baud = PARMSET_9600])
    BY <1>4, LeaveData, SdkSameTransitive
  <2>4. \E N \in Links, b \in Seq(Byte), x \in BOOLEAN :
          e = At(N, b, x) /\ SdkSame(d.link, N)
    BY <2>1, <2>2, <1>1, <1>3, <1>5
  <2>5. PICK N \in Links, b \in Seq(Byte), x \in BOOLEAN :
          e = At(N, b, x) /\ SdkSame(d.link, N)
    BY <2>4
  <2> HIDE DEF e
  <2>6. e \in Decoders /\ e.link = N
    BY <2>5 DEF At, Decoders
  <2> QED
    BY <2>5, <2>6 DEF e
<1> QED
  BY <1>1, <1>6, <1>7, <1>8, <1>9

LEMMA StartType ==
  ASSUME NEW L \in Links
  PROVE  At(L, <<>>, FALSE) \in Decoders
<1>1. <<>> \in Seq(Byte)
  OBVIOUS
<1> QED
  BY <1>1, AtType

\* All through a packet.
LEMMA RunLink ==
  ASSUME NEW L \in Links, NEW bytes \in Seq(Byte), NEW how \in Ways, NEW D,
         Run(L, bytes, how, D)
  PROVE  \A k \in 0 .. Len(bytes) : D[k] \in Decoders /\ SdkSame(L, D[k].link)
<1> DEFINE n == Len(bytes)
           S == {k \in 0 .. n : D[k] \in Decoders /\ SdkSame(L, D[k].link)}
<1>1. n \in Nat
  OBVIOUS
<1>2. 0 \in S
  <2>1. D[0] = At(L, <<>>, FALSE)
    BY DEF Run
  <2>2. SdkSame(L, L)
    BY DEF SdkSame
  <2>3. D[0].link = L /\ D[0] \in Decoders
    BY <2>1 DEF At, Decoders
  <2> QED
    BY <2>2, <2>3, <1>1
<1>3. ASSUME NEW k \in 0 .. n, k # 0, k - 1 \in S PROVE k \in S
  <2>1. k \in 1 .. Len(bytes) /\ D[k] = Decode(D[k - 1], bytes, k, how)
    BY <1>3 DEF Run
  <2>2. D[k - 1] \in Decoders /\ SdkSame(L, D[k - 1].link)
    BY <1>3
  <2>3. D[k] \in Decoders /\ SdkSame(D[k - 1].link, D[k].link)
    BY <2>1, <2>2, DecodeLink
  <2>4. SdkSame(L, D[k].link)
    BY <2>2, <2>3, SdkSameTransitive
  <2> QED
    BY <2>3, <2>4
<1>4. \A k \in 0 .. n : k \in S
  <2>1. \A k \in 0 .. n : k # 0 /\ k - 1 \in S => k \in S
    BY <1>3
  <2> HIDE DEF S
  <2> QED
    BY <1>1, <1>2, <2>1, Upto
<1> QED
  BY <1>4

\* WriteCOM changes the bridge and g_outbuffer only.
LEMMA WriteLink ==
  ASSUME NEW L \in Links, NEW bytes \in Seq(Byte), NEW how \in Ways
  PROVE  WriteCOM(L, bytes, how) \in Links /\ SdkSame(L, WriteCOM(L, bytes, how))
<1>1. PICK D : Run(L, bytes, how, D)
  BY Runs
<1> DEFINE e == D[Len(bytes)]
<1>2. e \in Decoders /\ SdkSame(L, e.link)
  BY <1>1, RunLink
<1>3. WriteCOM(L, bytes, how) = Dispatch(e.link, e.batch, how)
  BY <1>1 DEF Run
<1> HIDE DEF e
<1>4. e.link \in Links /\ e.batch \in Seq(Byte)
  BY <1>2, DecoderFields
<1>5. Dispatch(e.link, e.batch, how) \in Links /\ SdkSame(e.link, Dispatch(e.link, e.batch, how))
  BY <1>4, DispatchLink
<1> QED
  BY <1>2, <1>3, <1>5, SdkSameTransitive

----------------------------------------------------------------------------
(* Command packets *)

\* What is assigned its own value stays.
LEMMA Unmoved ==
  ASSUME NEW L \in Links
  PROVE  /\ [L EXCEPT !.srch = L.srch, !.rx = L.rx] = L
         /\ [L EXCEPT !.rx = L.rx, !.handed = L.handed] = L
         /\ [L EXCEPT !.mode = L.mode] = L
  BY DEF Links

\* Nothing waits at the end of a packet that ends in command mode.
LEMMA DispatchNothing ==
  ASSUME NEW L \in Links, NEW how \in Ways
  PROVE  Dispatch(L, <<>>, how) = L
<1>1. L.rx \in Seq(Byte) /\ L.handed \in Seq(Byte)
  BY LinkFields
<1>2. L.rx \o <<>> = L.rx /\ L.handed \o <<>> = L.handed
  BY <1>1
<1>3. CASE L.search
  <2>1. SearchLen \in Nat /\ SearchLen > 0 /\ L.srch \in 0 .. SearchLen - 1
    <3>1. SearchLen \in Nat /\ SearchLen > 0
      BY LinkAssumption
    <3>2. L.srch \in 0 .. SearchLen - 1
      BY DEF Links
    <3> QED
      BY <3>1, <3>2
  <2> DEFINE n == L.srch + Len(<<>>)
  <2>2. n = L.srch
    BY <2>1
  <2>3. (L.srch % SearchLen) = L.srch /\ (L.srch \div SearchLen) = 0
    BY <2>1
  <2> HIDE DEF n
  <2> DEFINE m == SearchLen * (n \div SearchLen)
  <2>4. m = 0
    BY <2>1, <2>2, <2>3
  <2> HIDE DEF m
  <2>5. [k \in 1 .. m |-> 0] = <<>>
    BY <2>4
  <2>6. Dispatch(L, <<>>, how)
          = [L EXCEPT !.srch = (n % SearchLen), !.rx = L.rx \o [k \in 1 .. m |-> 0]]
    BY <1>3 DEF Dispatch, Searched, n, m
  <2> QED
    BY <2>2, <2>3, <2>5, <2>6, <1>2, Unmoved
<1>4. CASE ~L.search
  <2>1. Answer(how, <<>>) = <<>>
    BY DEF Answer
  <2>2. Dispatch(L, <<>>, how)
          = [L EXCEPT !.rx = L.rx \o Answer(how, <<>>), !.handed = L.handed \o <<>>]
    BY <1>4 DEF Dispatch
  <2> QED
    BY <2>1, <2>2, <1>2, Unmoved
<1> QED
  BY <1>3, <1>4

\* A command that leaves the mode and the baud rate, and selects no speed but
\* s and no search.
Tame(c, s) ==
  /\ c \in Byte /\ c \notin {MODE_DATA, MODE_COMMAND}
  /\ ~ (IsComm(c) /\ Funct(c) = "search" /\ SearchOn(c))
  /\ ~ (IsConfig(c) /\ ParmSel(c) = PARMSEL_BAUDRATE)
  /\ IsComm(c) /\ Funct(c) # "chmod" => SpeedOf(c) = s

\* From L to M the bridge kept mode and baud rate, did not turn a search
\* on, and has the speed it had or the speed s.
Calm(L, M, s) ==
  /\ M \in Links /\ M.mode = "COMMAND" /\ M.baud = L.baud /\ M.handed = L.handed
  /\ M.speed = L.speed \/ M.speed = s
  /\ M.search => L.search

\* A tame command is calm.
LEMMA TameStep ==
  ASSUME NEW s \in Nat, NEW L, NEW M, Calm(L, M, s), NEW c, Tame(c, s)
  PROVE  InCommandMode(M, c) = Command(M, c) /\ Calm(L, Command(M, c), s)
<1>1. M \in Links /\ c \in Byte
  BY DEF Tame, Calm
<1>2. InCommandMode(M, c) = Command(M, c)
  BY <1>1, InCommandModeLink DEF Tame
<1> DEFINE N == Command(M, c)
<1>3. /\ N \in Links /\ N.mode = M.mode /\ N.handed = M.handed
      /\ N.speed = M.speed \/ (IsComm(c) /\ Funct(c) # "chmod" /\ N.speed = SpeedOf(c))
      /\ N.search = M.search \/ (IsComm(c) /\ Funct(c) = "search" /\ N.search = SearchOn(c))
      /\ N.baud = M.baud \/ (IsConfig(c) /\ ParmSel(c) = PARMSEL_BAUDRATE)
  BY <1>1, CommandLink
<1> HIDE DEF N
<1>4. Calm(L, N, s)
  BY <1>3 DEF Calm, Tame
<1> QED
  BY <1>2, <1>4 DEF N

LEMMA CalmTransitive ==
  ASSUME NEW s, NEW L, NEW M, NEW N, Calm(L, M, s), Calm(M, N, s)
  PROVE  Calm(L, N, s)
  BY DEF Calm

\* The bytes of a packet behind the j-th are tame.
TameAfter(bytes, j, s) == \A k \in 1 .. Len(bytes) : k > j => Tame(bytes[k], s)

\* The decoder at place k has collected nothing, and has come from M by
\* commands that are tame.
Rests(D, k, M, s) == Calm(M, D[k].link, s) /\ D[k].batch = <<>> /\ ~D[k].esc

\* The decoder is calm from byte j to byte n.
RestsFrom(D, j, n, M, s) == \A k \in 0 .. n : k >= j => Rests(D, k, M, s)

\* The decoder over a tame byte.
LEMMA TameByte ==
  ASSUME NEW L \in Links, NEW bytes \in Seq(Byte), NEW how \in Ways, NEW D,
         Run(L, bytes, how, D), NEW k \in 1 .. Len(bytes), NEW M, NEW s \in Nat,
         Rests(D, k - 1, M, s), Tame(bytes[k], s)
  PROVE  Rests(D, k, M, s) /\ D[k].link = Command(D[k - 1].link, bytes[k])
<1> DEFINE d == D[k - 1]
<1>1. D[k] = Decode(d, bytes, k, how)
  BY DEF Run
<1>2. k - 1 \in 0 .. Len(bytes)
  OBVIOUS
<1>3. d \in Decoders
  BY <1>2, RunLink
<1>4. ~d.esc /\ Calm(M, d.link, s)
  BY DEF Rests
<1>5. d.link.mode = "COMMAND"
  BY <1>4 DEF Calm
<1>6. D[k] = At(InCommandMode(d.link, bytes[k]), <<>>, FALSE)
  BY <1>1, <1>3, <1>4, <1>5, DecodeCases
<1>7. InCommandMode(d.link, bytes[k]) = Command(d.link, bytes[k])
        /\ Calm(M, Command(d.link, bytes[k]), s)
  BY <1>4, TameStep
<1> DEFINE N == Command(d.link, bytes[k])
<1>8. D[k] = At(N, <<>>, FALSE) /\ Calm(M, N, s)
  BY <1>6, <1>7
<1> HIDE DEF N
<1>9. D[k].link = N /\ D[k].batch = <<>> /\ ~D[k].esc
  BY <1>8 DEF At
<1> QED
  BY <1>8, <1>9 DEF N, Rests

\* From a place where the bridge is in command mode and nothing is collected.
LEMMA CommandTail ==
  ASSUME NEW L \in Links, NEW bytes \in Seq(Byte), NEW how \in Ways, NEW D,
         Run(L, bytes, how, D), NEW M, NEW s \in Nat, NEW j \in 0 .. Len(bytes),
         Rests(D, j, M, s), TameAfter(bytes, j, s)
  PROVE  RestsFrom(D, j, Len(bytes), M, s)
<1> DEFINE n == Len(bytes)
           S == {k \in 0 .. n : k >= j => Rests(D, k, M, s)}
<1>1. n \in Nat /\ j \in Nat
  OBVIOUS
<1>2. ASSUME NEW k \in 0 .. n, k # 0, k - 1 \in S PROVE k \in S
  <2>1. SUFFICES ASSUME k >= j PROVE Rests(D, k, M, s)
    OBVIOUS
  <2>2. CASE k = j
    BY <2>2
  <2>3. CASE k # j
    <3>1. k > j /\ k \in 1 .. n /\ k - 1 >= j /\ k - 1 \in 0 .. n
      BY <2>1, <2>3, <1>2, <1>1
    <3>2. Rests(D, k - 1, M, s)
      BY <1>2, <3>1
    <3>3. Tame(bytes[k], s)
      BY <3>1 DEF TameAfter
    <3> QED
      BY <3>1, <3>2, <3>3, TameByte
  <2> QED
    BY <2>2, <2>3
<1>3. 0 \in S
  <2>1. 0 >= j => j = 0
    BY <1>1
  <2> QED
    BY <2>1, <1>1
<1>4. \A k \in 0 .. n : k \in S
  <2>1. \A k \in 0 .. n : k # 0 /\ k - 1 \in S => k \in S
    BY <1>2
  <2> HIDE DEF S
  <2> QED
    BY <1>1, <1>3, <2>1, Upto
<1> QED
  BY <1>4 DEF RestsFrom

\* Nothing is collected between commands.
LEMMA RestsHere ==
  ASSUME NEW D, NEW k, NEW M \in Links, M.mode = "COMMAND", NEW s,
         D[k] = At(M, <<>>, FALSE)
  PROVE  Rests(D, k, M, s)
<1>1. D[k].link = M /\ D[k].batch = <<>> /\ ~D[k].esc
  BY DEF At
<1>2. Calm(M, M, s)
  BY DEF Calm
<1> QED
  BY <1>1, <1>2 DEF Rests
\* A packet of commands, behind a mode switch when the mode is data.
Led(mode, cmds) == IF mode = "COMMAND" THEN cmds ELSE <<MODE_COMMAND>> \o cmds

LEMMA LedType ==
  ASSUME NEW mode, NEW cmds \in Seq(Byte)
  PROVE  Led(mode, cmds) \in Seq(Byte)
<1>1. <<MODE_COMMAND>> \in Seq(Byte)
  BY DEF MODE_COMMAND, Byte
<1> QED
  BY <1>1, Concatenated DEF Led

\* Commands without a mode switch.
NoSwitch(cmds) == \A k \in 1 .. Len(cmds) : cmds[k] # MODE_COMMAND

\* From byte j the packet is its commands, and there the decoder is in
\* command mode with nothing collected.
BeginsAt(L, cmds, D, j) ==
  /\ j \in 0 .. Len(Led(L.mode, cmds))
  /\ D[j] = At([L EXCEPT !.mode = "COMMAND"], <<>>, FALSE)
  /\ Len(Led(L.mode, cmds)) = j + Len(cmds)
  /\ \A k \in 1 .. Len(cmds) : Led(L.mode, cmds)[j + k] = cmds[k]

\* The mode byte, when the SDK sends one, is one that the bridge needs.
LEMMA PacketBegins ==
  ASSUME NEW L \in Links, NEW cmds \in Seq(Byte), NEW how \in Ways, NEW D,
         NoSwitch(cmds), Run(L, Led(L.mode, cmds), how, D)
  PROVE  \E j : BeginsAt(L, cmds, D, j)
<1> DEFINE bytes == Led(L.mode, cmds)
           M == [L EXCEPT !.mode = "COMMAND"]
<1>1. CASE L.mode = "COMMAND"
  <2>1. bytes = cmds
    BY <1>1 DEF Led
  <2>2. M = L
    BY <1>1, Unmoved
  <2>3. D[0] = At(M, <<>>, FALSE)
    BY <2>2 DEF Run
  <2>4. Len(cmds) \in Nat
    OBVIOUS
  <2> HIDE DEF M
  <2>5. /\ 0 \in 0 .. Len(cmds) /\ Len(cmds) = 0 + Len(cmds)
        /\ \A k \in 1 .. Len(cmds) : cmds[0 + k] = cmds[k]
    BY <2>4
  <2>6. BeginsAt(L, cmds, D, 0)
    BY <2>1, <2>3, <2>5 DEF M, BeginsAt
  <2> QED
    BY <2>6
<1>2. CASE L.mode = "DATA"
  <2>1. bytes = <<MODE_COMMAND>> \o cmds
    BY <1>2 DEF Led
  <2>2. /\ Len(bytes) = 1 + Len(cmds) /\ bytes[1] = MODE_COMMAND
        /\ \A k \in 1 .. Len(cmds) : bytes[1 + k] = cmds[k]
    BY <2>1
  <2>3. Len(cmds) \in Nat /\ bytes \in Seq(Byte)
    BY LedType
  <2> HIDE DEF bytes
  <2>4. 1 \in 1 .. Len(bytes)
    BY <2>2, <2>3
  <2>5. ~ (1 < Len(bytes) /\ bytes[1 + 1] = MODE_COMMAND)
    <3>1. SUFFICES ASSUME 1 < Len(bytes), bytes[1 + 1] = MODE_COMMAND PROVE FALSE
      OBVIOUS
    <3>2. 1 \in 1 .. Len(cmds)
      BY <3>1, <2>2, <2>3
    <3> QED
      BY <3>1, <3>2, <2>2 DEF NoSwitch
  <2>6. D[0] = At(L, <<>>, FALSE) /\ D[1] = Decode(D[0], bytes, 1, how)
    <3>1. D[0] = At(L, <<>>, FALSE) /\ D[1] = Decode(D[1 - 1], bytes, 1, how)
      BY <2>4 DEF Run, bytes
    <3> DEFINE i == 1 - 1
    <3>2. i = 0
      OBVIOUS
    <3>3. D[1] = Decode(D[i], bytes, 1, how)
      BY <3>1
    <3> HIDE DEF i
    <3> QED
      BY <3>1, <3>2, <3>3
  <2>7. D[0] \in Decoders
    BY <2>6, StartType
  <2> DEFINE d == D[0]
  <2>8. d.link = L /\ d.batch = <<>> /\ ~d.esc
    BY <2>6 DEF At
  <2> HIDE DEF d
  <2>9. Decode(d, bytes, 1, how) = At([Dispatch(d.link, d.batch, how) EXCEPT !.mode = "COMMAND"], <<>>, FALSE)
    BY <2>2, <2>3, <2>4, <2>5, <2>7, <2>8, <1>2, DecodeCases DEF d
  <2>10. D[1] = At(M, <<>>, FALSE)
    BY <2>6, <2>8, <2>9, DispatchNothing DEF d
  <2>11. 1 \in 0 .. Len(bytes)
    BY <2>4
  <2>12. BeginsAt(L, cmds, D, 1)
    BY <2>2, <2>10, <2>11 DEF bytes, BeginsAt
  <2> QED
    BY <2>12
<1> QED
  BY <1>1, <1>2, LinkFields

\* From a bridge whose mode the SDK knows, a packet of tame commands is
\* calm: it stays in command mode at its baud rate without a search.
LEMMA CommandPacket ==
  ASSUME NEW L \in Links, NEW cmds \in Seq(Byte), NEW how \in Ways, NEW s \in Nat,
         \A k \in 1 .. Len(cmds) : Tame(cmds[k], s)
  PROVE  Calm(L, WriteCOM(L, Led(L.mode, cmds), how), s)
<1> DEFINE bytes == Led(L.mode, cmds)
           M == [L EXCEPT !.mode = "COMMAND"]
           n == Len(bytes)
<1>1. bytes \in Seq(Byte) /\ n \in Nat
  BY LedType
<1>2. PICK D : Run(L, bytes, how, D)
  BY <1>1, Runs
<1>3. NoSwitch(cmds)
  BY DEF Tame, NoSwitch
<1>4. PICK j \in 0 .. n :
        /\ D[j] = At(M, <<>>, FALSE) /\ n = j + Len(cmds)
        /\ \A k \in 1 .. Len(cmds) : bytes[j + k] = cmds[k]
  <2>1. PICK j : BeginsAt(L, cmds, D, j)
    BY <1>2, <1>3, PacketBegins
  <2> QED
    BY <2>1 DEF BeginsAt
<1>5. M \in Links /\ M.mode = "COMMAND" /\ Calm(L, M, s)
  <2>1. M \in Links
    BY LeaveData
  <2>2. M.mode = "COMMAND" /\ M.baud = L.baud /\ M.handed = L.handed /\ M.speed = L.speed
          /\ M.search = L.search
    BY DEF Links
  <2> HIDE DEF M
  <2> QED
    BY <2>1, <2>2 DEF Calm
<1> HIDE DEF bytes, M
<1>6. TameAfter(bytes, j, s)
  <2>1. SUFFICES ASSUME NEW k \in 1 .. n, k > j PROVE Tame(bytes[k], s)
    BY DEF TameAfter
  <2>2. k - j \in 1 .. Len(cmds) /\ k = j + (k - j)
    BY <2>1, <1>1, <1>4
  <2>3. bytes[j + (k - j)] = cmds[k - j]
    BY <1>4, <2>2
  <2> QED
    BY <2>2, <2>3
<1>7. Calm(M, D[n].link, s) /\ D[n].batch = <<>>
  <2>1. n \in 0 .. n /\ n >= j
    BY <1>1, <1>4
  <2>2. Rests(D, j, M, s)
    BY <1>4, <1>5, RestsHere
  <2>3. RestsFrom(D, j, n, M, s)
    BY <1>1, <1>2, <1>6, <2>2, CommandTail
  <2>4. Rests(D, n, M, s)
    BY <2>1, <2>3 DEF RestsFrom
  <2> QED
    BY <2>4 DEF Rests
<1>8. WriteCOM(L, bytes, how) = Dispatch(D[n].link, D[n].batch, how)
  BY <1>2 DEF Run
<1>9. D[n].link \in Links
  BY <1>7 DEF Calm
<1>10. WriteCOM(L, bytes, how) = D[n].link
  BY <1>7, <1>8, <1>9, DispatchNothing
<1>11. Calm(L, D[n].link, s)
  BY <1>5, <1>7, CalmTransitive
<1> QED
  BY <1>10, <1>11 DEF bytes

----------------------------------------------------------------------------
(* One exchange *)

\* What the SDK believes is the same.
Beliefs(L, M) ==
  /\ M.UMode = L.UMode /\ M.UBaud = L.UBaud /\ M.USpeed = L.USpeed
  /\ M.ULevel = L.ULevel /\ M.detected = L.detected

LEMMA FlushLink ==
  ASSUME NEW L \in Links
  PROVE  /\ FlushCOM(L) \in Links /\ SdkSame(L, FlushCOM(L)) /\ BridgeSame(L, FlushCOM(L))
         /\ FlushCOM(L).handed = L.handed /\ Len(FlushCOM(L).rx) = 0
<1>1. [L EXCEPT !.rx = <<>>] \in Links
  <2> DEFINE e == <<>>
  <2>1. e \in Seq(Byte)
    OBVIOUS
  <2> HIDE DEF e
  <2>2. [L EXCEPT !.rx = e] \in Links
    BY <2>1 DEF Links
  <2> QED
    BY <2>2 DEF e
<1> QED
  BY <1>1 DEF FlushCOM, Links, SdkSame, BridgeSame

\* Reading takes from g_outbuffer only.
LEMMA ReadLink ==
  ASSUME NEW L \in Links, NEW n \in Nat
  PROVE  LET M == ReadCOM(L, n)
         IN  /\ M \in Links /\ Beliefs(L, M) /\ BridgeSame(L, M) /\ M.handed = L.handed
             /\ M.ok => n <= Len(L.rx) /\ M.got = SubSeq(L.rx, 1, n)
             /\ n <= Len(L.rx) => M.ok
<1>1. L.rx \in Seq(Byte) /\ Len(L.rx) \in Nat
  <2>1. L.rx \in Seq(Byte)
    BY LinkFields
  <2> QED
    BY <2>1
<1>2. CASE n > Len(L.rx)
  <2>1. ReadCOM(L, n) = [L EXCEPT !.got = <<>>, !.ok = FALSE]
    BY <1>2 DEF ReadCOM
  <2>2. [L EXCEPT !.got = <<>>, !.ok = FALSE] \in Links
    <3> DEFINE e == <<>>
    <3>1. e \in Seq(Byte)
      OBVIOUS
    <3> HIDE DEF e
    <3>2. [L EXCEPT !.got = e, !.ok = FALSE] \in Links
      BY <3>1 DEF Links
    <3> QED
      BY <3>2 DEF e
  <2>3. ~[L EXCEPT !.got = <<>>, !.ok = FALSE].ok
    BY DEF Links
  <2>4. LET M == [L EXCEPT !.got = <<>>, !.ok = FALSE]
        IN  Beliefs(L, M) /\ BridgeSame(L, M) /\ M.handed = L.handed
    BY DEF Links, Beliefs, BridgeSame
  <2> QED
    BY <1>1, <1>2, <2>1, <2>2, <2>3, <2>4
<1>3. CASE ~ (n > Len(L.rx))
  <2> DEFINE g == SubSeq(L.rx, 1, n)
             r == SubSeq(L.rx, n + 1, Len(L.rx))
             M == [L EXCEPT !.got = g, !.rx = r, !.ok = TRUE]
  <2>1. ReadCOM(L, n) = M
    BY <1>3 DEF ReadCOM
  <2>2. n <= Len(L.rx)
    BY <1>1, <1>3
  <2>3. g \in Seq(Byte)
    BY <1>1, <2>2
  <2>4. r \in Seq(Byte)
    BY <1>1, <2>2
  <2> HIDE DEF g, r
  <2>5. M \in Links
    BY <2>3, <2>4 DEF Links
  <2>6. M.ok /\ M.got = g
    BY DEF Links
  <2>7. Beliefs(L, M) /\ BridgeSame(L, M) /\ M.handed = L.handed
    BY DEF Links, Beliefs, BridgeSame
  <2> HIDE DEF M
  <2> QED
    BY <2>1, <2>2, <2>5, <2>6, <2>7 DEF g
<1> QED
  BY <1>2, <1>3

\* The bridge after an exchange is the bridge after its write.
LEMMA ExchangeLink ==
  ASSUME NEW L \in Links, NEW bytes \in Seq(Byte), NEW n \in Nat, NEW how \in Ways
  PROVE  /\ Exchange(L, bytes, n, how) \in Links /\ Beliefs(L, Exchange(L, bytes, n, how))
         /\ LET W == WriteCOM(FlushCOM(L), bytes, how)
                M == Exchange(L, bytes, n, how)
            IN  /\ W \in Links /\ BridgeSame(W, M) /\ M.handed = W.handed
                /\ M.ok => n <= Len(W.rx) /\ M.got = SubSeq(W.rx, 1, n)
                /\ n <= Len(W.rx) => M.ok
<1> DEFINE F == FlushCOM(L)
           W == WriteCOM(F, bytes, how)
           M == ReadCOM(W, n)
<1>1. F \in Links /\ SdkSame(L, F)
  BY FlushLink
<1> HIDE DEF F
<1>2. W \in Links /\ SdkSame(F, W)
  BY <1>1, WriteLink
<1> HIDE DEF W
<1>3. /\ M \in Links /\ Beliefs(W, M) /\ BridgeSame(W, M) /\ M.handed = W.handed
      /\ M.ok => n <= Len(W.rx) /\ M.got = SubSeq(W.rx, 1, n)
      /\ n <= Len(W.rx) => M.ok
  BY <1>2, ReadLink
<1> HIDE DEF M
<1>4. Beliefs(L, M)
  BY <1>1, <1>2, <1>3 DEF Beliefs, SdkSame
<1>5. Exchange(L, bytes, n, how) = M
  BY DEF Exchange, M, W, F
<1>6. W = WriteCOM(FlushCOM(L), bytes, how)
  BY DEF W, F
<1> QED
  BY <1>2, <1>3, <1>4, <1>5, <1>6

\* Commands, to a bridge that is in the mode the SDK thinks.
Agree(L) == L.UMode = L.mode

\* After a command packet the SDK believes in command mode.
Moved(L, M) ==
  /\ M \in Links /\ M.UMode = "COMMAND" /\ M.UBaud = L.UBaud /\ M.USpeed = L.USpeed
  /\ M.ULevel = L.ULevel /\ M.detected = L.detected

\* Commands keeps mode and baud rate in step when they were in step.
LEMMA CommandsLink ==
  ASSUME NEW L \in Links, NEW cmds \in Seq(Byte), NEW n \in Nat, NEW how \in Ways
  PROVE  /\ Moved(L, Commands(L, cmds, n, how))
         /\ Agree(L) => \A s \in Nat : (\A k \in 1 .. Len(cmds) : Tame(cmds[k], s)) =>
                           Calm(L, Commands(L, cmds, n, how), s)
<1> DEFINE C == [L EXCEPT !.UMode = "COMMAND"]
           bytes == Led(L.UMode, cmds)
           M == Exchange(C, bytes, n, how)
           F == FlushCOM(C)
           W == WriteCOM(F, bytes, how)
<1>1. Commands(L, cmds, n, how) = M
  BY DEF Commands, Led
<1>2. C \in Links /\ C.UMode = "COMMAND" /\ C.UBaud = L.UBaud /\ C.USpeed = L.USpeed
        /\ C.ULevel = L.ULevel /\ C.detected = L.detected /\ BridgeSame(L, C)
        /\ C.handed = L.handed
  BY DEF Links, BridgeSame
<1>3. bytes \in Seq(Byte)
  BY LedType
<1> HIDE DEF C
<1>4. F \in Links /\ BridgeSame(C, F) /\ F.handed = C.handed
  BY <1>2, FlushLink
<1>5. M \in Links /\ Beliefs(C, M) /\ W \in Links /\ BridgeSame(W, M) /\ M.handed = W.handed
  <2> HIDE DEF bytes
  <2> QED
    BY <1>2, <1>3, ExchangeLink
<1> HIDE DEF M, F
<1>6. Moved(L, M)
  BY <1>2, <1>5 DEF Beliefs, Moved
<1>7. ASSUME Agree(L), NEW s \in Nat, \A k \in 1 .. Len(cmds) : Tame(cmds[k], s)
      PROVE  Calm(L, M, s)
  <2>1. F.mode = L.UMode
    BY <1>2, <1>4, <1>7 DEF Agree, BridgeSame
  <2>2. W = WriteCOM(F, Led(F.mode, cmds), how)
    BY <2>1
  <2>3. Calm(F, W, s)
    BY <1>4, <1>7, <2>2, CommandPacket
  <2> HIDE DEF W
  <2> QED
    BY <2>3, <1>2, <1>4, <1>5 DEF Calm, BridgeSame
<1> QED
  BY <1>1, <1>6, <1>7

----------------------------------------------------------------------------
(* The commands of the SDK, and the detection of the bridge *)

\* The commands of ds2480ut.c and owllu.c are tame.
LEMMA Tames ==
  /\ \A s : \A c \in {ReadBaud, Slew1p37Vus, Write10us, SampOff8us, Infinite5V, Pulse5V, STOP_PULSE} :
        Tame(c, s)
  /\ Tame(BitOne, 0)
  /\ \A u \in {SPEEDSEL_FLEX, SPEEDSEL_OD} :
        /\ Tame(Reset + u, u) /\ Tame(SearchOff + u, u)
        /\ \A b \in {0, 1}, e \in {0, 2} : Tame(BitOne + u + e - 16 * b, u)
<1>1. ASSUME NEW s, NEW c \in {15, 23, 69, 91, 63, 237, 241} PROVE Tame(c, s)
  <2>1. c \in Byte /\ c \notin {MODE_DATA, MODE_COMMAND}
    BY <1>1 DEF Byte, MODE_DATA, MODE_COMMAND
  <2>2. (c < 128 /\ ParmSel(c) # PARMSEL_BAUDRATE) \/ (c >= 128 /\ Funct(c) = "chmod")
    BY <1>1 DEF ParmSel, PARMSEL_BAUDRATE, Funct
  <2> QED
    BY <2>1, <2>2 DEF Tame, IsComm, IsConfig, Byte
<1>2. Tame(BitOne, 0)
  BY DEF Tame, BitOne, Byte, MODE_DATA, MODE_COMMAND, IsComm, IsConfig, Funct, SpeedOf
<1>3. ASSUME NEW u \in {4, 8} PROVE Tame(193 + u, u) /\ Tame(161 + u, u)
  <2>1. u = 4 \/ u = 8
    OBVIOUS
  <2> QED
    BY <2>1 DEF Tame, Byte, MODE_DATA, MODE_COMMAND, IsComm, IsConfig, Funct, SpeedOf, SearchOn
<1>4. ASSUME NEW u \in {4, 8}, NEW b \in {0, 1}, NEW e \in {0, 2}
      PROVE  Tame(145 + u + e - 16 * b, u)
  <2>1. (u = 4 \/ u = 8) /\ (b = 0 \/ b = 1) /\ (e = 0 \/ e = 2)
    OBVIOUS
  <2> DEFINE c == 145 + u + e - 16 * b
  <2>2. c \in {133, 135, 137, 139, 149, 151, 153, 155} /\ (c \in {133, 135, 149, 151} => u = 4)
           /\ (c \in {137, 139, 153, 155} => u = 8)
    BY <2>1
  <2> HIDE DEF c
  <2>3. c \in Byte /\ c \notin {MODE_DATA, MODE_COMMAND} /\ ~IsConfig(c)
    BY <2>2 DEF Byte, MODE_DATA, MODE_COMMAND, IsConfig
  <2>4. Funct(c) = "bit"
    BY <2>2 DEF Funct
  <2>5. SpeedOf(c) = u
    BY <2>2 DEF SpeedOf
  <2>6. Tame(c, u)
    BY <2>3, <2>4, <2>5 DEF Tame
  <2> QED
    BY <2>6 DEF c
<1> QED
  BY <1>1, <1>2, <1>3, <1>4
     DEF ReadBaud, Slew1p37Vus, Write10us, SampOff8us, Infinite5V, Pulse5V, STOP_PULSE, BitOne,
         Reset, SearchOff, SPEEDSEL_FLEX, SPEEDSEL_OD

\* The replies to the five commands of a detection.
LEMMA EnquiryReplies ==
  ASSUME NEW L \in Links
  PROVE  /\ \E r \in Byte : Command(L, 23).rx = Append(L.rx, r)
         /\ \E r \in Byte : Command(L, 69).rx = Append(L.rx, r)
         /\ \E r \in Byte : Command(L, 91).rx = Append(L.rx, r)
         /\ Command(L, 15).rx = Append(L.rx, L.baud)
         /\ Command(L, 145).rx = Append(L.rx, 145) /\ Command(L, 145).speed = 0
<1>1. ASSUME NEW c \in {23, 69, 91} PROVE \E r \in Byte : Command(L, c).rx = Append(L.rx, r)
  <2>1. c \in Byte
    BY DEF Byte
  <2>2. ~IsComm(c) /\ IsConfig(c) /\ ParmSel(c) # 0 /\ ParmSel(c) # PARMSEL_BAUDRATE
    BY <1>1 DEF IsComm, IsConfig, ParmSel, PARMSEL_BAUDRATE
  <2>3. Command(L, c) = [L EXCEPT !.rx = Append(@, ParmReply(c))]
    BY <2>2 DEF Command
  <2>4. ParmReply(c) \in Byte
    BY <2>1, CodeFacts
  <2>5. Command(L, c).rx = Append(L.rx, ParmReply(c))
    BY <2>3 DEF Links
  <2> QED
    BY <2>4, <2>5
<1>2. Command(L, 15).rx = Append(L.rx, L.baud)
  <2> DEFINE c == 15
  <2>1. ~IsComm(c) /\ IsConfig(c) /\ ParmSel(c) = 0 /\ ParmRead(c) = PARMSEL_BAUDRATE
    BY DEF IsComm, IsConfig, ParmSel, ParmRead, PARMSEL_BAUDRATE
  <2>2. 0 # PARMSEL_BAUDRATE
    BY DEF PARMSEL_BAUDRATE
  <2> HIDE DEF c
  <2>3. Command(L, c) = [L EXCEPT !.rx = Append(@, L.baud)]
    BY <2>1, <2>2 DEF Command
  <2>4. Command(L, c).rx = Append(L.rx, L.baud)
    BY <2>3 DEF Links
  <2> QED
    BY <2>4 DEF c
<1>3. Command(L, 145).rx = Append(L.rx, 145) /\ Command(L, 145).speed = 0
  <2> DEFINE c == 145
  <2>1. IsComm(c) /\ ~IsConfig(c) /\ Funct(c) = "bit" /\ BitReply(c) = c /\ SpeedOf(c) = 0
    BY DEF IsComm, IsConfig, Funct, BitReply, SpeedOf
  <2> HIDE DEF c
  <2>3. Command(L, c) = [L EXCEPT !.speed = 0, !.rx = Append(@, c)]
    BY <2>1 DEF Command
  <2>4. Command(L, c).rx = Append(L.rx, c) /\ Command(L, c).speed = 0
    BY <2>3 DEF Links
  <2> QED
    BY <2>4 DEF c
<1> QED
  BY <1>1, <1>2, <1>3

LEMMA EnquiryBytes ==
  /\ Enquiry \in Seq(Byte) /\ Len(Enquiry) = 5
  /\ Enquiry[1] = 23 /\ Enquiry[2] = 69 /\ Enquiry[3] = 91 /\ Enquiry[4] = 15 /\ Enquiry[5] = 145
  /\ \A k \in 1 .. 5 : Tame(Enquiry[k], 0)
<1>1. Enquiry = <<23, 69, 91, 15, 145>>
  BY DEF Enquiry, Slew1p37Vus, Write10us, SampOff8us, ReadBaud, BitOne
<1>2. Len(Enquiry) = 5
  BY <1>1
<1>3. Enquiry[1] = 23 /\ Enquiry[2] = 69 /\ Enquiry[3] = 91 /\ Enquiry[4] = 15 /\ Enquiry[5] = 145
  BY <1>1
<1>4. Tame(23, 0) /\ Tame(69, 0) /\ Tame(91, 0) /\ Tame(15, 0) /\ Tame(145, 0)
  BY Tames DEF Slew1p37Vus, Write10us, SampOff8us, ReadBaud, BitOne
<1>5. \A k \in 1 .. 5 : Tame(Enquiry[k], 0)
  BY <1>3, <1>4
<1>6. Enquiry \in Seq(Byte)
  BY <1>1 DEF Byte
<1> QED
  BY <1>2, <1>3, <1>5, <1>6

LEMMA Appended ==
  ASSUME NEW s \in Seq(Byte), NEW b \in Byte
  PROVE  /\ Append(s, b) \in Seq(Byte) /\ Len(Append(s, b)) = Len(s) + 1
         /\ \A k \in Nat : k = Len(s) + 1 => Append(s, b)[k] = b
         /\ \A k \in 1 .. Len(s) : Append(s, b)[k] = s[k]
  OBVIOUS

\* The detection reads five replies: the fourth is the baud rate.
LEMMA EnquiryReply ==
  ASSUME NEW L \in Links, L.mode = "COMMAND", Len(L.rx) = 0, NEW how \in Ways
  PROVE  LET N == WriteCOM(L, Enquiry, how)
         IN  /\ Calm(L, N, 0) /\ N.speed = 0
             /\ Len(N.rx) = 5 /\ N.rx[4] = L.baud /\ N.rx[5] = 145
<1>1. PICK D : Run(L, Enquiry, how, D)
  BY EnquiryBytes, Runs
<1> DEFINE l0 == D[0].link
           l1 == D[1].link
           l2 == D[2].link
           l3 == D[3].link
           l4 == D[4].link
           l5 == D[5].link
<1>2. D[0] = At(L, <<>>, FALSE) /\ l0 = L
  BY <1>1 DEF Run, At
<1>3. \A k \in 0 .. 5 : Rests(D, k, L, 0)
  <2>1. Len(Enquiry) = 5 /\ 0 \in 0 .. Len(Enquiry)
    BY EnquiryBytes
  <2>2. TameAfter(Enquiry, 0, 0)
    BY EnquiryBytes DEF TameAfter
  <2>3. Rests(D, 0, L, 0)
    BY <1>2, RestsHere
  <2>4. RestsFrom(D, 0, Len(Enquiry), L, 0)
    <3> DEFINE bytes == Enquiry
               j == 0
               s == 0
    <3>1. /\ bytes \in Seq(Byte) /\ j \in 0 .. Len(bytes) /\ s \in Nat
          /\ Run(L, bytes, how, D) /\ TameAfter(bytes, j, s) /\ Rests(D, j, L, s)
      BY <1>1, <2>1, <2>2, <2>3, EnquiryBytes
    <3> HIDE DEF bytes, j, s
    <3>2. RestsFrom(D, j, Len(bytes), L, s)
      BY <3>1, CommandTail
    <3> QED
      BY <3>2 DEF bytes, j, s
  <2> QED
    BY <2>1, <2>4 DEF RestsFrom
<1>4. ASSUME NEW k \in 1 .. 5 PROVE D[k].link = Command(D[k - 1].link, Enquiry[k])
  <2>1. k - 1 \in 0 .. 5 /\ k \in 1 .. Len(Enquiry)
    BY EnquiryBytes
  <2>2. Rests(D, k - 1, L, 0) /\ Tame(Enquiry[k], 0)
    BY <1>3, <2>1, EnquiryBytes
  <2> DEFINE bytes == Enquiry
             s == 0
  <2>3. /\ bytes \in Seq(Byte) /\ k \in 1 .. Len(bytes) /\ s \in Nat
        /\ Run(L, bytes, how, D) /\ Rests(D, k - 1, L, s) /\ Tame(bytes[k], s)
    BY <1>1, <2>1, <2>2, EnquiryBytes
  <2> HIDE DEF bytes, s
  <2>4. D[k].link = Command(D[k - 1].link, bytes[k])
    BY <2>3, TameByte
  <2> QED
    BY <2>4 DEF bytes
<1>5. /\ l1 = Command(l0, 23) /\ l2 = Command(l1, 69) /\ l3 = Command(l2, 91)
      /\ l4 = Command(l3, 15) /\ l5 = Command(l4, 145)
  <2>1. 1 - 1 = 0 /\ 2 - 1 = 1 /\ 3 - 1 = 2 /\ 4 - 1 = 3 /\ 5 - 1 = 4
    OBVIOUS
  <2>2. 1 \in 1 .. 5 /\ 2 \in 1 .. 5 /\ 3 \in 1 .. 5 /\ 4 \in 1 .. 5 /\ 5 \in 1 .. 5
    OBVIOUS
  <2> QED
    BY <1>4, <2>1, <2>2, EnquiryBytes
<1>6. \A k \in 0 .. 5 : D[k].link \in Links /\ D[k].link.baud = L.baud /\ D[k].link.rx \in Seq(Byte)
  BY <1>3, LinkFields DEF Calm, Rests
<1>7. /\ l0 \in Links /\ l1 \in Links /\ l2 \in Links /\ l3 \in Links /\ l4 \in Links /\ l5 \in Links
      /\ l0.rx \in Seq(Byte) /\ l1.rx \in Seq(Byte) /\ l2.rx \in Seq(Byte) /\ l3.rx \in Seq(Byte)
      /\ l4.rx \in Seq(Byte) /\ l3.baud = L.baud
  <2>1. 0 \in 0 .. 5 /\ 1 \in 0 .. 5 /\ 2 \in 0 .. 5 /\ 3 \in 0 .. 5 /\ 4 \in 0 .. 5 /\ 5 \in 0 .. 5
    OBVIOUS
  <2> QED
    BY <1>6, <2>1
<1>8. L.baud \in Byte /\ 145 \in Byte
  <2>1. L.baud \in 0 .. 14
    BY LinkFields
  <2> QED
    BY <2>1 DEF Byte
<1> HIDE DEF l0, l1, l2, l3, l4, l5
<1>9. /\ Len(l1.rx) = Len(l0.rx) + 1 /\ Len(l2.rx) = Len(l1.rx) + 1
      /\ Len(l3.rx) = Len(l2.rx) + 1
  <2>1. PICK r \in Byte : l1.rx = Append(l0.rx, r)
    <3>1. l0 \in Links /\ l1 = Command(l0, 23)
      BY <1>5, <1>7
    <3> QED
      BY <3>1, EnquiryReplies
  <2>2. PICK q \in Byte : l2.rx = Append(l1.rx, q)
    <3>1. l1 \in Links /\ l2 = Command(l1, 69)
      BY <1>5, <1>7
    <3> QED
      BY <3>1, EnquiryReplies
  <2>3. PICK p \in Byte : l3.rx = Append(l2.rx, p)
    <3>1. l2 \in Links /\ l3 = Command(l2, 91)
      BY <1>5, <1>7
    <3> QED
      BY <3>1, EnquiryReplies
  <2> QED
    BY <1>6, <1>7, <2>1, <2>2, <2>3, Appended
<1>10. l4.rx = Append(l3.rx, L.baud)
  <2>1. l3 \in Links /\ l4 = Command(l3, 15) /\ l3.baud = L.baud
    BY <1>5, <1>7
  <2>2. Command(l3, 15).rx = Append(l3.rx, l3.baud)
    BY <2>1, EnquiryReplies
  <2> QED
    BY <2>1, <2>2
<1>11. l5.rx = Append(l4.rx, 145) /\ l5.speed = 0
  <2>1. l4 \in Links /\ l5 = Command(l4, 145)
    BY <1>5, <1>7
  <2> QED
    BY <2>1, EnquiryReplies
<1>12. Len(l5.rx) = 5 /\ l5.rx[4] = L.baud /\ l5.rx[5] = 145
  <2>1. Len(l0.rx) = 0
    BY <1>2 DEF l0
  <2>2. Len(l3.rx) = 3
    BY <2>1, <1>9
  <2>3. Len(l4.rx) = 4 /\ l4.rx[4] = L.baud
    <3>1. 4 \in Nat /\ 4 = Len(l3.rx) + 1 /\ l3.rx \in Seq(Byte)
      BY <2>2, <1>7
    <3> QED
      BY <3>1, <1>8, <1>10, Appended
  <2>4. Len(l5.rx) = 5 /\ l5.rx[5] = 145 /\ l5.rx[4] = l4.rx[4]
    <3>1. 5 \in Nat /\ 5 = Len(l4.rx) + 1 /\ l4.rx \in Seq(Byte) /\ 4 \in 1 .. Len(l4.rx)
      BY <2>3, <1>7
    <3> QED
      BY <3>1, <1>8, <1>11, Appended
  <2> QED
    BY <2>3, <2>4
<1>14. Calm(L, l5, 0)
  BY <1>3 DEF l5, Rests
<1>13. WriteCOM(L, Enquiry, how) = l5
  <2>1. WriteCOM(L, Enquiry, how) = Dispatch(l5, <<>>, how)
    BY <1>1, <1>3, EnquiryBytes DEF Run, l5, Rests
  <2> QED
    BY <2>1, <1>7, DispatchNothing
<1> QED
  BY <1>3, <1>11, <1>12, <1>13, <1>14
\* The timing byte ends data mode and resets the baud register; in command
\* mode it is a reset pulse at standard speed.
LEMMA TimingLink ==
  ASSUME NEW L \in Links, NEW how \in Ways
  PROVE  LET W == WriteCOM(L, <<TIMING>>, how)
         IN  /\ W \in Links /\ SdkSame(L, W) /\ W.mode = "COMMAND"
             /\ W.handed = L.handed /\ (W.search => L.search)
             /\ W.baud = IF L.mode = "DATA" THEN PARMSET_9600 ELSE L.baud
<1> DEFINE bytes == <<TIMING>>
           W == WriteCOM(L, bytes, how)
<1>1. bytes \in Seq(Byte) /\ Len(bytes) = 1 /\ bytes[1] = TIMING
  BY DEF TIMING, Byte
<1> HIDE DEF bytes
<1>2. W \in Links /\ SdkSame(L, W)
  BY <1>1, WriteLink
<1>3. CASE L.mode = "COMMAND"
  <2>1. bytes = Led(L.mode, bytes)
    BY <1>3 DEF Led
  <2> DEFINE s == 0
  <2>2. s \in Nat /\ Tame(TIMING, s)
    BY DEF Tame, TIMING, Byte, MODE_DATA, MODE_COMMAND, IsComm, IsConfig, Funct, SpeedOf
  <2> HIDE DEF s
  <2>3. \A k \in 1 .. Len(bytes) : Tame(bytes[k], s)
    BY <1>1, <2>2
  <2>4. Calm(L, WriteCOM(L, Led(L.mode, bytes), how), s)
    BY <1>1, <2>2, <2>3, CommandPacket
  <2>5. Calm(L, W, s)
    BY <2>1, <2>4
  <2> HIDE DEF W
  <2> QED
    BY <1>2, <1>3, <2>5 DEF W, bytes, Calm
<1>4. CASE L.mode = "DATA"
  <2>1. PICK D : Run(L, bytes, how, D)
    BY <1>1, Runs
  <2>2. 1 \in 1 .. Len(bytes) /\ 1 - 1 = 0
    BY <1>1
  <2>3. D[0] = At(L, <<>>, FALSE) /\ D[1] = Decode(D[1 - 1], bytes, 1, how)
          /\ W = Dispatch(D[1].link, D[1].batch, how)
    BY <1>1, <2>1, <2>2 DEF Run
  <2> DEFINE d == D[0]
  <2>4. d \in Decoders /\ D[1] = Decode(d, bytes, 1, how)
    BY <2>2, <2>3, StartType
  <2>5. d.link = L /\ d.batch = <<>> /\ ~d.esc
    BY <2>3 DEF At
  <2> HIDE DEF d
  <2>6. Decode(d, bytes, 1, how)
          = At([Dispatch(d.link, d.batch, how) EXCEPT !.mode = "COMMAND", !.baud = PARMSET_9600],
               <<>>, FALSE)
    BY <1>1, <1>4, <2>2, <2>4, <2>5, DecodeCases
  <2> DEFINE M == [L EXCEPT !.mode = "COMMAND", !.baud = PARMSET_9600]
  <2>7. D[1] = At(M, <<>>, FALSE)
    BY <2>4, <2>5, <2>6, DispatchNothing
  <2>8. M \in Links /\ M.mode = "COMMAND" /\ M.baud = PARMSET_9600 /\ M.search = L.search
          /\ M.handed = L.handed
    <3>1. M \in Links
      BY LeaveData
    <3> QED
      BY <3>1 DEF Links
  <2> HIDE DEF M
  <2>9. D[1].link = M /\ D[1].batch = <<>>
    BY <2>7 DEF At
  <2>10. W = M
    BY <2>3, <2>8, <2>9, DispatchNothing
  <2> HIDE DEF W
  <2> QED
    BY <1>2, <1>4, <2>8, <2>10 DEF W, bytes
<1> QED
  BY <1>3, <1>4, LinkFields

\* What detection leaves, whatever it met.
Redetected(L, M) ==
  /\ M \in Links /\ M.mode = "COMMAND" /\ M.UMode = "COMMAND"
  /\ M.speed = SPEEDSEL_STD /\ M.USpeed = SPEEDSEL_FLEX /\ M.UBaud = PARMSET_9600
  /\ M.handed = L.handed /\ (M.search => L.search)
  /\ M.detected = IF M.baud = PARMSET_9600 THEN "yes" ELSE "no"

LEMMA ForgottenLink ==
  ASSUME NEW L \in Links
  PROVE  LET G == Forgotten(L)
         IN  /\ G \in Links /\ G.UMode = "COMMAND" /\ G.UBaud = PARMSET_9600
             /\ G.USpeed = SPEEDSEL_FLEX /\ BridgeSame(L, G) /\ G.handed = L.handed
<1>1. Forgotten(L) \in Links
  BY DEF Forgotten, Links
<1> QED
  BY <1>1 DEF Forgotten, Links, BridgeSame

\* The reply decides, by the baud rate alone.
LEMMA DetectedLink ==
  ASSUME NEW c \in Links, c.ok, c.got[4] = c.baud, c.got[5] = 145
  PROVE  LET M == Detected(c)
         IN  /\ M \in Links /\ BridgeSame(c, M) /\ M.handed = c.handed
             /\ M.UMode = c.UMode /\ M.UBaud = c.UBaud /\ M.USpeed = c.USpeed
             /\ M.detected = IF c.baud = PARMSET_9600 THEN "yes" ELSE "no"
<1>1. (145 \div 16) = 9 /\ SpeedOf(145) = 0
  BY DEF SpeedOf
<1>2. CASE c.baud = PARMSET_9600
  <2>1. Detected(c) = [c EXCEPT !.detected = "yes"]
    BY <1>1, <1>2 DEF Detected
  <2>2. [c EXCEPT !.detected = "yes"] \in Links
    BY DEF Links
  <2> QED
    BY <1>2, <2>1, <2>2 DEF Links, BridgeSame
<1>3. CASE c.baud # PARMSET_9600
  <2>1. Detected(c) = [c EXCEPT !.ok = FALSE, !.detected = "no"]
    BY <1>1, <1>3 DEF Detected
  <2>2. [c EXCEPT !.ok = FALSE, !.detected = "no"] \in Links
    BY DEF Links
  <2> DEFINE M == [c EXCEPT !.ok = FALSE, !.detected = "no"]
  <2>3. /\ BridgeSame(c, M) /\ M.handed = c.handed /\ M.detected = "no"
        /\ M.UMode = c.UMode /\ M.UBaud = c.UBaud /\ M.USpeed = c.USpeed
    BY DEF Links, BridgeSame
  <2> HIDE DEF M
  <2> QED
    BY <1>3, <2>1, <2>2, <2>3 DEF M
<1> QED
  BY <1>2, <1>3

\* DS2480Detect, whatever state the bridge was in: the first TIMING byte
\* and the enquiry leave it in command mode without a search to finish.
LEMMA DetectLink ==
  ASSUME NEW L \in Links, NEW how \in Ways
  PROVE  Redetected(L, DS2480Detect(L, how))
           /\ (L.mode = "DATA" => DS2480Detect(L, how).detected = "yes")
<1> DEFINE G == Forgotten(L)
           F == FlushCOM(G)
           W == WriteCOM(F, <<TIMING>>, how)
           V == FlushCOM(W)
           N == WriteCOM(V, Enquiry, how)
           c == Exchange(W, Enquiry, 5, how)
<1>1. /\ G \in Links /\ G.UMode = "COMMAND" /\ G.UBaud = PARMSET_9600
      /\ G.USpeed = SPEEDSEL_FLEX /\ BridgeSame(L, G) /\ G.handed = L.handed
  BY ForgottenLink
<1> HIDE DEF G
<1>2. F \in Links /\ SdkSame(G, F) /\ BridgeSame(G, F) /\ F.handed = G.handed
  BY <1>1, FlushLink
<1> HIDE DEF F
<1>3. /\ W \in Links /\ SdkSame(F, W) /\ W.mode = "COMMAND"
      /\ W.handed = F.handed /\ (W.search => F.search)
      /\ W.baud = IF F.mode = "DATA" THEN PARMSET_9600 ELSE F.baud
  BY <1>2, TimingLink
<1> HIDE DEF W
<1>4. V \in Links /\ BridgeSame(W, V) /\ V.handed = W.handed /\ Len(V.rx) = 0
  BY <1>3, FlushLink
<1>5. c \in Links /\ Beliefs(W, c) /\ N \in Links /\ BridgeSame(N, c) /\ c.handed = N.handed
        /\ (c.ok => 5 <= Len(N.rx) /\ c.got = SubSeq(N.rx, 1, 5))
        /\ (5 <= Len(N.rx) => c.ok)
  <2> DEFINE n == 5
             bytes == Enquiry
  <2>1. n \in Nat /\ bytes \in Seq(Byte)
    BY EnquiryBytes
  <2> HIDE DEF n, bytes
  <2>2. /\ Exchange(W, bytes, n, how) \in Links /\ Beliefs(W, Exchange(W, bytes, n, how))
        /\ LET Y == WriteCOM(FlushCOM(W), bytes, how)
               M == Exchange(W, bytes, n, how)
           IN  /\ Y \in Links /\ BridgeSame(Y, M) /\ M.handed = Y.handed
               /\ M.ok => n <= Len(Y.rx) /\ M.got = SubSeq(Y.rx, 1, n)
               /\ n <= Len(Y.rx) => M.ok
    BY <1>3, <2>1, ExchangeLink
  <2> QED
    BY <2>2 DEF n, bytes
<1> HIDE DEF V, c
<1>6. V.mode = "COMMAND"
  BY <1>3, <1>4 DEF BridgeSame
<1>7. /\ Calm(V, N, 0) /\ N.speed = 0
      /\ Len(N.rx) = 5 /\ N.rx[4] = V.baud /\ N.rx[5] = 145
  BY <1>4, <1>6, EnquiryReply
<1> HIDE DEF N
<1>8. c.ok /\ c.got[4] = N.baud /\ c.got[5] = 145
  <2>1. N.rx \in Seq(Byte)
    BY <1>5, LinkFields
  <2>2. c.ok /\ c.got = SubSeq(N.rx, 1, 5)
    BY <1>5, <1>7
  <2>3. SubSeq(N.rx, 1, 5)[4] = N.rx[4] /\ SubSeq(N.rx, 1, 5)[5] = N.rx[5]
    BY <2>1, <1>7
  <2> QED
    BY <2>2, <2>3, <1>7 DEF Calm
<1>9. c.baud = N.baud /\ c.mode = "COMMAND" /\ c.speed = 0 /\ (c.search => L.search)
        /\ c.handed = L.handed
        /\ c.baud = IF L.mode = "DATA" THEN PARMSET_9600 ELSE L.baud
  BY <1>1, <1>2, <1>3, <1>4, <1>5, <1>7 DEF BridgeSame, Calm
<1>10. c.UMode = "COMMAND" /\ c.UBaud = PARMSET_9600 /\ c.USpeed = SPEEDSEL_FLEX
  BY <1>1, <1>2, <1>3, <1>5 DEF Beliefs, SdkSame
<1>11. DS2480Detect(L, how) = Detected(c)
  BY DEF DS2480Detect, c, W, F, G
<1> DEFINE M == Detected(c)
<1>12. /\ M \in Links /\ BridgeSame(c, M) /\ M.handed = c.handed
       /\ M.UMode = c.UMode /\ M.UBaud = c.UBaud /\ M.USpeed = c.USpeed
       /\ M.detected = IF c.baud = PARMSET_9600 THEN "yes" ELSE "no"
  BY <1>5, <1>8, <1>9, DetectedLink
<1> HIDE DEF M
<1>13. Redetected(L, M) /\ (L.mode = "DATA" => M.detected = "yes")
  BY <1>9, <1>10, <1>12 DEF Redetected, BridgeSame, SPEEDSEL_STD
<1> QED
  BY <1>11, <1>13 DEF M

----------------------------------------------------------------------------
(* What the calls keep.  Stay is InSync of a link inside a call, where the   *)
(* baud rate may be lost once detection has failed; Found is what detection  *)
(* leaves and what nothing behind it disturbs; Idle is what a block needs.   *)

\* The SDK's speed is the bridge's.
SpeedAgree(L) == L.USpeed = SPEEDSEL_OD <=> L.speed = SPEEDSEL_OD

\* In step, but for the baud rate where detection has failed.
Stay(L) ==
  /\ Agree(L) /\ SpeedAgree(L) /\ ~L.search
  /\ L.UBaud = L.baud \/ L.detected = "no"

\* What was detected is so, and what was not detected is not at 9600.
Found(L) ==
  L.detected # "not tried" =>
    /\ Agree(L) /\ SpeedAgree(L)
    /\ L.detected = "yes" <=> L.baud = PARMSET_9600

\* What a block needs to reach the button.
Idle(L) == Agree(L) /\ ~L.search

\* A function that sends only commands: none of the three is lost, and
\* the button is handed nothing.
Keeps(L, M) ==
  /\ M \in Links
  /\ Stay(L) => Stay(M)
  /\ Found(L) => Found(M)
  /\ Idle(L) => Idle(M) /\ M.handed = L.handed

LEMMA KeepsTransitive ==
  ASSUME NEW L, NEW M, NEW N, Keeps(L, M), Keeps(M, N)
  PROVE  Keeps(L, N)
  BY DEF Keeps

LEMMA KeepsSelf ==
  ASSUME NEW L \in Links
  PROVE  Keeps(L, L)
  BY DEF Keeps

\* Only what a function returns differs, or the level.
LEMMA ResultKeeps ==
  ASSUME NEW L \in Links, NEW M \in Links, BridgeSame(L, M), M.handed = L.handed,
         M.UMode = L.UMode, M.UBaud = L.UBaud, M.USpeed = L.USpeed, M.detected = L.detected
  PROVE  Keeps(L, M)
  BY DEF Keeps, Stay, Found, Idle, Agree, SpeedAgree, BridgeSame

LEMMA OkKeeps ==
  ASSUME NEW L \in Links, NEW b \in BOOLEAN
  PROVE  Keeps(L, [L EXCEPT !.ok = b]) /\ ([L EXCEPT !.ok = b].ok <=> b)
           /\ [L EXCEPT !.ok = b].got = L.got /\ [L EXCEPT !.ok = b].handed = L.handed
           /\ [L EXCEPT !.ok = b].detected = L.detected
<1> DEFINE M == [L EXCEPT !.ok = b]
<1>1. M \in Links
  BY DEF Links
<1>2. /\ BridgeSame(L, M) /\ M.handed = L.handed /\ (M.ok <=> b) /\ M.got = L.got
      /\ M.UMode = L.UMode /\ M.UBaud = L.UBaud /\ M.USpeed = L.USpeed
      /\ M.detected = L.detected
  BY DEF Links, BridgeSame
<1> HIDE DEF M
<1>3. Keeps(L, M)
  BY <1>1, <1>2, ResultKeeps
<1> QED
  BY <1>2, <1>3 DEF M

LEMMA GotKeeps ==
  ASSUME NEW L \in Links, NEW g \in Seq(Byte)
  PROVE  Keeps(L, [L EXCEPT !.got = g])
<1> DEFINE M == [L EXCEPT !.got = g]
<1>1. M \in Links
  BY DEF Links
<1>2. /\ BridgeSame(L, M) /\ M.handed = L.handed
      /\ M.UMode = L.UMode /\ M.UBaud = L.UBaud /\ M.USpeed = L.USpeed
      /\ M.detected = L.detected
  BY DEF Links, BridgeSame
<1> HIDE DEF M
<1>3. Keeps(L, M)
  BY <1>1, <1>2, ResultKeeps
<1> QED
  BY <1>3 DEF M

LEMMA LevelKeeps ==
  ASSUME NEW L \in Links, NEW level \in {"NORMAL", "STRONG5"}
  PROVE  Keeps(L, AtLevel(L, level))
<1> DEFINE M == [L EXCEPT !.ULevel = level]
<1>1. M \in Links
  BY DEF Links
<1>2. /\ BridgeSame(L, M) /\ M.handed = L.handed
      /\ M.UMode = L.UMode /\ M.UBaud = L.UBaud /\ M.USpeed = L.USpeed
      /\ M.detected = L.detected
  BY DEF Links, BridgeSame
<1> HIDE DEF M
<1>3. Keeps(L, M)
  BY <1>1, <1>2, ResultKeeps
<1> QED
  BY <1>3, KeepsSelf DEF M, AtLevel

LEMMA RedetectedKeeps ==
  ASSUME NEW L \in Links, NEW M, Redetected(L, M)
  PROVE  Keeps(L, M) /\ Found(M)
<1>1. M \in Links /\ Agree(M) /\ SpeedAgree(M)
  BY DEF Redetected, Agree, SpeedAgree, SPEEDSEL_STD, SPEEDSEL_OD, SPEEDSEL_FLEX
<1>2. Found(M)
  BY <1>1 DEF Redetected, Found
<1>3. Stay(L) => Stay(M)
  BY <1>1 DEF Redetected, Stay
<1>4. Idle(L) => Idle(M) /\ M.handed = L.handed
  BY <1>1 DEF Redetected, Idle
<1> QED
  BY <1>1, <1>2, <1>3, <1>4 DEF Keeps

\* A detection, by whichever function, puts everything in step again.
LEMMA FailedKeeps ==
  ASSUME NEW L \in Links, NEW how \in Ways
  PROVE  /\ Keeps(L, Failed(L, how)) /\ Found(Failed(L, how)) /\ ~Failed(L, how).ok
         /\ Failed(L, how).detected # "not tried"
         /\ Failed(L, how).handed = L.handed
<1> DEFINE M == DS2480Detect(L, how)
           N == [M EXCEPT !.ok = FALSE]
<1>1. Redetected(L, M)
  BY DetectLink
<1> HIDE DEF M
<1>2. Keeps(L, M) /\ Found(M) /\ M \in Links /\ M.handed = L.handed /\ M.detected # "not tried"
  BY <1>1, RedetectedKeeps DEF Redetected
<1>3. Keeps(M, N) /\ ~N.ok /\ N.handed = M.handed /\ N.detected = M.detected
  BY <1>2, OkKeeps
<1> HIDE DEF N
<1>4. Failed(L, how) = N
  BY DEF Failed, N, M
<1>5. Keeps(L, N) /\ Found(N)
  BY <1>2, <1>3, KeepsTransitive DEF Keeps
<1> QED
  BY <1>2, <1>3, <1>4, <1>5

\* A function checks what it has read, or detects the bridge anew.
LEMMA EitherKeeps ==
  ASSUME NEW L \in Links, NEW how \in Ways, NEW M, M = L \/ M = Failed(L, how)
  PROVE  Keeps(L, M)
  BY FailedKeeps, KeepsSelf

\* Commands that are all tame.
TameAll(cmds, s) == \A k \in 1 .. Len(cmds) : Tame(cmds[k], s)

\* Tame commands keep all three.
LEMMA CommandsKeep ==
  ASSUME NEW L \in Links, NEW cmds \in Seq(Byte), TameAll(cmds, L.USpeed), NEW n \in Nat,
         NEW how \in Ways
  PROVE  Keeps(L, Commands(L, cmds, n, how))
<1> DEFINE M == Commands(L, cmds, n, how)
           s == L.USpeed
<1>1. s \in Nat
  <2>1. L.USpeed \in {SPEEDSEL_FLEX, SPEEDSEL_OD}
    BY LinkFields
  <2> QED
    BY <2>1 DEF SPEEDSEL_FLEX, SPEEDSEL_OD
<1>2. Moved(L, M) /\ (Agree(L) => Calm(L, M, s))
  BY <1>1, CommandsLink DEF TameAll
<1> HIDE DEF M
<1>3. Agree(L) => Agree(M) /\ (SpeedAgree(L) => SpeedAgree(M)) /\ M.baud = L.baud
                    /\ (M.search => L.search) /\ M.handed = L.handed
  BY <1>2 DEF Moved, Calm, Agree, SpeedAgree
<1>4. M \in Links /\ M.detected = L.detected /\ M.UBaud = L.UBaud
  BY <1>2 DEF Moved
<1>5. Stay(L) => Stay(M)
  BY <1>3, <1>4 DEF Stay
<1>6. Found(L) => Found(M)
  BY <1>3, <1>4 DEF Found
<1>7. Idle(L) => Idle(M) /\ M.handed = L.handed
  BY <1>3 DEF Idle
<1> QED
  BY <1>4, <1>5, <1>6, <1>7 DEF Keeps, M

----------------------------------------------------------------------------
(* The functions that send commands *)

LEMMA TameSequences ==
  /\ \A s, a : Tame(a, s) => <<a>> \in Seq(Byte) /\ TameAll(<<a>>, s)
  /\ \A s, a, b : Tame(a, s) /\ Tame(b, s) => <<a, b>> \in Seq(Byte) /\ TameAll(<<a, b>>, s)
  /\ \A s, a, b, c : Tame(a, s) /\ Tame(b, s) /\ Tame(c, s) =>
       <<a, b, c>> \in Seq(Byte) /\ TameAll(<<a, b, c>>, s)
<1>1. ASSUME NEW s, NEW a, Tame(a, s) PROVE <<a>> \in Seq(Byte) /\ TameAll(<<a>>, s)
  <2>1. a \in Byte
    BY <1>1 DEF Tame
  <2> DEFINE q == <<a>>
  <2>2. q \in Seq(Byte) /\ Len(q) = 1 /\ q[1] = a
    BY <2>1
  <2> HIDE DEF q
  <2>3. \A k \in 1 .. Len(q) : k = 1
    BY <2>2
  <2> QED
    BY <1>1, <2>2, <2>3 DEF q, TameAll
<1>2. ASSUME NEW s, NEW a, NEW b, Tame(a, s), Tame(b, s)
      PROVE  <<a, b>> \in Seq(Byte) /\ TameAll(<<a, b>>, s)
  <2>1. a \in Byte /\ b \in Byte
    BY <1>2 DEF Tame
  <2> DEFINE q == <<a, b>>
  <2>2. q \in Seq(Byte) /\ Len(q) = 2 /\ q[1] = a /\ q[2] = b
    BY <2>1
  <2> HIDE DEF q
  <2>3. \A k \in 1 .. Len(q) : k = 1 \/ k = 2
    BY <2>2
  <2> QED
    BY <1>2, <2>2, <2>3 DEF q, TameAll
<1>3. ASSUME NEW s, NEW a, NEW b, NEW c, Tame(a, s), Tame(b, s), Tame(c, s)
      PROVE  <<a, b, c>> \in Seq(Byte) /\ TameAll(<<a, b, c>>, s)
  <2>1. a \in Byte /\ b \in Byte /\ c \in Byte
    BY <1>3 DEF Tame
  <2> DEFINE q == <<a, b, c>>
  <2>2. q \in Seq(Byte) /\ Len(q) = 3 /\ q[1] = a /\ q[2] = b /\ q[3] = c
    BY <2>1
  <2> HIDE DEF q
  <2>3. \A k \in 1 .. Len(q) : k = 1 \/ k = 2 \/ k = 3
    BY <2>2
  <2> QED
    BY <1>3, <2>2, <2>3 DEF q, TameAll
<1> QED
  BY <1>1, <1>2, <1>3

LEMMA SpeedIn ==
  ASSUME NEW L \in Links
  PROVE  L.USpeed \in {SPEEDSEL_FLEX, SPEEDSEL_OD} /\ L.USpeed \in Nat
<1>1. L.USpeed \in {SPEEDSEL_FLEX, SPEEDSEL_OD}
  BY LinkFields
<1> QED
  BY <1>1 DEF SPEEDSEL_FLEX, SPEEDSEL_OD

\* owLevel to the levels that the bridge has.
LEMMA LevelsKeep ==
  ASSUME NEW L \in Links, NEW how \in Ways, NEW level \in {"NORMAL", "STRONG5"}
  PROVE  Keeps(L, owLevel(L, level, how))
<1>1. CASE level = L.ULevel
  <2>1. owLevel(L, level, how) = [L EXCEPT !.ok = TRUE]
    BY <1>1 DEF owLevel
  <2> QED
    BY <2>1, OkKeeps
<1>2. CASE level # L.ULevel /\ level = "NORMAL"
  <2> DEFINE cmds == <<STOP_PULSE, Pulse5V, STOP_PULSE>>
             M == Commands(L, cmds, 2, how)
             N == Checked(M, Stopped, how)
  <2>1. cmds \in Seq(Byte) /\ TameAll(cmds, L.USpeed)
    BY Tames, TameSequences
  <2> HIDE DEF cmds
  <2>2. Keeps(L, M)
    BY <2>1, CommandsKeep
  <2>3. N = M \/ N = Failed(M, how)
    BY DEF Checked
  <2>4. owLevel(L, level, how) = AtLevel(N, "NORMAL")
    BY <1>2 DEF owLevel, cmds
  <2> HIDE DEF M, N
  <2>5. M \in Links
    BY <2>2 DEF Keeps
  <2>6. Keeps(M, N) /\ N \in Links
    BY <2>3, <2>5, EitherKeeps DEF Keeps
  <2>7. Keeps(N, AtLevel(N, "NORMAL"))
    BY <2>6, LevelKeeps
  <2> QED
    BY <2>2, <2>4, <2>6, <2>7, KeepsTransitive
<1>3. CASE level # L.ULevel /\ level = "STRONG5"
  <2> DEFINE cmds == <<Infinite5V, Pulse5V>>
             M == Commands(L, cmds, 1, how)
             N == Checked(M, Started, how)
  <2>1. cmds \in Seq(Byte) /\ TameAll(cmds, L.USpeed)
    BY Tames, TameSequences
  <2> HIDE DEF cmds
  <2>2. Keeps(L, M)
    BY <2>1, CommandsKeep
  <2>3. N = M \/ N = Failed(M, how)
    BY DEF Checked
  <2>4. owLevel(L, level, how) = AtLevel(N, "STRONG5")
    BY <1>3 DEF owLevel, cmds
  <2> HIDE DEF M, N
  <2>5. M \in Links
    BY <2>2 DEF Keeps
  <2>6. Keeps(M, N) /\ N \in Links
    BY <2>3, <2>5, EitherKeeps DEF Keeps
  <2>7. Keeps(N, AtLevel(N, "STRONG5"))
    BY <2>6, LevelKeeps
  <2> QED
    BY <2>2, <2>4, <2>6, <2>7, KeepsTransitive
<1> QED
  BY <1>1, <1>2, <1>3

LEMMA NormalKeeps ==
  ASSUME NEW L \in Links, NEW how \in Ways
  PROVE  Keeps(L, Normal(L, how)) /\ Normal(L, how) \in Links
<1>1. Keeps(L, Normal(L, how))
  BY LevelsKeep DEF Normal
<1> QED
  BY <1>1 DEF Keeps

LEMMA ResetKeeps ==
  ASSUME NEW L \in Links, NEW how \in Ways
  PROVE  Keeps(L, owTouchReset(L, how)) /\ owTouchReset(L, how) \in Links
<1> DEFINE A == Normal(L, how)
           M == Commands(A, <<Reset + A.USpeed>>, 1, how)
           N == ResetPulse(A, how)
<1>1. Keeps(L, A) /\ A \in Links
  BY NormalKeeps
<1>2. owTouchReset(L, how) = N
  BY DEF owTouchReset
<1> HIDE DEF A
<1>3. Tame(Reset + A.USpeed, A.USpeed)
  BY <1>1, SpeedIn, Tames
<1> DEFINE cmds == <<Reset + A.USpeed>>
<1>4. cmds \in Seq(Byte) /\ TameAll(cmds, A.USpeed)
  BY <1>3, TameSequences
<1>5. N = M \/ N = Failed(M, how)
  BY DEF ResetPulse, Checked
<1> HIDE DEF cmds
<1>6. Keeps(A, Commands(A, cmds, 1, how))
  BY <1>1, <1>4, CommandsKeep
<1>7. Keeps(A, M) /\ M \in Links
  BY <1>6 DEF cmds, Keeps
<1> HIDE DEF M, N
<1>8. Keeps(M, N)
  BY <1>5, <1>7, EitherKeeps
<1>9. Keeps(L, N)
  BY <1>1, <1>7, <1>8, KeepsTransitive
<1> QED
  BY <1>2, <1>9 DEF Keeps

LEMMA BitKeeps ==
  ASSUME NEW L \in Links, NEW how \in Ways, NEW bit \in {0, 1}
  PROVE  Keeps(L, owTouchBit(L, bit, how))
<1> DEFINE A == Normal(L, how)
           c == BitOne - 16 + 16 * bit + A.USpeed
           M == Commands(A, <<c>>, 1, how)
           N == Bit(A, bit, how)
<1>1. Keeps(L, A) /\ A \in Links
  BY NormalKeeps
<1>2. owTouchBit(L, bit, how) = N
  BY DEF owTouchBit
<1> HIDE DEF A
<1>3. Tame(c, A.USpeed)
  <2>1. A.USpeed \in {SPEEDSEL_FLEX, SPEEDSEL_OD} /\ A.USpeed \in Nat
    BY <1>1, SpeedIn
  <2> DEFINE b == 1 - bit
             e == 0
  <2>2. b \in {0, 1} /\ e \in {0, 2} /\ c = BitOne + A.USpeed + e - 16 * b
    BY <2>1 DEF BitOne
  <2> HIDE DEF b, c, e
  <2> QED
    BY <2>1, <2>2, Tames
<1>5. N = M \/ N = Failed(M, how)
  BY DEF Bit, Checked
<1> HIDE DEF c
<1> DEFINE cmds == <<c>>
<1>4. cmds \in Seq(Byte) /\ TameAll(cmds, A.USpeed)
  BY <1>3, TameSequences
<1> HIDE DEF cmds
<1>6. Keeps(A, Commands(A, cmds, 1, how))
  BY <1>1, <1>4, CommandsKeep
<1>7. Keeps(A, M) /\ M \in Links
  BY <1>6 DEF cmds, Keeps
<1> HIDE DEF M, N
<1>8. Keeps(M, N)
  BY <1>5, <1>7, EitherKeeps
<1> QED
  BY <1>1, <1>2, <1>7, <1>8, KeepsTransitive

\* Commands, and the detection when their replies are not what they should be.
LEMMA CheckedKeeps ==
  ASSUME NEW L \in Links, NEW cmds \in Seq(Byte), TameAll(cmds, L.USpeed), NEW n \in Nat,
         NEW how \in Ways, NEW N,
         N = Commands(L, cmds, n, how) \/ N = Failed(Commands(L, cmds, n, how), how)
  PROVE  Keeps(L, N) /\ N \in Links
<1> DEFINE M == Commands(L, cmds, n, how)
<1>1. Keeps(L, M)
  BY CommandsKeep
<1>2. N = M \/ N = Failed(M, how)
  OBVIOUS
<1> HIDE DEF M
<1>3. M \in Links
  BY <1>1 DEF Keeps
<1>4. Keeps(M, N)
  BY <1>2, <1>3, EitherKeeps
<1>5. Keeps(L, N)
  BY <1>1, <1>4, KeepsTransitive
<1> QED
  BY <1>5 DEF Keeps

LEMMA Prepended ==
  ASSUME NEW a \in Byte, NEW s \in Seq(Byte)
  PROVE  /\ <<a>> \o s \in Seq(Byte) /\ Len(<<a>> \o s) = 1 + Len(s)
         /\ (<<a>> \o s)[1] = a
         /\ \A k \in 1 .. Len(s) : (<<a>> \o s)[1 + k] = s[k]
  OBVIOUS

\* The eight bit commands of a byte are tame at the SDK's speed.
LEMMA BitCommandsTame ==
  ASSUME NEW L \in Links, NEW byte \in Byte
  PROVE  LET cmds == <<Infinite5V>> \o BitCommands(L, byte)
         IN  cmds \in Seq(Byte) /\ TameAll(cmds, L.USpeed)
<1> DEFINE q == BitCommands(L, byte)
<1>1. L.USpeed \in {SPEEDSEL_FLEX, SPEEDSEL_OD} /\ L.USpeed \in Nat
  BY SpeedIn
<1>2. ASSUME NEW k \in 1 .. 8 PROVE Tame(q[k], L.USpeed)
  <2> DEFINE bk == IF (byte \div 2^(k - 1)) % 2 = 1 THEN 0 ELSE 1
             ek == IF k = 8 THEN 2 ELSE 0
             x == (byte \div 2^(k - 1)) % 2 = 1
  <2>1. q[k] = BitOne + L.USpeed + (IF k = 8 THEN 2 ELSE 0) - (IF x THEN 0 ELSE 16)
    BY DEF BitCommands
  <2> HIDE DEF x, q
  <2>2. q[k] = BitOne + L.USpeed + (IF k = 8 THEN 2 ELSE 0) - 16 * (IF x THEN 0 ELSE 1)
    BY <1>1, <2>1 DEF BitOne
  <2> DEFINE eb == IF k = 8 THEN 2 ELSE 0
             xb == IF x THEN 0 ELSE 1
  <2>3. eb \in {0, 2} /\ xb \in {0, 1} /\ q[k] = BitOne + L.USpeed + eb - 16 * xb
    BY <2>2
  <2> HIDE DEF eb, xb
  <2>4. Tame(BitOne + L.USpeed + eb - 16 * xb, L.USpeed)
    BY <1>1, <2>3, Tames
  <2> QED
    BY <2>3, <2>4
<1>3. DOMAIN q = 1 .. 8
  BY DEF BitCommands
<1>4. q = [k \in 1 .. 8 |-> q[k]]
  BY DEF BitCommands
<1> HIDE DEF q
<1>5. \A k \in 1 .. 8 : q[k] \in Byte
  BY <1>2 DEF Tame
<1>6. q \in Seq(Byte) /\ Len(q) = 8
  BY <1>4, <1>5
<1>7. Tame(Infinite5V, L.USpeed)
  BY Tames
<1> DEFINE cmds == <<Infinite5V>> \o q
<1>8. Infinite5V \in Byte
  BY <1>7 DEF Tame
<1>9. cmds \in Seq(Byte) /\ Len(cmds) = 9 /\ cmds[1] = Infinite5V
        /\ \A k \in 1 .. 8 : cmds[1 + k] = q[k]
  <2> DEFINE a == Infinite5V
             p == <<a>> \o q
  <2>1. a \in Byte
    BY <1>8
  <2> HIDE DEF a
  <2>2. /\ p \in Seq(Byte) /\ Len(p) = 1 + Len(q) /\ p[1] = a
        /\ \A k \in 1 .. Len(q) : p[1 + k] = q[k]
    BY <2>1, <1>6, Prepended
  <2> HIDE DEF p
  <2>3. p \in Seq(Byte) /\ Len(p) = 9 /\ p[1] = a /\ \A k \in 1 .. 8 : p[1 + k] = q[k]
    BY <2>2, <1>6
  <2> QED
    BY <2>3 DEF p, a
<1> HIDE DEF cmds
<1>10. ASSUME NEW k \in 1 .. 9 PROVE Tame(cmds[k], L.USpeed)
  <2>1. CASE k = 1
    BY <2>1, <1>7, <1>9
  <2>2. CASE k # 1
    <3>1. k - 1 \in 1 .. 8 /\ k = 1 + (k - 1)
      BY <2>2
    <3>2. cmds[1 + (k - 1)] = q[k - 1]
      BY <3>1, <1>9
    <3> QED
      BY <3>1, <3>2, <1>2
  <2> QED
    BY <2>1, <2>2
<1>11. TameAll(cmds, L.USpeed)
  BY <1>9, <1>10 DEF TameAll
<1> QED
  BY <1>9, <1>11 DEF cmds, q

LEMMA BytePowerKeeps ==
  ASSUME NEW L \in Links, NEW how \in Ways, NEW byte \in Byte
  PROVE  Keeps(L, BytePower(L, byte, how)) /\ BytePower(L, byte, how) \in Links
<1> DEFINE cmds == <<Infinite5V>> \o BitCommands(L, byte)
           M == Commands(L, cmds, 9, how)
           N == Checked(M, Started, how)
           A == AtLevel(N, "STRONG5")
           R == ReadBack(A)
<1>1. cmds \in Seq(Byte) /\ TameAll(cmds, L.USpeed)
  BY BitCommandsTame
<1>2. N = M \/ N = Failed(M, how)
  BY DEF Checked
<1> HIDE DEF cmds
<1>3. Keeps(L, N) /\ N \in Links
  BY <1>1, <1>2, CheckedKeeps
<1>4. BytePower(L, byte, how) = R
  BY DEF BytePower, cmds
<1> HIDE DEF N
<1>5. Keeps(N, A) /\ A \in Links
  BY <1>3, LevelKeeps DEF Keeps
<1> HIDE DEF A
<1>6. Keeps(A, R)
  <2> DEFINE g == <<IF \A k \in 2 .. 9 : A.got[k] % 2 = 1 THEN 255 ELSE 0>>
  <2>1. g \in Seq(Byte)
    BY DEF Byte
  <2>2. R = A \/ R = [A EXCEPT !.got = g]
    BY DEF ReadBack
  <2> HIDE DEF g
  <2> QED
    BY <1>5, <2>1, <2>2, GotKeeps, KeepsSelf
<1>7. Keeps(L, R)
  BY <1>3, <1>5, <1>6, KeepsTransitive
<1> QED
  BY <1>4, <1>7 DEF Keeps

LEMMA WriteBytePowerKeeps ==
  ASSUME NEW L \in Links, NEW how \in Ways, NEW byte \in Byte
  PROVE  Keeps(L, owWriteBytePower(L, byte, how))
<1> DEFINE M == BytePower(L, byte, how)
           N == Verified(M, byte, how)
<1>1. Keeps(L, M) /\ M \in Links
  BY BytePowerKeeps
<1>2. owWriteBytePower(L, byte, how) = N
  BY DEF owWriteBytePower
<1>3. N = M \/ N = Failed(M, how)
  BY DEF Verified
<1> HIDE DEF M
<1>4. Keeps(M, N)
  BY <1>1, <1>3, EitherKeeps
<1> QED
  BY <1>1, <1>2, <1>4, KeepsTransitive

LEMMA ReadBitPowerKeeps ==
  ASSUME NEW L \in Links, NEW how \in Ways, NEW bit \in {0, 1}
  PROVE  Keeps(L, owReadBitPower(L, bit, how))
<1> DEFINE cmds == <<Infinite5V, BitOne + L.USpeed + 2>>
           M == Commands(L, cmds, 2, how)
           N == Checked(M, Started, how)
           A == AtLevel(N, "STRONG5")
           B == Normal(A, how)
           R == KeptUp(A, bit, how)
<1>1. cmds \in Seq(Byte) /\ TameAll(cmds, L.USpeed)
  <2>1. L.USpeed \in {SPEEDSEL_FLEX, SPEEDSEL_OD} /\ L.USpeed \in Nat
    BY SpeedIn
  <2> DEFINE e == 2
             b == 0
             c == BitOne + L.USpeed + 2
  <2>2. e \in {0, 2} /\ b \in {0, 1} /\ c = BitOne + L.USpeed + e - 16 * b
    BY <2>1 DEF BitOne
  <2> HIDE DEF e, b, c
  <2>3. Tame(c, L.USpeed)
    BY <2>1, <2>2, Tames
  <2>4. Tame(Infinite5V, L.USpeed)
    BY Tames
  <2> QED
    BY <2>3, <2>4, TameSequences DEF c
<1>2. N = M \/ N = Failed(M, how)
  BY DEF Checked
<1> HIDE DEF cmds
<1>3. Keeps(L, N) /\ N \in Links
  BY <1>1, <1>2, CheckedKeeps
<1>4. owReadBitPower(L, bit, how) = R
  BY DEF owReadBitPower, cmds
<1> HIDE DEF N
<1>5. Keeps(N, A) /\ A \in Links
  BY <1>3, LevelKeeps DEF Keeps
<1> HIDE DEF A
<1>6. Keeps(A, R)
  <2>1. R = A \/ R = [B EXCEPT !.ok = FALSE]
    BY DEF KeptUp
  <2>2. Keeps(A, B) /\ B \in Links
    BY <1>5, NormalKeeps
  <2> HIDE DEF B, R
  <2>3. Keeps(B, [B EXCEPT !.ok = FALSE])
    BY <2>2, OkKeeps
  <2> QED
    BY <1>5, <2>1, <2>2, <2>3, KeepsTransitive, KeepsSelf
<1> QED
  BY <1>3, <1>4, <1>5, <1>6, KeepsTransitive

----------------------------------------------------------------------------
(* The functions that change the speed *)

\* A packet of one command, with or without the mode byte.
LEMMA OneCommand ==
  ASSUME NEW L \in Links, NEW c \in Byte, c \notin {MODE_DATA, MODE_COMMAND},
         NEW how \in Ways
  PROVE  WriteCOM(L, Led(L.mode, <<c>>), how) = Command([L EXCEPT !.mode = "COMMAND"], c)
<1> DEFINE cmds == <<c>>
           bytes == Led(L.mode, cmds)
           n == Len(bytes)
           M == [L EXCEPT !.mode = "COMMAND"]
           N == Command(M, c)
<1>1. cmds \in Seq(Byte) /\ Len(cmds) = 1 /\ cmds[1] = c /\ NoSwitch(cmds)
  BY DEF NoSwitch
<1> HIDE DEF cmds
<1>2. bytes \in Seq(Byte) /\ n \in Nat
  BY <1>1, LedType
<1>3. PICK D : Run(L, bytes, how, D)
  BY <1>2, Runs
<1>4. PICK j : BeginsAt(L, cmds, D, j)
  BY <1>1, <1>3, PacketBegins
<1>5. /\ j \in 0 .. n /\ D[j] = At(M, <<>>, FALSE) /\ n = j + 1
      /\ \A k \in 1 .. Len(cmds) : bytes[j + k] = cmds[k]
  BY <1>1, <1>4 DEF BeginsAt
<1>6. bytes[n] = c /\ n \in 1 .. Len(bytes) /\ n - 1 = j
  BY <1>1, <1>2, <1>5
<1> HIDE DEF bytes, n
<1>7. M \in Links /\ M.mode = "COMMAND"
  <2>1. M.mode = "COMMAND"
    BY DEF Links
  <2> QED
    BY <2>1, LeaveData
<1> HIDE DEF M
<1> DEFINE d == D[j]
<1>8. d.link = M /\ ~d.esc
  BY <1>5 DEF At
<1>9. d \in Decoders
  BY <1>5, <1>7, StartType
<1>10. D[n] = Decode(D[n - 1], bytes, n, how)
  BY <1>3, <1>6 DEF Run
<1>11. D[n] = Decode(d, bytes, n, how)
  BY <1>6, <1>10
<1> HIDE DEF d
<1>12. Decode(d, bytes, n, how) = At(InCommandMode(d.link, bytes[n]), <<>>, FALSE)
  BY <1>2, <1>6, <1>7, <1>8, <1>9, DecodeCases
<1>13. InCommandMode(M, c) = N /\ N \in Links
  BY <1>7, InCommandModeLink, CommandLink
<1> HIDE DEF N
<1>14. D[n] = At(N, <<>>, FALSE)
  BY <1>6, <1>8, <1>11, <1>12, <1>13
<1>15. D[n].link = N /\ D[n].batch = <<>>
  BY <1>14 DEF At
<1>16. WriteCOM(L, bytes, how) = Dispatch(D[n].link, D[n].batch, how)
  BY <1>3 DEF Run, n
<1>17. WriteCOM(L, bytes, how) = N
  BY <1>13, <1>15, <1>16, DispatchNothing
<1> QED
  BY <1>17 DEF N, M, bytes, cmds

\* The command that changes the baud rate, and nothing else.
LEMMA BaudCommand ==
  ASSUME NEW M \in Links, NEW newbaud \in {PARMSET_9600, PARMSET_115200}
  PROVE  LET N == Command(M, 113 + newbaud)
         IN  /\ 113 + newbaud \in Byte /\ 113 + newbaud \notin {MODE_DATA, MODE_COMMAND}
             /\ N \in Links /\ SdkSame(M, N) /\ N.mode = M.mode /\ N.handed = M.handed
             /\ N.speed = M.speed /\ N.search = M.search /\ N.baud = newbaud
<1> DEFINE c == 113 + newbaud
<1>1. c \in {113, 119} /\ (c = 113 => newbaud = 0) /\ (c = 119 => newbaud = 6)
  BY DEF PARMSET_9600, PARMSET_115200
<1>2. newbaud \in 0 .. 14
  BY DEF PARMSET_9600, PARMSET_115200
<1> HIDE DEF c
<1>3. c \in Byte /\ c \notin {MODE_DATA, MODE_COMMAND} /\ ~IsComm(c) /\ IsConfig(c)
  BY <1>1 DEF Byte, MODE_DATA, MODE_COMMAND, IsComm, IsConfig
<1>4. ParmSel(c) = PARMSEL_BAUDRATE /\ ParmSet(c) = newbaud
  BY <1>1 DEF ParmSel, ParmSet, PARMSEL_BAUDRATE
<1>5. ParmSel(c) # 0
  BY <1>4 DEF PARMSEL_BAUDRATE
<1> DEFINE r == Append(M.rx, ParmReply(c))
<1>6. Command(M, c) = [M EXCEPT !.baud = newbaud, !.rx = r]
  BY <1>3, <1>4, <1>5 DEF Command
<1> HIDE DEF r
<1>7. [M EXCEPT !.baud = newbaud, !.rx = r].baud = newbaud
  BY DEF Links
<1>8. /\ Command(M, c) \in Links /\ SdkSame(M, Command(M, c)) /\ Command(M, c).mode = M.mode
      /\ Command(M, c).handed = M.handed
      /\ Command(M, c).speed = M.speed /\ Command(M, c).search = M.search
  BY <1>3, CommandLink
<1>9. Command(M, c).baud = newbaud
  BY <1>6, <1>7
<1> QED
  BY <1>3, <1>8, <1>9 DEF c

\* The end of a search, which carries the speed.
LEMMA SearchOffCommand ==
  ASSUME NEW M \in Links, NEW u \in {SPEEDSEL_FLEX, SPEEDSEL_OD}
  PROVE  LET N == Command(M, SearchOff + u)
         IN  /\ SearchOff + u \in Byte /\ SearchOff + u \notin {MODE_DATA, MODE_COMMAND, TIMING}
             /\ N \in Links /\ SdkSame(M, N) /\ N.mode = M.mode /\ N.handed = M.handed
             /\ N.speed = u /\ ~N.search /\ N.baud = M.baud
<1> DEFINE c == SearchOff + u
<1>1. c \in {165, 169} /\ (c = 165 => u = 4) /\ (c = 169 => u = 8)
  BY DEF SearchOff, SPEEDSEL_FLEX, SPEEDSEL_OD
<1>2. u \in Speeds
  BY DEF Speeds, SPEEDSEL_FLEX, SPEEDSEL_OD
<1> HIDE DEF c
<1>3. /\ c \in Byte /\ c \notin {MODE_DATA, MODE_COMMAND, TIMING}
      /\ IsComm(c) /\ ~IsConfig(c) /\ Funct(c) = "search"
  BY <1>1 DEF Byte, MODE_DATA, MODE_COMMAND, TIMING, IsComm, IsConfig, Funct
<1>4. SpeedOf(c) = u /\ ~SearchOn(c)
  BY <1>1 DEF SpeedOf, SearchOn
<1> DEFINE t == SearchOn(c)
<1>5. Command(M, c) = [M EXCEPT !.speed = u, !.search = t]
  BY <1>3, <1>4 DEF Command
<1> HIDE DEF t
<1>6. [M EXCEPT !.speed = u, !.search = t].speed = u /\ [M EXCEPT !.speed = u, !.search = t].search = t
        /\ [M EXCEPT !.speed = u, !.search = t].baud = M.baud
  BY DEF Links
<1>7. /\ Command(M, c) \in Links /\ SdkSame(M, Command(M, c)) /\ Command(M, c).mode = M.mode
      /\ Command(M, c).handed = M.handed
  BY <1>3, CommandLink
<1>8. Command(M, c).speed = u /\ ~Command(M, c).search /\ Command(M, c).baud = M.baud
  <2>1. ~t
    BY <1>4 DEF t
  <2> QED
    BY <2>1, <1>5, <1>6
<1> QED
  BY <1>3, <1>7, <1>8 DEF c

\* A mode switch and a command.
LEMMA SwitchAnd ==
  ASSUME NEW c
  PROVE  <<MODE_COMMAND>> \o <<c>> = <<MODE_COMMAND, c>>
<1> DEFINE s == <<MODE_COMMAND>> \o <<c>>
           S == {MODE_COMMAND, c}
<1>1. s \in Seq(S) /\ Len(s) = 2 /\ s[1] = MODE_COMMAND /\ s[2] = c
  OBVIOUS
<1> HIDE DEF s
<1>2. s = <<s[1], s[2]>>
  BY <1>1
<1> QED
  BY <1>1, <1>2 DEF s

\* DS2480ChangeBaud, whatever the bridge answers.
LEMMA ChangeBaudLink ==
  ASSUME NEW L \in Links, NEW newbaud \in {PARMSET_9600, PARMSET_115200}, NEW how \in Ways
  PROVE  LET M == DS2480ChangeBaud(L, newbaud, how)
         IN  /\ M \in Links
             /\ Stay(L) => Stay(M)
             /\ L.detected = "not tried" => Found(M)
<1> DEFINE M == DS2480ChangeBaud(L, newbaud, how)
<1>1. CASE L.UBaud = newbaud
  <2>1. M = [L EXCEPT !.ok = TRUE]
    BY <1>1 DEF DS2480ChangeBaud
  <2>2. Keeps(L, M)
    BY <2>1, OkKeeps
  <2> HIDE DEF M
  <2> QED
    BY <2>2 DEF Keeps, Found, M
<1>2. CASE L.UBaud # newbaud
  <2> DEFINE c == 113 + newbaud
             cmds == <<c>>
             C == [L EXCEPT !.UMode = "COMMAND"]
             F == FlushCOM(C)
             bytes == Led(L.UMode, cmds)
             W == WriteCOM(F, bytes, how)
             K == Exchange(C, bytes, 0, how)
             B == [K EXCEPT !.UBaud = newbaud]
             E == Exchange(B, <<ReadBaud>>, 1, how)
  <2>1. M = E \/ M = Failed(E, how)
    <3>1. Commands(L, cmds, 0, how) = K
      BY DEF Commands, Led
    <3> HIDE DEF K, bytes, C, cmds
    <3>2. Commands(L, <<113 + newbaud>>, 0, how) = K
      BY <3>1 DEF cmds
    <3>3. M = Checked(E, LAMBDA got : ParmSet(got[1]) = newbaud, how)
      BY <1>2, <3>2 DEF DS2480ChangeBaud
    <3> HIDE DEF E
    <3> QED
      BY <3>3 DEF Checked
  <2>2. c \in Byte /\ c \notin {MODE_DATA, MODE_COMMAND}
    <3> DEFINE N == Command(L, 113 + newbaud)
    <3>1. 113 + newbaud \in Byte /\ 113 + newbaud \notin {MODE_DATA, MODE_COMMAND}
      BY BaudCommand
    <3> QED
      BY <3>1
  <2>3. cmds \in Seq(Byte)
    BY <2>2
  <2>4. /\ C \in Links /\ C.UMode = "COMMAND" /\ C.detected = L.detected
        /\ C.USpeed = L.USpeed /\ BridgeSame(L, C)
    BY DEF Links, BridgeSame
  <2> HIDE DEF C, M
  <2>5. F \in Links /\ BridgeSame(C, F)
    BY <2>4, FlushLink
  <2>6. bytes \in Seq(Byte)
    BY <2>3, LedType
  <2> HIDE DEF F, bytes, cmds
  <2>7. K \in Links /\ Beliefs(C, K) /\ W \in Links /\ BridgeSame(W, K)
    <3> DEFINE n == 0
    <3>1. n \in Nat
      OBVIOUS
    <3> HIDE DEF n
    <3>2. LET X == Exchange(C, bytes, n, how)
              Y == WriteCOM(FlushCOM(C), bytes, how)
          IN  X \in Links /\ Beliefs(C, X) /\ Y \in Links /\ BridgeSame(Y, X)
      BY <2>4, <2>6, <3>1, ExchangeLink
    <3> QED
      BY <3>2 DEF n, F
  <2> HIDE DEF K, W
  <2>8. /\ B \in Links /\ B.UMode = K.UMode /\ B.detected = K.detected
        /\ B.USpeed = K.USpeed /\ BridgeSame(K, B) /\ B.UBaud = newbaud
    BY <2>7 DEF Links, BridgeSame
  <2> HIDE DEF B
  <2>9. B.UMode = "COMMAND" /\ B.detected = L.detected /\ B.USpeed = L.USpeed
    BY <2>4, <2>7, <2>8 DEF Beliefs
  <2>10. Keeps(B, E) /\ E \in Links
    <3> DEFINE rd == <<ReadBaud>>
    <3>1. rd \in Seq(Byte) /\ TameAll(rd, B.USpeed)
      BY Tames, TameSequences
    <3>2. B = [B EXCEPT !.UMode = "COMMAND"]
      BY <2>8, <2>9 DEF Links
    <3> HIDE DEF rd
    <3>3. Commands(B, rd, 1, how) = Exchange([B EXCEPT !.UMode = "COMMAND"], rd, 1, how)
      BY <2>9 DEF Commands
    <3>4. Commands(B, rd, 1, how) = Exchange(B, rd, 1, how)
      BY <3>2, <3>3
    <3>5. Keeps(B, Commands(B, rd, 1, how))
      BY <2>8, <3>1, CommandsKeep
    <3>6. Keeps(B, E)
      BY <3>4, <3>5 DEF rd
    <3> QED
      BY <3>6 DEF Keeps
  <2>11. L.detected = "not tried" => Found(E)
    BY <2>9, <2>10 DEF Keeps, Found
  <2> HIDE DEF E
  <2>12. Keeps(E, M) /\ M \in Links
    BY <2>1, <2>10, EitherKeeps DEF Keeps
  <2>13. L.detected = "not tried" => Found(M)
    BY <2>11, <2>12 DEF Keeps
  <2>14. Stay(L) => Stay(M)
    <3>1. SUFFICES ASSUME Stay(L) PROVE Stay(B)
      BY <2>10, <2>12 DEF Keeps
    <3>2. F.mode = L.UMode
      BY <3>1, <2>4, <2>5 DEF Stay, Agree, BridgeSame
    <3>3. W = WriteCOM(F, Led(F.mode, <<c>>), how)
      BY <3>2 DEF W, bytes, cmds
    <3> DEFINE G == [F EXCEPT !.mode = "COMMAND"]
    <3>4. G \in Links /\ G.mode = "COMMAND" /\ G.speed = F.speed /\ G.search = F.search
      BY <2>5, LeaveData DEF Links
    <3>5. W = Command(G, c)
      BY <2>2, <2>5, <3>3, OneCommand
    <3> HIDE DEF G
    <3>6. W.mode = "COMMAND" /\ W.speed = F.speed /\ W.search = F.search /\ W.baud = newbaud
      BY <3>4, <3>5, BaudCommand
    <3>7. B.mode = "COMMAND" /\ B.speed = L.speed /\ B.search = L.search /\ B.baud = newbaud
      BY <3>6, <2>4, <2>5, <2>7, <2>8 DEF BridgeSame
    <3> QED
      BY <3>1, <3>7, <2>8, <2>9 DEF Stay, Agree, SpeedAgree
  <2> QED
    BY <2>12, <2>13, <2>14 DEF M
<1> QED
  BY <1>1, <1>2

\* The new speed is written without a reply, and arrives.
LEMMA SetSpeedKeeps ==
  ASSUME NEW L \in Links, NEW u \in {SPEEDSEL_FLEX, SPEEDSEL_OD}, NEW how \in Ways
  PROVE  Keeps(L, SetSpeed(L, u, how)) /\ SetSpeed(L, u, how) \in Links
<1> DEFINE R == SetSpeed(L, u, how)
<1>1. CASE L.UBaud # BaudAt(u)
  <2>1. R = [L EXCEPT !.ok = FALSE]
    BY <1>1 DEF SetSpeed
  <2>2. Keeps(L, R)
    BY <2>1, OkKeeps
  <2> QED
    BY <2>2 DEF Keeps
<1>2. CASE L.UBaud = BaudAt(u)
  <2> DEFINE c == SearchOff + u
             C == [L EXCEPT !.USpeed = u, !.UMode = "COMMAND"]
             bytes == Led(L.UMode, <<c>>)
             W == WriteCOM(C, bytes, how)
  <2>1. R = [W EXCEPT !.ok = TRUE]
    <3>1. <<MODE_COMMAND>> \o <<c>> = <<MODE_COMMAND, c>>
      BY SwitchAnd
    <3>2. bytes = IF L.UMode = "COMMAND" THEN <<c>> ELSE <<MODE_COMMAND, c>>
      BY <3>1 DEF Led
    <3> HIDE DEF bytes
    <3>3. R = [WriteCOM(C, IF L.UMode = "COMMAND" THEN <<SearchOff + u>>
                           ELSE <<MODE_COMMAND, SearchOff + u>>, how) EXCEPT !.ok = TRUE]
      BY <1>2 DEF SetSpeed
    <3> QED
      BY <3>2, <3>3
  <2> HIDE DEF R
  <2>2. /\ C \in Links /\ C.UMode = "COMMAND" /\ C.USpeed = u /\ C.UBaud = L.UBaud
        /\ C.detected = L.detected /\ BridgeSame(L, C) /\ C.handed = L.handed
    BY DEF Links, BridgeSame
  <2> HIDE DEF C
  <2>3. c \in Byte /\ c \notin {MODE_DATA, MODE_COMMAND}
    BY SearchOffCommand
  <2> HIDE DEF c
  <2>4. bytes \in Seq(Byte)
    <3>1. <<c>> \in Seq(Byte)
      BY <2>3
    <3> QED
      BY <3>1, LedType
  <2> HIDE DEF bytes
  <2>5. W \in Links /\ SdkSame(C, W)
    BY <2>2, <2>4, WriteLink
  <2>6. Agree(L) => /\ W.mode = "COMMAND" /\ W.speed = u /\ ~W.search /\ W.baud = L.baud
                    /\ W.handed = L.handed
    <3>1. SUFFICES ASSUME Agree(L)
                   PROVE  /\ W.mode = "COMMAND" /\ W.speed = u /\ ~W.search /\ W.baud = L.baud
                          /\ W.handed = L.handed
      OBVIOUS
    <3>2. W = WriteCOM(C, Led(C.mode, <<c>>), how)
      BY <3>1, <2>2 DEF bytes, Agree, BridgeSame
    <3> DEFINE G == [C EXCEPT !.mode = "COMMAND"]
    <3>3. G \in Links /\ G.mode = "COMMAND" /\ G.baud = C.baud /\ G.handed = C.handed
      BY <2>2, LeaveData DEF Links
    <3>4. W = Command(G, c)
      BY <2>2, <2>3, <3>2, OneCommand
    <3> HIDE DEF G, W
    <3>5. /\ Command(G, c).mode = G.mode /\ Command(G, c).handed = G.handed
          /\ Command(G, c).speed = u /\ ~Command(G, c).search /\ Command(G, c).baud = G.baud
      BY <3>3, SearchOffCommand DEF c
    <3> QED
      BY <3>3, <3>4, <3>5, <2>2 DEF BridgeSame
  <2> HIDE DEF W
  <2>7. Agree(L) => Agree(W) /\ SpeedAgree(W)
    BY <2>2, <2>5, <2>6 DEF Agree, SpeedAgree, SdkSame, SPEEDSEL_OD, SPEEDSEL_FLEX
  <2>8. W.UBaud = L.UBaud /\ W.detected = L.detected
    BY <2>2, <2>5 DEF SdkSame
  <2>9. Stay(L) => Stay(W)
    BY <2>6, <2>7, <2>8 DEF Stay
  <2>10. Found(L) => Found(W)
    BY <2>6, <2>7, <2>8 DEF Found
  <2>11. Idle(L) => Idle(W) /\ W.handed = L.handed
    BY <2>6, <2>7 DEF Idle
  <2>12. Keeps(L, W)
    BY <2>5, <2>9, <2>10, <2>11 DEF Keeps
  <2>13. Keeps(W, R)
    BY <2>1, <2>5, OkKeeps
  <2>14. Keeps(L, R)
    BY <2>12, <2>13, KeepsTransitive
  <2> QED
    BY <2>14 DEF Keeps, R
<1> QED
  BY <1>1, <1>2

\* owSpeed, to either speed from either.
LEMMA SpeedLink ==
  ASSUME NEW L \in Links, NEW u \in {SPEEDSEL_FLEX, SPEEDSEL_OD}, NEW how \in Ways
  PROVE  LET M == owSpeed(L, u, how)
         IN  /\ M \in Links
             /\ Stay(L) => Stay(M)
             /\ L.detected = "not tried" => Found(M)
<1> DEFINE M == owSpeed(L, u, how)
           b == BaudAt(u)
           K == DS2480ChangeBaud(L, b, how)
<1>1. CASE u = L.USpeed
  <2>1. M = [L EXCEPT !.ok = TRUE]
    BY <1>1 DEF owSpeed
  <2>2. Keeps(L, M)
    BY <2>1, OkKeeps
  <2> HIDE DEF M
  <2> QED
    BY <2>2 DEF Keeps, Found, M
<1>2. CASE u # L.USpeed
  <2>1. M = SetSpeed(K, u, how)
    BY <1>2 DEF owSpeed
  <2>2. b \in {PARMSET_9600, PARMSET_115200}
    BY DEF BaudAt
  <2> HIDE DEF b, M
  <2>3. K \in Links /\ (Stay(L) => Stay(K)) /\ (L.detected = "not tried" => Found(K))
    BY <2>2, ChangeBaudLink
  <2> HIDE DEF K
  <2>4. Keeps(K, M)
    BY <2>1, <2>3, SetSpeedKeeps
  <2> QED
    BY <2>3, <2>4 DEF Keeps, M
<1> QED
  BY <1>1, <1>2

----------------------------------------------------------------------------
(* Data packets: what was escaped is collected as it was. *)

\* What one byte becomes in a data packet.
Escape(b) == IF b = MODE_COMMAND THEN <<MODE_COMMAND, MODE_COMMAND>> ELSE <<b>>

\* E goes through the bytes as the loop of owBlock does.
EscapeRun(bytes, E) ==
  /\ E[0] = <<>>
  /\ \A k \in 1 .. Len(bytes) : E[k] = E[k - 1] \o Escape(bytes[k])
  /\ Escaped(bytes) = E[Len(bytes)]

LEMMA EscapeRuns ==
  ASSUME NEW bytes \in Seq(Byte)
  PROVE  \E E : EscapeRun(bytes, E)
<1> DEFINE n == Len(bytes)
           Good(m, g) == g = [k \in 0 .. m |-> IF k = 0 THEN <<>>
                                               ELSE g[k - 1] \o Escape(bytes[k])]
           S == {m \in 0 .. n : \E g : Good(m, g)}
<1>1. n \in Nat
  OBVIOUS
<1>2. 0 \in S
  <2>1. Good(0, [k \in 0 .. 0 |-> <<>>])
    OBVIOUS
  <2>2. \E g : Good(0, g)
    BY <2>1
  <2> HIDE DEF Good
  <2> QED
    BY <2>2, <1>1
<1>3. ASSUME NEW m \in 0 .. n, m # 0, m - 1 \in S PROVE m \in S
  <2>1. PICK g : Good(m - 1, g)
    BY <1>3
  <2> DEFINE h == [k \in 0 .. m |-> IF k = m THEN g[m - 1] \o Escape(bytes[m]) ELSE g[k]]
  <2>2. Good(m, h)
    <3>1. ASSUME NEW k \in 0 .. m
          PROVE  h[k] = IF k = 0 THEN <<>> ELSE h[k - 1] \o Escape(bytes[k])
      <4>1. CASE k = m
        <5>1. h[k] = g[m - 1] \o Escape(bytes[m]) /\ h[k - 1] = g[k - 1]
          BY <4>1, <1>3
        <5> QED
          BY <5>1, <4>1, <1>3
      <4>2. CASE k # m /\ k # 0
        <5>1. h[k] = g[k] /\ h[k - 1] = g[k - 1] /\ k \in 0 .. (m - 1)
          BY <4>2
        <5>2. g[k] = g[k - 1] \o Escape(bytes[k])
          BY <5>1, <4>2, <2>1
        <5> QED
          BY <5>1, <5>2, <4>2
      <4>3. CASE k # m /\ k = 0
        <5>1. h[k] = g[k] /\ k \in 0 .. (m - 1)
          BY <4>3
        <5>2. g[k] = <<>>
          BY <5>1, <4>3, <2>1
        <5> QED
          BY <5>1, <5>2, <4>3
      <4> QED
        BY <4>1, <4>2, <4>3
    <3> QED
      BY <3>1
  <2> QED
    BY <2>2
<1>4. n \in S
  <2>1. \A m \in 0 .. n : m # 0 /\ m - 1 \in S => m \in S
    BY <1>3
  <2> HIDE DEF S
  <2>2. \A m \in 0 .. n : m \in S
    BY <1>1, <1>2, <2>1, Upto
  <2> QED
    BY <1>1, <2>2
<1>5. \E g : Good(n, g)
  BY <1>4
<1> DEFINE E == CHOOSE g : Good(n, g)
<1>6. Good(n, E)
  BY <1>5
<1>7. Escaped(bytes) = E[n]
  BY DEF Escaped, Escape
<1>8. EscapeRun(bytes, E)
  <2> HIDE DEF E
  <2> QED
    BY <1>1, <1>6, <1>7 DEF EscapeRun
<1> QED
  BY <1>8

LEMMA EscapeFacts ==
  ASSUME NEW b \in Byte
  PROVE  /\ Escape(b) \in Seq(Byte) /\ Escape(b)[1] = b
         /\ b = MODE_COMMAND => Len(Escape(b)) = 2 /\ Escape(b)[2] = MODE_COMMAND
         /\ b # MODE_COMMAND => Len(Escape(b)) = 1
<1>1. MODE_COMMAND \in Byte
  BY DEF MODE_COMMAND, Byte
<1>2. CASE b = MODE_COMMAND
  <2>1. Escape(b) = <<b, b>>
    BY <1>2 DEF Escape
  <2> QED
    BY <1>2, <2>1
<1>3. CASE b # MODE_COMMAND
  <2>1. Escape(b) = <<b>>
    BY <1>3 DEF Escape
  <2> QED
    BY <1>3, <2>1
<1> QED
  BY <1>2, <1>3

\* One sequence begins with the other.
Begins(s, t) == Len(s) <= Len(t) /\ \A i \in 1 .. Len(s) : t[i] = s[i]

LEMMA BeginsAppended ==
  ASSUME NEW s \in Seq(Byte), NEW t \in Seq(Byte), NEW e \in Seq(Byte), t = s \o e
  PROVE  /\ Begins(s, t) /\ Len(t) = Len(s) + Len(e)
         /\ \A i \in 1 .. Len(e) : t[Len(s) + i] = e[i]
  BY DEF Begins

\* Packets grow at their end.
LEMMA BeginsTransitive ==
  ASSUME NEW s \in Seq(Byte), NEW t \in Seq(Byte), NEW u \in Seq(Byte), Begins(s, t), Begins(t, u)
  PROVE  Begins(s, u)
<1>1. Len(s) \in Nat /\ Len(t) \in Nat /\ Len(u) \in Nat
  OBVIOUS
<1> QED
  BY <1>1 DEF Begins

LEMMA EscapeTypes ==
  ASSUME NEW bytes \in Seq(Byte), NEW E, EscapeRun(bytes, E)
  PROVE  \A k \in 0 .. Len(bytes) : E[k] \in Seq(Byte)
<1> DEFINE n == Len(bytes)
           S == {k \in 0 .. n : E[k] \in Seq(Byte)}
<1>1. n \in Nat
  OBVIOUS
<1>2. 0 \in S
  <2> DEFINE e == <<>>
  <2>1. E[0] = e
    BY DEF EscapeRun
  <2>2. e \in Seq(Byte)
    OBVIOUS
  <2> HIDE DEF e
  <2> QED
    BY <2>1, <2>2, <1>1
<1>3. ASSUME NEW k \in 0 .. n, k # 0, k - 1 \in S PROVE k \in S
  <2>0. k \in 1 .. Len(bytes)
    BY <1>1, <1>3
  <2>1. k \in 1 .. Len(bytes) /\ E[k] = E[k - 1] \o Escape(bytes[k])
    BY <2>0 DEF EscapeRun
  <2>2. E[k - 1] \in Seq(Byte) /\ bytes[k] \in Byte
    BY <1>3, <2>1
  <2>3. Escape(bytes[k]) \in Seq(Byte)
    BY <2>2, EscapeFacts
  <2>4. E[k] \in Seq(Byte)
    BY <2>1, <2>2, <2>3, Concatenated
  <2> QED
    BY <2>4
<1>4. \A k \in 0 .. n : k \in S
  <2>1. \A k \in 0 .. n : k # 0 /\ k - 1 \in S => k \in S
    BY <1>3
  <2> HIDE DEF S
  <2> QED
    BY <1>1, <1>2, <2>1, Upto
<1> QED
  BY <1>4

LEMMA EscapedType ==
  ASSUME NEW bytes \in Seq(Byte)
  PROVE  Escaped(bytes) \in Seq(Byte)
<1>1. PICK E : EscapeRun(bytes, E)
  BY EscapeRuns
<1>2. Len(bytes) \in 0 .. Len(bytes)
  OBVIOUS
<1> QED
  BY <1>1, <1>2, EscapeTypes DEF EscapeRun

\* What is escaped later does not change what was.
LEMMA EscapeBegins ==
  ASSUME NEW bytes \in Seq(Byte), NEW E, EscapeRun(bytes, E), NEW j \in 0 .. Len(bytes)
  PROVE  Begins(E[j], Escaped(bytes))
<1> DEFINE n == Len(bytes)
           S == {k \in 0 .. n : k >= j => Begins(E[j], E[k])}
<1>1. n \in Nat /\ j \in Nat
  OBVIOUS
<1>0. \A k \in 0 .. n : E[k] \in Seq(Byte)
  BY EscapeTypes
<1>5. Begins(E[j], E[j])
  BY <1>0 DEF Begins
<1>2. 0 \in S
  <2>1. 0 >= j => j = 0
    BY <1>1
  <2> QED
    BY <2>1, <1>1, <1>5
<1>3. ASSUME NEW k \in 0 .. n, k # 0, k - 1 \in S PROVE k \in S
  <2>0. k \in 1 .. Len(bytes) /\ k - 1 \in 0 .. n
    BY <1>1, <1>3
  <2>1. E[k] = E[k - 1] \o Escape(bytes[k])
    BY <2>0 DEF EscapeRun
  <2>2. E[k - 1] \in Seq(Byte) /\ bytes[k] \in Byte /\ E[j] \in Seq(Byte) /\ E[k] \in Seq(Byte)
    BY <1>0, <2>0
  <2>3. Escape(bytes[k]) \in Seq(Byte)
    BY <2>2, EscapeFacts
  <2>4. Begins(E[k - 1], E[k])
    BY <2>1, <2>2, <2>3, BeginsAppended
  <2>5. SUFFICES ASSUME k >= j PROVE Begins(E[j], E[k])
    OBVIOUS
  <2>6. CASE k = j
    BY <2>6, <1>5
  <2>7. CASE k # j
    <3>1. k - 1 >= j
      BY <2>5, <2>7, <1>1
    <3>2. Begins(E[j], E[k - 1])
      BY <3>1, <1>3
    <3> QED
      BY <3>2, <2>2, <2>4, BeginsTransitive
  <2> QED
    BY <2>6, <2>7
<1>4. \A k \in 0 .. n : k \in S
  <2>1. \A k \in 0 .. n : k # 0 /\ k - 1 \in S => k \in S
    BY <1>3
  <2> HIDE DEF S
  <2> QED
    BY <1>1, <1>2, <2>1, Upto
<1>6. n \in S /\ n >= j
  BY <1>1, <1>4
<1> QED
  BY <1>6 DEF EscapeRun

\* A packet of data, behind a mode switch when the mode is command.
Into(mode, s) == IF mode = "DATA" THEN s ELSE <<MODE_DATA>> \o s

LEMMA IntoType ==
  ASSUME NEW mode, NEW s \in Seq(Byte)
  PROVE  Into(mode, s) \in Seq(Byte)
<1>1. <<MODE_DATA>> \in Seq(Byte)
  BY DEF MODE_DATA, Byte
<1> QED
  BY <1>1, Concatenated DEF Into

\* From byte j the packet is its data, and there the decoder is in data
\* mode with nothing collected.
DataFrom(L, s, D, j) ==
  /\ j \in 0 .. 1 /\ Len(Into(L.mode, s)) = j + Len(s)
  /\ \A i \in 1 .. Len(s) : Into(L.mode, s)[j + i] = s[i]
  /\ D[j] = At([L EXCEPT !.mode = "DATA"], <<>>, FALSE)

LEMMA IntoBegins ==
  ASSUME NEW L \in Links, NEW s \in Seq(Byte), NEW how \in Ways, NEW D,
         Run(L, Into(L.mode, s), how, D)
  PROVE  \E j : DataFrom(L, s, D, j)
<1> DEFINE bytes == Into(L.mode, s)
           M == [L EXCEPT !.mode = "DATA"]
<1>1. CASE L.mode = "DATA"
  <2>1. bytes = s
    BY <1>1 DEF Into
  <2>2. M = L
    BY <1>1, Unmoved
  <2>3. D[0] = At(M, <<>>, FALSE)
    BY <2>2 DEF Run
  <2> HIDE DEF M
  <2>5. 0 \in 0 .. 1 /\ Len(s) = 0 + Len(s) /\ \A i \in 1 .. Len(s) : s[0 + i] = s[i]
    OBVIOUS
  <2>6. DataFrom(L, s, D, 0)
    BY <2>1, <2>3, <2>5 DEF M, DataFrom
  <2> QED
    BY <2>6
<1>2. CASE L.mode = "COMMAND"
  <2>1. bytes = <<MODE_DATA>> \o s
    BY <1>2 DEF Into
  <2> DEFINE a == MODE_DATA
  <2>0. a \in Byte
    BY DEF MODE_DATA, Byte
  <2> HIDE DEF a
  <2>2. /\ Len(bytes) = 1 + Len(s) /\ bytes[1] = a
        /\ \A i \in 1 .. Len(s) : bytes[1 + i] = s[i]
    BY <2>0, <2>1, Prepended DEF a
  <2>3. Len(s) \in Nat /\ bytes \in Seq(Byte)
    BY IntoType
  <2> HIDE DEF bytes
  <2>4. 1 \in 1 .. Len(bytes)
    BY <2>2, <2>3
  <2>6. D[0] = At(L, <<>>, FALSE) /\ D[1] = Decode(D[0], bytes, 1, how)
    <3>1. D[0] = At(L, <<>>, FALSE) /\ D[1] = Decode(D[1 - 1], bytes, 1, how)
      BY <2>4 DEF Run, bytes
    <3> DEFINE i == 1 - 1
    <3>2. i = 0
      OBVIOUS
    <3>3. D[1] = Decode(D[i], bytes, 1, how)
      BY <3>1
    <3> HIDE DEF i
    <3> QED
      BY <3>1, <3>2, <3>3
  <2> DEFINE d == D[0]
  <2>7. d \in Decoders
    BY <2>6, StartType
  <2>8. d.link = L /\ d.batch = <<>> /\ ~d.esc
    BY <2>6 DEF At
  <2> HIDE DEF d
  <2>9. Decode(d, bytes, 1, how) = At(InCommandMode(d.link, bytes[1]), <<>>, FALSE)
    BY <2>3, <2>4, <2>7, <2>8, <1>2, DecodeCases
  <2>10. InCommandMode(L, MODE_DATA) = M
    <3>1. a \in Byte /\ a = MODE_DATA
      BY <2>0 DEF a
    <3>2. InCommandMode(L, a) = M
      BY <3>1, InCommandModeLink
    <3> QED
      BY <3>1, <3>2
  <2>11. D[1] = At(M, <<>>, FALSE)
    BY <2>2, <2>6, <2>8, <2>9, <2>10 DEF d, a
  <2>12. DataFrom(L, s, D, 1)
    BY <2>2, <2>11 DEF bytes, DataFrom
  <2> QED
    BY <2>12
<1> QED
  BY <1>1, <1>2, LinkFields

\* The decoder at place p has collected a batch.
Collected(D, p, N, batch) == D[p] = At(N, batch, FALSE)

\* One byte of data is collected, be it one byte of the packet or an escape.
Collects(bytes, D, p, N, batch, b) ==
  /\ p + 1 <= Len(bytes) /\ bytes[p + 1] = b /\ b # MODE_COMMAND =>
       D[p + 1] = At(N, Append(batch, b), FALSE)
  /\ p + 2 <= Len(bytes) /\ bytes[p + 1] = b /\ b = MODE_COMMAND
       /\ bytes[p + 2] = MODE_COMMAND => D[p + 2] = At(N, Append(batch, b), FALSE)

\* One byte of the caller, escaped or not, is collected as it was.
LEMMA DataByte ==
  ASSUME NEW L \in Links, NEW bytes \in Seq(Byte), NEW how \in Ways, NEW D,
         Run(L, bytes, how, D), NEW N \in Links, N.mode = "DATA", NEW batch \in Seq(Byte),
         NEW p \in 0 .. Len(bytes), Collected(D, p, N, batch), NEW b \in Byte, b # TIMING
  PROVE  Collects(bytes, D, p, N, batch, b)
<1> DEFINE d == D[p]
<1>1. d \in Decoders /\ d.link = N /\ d.batch = batch /\ ~d.esc
  <2>1. d.link = N /\ d.batch = batch /\ ~d.esc
    BY DEF At, Collected
  <2> DEFINE x == FALSE
  <2>2. x \in BOOLEAN /\ d = At(N, batch, x)
    BY DEF Collected
  <2> HIDE DEF x, d
  <2>3. d \in Decoders
    BY <2>2, AtType
  <2> QED
    BY <2>1, <2>3
<1>2. Len(bytes) \in Nat /\ p \in Nat
  OBVIOUS
<1>3. ASSUME p + 1 <= Len(bytes)
      PROVE  p + 1 \in 1 .. Len(bytes) /\ D[p + 1] = Decode(d, bytes, p + 1, how)
  <2>1. p + 1 \in 1 .. Len(bytes) /\ (p + 1) - 1 = p
    BY <1>2, <1>3
  <2>2. D[p + 1] = Decode(D[(p + 1) - 1], bytes, p + 1, how)
    BY <2>1 DEF Run
  <2> QED
    BY <2>1, <2>2
<1> HIDE DEF d
<1>4. ASSUME p + 1 <= Len(bytes), bytes[p + 1] = b, b # MODE_COMMAND
      PROVE  D[p + 1] = At(N, Append(batch, b), FALSE)
  <2> DEFINE q == p + 1
  <2>1. q \in 1 .. Len(bytes) /\ D[q] = Decode(d, bytes, q, how) /\ bytes[q] = b
    BY <1>3, <1>4
  <2> HIDE DEF q
  <2>2. Decode(d, bytes, q, how) = At(d.link, Append(d.batch, bytes[q]), FALSE)
    BY <1>1, <1>4, <2>1, DecodeCases
  <2> QED
    BY <1>1, <2>1, <2>2 DEF q
<1>5. ASSUME p + 2 <= Len(bytes), bytes[p + 1] = b, b = MODE_COMMAND,
             bytes[p + 2] = MODE_COMMAND
      PROVE  D[p + 2] = At(N, Append(batch, b), FALSE)
  <2> DEFINE q == p + 1
             r == p + 2
  <2>1. p + 1 <= Len(bytes)
    BY <1>2, <1>5
  <2>2. q \in 1 .. Len(bytes) /\ D[q] = Decode(d, bytes, q, how) /\ bytes[q] = b
    BY <1>3, <1>5, <2>1
  <2>3. /\ r \in 1 .. Len(bytes) /\ r - 1 = q /\ q < Len(bytes) /\ q + 1 = r
        /\ bytes[r] = MODE_COMMAND
    BY <1>2, <1>5
  <2> HIDE DEF q, r
  <2>4. bytes[q + 1] = MODE_COMMAND
    BY <2>3
  <2>5. Decode(d, bytes, q, how) = At(d.link, Append(d.batch, bytes[q]), TRUE)
    <3>1. d.link.mode = "DATA" /\ bytes[q] = MODE_COMMAND
      BY <1>1, <1>5, <2>2
    <3> QED
      BY <3>1, <1>1, <2>2, <2>3, <2>4, DecodeCases
  <2> DEFINE x == Append(batch, b)
             f == D[q]
  <2>6. x \in Seq(Byte)
    OBVIOUS
  <2>7. f = At(N, x, TRUE)
    BY <1>1, <2>2, <2>5
  <2> HIDE DEF x, f
  <2>8. f \in Decoders /\ f.link = N /\ f.batch = x /\ f.esc
    BY <2>6, <2>7, AtType DEF At
  <2>9. D[r] = Decode(f, bytes, r, how)
    <3>1. D[r] = Decode(D[r - 1], bytes, r, how)
      BY <2>3 DEF Run
    <3> QED
      BY <3>1, <2>3 DEF f
  <2>10. D[r] = At(f.link, f.batch, FALSE)
    BY <2>3, <2>8, <2>9, DecodeCases
  <2> QED
    BY <2>8, <2>10 DEF r, x
<1> QED
  BY <1>4, <1>5 DEF Collects

LEMMA SubSeqSteps ==
  ASSUME NEW bytes \in Seq(Byte)
  PROVE  /\ \A k \in 0 .. Len(bytes) : SubSeq(bytes, 1, k) \in Seq(Byte)
         /\ \A k \in 1 .. Len(bytes) :
              Append(SubSeq(bytes, 1, k - 1), bytes[k]) = SubSeq(bytes, 1, k)
         /\ SubSeq(bytes, 1, Len(bytes)) = bytes
<1>1. ASSUME NEW k \in 0 .. Len(bytes) PROVE SubSeq(bytes, 1, k) \in Seq(Byte)
  OBVIOUS
<1>2. ASSUME NEW k \in 1 .. Len(bytes)
      PROVE  Append(SubSeq(bytes, 1, k - 1), bytes[k]) = SubSeq(bytes, 1, k)
  <2> DEFINE s == SubSeq(bytes, 1, k - 1)
             t == SubSeq(bytes, 1, k)
             a == Append(s, bytes[k])
  <2>1. s \in Seq(Byte) /\ Len(s) = k - 1 /\ \A i \in 1 .. k - 1 : s[i] = bytes[i]
    OBVIOUS
  <2>2. t \in Seq(Byte) /\ Len(t) = k /\ \A i \in 1 .. k : t[i] = bytes[i]
    OBVIOUS
  <2>3. bytes[k] \in Byte
    OBVIOUS
  <2> HIDE DEF s, t
  <2>4. a \in Seq(Byte) /\ Len(a) = k /\ a[k] = bytes[k] /\ \A i \in 1 .. k - 1 : a[i] = bytes[i]
    BY <2>1, <2>3
  <2> HIDE DEF a
  <2>5. \A i \in 1 .. k : a[i] = t[i]
    BY <2>2, <2>4
  <2>6. a = t
    BY <2>2, <2>4, <2>5
  <2> QED
    BY <2>6 DEF a, s, t
<1>3. SubSeq(bytes, 1, Len(bytes)) = bytes
  OBVIOUS
<1> QED
  BY <1>1, <1>2, <1>3

\* The decoder has collected the first k bytes.
Reached(D, N, bytes, E, j, k) == D[j + Len(E[k])] = At(N, SubSeq(bytes, 1, k), FALSE)

\* One byte of the caller after another.
LEMMA ReachedStep ==
  ASSUME NEW L \in Links, NEW bytes \in Seq(Byte), NEW E, EscapeRun(bytes, E),
         NEW how \in Ways, NEW D, Run(L, Into(L.mode, Escaped(bytes)), how, D),
         NEW j, DataFrom(L, Escaped(bytes), D, j), NEW N \in Links, N.mode = "DATA",
         NEW k \in 1 .. Len(bytes), bytes[k] # TIMING, Reached(D, N, bytes, E, j, k - 1)
  PROVE  Reached(D, N, bytes, E, j, k)
<1> DEFINE b == bytes[k]
           s == E[k - 1]
           t == E[k]
           all == Escaped(bytes)
           P == Into(L.mode, all)
           p == j + Len(s)
           batch == SubSeq(bytes, 1, k - 1)
<1>1. k - 1 \in 0 .. Len(bytes) /\ k \in 0 .. Len(bytes)
  OBVIOUS
<1>2. s \in Seq(Byte) /\ t \in Seq(Byte) /\ b \in Byte
  BY <1>1, EscapeTypes
<1>3. t = s \o Escape(b)
  BY DEF EscapeRun
<1>4. all \in Seq(Byte) /\ P \in Seq(Byte)
  BY EscapedType, IntoType
<1>5. Begins(t, all)
  BY <1>1, EscapeBegins
<1>6. D[p] = At(N, batch, FALSE)
  BY DEF Reached
<1>7. batch \in Seq(Byte) /\ Append(batch, b) = SubSeq(bytes, 1, k)
  BY <1>1, SubSeqSteps
<1>8. j \in 0 .. 1 /\ Len(P) = j + Len(all) /\ \A i \in 1 .. Len(all) : P[j + i] = all[i]
  BY DEF DataFrom
<1>9. Run(L, P, how, D) /\ b # TIMING
  OBVIOUS
<1> HIDE DEF b, s, t, all, P, batch
<1>10. /\ Escape(b) \in Seq(Byte) /\ Escape(b)[1] = b
       /\ b = MODE_COMMAND => Len(Escape(b)) = 2 /\ Escape(b)[2] = MODE_COMMAND
       /\ b # MODE_COMMAND => Len(Escape(b)) = 1
  BY <1>2, EscapeFacts
<1> DEFINE e == Escape(b)
<1> HIDE DEF e
<1>11. Len(t) = Len(s) + Len(e) /\ \A i \in 1 .. Len(e) : t[Len(s) + i] = e[i]
  BY <1>2, <1>3, <1>10, BeginsAppended DEF e
<1>12. Len(s) \in Nat /\ Len(t) \in Nat /\ Len(all) \in Nat /\ Len(P) \in Nat /\ j \in Nat
  BY <1>2, <1>4, <1>8
<1>13. Len(t) <= Len(all) /\ \A i \in 1 .. Len(t) : all[i] = t[i]
  BY <1>5 DEF Begins
<1>14. p \in 0 .. Len(P) /\ p \in Nat /\ Len(e) \in Nat /\ Len(e) >= 1
  BY <1>8, <1>10, <1>11, <1>12, <1>13 DEF e
<1>15. ASSUME NEW i \in 1 .. Len(e) PROVE p + i <= Len(P) /\ P[p + i] = e[i]
  <2>1. Len(s) + i \in 1 .. Len(t) /\ Len(s) + i \in 1 .. Len(all)
    BY <1>11, <1>12, <1>13, <1>14
  <2>2. P[j + (Len(s) + i)] = all[Len(s) + i] /\ all[Len(s) + i] = t[Len(s) + i]
           /\ t[Len(s) + i] = e[i]
    BY <2>1, <1>8, <1>11, <1>13
  <2>3. j + (Len(s) + i) = p + i /\ p + i <= Len(P)
    BY <2>1, <1>8, <1>12
  <2> QED
    BY <2>2, <2>3
<1>16. j + Len(t) = p + Len(e)
  BY <1>11, <1>12, <1>14
<1>17. D[p + Len(e)] = At(N, Append(batch, b), FALSE)
  <2> HIDE DEF p
  <2>3. /\ p + 1 <= Len(P) /\ P[p + 1] = b /\ b # MODE_COMMAND =>
             D[p + 1] = At(N, Append(batch, b), FALSE)
        /\ p + 2 <= Len(P) /\ P[p + 1] = b /\ b = MODE_COMMAND
             /\ P[p + 2] = MODE_COMMAND => D[p + 2] = At(N, Append(batch, b), FALSE)
    <3>1. p \in 0 .. Len(P) /\ Collected(D, p, N, batch)
      BY <1>6, <1>14 DEF Collected
    <3>2. Collects(P, D, p, N, batch, b)
      BY <1>2, <1>4, <1>7, <1>9, <3>1, DataByte
    <3> QED
      BY <3>2 DEF Collects
  <2>1. CASE b = MODE_COMMAND
    <3>1. Len(e) = 2 /\ e[1] = b /\ e[2] = MODE_COMMAND
      BY <1>10, <2>1 DEF e
    <3>2. 1 \in 1 .. Len(e) /\ 2 \in 1 .. Len(e)
      BY <3>1
    <3>3. p + 2 <= Len(P) /\ P[p + 1] = b /\ P[p + 2] = MODE_COMMAND
      BY <1>15, <3>1, <3>2
    <3>4. D[p + 2] = At(N, Append(batch, b), FALSE)
      BY <2>1, <2>3, <3>3
    <3> QED
      BY <3>1, <3>4
  <2>2. CASE b # MODE_COMMAND
    <3>1. Len(e) = 1 /\ e[1] = b
      BY <1>10, <2>2 DEF e
    <3>2. 1 \in 1 .. Len(e)
      BY <3>1
    <3>3. p + 1 <= Len(P) /\ P[p + 1] = b
      BY <1>15, <3>1, <3>2
    <3>4. D[p + 1] = At(N, Append(batch, b), FALSE)
      BY <2>2, <2>3, <3>3
    <3> QED
      BY <3>1, <3>4
  <2> QED
    BY <2>1, <2>2
<1>18. D[j + Len(t)] = At(N, SubSeq(bytes, 1, k), FALSE)
  BY <1>7, <1>16, <1>17
<1> QED
  BY <1>18 DEF Reached, t

LEMMA EscapeNothing ==
  ASSUME NEW bytes \in Seq(Byte), NEW E, EscapeRun(bytes, E)
  PROVE  Len(E[0]) = 0
<1>1. E[0] = <<>>
  BY DEF EscapeRun
<1> QED
  BY <1>1

\* Without the timing byte, the button is handed what was escaped.
LEMMA DataPacketLink ==
  ASSUME NEW L \in Links, NEW bytes \in Seq(Byte), TIMING \notin Sent(bytes), NEW how \in Ways
  PROVE  WriteCOM(L, Into(L.mode, Escaped(bytes)), how)
           = Dispatch([L EXCEPT !.mode = "DATA"], bytes, how)
<1> DEFINE N == [L EXCEPT !.mode = "DATA"]
           all == Escaped(bytes)
           P == Into(L.mode, all)
           n == Len(bytes)
<1>1. all \in Seq(Byte) /\ P \in Seq(Byte)
  BY EscapedType, IntoType
<1>2. PICK D : Run(L, P, how, D)
  BY <1>1, Runs
<1>3. PICK j : DataFrom(L, all, D, j)
  BY <1>1, <1>2, IntoBegins
<1>4. PICK E : EscapeRun(bytes, E)
  BY EscapeRuns
<1>5. N \in Links /\ N.mode = "DATA"
  BY DEF Links
<1>6. D[j] = At(N, <<>>, FALSE) /\ j \in Nat /\ Len(P) = j + Len(all)
  BY <1>3 DEF DataFrom
<1>7. n \in Nat
  OBVIOUS
<1> HIDE DEF N
<1> DEFINE S == {k \in 0 .. n : Reached(D, N, bytes, E, j, k)}
<1>8. 0 \in S
  <2> DEFINE z == Len(E[0])
  <2>1. z = 0
    BY <1>4, EscapeNothing
  <2>2. SubSeq(bytes, 1, 0) = <<>>
    OBVIOUS
  <2> HIDE DEF z
  <2>3. j + z = j
    BY <1>6, <2>1
  <2>4. D[j + z] = At(N, SubSeq(bytes, 1, 0), FALSE)
    BY <1>6, <2>2, <2>3
  <2>5. Reached(D, N, bytes, E, j, 0)
    BY <2>4 DEF Reached, z
  <2> QED
    BY <2>5, <1>7
<1>9. ASSUME NEW k \in 0 .. n, k # 0, k - 1 \in S PROVE k \in S
  <2>1. k \in 1 .. Len(bytes)
    BY <1>7, <1>9
  <2>2. bytes[k] # TIMING
    BY <2>1 DEF Sent
  <2>3. Reached(D, N, bytes, E, j, k - 1)
    BY <1>9
  <2>4. Reached(D, N, bytes, E, j, k)
    BY <1>2, <1>3, <1>4, <1>5, <2>1, <2>2, <2>3, ReachedStep
  <2> QED
    BY <2>4
<1>10. n \in S
  <2>1. \A k \in 0 .. n : k # 0 /\ k - 1 \in S => k \in S
    BY <1>9
  <2> HIDE DEF S
  <2>2. \A k \in 0 .. n : k \in S
    BY <1>7, <1>8, <2>1, Upto
  <2> QED
    BY <1>7, <2>2
<1>11. D[Len(P)] = At(N, bytes, FALSE)
  <2>1. Reached(D, N, bytes, E, j, n)
    BY <1>10
  <2>2. all = E[n]
    BY <1>4 DEF EscapeRun
  <2>3. SubSeq(bytes, 1, n) = bytes
    BY SubSeqSteps
  <2> QED
    BY <1>6, <2>1, <2>2, <2>3 DEF Reached
<1>12. D[Len(P)].link = N /\ D[Len(P)].batch = bytes
  BY <1>11 DEF At
<1>13. WriteCOM(L, P, how) = Dispatch(D[Len(P)].link, D[Len(P)].batch, how)
  BY <1>2 DEF Run
<1> QED
  BY <1>12, <1>13 DEF N

----------------------------------------------------------------------------
(* Data through the packet buffer *)

\* Any packet is sent as bytes.
LEMMA WrappedType ==
  ASSUME NEW packet \in Seq(Byte)
  PROVE  Wrapped(packet) \in Seq(Byte)
<1> DEFINE n == Len(packet)
           m == (n % UChar)
<1>1. n \in Nat /\ UChar \in Nat /\ UChar > 0
  BY LinkAssumption
<1>2. m \in Nat /\ m <= n
  BY <1>1
<1>3. ASSUME NEW k \in 1 .. m PROVE packet[n - ((n - k) % UChar)] \in Byte
  <2> DEFINE r == ((n - k) % UChar)
  <2>1. n - k \in Nat
    BY <1>1, <1>2
  <2>2. r \in Nat /\ r <= n - k
    BY <1>1, <2>1
  <2> HIDE DEF r
  <2>3. n - r \in 1 .. n
    BY <1>1, <1>2, <2>1, <2>2
  <2> QED
    BY <2>3 DEF r
<1>4. Wrapped(packet) = [k \in 1 .. m |-> packet[n - ((n - k) % UChar)]]
  BY DEF Wrapped
<1> HIDE DEF m
<1> QED
  BY <1>2, <1>3, <1>4

\* A packet that sendlen can count is sent as it is.
LEMMA WrappedSame ==
  ASSUME NEW packet \in Seq(Byte), Len(packet) < UChar
  PROVE  Wrapped(packet) = packet
<1> DEFINE n == Len(packet)
           m == (n % UChar)
<1>1. n \in Nat /\ UChar \in Nat /\ UChar > 0 /\ n < UChar
  BY LinkAssumption
<1>2. m = n
  BY <1>1
<1>3. ASSUME NEW k \in 1 .. n PROVE packet[n - ((n - k) % UChar)] = packet[k]
  <2>1. n - k \in Nat /\ n - k < UChar
    BY <1>1
  <2>2. ((n - k) % UChar) = n - k
    BY <1>1, <2>1
  <2>3. n - ((n - k) % UChar) = k
    BY <1>1, <2>2
  <2> QED
    BY <2>3
<1>4. Wrapped(packet) = [k \in 1 .. m |-> packet[n - ((n - k) % UChar)]]
  BY DEF Wrapped
<1> HIDE DEF m
<1>5. Wrapped(packet) = [k \in 1 .. n |-> packet[k]]
  BY <1>2, <1>3, <1>4
<1> QED
  BY <1>5

LEMMA DataPacketIs ==
  ASSUME NEW L, L.UMode \in {"COMMAND", "DATA"}, NEW bytes \in Seq(Byte)
  PROVE  /\ DataPacket(L, bytes) = Into(L.UMode, Escaped(bytes))
         /\ DataPacket(L, bytes) \in Seq(Byte)
         /\ Fits(bytes) => Wrapped(DataPacket(L, bytes)) = DataPacket(L, bytes)
<1> DEFINE s == Escaped(bytes)
           P == DataPacket(L, bytes)
<1>1. s \in Seq(Byte)
  BY EscapedType
<1>2. P = Into(L.UMode, s)
  BY DEF DataPacket, Into
<1>3. P \in Seq(Byte)
  BY <1>1, <1>2, IntoType
<1> DEFINE b == MODE_DATA
           h == <<b>> \o s
<1>4. b \in Byte
  BY DEF MODE_DATA, Byte
<1>5. P = s \/ P = h
  BY <1>2 DEF Into
<1>6. Fits(bytes) => Len(h) < UChar
  BY DEF Fits
<1> HIDE DEF s, P, b
<1>7. Len(h) = 1 + Len(s) /\ Len(s) \in Nat
  BY <1>1, <1>4, Prepended
<1> HIDE DEF h
<1>8. Fits(bytes) => Len(P) < UChar
  BY <1>5, <1>6, <1>7, LinkAssumption
<1>9. Fits(bytes) => Wrapped(P) = P
  BY <1>3, <1>8, WrappedSame
<1> QED
  BY <1>2, <1>3, <1>9 DEF P, s

\* What is sent and what comes back, from a link in step.
HandedOver(L, M, bytes, how) ==
  /\ M.handed = L.handed \o bytes
  /\ M.ok => /\ Len(bytes) <= Len(Answer(how, bytes))
             /\ M.got = SubSeq(Answer(how, bytes), 1, Len(bytes))

\* SendData on any link; a plain block on an idle one is handed over.
LEMMA SendLink ==
  ASSUME NEW L \in Links, NEW bytes \in Seq(Byte), NEW how \in Ways
  PROVE  LET M == SendData(L, bytes, how)
         IN  /\ M \in Links
             /\ Plain(bytes) =>
                  /\ Stay(L) => Stay(M)
                  /\ Found(L) => Found(M)
                  /\ Idle(L) => Idle(M) /\ HandedOver(L, M, bytes, how)
<1> DEFINE C == [L EXCEPT !.UMode = "DATA"]
           F == FlushCOM(C)
           P == Wrapped(DataPacket(L, bytes))
           W == WriteCOM(F, P, how)
           n == Len(bytes)
           M == Exchange(C, P, n, how)
<1>1. SendData(L, bytes, how) = M
  BY DEF SendData
<1>2. /\ C \in Links /\ C.UMode = "DATA" /\ C.USpeed = L.USpeed /\ C.UBaud = L.UBaud
      /\ C.detected = L.detected /\ BridgeSame(L, C) /\ C.handed = L.handed
  BY DEF Links, BridgeSame
<1>3. L.UMode \in {"COMMAND", "DATA"} /\ n \in Nat
  <2>1. n \in Nat
    OBVIOUS
  <2> QED
    BY <2>1, LinkFields
<1>4. P \in Seq(Byte)
  <2>1. DataPacket(L, bytes) \in Seq(Byte)
    BY <1>3, DataPacketIs
  <2> QED
    BY <2>1, WrappedType
<1> HIDE DEF C
<1>5. F \in Links /\ BridgeSame(C, F) /\ F.handed = C.handed /\ Len(F.rx) = 0
  BY <1>2, FlushLink
<1> HIDE DEF P, n
<1>6. /\ M \in Links /\ Beliefs(C, M) /\ W \in Links /\ BridgeSame(W, M) /\ M.handed = W.handed
      /\ M.ok => n <= Len(W.rx) /\ M.got = SubSeq(W.rx, 1, n)
  BY <1>2, <1>3, <1>4, ExchangeLink DEF n
<1> HIDE DEF M
<1>7. ASSUME Plain(bytes), Agree(L)
      PROVE  /\ M.UMode = "DATA" /\ M.mode = "DATA" /\ M.speed = L.speed /\ M.baud = L.baud
             /\ M.search = L.search
             /\ ~L.search => HandedOver(L, M, bytes, how)
  <2>1. P = Into(F.mode, Escaped(bytes))
    <3>1. F.mode = L.UMode
      BY <1>2, <1>5, <1>7 DEF Agree, BridgeSame
    <3>2. Fits(bytes)
      BY <1>7 DEF Plain
    <3>3. P = Into(L.UMode, Escaped(bytes))
      BY <1>3, <3>2, DataPacketIs DEF P
    <3> QED
      BY <3>1, <3>3
  <2>2. TIMING \notin Sent(bytes)
    BY <1>7 DEF Plain
  <2> DEFINE G == [F EXCEPT !.mode = "DATA"]
  <2>3. W = Dispatch(G, bytes, how)
    BY <1>5, <2>1, <2>2, DataPacketLink
  <2>4. /\ G \in Links /\ G.mode = "DATA" /\ G.speed = F.speed /\ G.baud = F.baud
        /\ G.search = F.search /\ G.rx = F.rx /\ G.handed = F.handed
    BY <1>5 DEF Links
  <2> HIDE DEF G, W, F
  <2>5. /\ BridgeSame(G, W)
        /\ ~G.search => W.handed = G.handed \o bytes /\ W.rx = G.rx \o Answer(how, bytes)
    BY <2>3, <2>4, DispatchLink
  <2>6. M.mode = "DATA" /\ M.speed = L.speed /\ M.baud = L.baud /\ M.search = L.search
    BY <1>2, <1>5, <1>6, <2>4, <2>5 DEF BridgeSame
  <2>7. M.UMode = "DATA"
    BY <1>2, <1>6 DEF Beliefs
  <2>8. ASSUME ~L.search PROVE HandedOver(L, M, bytes, how)
    <3>1. ~G.search
      BY <2>8, <1>2, <1>5, <2>4 DEF BridgeSame
    <3>2. W.handed = L.handed \o bytes /\ W.rx = F.rx \o Answer(how, bytes)
      BY <3>1, <1>2, <1>5, <2>4, <2>5
    <3>3. Answer(how, bytes) \in Seq(Byte) /\ F.rx \in Seq(Byte)
      BY <1>5, AnswerType, LinkFields
    <3> DEFINE a == Answer(how, bytes)
    <3> HIDE DEF a
    <3>4. F.rx \o a = a
      BY <3>3, <1>5 DEF a
    <3>5. W.rx = a
      BY <3>2, <3>4 DEF a
    <3> QED
      BY <1>6, <3>2, <3>5 DEF HandedOver, a, n
  <2> QED
    BY <2>6, <2>7, <2>8
<1>8. M.USpeed = L.USpeed /\ M.UBaud = L.UBaud /\ M.detected = L.detected
  BY <1>2, <1>6 DEF Beliefs
<1>9. Plain(bytes) /\ Stay(L) => Stay(M)
  BY <1>7, <1>8 DEF Stay, Agree, SpeedAgree
<1>10. Plain(bytes) /\ Found(L) => Found(M)
  BY <1>7, <1>8 DEF Found, Agree, SpeedAgree
<1>11. Plain(bytes) /\ Idle(L) => Idle(M) /\ HandedOver(L, M, bytes, how)
  BY <1>7 DEF Idle, Agree
<1> QED
  BY <1>1, <1>6, <1>9, <1>10, <1>11

----------------------------------------------------------------------------
(* The functions that send data *)

\* What a call does that hands the button one batch.
Does(L, M, bytes, how) ==
  /\ M \in Links
  /\ Plain(bytes) =>
       /\ Stay(L) => Stay(M)
       /\ Found(L) => Found(M)
       /\ Idle(L) /\ M.ok => HandedOver(L, M, bytes, how)

\* Commands before data.
LEMMA DoesAfter ==
  ASSUME NEW L, NEW A, Keeps(L, A), NEW bytes, NEW how, NEW M, Does(A, M, bytes, how)
  PROVE  Does(L, M, bytes, how)
  BY DEF Does, Keeps, HandedOver

LEMMA DoesNot ==
  ASSUME NEW L, NEW bytes, NEW how, NEW M, Keeps(L, M), ~M.ok
  PROVE  Does(L, M, bytes, how)
  BY DEF Does, Keeps

\* A detection after data.
LEMMA DoesThenFails ==
  ASSUME NEW L \in Links, NEW bytes \in Seq(Byte), NEW how \in Ways
  PROVE  LET M == SendData(L, bytes, how)
         IN  /\ M \in Links
             /\ Does(L, M, bytes, how)
             /\ Does(L, Failed(M, how), bytes, how)
             /\ ~Failed(M, how).ok /\ Failed(M, how) \in Links
             /\ Plain(bytes) /\ Idle(L) =>
                  M.handed = L.handed \o bytes /\ Failed(M, how).handed = L.handed \o bytes
<1> DEFINE M == SendData(L, bytes, how)
           N == Failed(M, how)
<1>1. /\ M \in Links
      /\ Plain(bytes) =>
           /\ Stay(L) => Stay(M)
           /\ Found(L) => Found(M)
           /\ Idle(L) => Idle(M) /\ HandedOver(L, M, bytes, how)
  BY SendLink
<1> HIDE DEF M
<1>2. Keeps(M, N) /\ ~N.ok /\ N.handed = M.handed
  BY <1>1, FailedKeeps
<1> HIDE DEF N
<1>3. Does(L, M, bytes, how)
  BY <1>1 DEF Does
<1>4. N \in Links /\ Does(L, N, bytes, how)
  BY <1>1, <1>2 DEF Does, Keeps
<1> QED
  BY <1>1, <1>2, <1>3, <1>4 DEF M, N, HandedOver

LEMMA BlockDoes ==
  ASSUME NEW L \in Links, NEW bytes \in Seq(Byte), NEW how \in Ways
  PROVE  Does(L, Block(L, bytes, how), bytes, how)
<1> DEFINE M == SendData(L, bytes, how)
           N == Block(L, bytes, how)
<1>1. CASE L.ok
  <2>1. N = M \/ N = Failed(M, how)
    BY <1>1 DEF Block, Checked
  <2> QED
    BY <2>1, DoesThenFails
<1>2. CASE ~L.ok
  <2>1. N = L
    BY <1>2 DEF Block
  <2> QED
    BY <1>2, <2>1, KeepsSelf, DoesNot
<1> QED
  BY <1>1, <1>2

LEMMA BegunKeeps ==
  ASSUME NEW L \in Links, NEW do_reset \in BOOLEAN, NEW how \in Ways
  PROVE  Keeps(L, Begun(L, do_reset, how)) /\ Begun(L, do_reset, how) \in Links
<1>1. CASE do_reset
  BY <1>1, ResetKeeps DEF Begun
<1>2. CASE ~do_reset
  <2>1. Begun(L, do_reset, how) = [L EXCEPT !.ok = TRUE]
    BY <1>2 DEF Begun
  <2>2. Keeps(L, Begun(L, do_reset, how))
    BY <2>1, OkKeeps
  <2> QED
    BY <2>2 DEF Keeps
<1> QED
  BY <1>1, <1>2

\* owBlock, with and without a reset, and when the block is too long.
LEMMA OwBlockDoes ==
  ASSUME NEW L \in Links, NEW do_reset \in BOOLEAN, NEW bytes \in Seq(Byte), NEW how \in Ways
  PROVE  Does(L, owBlock(L, do_reset, bytes, how), bytes, how)
<1> DEFINE M == owBlock(L, do_reset, bytes, how)
<1>1. CASE Len(bytes) > MaxBlock
  <2>1. M = [L EXCEPT !.ok = FALSE]
    BY <1>1 DEF owBlock
  <2>2. Keeps(L, M) /\ ~M.ok
    BY <2>1, OkKeeps
  <2> HIDE DEF M
  <2>3. Does(L, M, bytes, how)
    BY <2>2, DoesNot
  <2> QED
    BY <2>3 DEF M
<1>2. CASE ~ (Len(bytes) > MaxBlock)
  <2> DEFINE A == Begun(L, do_reset, how)
  <2>1. M = Block(A, bytes, how)
    BY <1>2 DEF owBlock
  <2>2. Keeps(L, A) /\ A \in Links
    BY BegunKeeps
  <2> HIDE DEF A, M
  <2>3. Does(A, M, bytes, how)
    BY <2>1, <2>2, BlockDoes
  <2>4. Does(L, M, bytes, how)
    BY <2>2, <2>3, DoesAfter
  <2> QED
    BY <2>4 DEF M
<1> QED
  BY <1>1, <1>2

\* The echo is compared, and the call fails when it is another.
LEMMA EchoedDoes ==
  ASSUME NEW L \in Links, NEW bytes \in Seq(Byte), NEW how \in Ways, NEW M,
         Does(L, M, bytes, how)
  PROVE  Does(L, Echoed(M, bytes), bytes, how)
<1> DEFINE b == M.ok /\ M.got = bytes
           R == [M EXCEPT !.ok = b]
<1>1. M \in Links
  BY DEF Does
<1>2. b \in BOOLEAN /\ (b => M.ok)
  <2>1. M.ok \in BOOLEAN
    BY <1>1, LinkFields
  <2> QED
    BY <2>1
<1>3. Echoed(M, bytes) = R
  BY DEF Echoed
<1> HIDE DEF b
<1>4. Keeps(M, R) /\ (R.ok <=> b) /\ R.got = M.got /\ R.handed = M.handed
  BY <1>1, <1>2, OkKeeps
<1> HIDE DEF R
<1>5. Does(L, R, bytes, how)
  BY <1>2, <1>4 DEF Does, Keeps, HandedOver
<1> QED
  BY <1>3, <1>5

LEMMA MatchBytes ==
  ASSUME NEW rom \in Seq(Byte)
  PROVE  <<MatchRom>> \o rom \in Seq(Byte)
<1>1. <<MatchRom>> \in Seq(Byte)
  BY DEF MatchRom, Byte
<1> QED
  BY <1>1, Concatenated

\* owAccess: Match ROM and the ROM.
LEMMA AccessDoes ==
  ASSUME NEW L \in Links, NEW rom \in Seq(Byte), NEW how \in Ways
  PROVE  Does(L, owAccess(L, rom, how), <<MatchRom>> \o rom, how)
<1> DEFINE bytes == <<MatchRom>> \o rom
           A == owTouchReset(L, how)
           M == Block(A, bytes, how)
<1>1. bytes \in Seq(Byte)
  BY MatchBytes
<1>2. owAccess(L, rom, how) = Echoed(M, bytes)
  BY DEF owAccess
<1> HIDE DEF bytes
<1>3. Keeps(L, A) /\ A \in Links
  BY ResetKeeps
<1> HIDE DEF A
<1>4. Does(A, M, bytes, how)
  BY <1>1, <1>3, BlockDoes
<1> HIDE DEF M
<1>5. Does(A, Echoed(M, bytes), bytes, how)
  BY <1>1, <1>3, <1>4, EchoedDoes
<1>6. Does(L, Echoed(M, bytes), bytes, how)
  BY <1>3, <1>5, DoesAfter
<1> QED
  BY <1>2, <1>6 DEF bytes

\* owTouchByte.
LEMMA TouchByteDoes ==
  ASSUME NEW L \in Links, NEW byte \in Byte, NEW how \in Ways
  PROVE  LET M == owTouchByte(L, byte, how)
         IN  /\ Does(L, M, <<byte>>, how)
             /\ ~M.ok => M.got = <<0>>
             /\ Plain(<<byte>>) /\ Idle(L) => M.handed = L.handed \o <<byte>>
<1> DEFINE A == Normal(L, how)
           bytes == <<byte>>
           S == SendData(A, bytes, how)
           F == Failed(S, how)
           z == <<0>>
           G == [F EXCEPT !.got = z]
           M == owTouchByte(L, byte, how)
<1>1. bytes \in Seq(Byte) /\ z \in Seq(Byte)
  BY DEF Byte
<1>2. M = IF S.ok THEN S ELSE G
  BY DEF owTouchByte, TouchedByte
<1>3. Keeps(L, A) /\ A \in Links
  BY NormalKeeps
<1> HIDE DEF A, bytes, M, z
<1>4. /\ S \in Links /\ Does(A, S, bytes, how) /\ Does(A, F, bytes, how)
      /\ ~F.ok /\ F \in Links
      /\ Plain(bytes) /\ Idle(A) => S.handed = A.handed \o bytes /\ F.handed = A.handed \o bytes
  BY <1>1, <1>3, DoesThenFails
<1> HIDE DEF S, F
<1>5. G \in Links /\ ~G.ok /\ G.got = z /\ G.handed = F.handed /\ Keeps(F, G)
  <2>1. Keeps(F, G)
    BY <1>1, <1>4, GotKeeps
  <2>2. ~G.ok /\ G.got = z /\ G.handed = F.handed
    BY <1>4 DEF Links
  <2> QED
    BY <2>1, <2>2 DEF Keeps
<1> HIDE DEF G
<1>6. Does(A, G, bytes, how)
  BY <1>4, <1>5 DEF Does, Keeps
<1>7. Does(L, M, bytes, how)
  BY <1>2, <1>3, <1>4, <1>6, DoesAfter
<1>8. ~M.ok => M.got = z
  BY <1>2, <1>5
<1>9. Plain(bytes) /\ Idle(L) => M.handed = L.handed \o bytes
  BY <1>2, <1>3, <1>4, <1>5 DEF Keeps
<1> QED
  BY <1>7, <1>8, <1>9 DEF M, bytes, z

\* owWriteByte; for 0 a failed read looks like an echo.
LEMMA WriteByteDoes ==
  ASSUME NEW L \in Links, NEW byte \in Byte, NEW how \in Ways
  PROVE  LET M == owWriteByte(L, byte, how)
         IN  /\ M \in Links
             /\ Plain(<<byte>>) =>
                  /\ Stay(L) => Stay(M)
                  /\ Found(L) => Found(M)
                  /\ Idle(L) => M.handed = L.handed \o <<byte>>
                  /\ Idle(L) /\ M.ok /\ <<byte>> # <<0>> => HandedOver(L, M, <<byte>>, how)
<1> DEFINE T == owTouchByte(L, byte, how)
           bytes == <<byte>>
           z == <<0>>
           b == (T.got = bytes)
           M == [T EXCEPT !.ok = b]
<1>1. owWriteByte(L, byte, how) = M
  BY DEF owWriteByte, Compared
<1>2. Does(L, T, bytes, how) /\ (~T.ok => T.got = z)
        /\ (Plain(bytes) /\ Idle(L) => T.handed = L.handed \o bytes)
  BY TouchByteDoes
<1>3. b \in BOOLEAN
  OBVIOUS
<1>4. b => T.got = bytes
  OBVIOUS
<1> HIDE DEF T, b, bytes, z
<1>5. T \in Links
  BY <1>2 DEF Does
<1>6. Keeps(T, M) /\ (M.ok <=> b) /\ M.got = T.got /\ M.handed = T.handed
  BY <1>3, <1>5, OkKeeps
<1> HIDE DEF M
<1>7. Plain(bytes) =>
        /\ Stay(L) => Stay(M)
        /\ Found(L) => Found(M)
        /\ Idle(L) => M.handed = L.handed \o bytes
        /\ Idle(L) /\ M.ok /\ bytes # z => HandedOver(L, M, bytes, how)
  <2>1. M.ok /\ bytes # z => T.ok
    BY <1>2, <1>4, <1>6
  <2> QED
    BY <1>2, <1>6, <2>1 DEF Does, Keeps, HandedOver
<1>8. M \in Links
  BY <1>6 DEF Keeps
<1> QED
  BY <1>1, <1>7, <1>8 DEF bytes, z

LEMMA EscapedOne ==
  ASSUME NEW b \in Byte
  PROVE  Escaped(<<b>>) = Escape(b)
<1> DEFINE bytes == <<b>>
<1>1. bytes \in Seq(Byte) /\ Len(bytes) = 1 /\ bytes[1] = b
  OBVIOUS
<1> HIDE DEF bytes
<1>2. PICK E : EscapeRun(bytes, E)
  BY <1>1, EscapeRuns
<1>3. 1 \in 1 .. Len(bytes) /\ 0 \in 0 .. Len(bytes)
  BY <1>1
<1>4. Escaped(bytes) = E[1] /\ E[1] = E[1 - 1] \o Escape(b)
  BY <1>1, <1>2, <1>3 DEF EscapeRun
<1> DEFINE i == 1 - 1
           e == E[i]
           t == Escape(b)
<1>5. i = 0
  OBVIOUS
<1>6. Escaped(bytes) = e \o t
  BY <1>4
<1> HIDE DEF i
<1>7. Len(e) = 0 /\ e \in Seq(Byte)
  <2>1. Len(E[0]) = 0
    BY <1>1, <1>2, EscapeNothing
  <2>2. E[0] \in Seq(Byte)
    BY <1>1, <1>2, <1>3, EscapeTypes
  <2> QED
    BY <1>5, <2>1, <2>2
<1>8. t \in Seq(Byte)
  BY EscapeFacts
<1> HIDE DEF e, t
<1>9. e \o t = t
  BY <1>7, <1>8
<1> QED
  BY <1>6, <1>9 DEF bytes, t

\* The packet buffer holds any one byte.
LEMMA OneByteFits ==
  ASSUME NEW b \in Byte
  PROVE  Fits(<<b>>)
<1> DEFINE s == Escape(b)
           m == MODE_DATA
<1>1. s \in Seq(Byte) /\ Len(s) <= 2
  <2>1. s \in Seq(Byte) /\ (Len(s) = 1 \/ Len(s) = 2)
    BY EscapeFacts
  <2> DEFINE n == Len(s)
  <2>2. n = 1 \/ n = 2
    BY <2>1
  <2> HIDE DEF n
  <2>3. n <= 2
    BY <2>2
  <2> QED
    BY <2>1, <2>3 DEF n
<1>2. m \in Byte
  BY DEF MODE_DATA, Byte
<1>3. Escaped(<<b>>) = s
  BY EscapedOne
<1> HIDE DEF s, m
<1>4. Len(<<m>> \o s) = 1 + Len(s) /\ Len(s) \in Nat
  BY <1>1, <1>2, Prepended
<1>5. Len(<<m>> \o s) < UChar
  BY <1>1, <1>4, LinkAssumption
<1> QED
  BY <1>3, <1>5 DEF Fits, m

LEMMA OverdriveMatchPlain == Plain(<<OverdriveMatch>>)
<1> DEFINE b == OverdriveMatch
           bytes == <<b>>
<1>1. b \in Byte /\ b # TIMING
  BY DEF OverdriveMatch, TIMING, Byte
<1> HIDE DEF b
<1>2. Fits(bytes)
  BY <1>1, OneByteFits
<1>3. Len(bytes) = 1 /\ DOMAIN bytes = 1 .. 1 /\ bytes[1] = b
  OBVIOUS
<1> HIDE DEF bytes
<1>4. TIMING \notin Sent(bytes)
  <2>1. \A k \in 1 .. 1 : k = 1
    OBVIOUS
  <2> QED
    BY <1>1, <1>3, <2>1 DEF Sent
<1>5. Plain(bytes)
  BY <1>2, <1>4 DEF Plain
<1> QED
  BY <1>5 DEF bytes, b

\* Of an access at overdrive speed only this: it stays in step.
Stays(L, M) == M \in Links /\ (Stay(L) => Stay(M))

LEMMA StaysTransitive ==
  ASSUME NEW L, NEW M, NEW N, Stays(L, M), Stays(M, N)
  PROVE  Stays(L, N)
  BY DEF Stays

LEMMA ThenWriteStays ==
  ASSUME NEW L \in Links, NEW how \in Ways
  PROVE  Stays(L, ThenWrite(L, how))
<1>1. CASE L.ok
  <2> DEFINE b == OverdriveMatch
             M == owWriteByte(L, b, how)
  <2>1. b \in Byte /\ Plain(<<b>>)
    BY OverdriveMatchPlain DEF OverdriveMatch, Byte
  <2> HIDE DEF b
  <2>2. M \in Links /\ (Plain(<<b>>) => (Stay(L) => Stay(M)))
    BY <2>1, WriteByteDoes
  <2>3. ThenWrite(L, how) = M
    BY <1>1 DEF ThenWrite, b
  <2> HIDE DEF M
  <2> QED
    BY <2>1, <2>2, <2>3 DEF Stays
<1>2. CASE ~L.ok
  BY <1>2 DEF ThenWrite, Stays
<1> QED
  BY <1>1, <1>2

LEMMA SpeedStays ==
  ASSUME NEW L \in Links, NEW u \in {SPEEDSEL_FLEX, SPEEDSEL_OD}, NEW how \in Ways
  PROVE  Stays(L, owSpeed(L, u, how)) /\ owSpeed(L, u, how) \in Links
  BY SpeedLink DEF Stays

LEMMA ThenMatchStays ==
  ASSUME NEW L \in Links, NEW rom \in Seq(Byte), NEW how \in Ways
  PROVE  /\ ThenMatch(L, rom, how) \in Links
         /\ Plain(rom) => Stays(L, ThenMatch(L, rom, how))
<1>1. CASE L.ok
  <2> DEFINE A == owSpeed(L, SPEEDSEL_OD, how)
             B == owBlock(A, FALSE, rom, how)
             M == Echoed(B, rom)
             x == FALSE
  <2>1. Stays(L, A) /\ A \in Links
    BY SpeedStays
  <2>2. ThenMatch(L, rom, how) = M
    BY <1>1 DEF ThenMatch
  <2> HIDE DEF A
  <2>3. x \in BOOLEAN /\ B = owBlock(A, x, rom, how)
    OBVIOUS
  <2> HIDE DEF x, B
  <2>4. Does(A, B, rom, how)
    BY <2>1, <2>3, OwBlockDoes
  <2>5. Does(A, M, rom, how)
    BY <2>1, <2>4, EchoedDoes
  <2> HIDE DEF M
  <2>6. M \in Links /\ (Plain(rom) => Stays(A, M))
    BY <2>5 DEF Does, Stays
  <2> QED
    BY <2>1, <2>2, <2>6, StaysTransitive
<1>2. CASE ~L.ok
  BY <1>2 DEF ThenMatch, Stays
<1> QED
  BY <1>1, <1>2

LEMMA ElseSlowStays ==
  ASSUME NEW L \in Links, NEW how \in Ways
  PROVE  Stays(L, ElseSlow(L, how))
<1>1. CASE L.ok
  BY <1>1 DEF ElseSlow, Stays
<1>2. CASE ~L.ok
  <2> DEFINE A == owSpeed(L, SPEEDSEL_FLEX, how)
             M == [A EXCEPT !.ok = FALSE]
  <2>1. Stays(L, A) /\ A \in Links
    BY SpeedStays
  <2>2. ElseSlow(L, how) = M
    BY <1>2 DEF ElseSlow
  <2> HIDE DEF A
  <2>3. Keeps(A, M)
    BY <2>1, OkKeeps
  <2> HIDE DEF M
  <2>4. Stays(A, M)
    BY <2>3 DEF Keeps, Stays
  <2> QED
    BY <2>1, <2>2, <2>4, StaysTransitive
<1> QED
  BY <1>1, <1>2

\* owOverdriveAccess: whatever step of it fails, the speed is in step.
LEMMA OverdriveStays ==
  ASSUME NEW L \in Links, NEW rom \in Seq(Byte), NEW first \in Ways, NEW second \in Ways
  PROVE  /\ owOverdriveAccess(L, rom, first, second) \in Links
         /\ Plain(rom) => Stays(L, owOverdriveAccess(L, rom, first, second))
<1> DEFINE A == Normal(L, first)
           B == owSpeed(A, SPEEDSEL_FLEX, first)
           C == owTouchReset(B, first)
           W == ThenWrite(C, first)
           T == ThenMatch(W, rom, second)
           M == ElseSlow(T, second)
<1>1. owOverdriveAccess(L, rom, first, second) = M
  BY DEF owOverdriveAccess
<1>2. A \in Links /\ Stays(L, A)
  BY NormalKeeps DEF Keeps, Stays
<1> HIDE DEF A
<1>3. B \in Links /\ Stays(A, B)
  BY <1>2, SpeedStays
<1> HIDE DEF B
<1>4. C \in Links /\ Stays(B, C)
  BY <1>3, ResetKeeps DEF Keeps, Stays
<1> HIDE DEF C
<1>5. W \in Links /\ Stays(C, W)
  BY <1>4, ThenWriteStays DEF Stays
<1> HIDE DEF W
<1>6. T \in Links /\ (Plain(rom) => Stays(W, T))
  BY <1>5, ThenMatchStays
<1> HIDE DEF T
<1>7. M \in Links /\ Stays(T, M)
  BY <1>6, ElseSlowStays DEF Stays
<1> HIDE DEF M
<1>8. Stays(L, C)
  BY <1>2, <1>3, <1>4, StaysTransitive
<1>9. Stays(L, W)
  BY <1>5, <1>8, StaysTransitive
<1>10. Plain(rom) => Stays(L, M)
  BY <1>6, <1>7, <1>9, StaysTransitive
<1> QED
  BY <1>1, <1>7, <1>10

----------------------------------------------------------------------------
(* The packet of a search *)

\* a bytes take the search command to the devices; then the accelerator is
\* switched on, takes its block, and is switched off.
Layout(P, a, mode, u) ==
  /\ P \in Seq(Byte) /\ Len(P) = a + 5 + SearchLen
  /\ IF mode = "DATA" THEN a = 1 ELSE a = 2 /\ P[1] = MODE_DATA
  /\ P[a] = SearchRom /\ P[a + 1] = MODE_COMMAND /\ P[a + 2] = SearchOnCmd + u
  /\ P[a + 3] = MODE_DATA /\ \A i \in 1 .. SearchLen : P[a + 3 + i] = 0
  /\ P[a + 4 + SearchLen] = MODE_COMMAND /\ P[a + 5 + SearchLen] = SearchOff + u

\* owNext's packet is laid out so, in either mode.
LEMMA SearchLayout ==
  ASSUME NEW L \in Links
  PROVE  \E a \in 1 .. 2 : Layout(SearchPacket(L), a, L.UMode, L.USpeed)
<1> DEFINE u == L.USpeed
           head == DataPacket(L, <<SearchRom>>)
           mid == <<MODE_COMMAND, SearchOnCmd + u, MODE_DATA>>
           zeros == [k \in 1 .. SearchLen |-> 0]
           tail == <<MODE_COMMAND, SearchOff + u>>
           P == head \o mid \o zeros \o tail
           a == Len(head)
<1>1. u \in {4, 8}
  BY SpeedIn DEF SPEEDSEL_FLEX, SPEEDSEL_OD
<1>2. SearchLen \in Nat
  BY LinkAssumption
<1>3. /\ head \in Seq(Byte) /\ head[a] = SearchRom
      /\ IF L.UMode = "DATA" THEN a = 1 ELSE a = 2 /\ head[1] = MODE_DATA
  <2> DEFINE b == SearchRom
             m == MODE_DATA
             e == Escape(b)
  <2>1. b \in Byte /\ b # MODE_COMMAND /\ m \in Byte
    BY DEF SearchRom, MODE_COMMAND, MODE_DATA, Byte
  <2> HIDE DEF b, m
  <2>2. Escaped(<<b>>) = e
    BY <2>1, EscapedOne
  <2>3. e = <<b>>
    BY <2>1 DEF Escape
  <2>4. head = IF L.UMode = "DATA" THEN <<b>> ELSE <<m>> \o <<b>>
    BY <2>2, <2>3 DEF DataPacket, b, m
  <2> HIDE DEF head
  <2>5. CASE L.UMode = "DATA"
    <3>1. head = <<b>>
      BY <2>4, <2>5
    <3> QED
      BY <2>1, <2>5, <3>1 DEF b
  <2>6. CASE L.UMode # "DATA"
    <3> DEFINE s == <<b>>
               t == <<m>> \o s
    <3>1. s \in Seq(Byte) /\ Len(s) = 1 /\ s[1] = b
      BY <2>1
    <3>2. head = t
      BY <2>4, <2>6
    <3> HIDE DEF s
    <3>3. t \in Seq(Byte) /\ Len(t) = 1 + Len(s) /\ t[1] = m
             /\ \A k \in 1 .. Len(s) : t[1 + k] = s[k]
      BY <2>1, <3>1, Prepended
    <3> HIDE DEF t
    <3>4. Len(t) = 2 /\ 1 \in 1 .. Len(s)
      BY <3>1, <3>3
    <3>5. t[2] = b
      <4>1. t[1 + 1] = b
        BY <3>1, <3>3, <3>4
      <4> QED
        BY <4>1
    <3> QED
      BY <2>6, <3>2, <3>3, <3>4, <3>5 DEF b, m
  <2> QED
    BY <2>5, <2>6
<1>4. /\ mid \in Seq(Byte) /\ Len(mid) = 3
      /\ mid[1] = MODE_COMMAND /\ mid[2] = SearchOnCmd + u /\ mid[3] = MODE_DATA
  <2>1. SearchOnCmd + u \in Byte /\ MODE_COMMAND \in Byte /\ MODE_DATA \in Byte
    BY <1>1 DEF SearchOnCmd, Byte, MODE_COMMAND, MODE_DATA
  <2> QED
    BY <2>1
<1>5. zeros \in Seq(Byte) /\ Len(zeros) = SearchLen /\ \A i \in 1 .. SearchLen : zeros[i] = 0
  BY <1>2 DEF Byte
<1>6. /\ tail \in Seq(Byte) /\ Len(tail) = 2
      /\ tail[1] = MODE_COMMAND /\ tail[2] = SearchOff + u
  <2>1. SearchOff + u \in Byte /\ MODE_COMMAND \in Byte
    BY <1>1 DEF SearchOff, Byte, MODE_COMMAND
  <2> QED
    BY <2>1
<1>7. SearchPacket(L) = P
  BY DEF SearchPacket
<1>8. a \in 1 .. 2
  BY <1>3
<1> HIDE DEF u, head, mid, zeros, tail
<1> DEFINE s == head \o mid
           t == s \o zeros
<1>9. s \in Seq(Byte) /\ Len(s) = a + 3 /\ (\A i \in 1 .. a : s[i] = head[i])
        /\ \A i \in 1 .. 3 : s[a + i] = mid[i]
  <2>0. s \in Seq(Byte) /\ s = head \o mid
    BY <1>3, <1>4, Concatenated
  <2> HIDE DEF s
  <2>1. Begins(head, s) /\ Len(s) = Len(head) + Len(mid)
          /\ \A i \in 1 .. Len(mid) : s[Len(head) + i] = mid[i]
    BY <1>3, <1>4, <2>0, BeginsAppended
  <2> QED
    BY <2>0, <2>1, <1>4 DEF Begins
<1>10. t \in Seq(Byte) /\ Len(t) = a + 3 + SearchLen /\ (\A i \in 1 .. (a + 3) : t[i] = s[i])
        /\ \A i \in 1 .. SearchLen : t[a + 3 + i] = 0
  <2> HIDE DEF s
  <2>0. t \in Seq(Byte) /\ t = s \o zeros
    BY <1>5, <1>9, Concatenated
  <2> HIDE DEF t
  <2>1. Begins(s, t) /\ Len(t) = Len(s) + Len(zeros)
          /\ \A i \in 1 .. Len(zeros) : t[Len(s) + i] = zeros[i]
    BY <1>5, <1>9, <2>0, BeginsAppended
  <2> QED
    BY <2>0, <2>1, <1>5, <1>9 DEF Begins
<1>11. P \in Seq(Byte) /\ Len(P) = a + 5 + SearchLen /\ (\A i \in 1 .. (a + 3 + SearchLen) : P[i] = t[i])
        /\ \A i \in 1 .. 2 : P[a + 3 + SearchLen + i] = tail[i]
  <2> HIDE DEF t
  <2>1. P = t \o tail
    BY DEF t, s
  <2> HIDE DEF P
  <2>0. P \in Seq(Byte)
    BY <1>6, <1>10, <2>1, Concatenated
  <2>2. Begins(t, P) /\ Len(P) = Len(t) + Len(tail)
          /\ \A i \in 1 .. Len(tail) : P[Len(t) + i] = tail[i]
    BY <1>6, <1>10, <2>0, <2>1, BeginsAppended
  <2> QED
    BY <2>0, <2>2, <1>2, <1>6, <1>8, <1>10 DEF Begins
<1> HIDE DEF s, t, P, a
<1>12. ASSUME NEW i \in 1 .. (a + 3) PROVE P[i] = s[i]
  <2>1. i \in 1 .. (a + 3 + SearchLen)
    BY <1>2, <1>8
  <2> QED
    BY <2>1, <1>10, <1>11
<1>13. ASSUME NEW i \in 1 .. SearchLen PROVE P[a + 3 + i] = 0
  <2>1. a + 3 + i \in 1 .. (a + 3 + SearchLen)
    BY <1>2, <1>8
  <2> QED
    BY <2>1, <1>10, <1>11
<1>14. P[a + 1] = mid[1] /\ P[a + 2] = mid[2] /\ P[a + 3] = mid[3]
  <2>1. 1 \in 1 .. 3 /\ 2 \in 1 .. 3 /\ 3 \in 1 .. 3
    OBVIOUS
  <2>2. a + 1 \in 1 .. (a + 3) /\ a + 2 \in 1 .. (a + 3) /\ a + 3 \in 1 .. (a + 3)
    BY <1>8
  <2> QED
    BY <2>1, <2>2, <1>9, <1>12
<1>15. P[1] = head[1] /\ P[a] = head[a]
  <2>1. 1 \in 1 .. a /\ a \in 1 .. a /\ 1 \in 1 .. (a + 3) /\ a \in 1 .. (a + 3)
    BY <1>8
  <2> QED
    BY <2>1, <1>9, <1>12
<1>16. P[a + 4 + SearchLen] = tail[1] /\ P[a + 5 + SearchLen] = tail[2]
  <2>1. 1 \in 1 .. 2 /\ 2 \in 1 .. 2
    OBVIOUS
  <2>2. P[a + 3 + SearchLen + 1] = tail[1] /\ P[a + 3 + SearchLen + 2] = tail[2]
    BY <2>1, <1>11
  <2>3. a + 3 + SearchLen + 1 = a + 4 + SearchLen /\ a + 3 + SearchLen + 2 = a + 5 + SearchLen
    BY <1>2, <1>8
  <2> QED
    BY <2>2, <2>3
<1>17. Layout(P, a, L.UMode, u)
  BY <1>3, <1>4, <1>6, <1>11, <1>13, <1>14, <1>15, <1>16 DEF Layout, a
<1> QED
  BY <1>7, <1>8, <1>17 DEF u

\* The decoder at place k is in a mode, inside no escape, and the baud rate is
\* what it was.
In(D, k, L, mode) == D[k].link.mode = mode /\ D[k].link.baud = L.baud /\ ~D[k].esc

\* What a byte does to the mode.
Moves(P, k, mode) ==
  IF mode = "DATA"
  THEN IF P[k] = MODE_COMMAND THEN "COMMAND" ELSE "DATA"
  ELSE IF P[k] = MODE_DATA THEN "DATA" ELSE "COMMAND"

\* No timing byte, no escape, no configuration command: the baud rate
\* stays what it was.
Quiet(P, k, mode) ==
  IF mode = "DATA"
  THEN P[k] # TIMING /\ (P[k] = MODE_COMMAND => k < Len(P) /\ P[k + 1] # MODE_COMMAND)
  ELSE P[k] # MODE_COMMAND /\ ~IsConfig(P[k])

\* One byte of the search packet.
LEMMA InStep ==
  ASSUME NEW L \in Links, NEW P \in Seq(Byte), NEW how \in Ways, NEW D,
         Run(L, P, how, D), NEW k \in 1 .. Len(P), NEW mode \in {"COMMAND", "DATA"},
         In(D, k - 1, L, mode), Quiet(P, k, mode)
  PROVE  In(D, k, L, Moves(P, k, mode))
<1> DEFINE d == D[k - 1]
           c == P[k]
           M == Dispatch(d.link, d.batch, how)
<1>1. D[k] = Decode(d, P, k, how)
  BY DEF Run
<1>2. k - 1 \in 0 .. Len(P) /\ c \in Byte
  OBVIOUS
<1>3. d \in Decoders
  BY <1>2, RunLink
<1>4. d.link \in Links /\ d.batch \in Seq(Byte)
  BY <1>3, DecoderFields
<1>5. d.link.mode = mode /\ d.link.baud = L.baud /\ ~d.esc
  BY DEF In
<1>6. M \in Links /\ BridgeSame(d.link, M)
  BY <1>4, DispatchLink
<1>7. MODE_COMMAND # MODE_DATA
  BY DEF MODE_COMMAND, MODE_DATA
<1>8. CASE mode = "DATA" /\ c = MODE_COMMAND
  <2>1. ~ (k < Len(P) /\ P[k + 1] = MODE_COMMAND)
    BY <1>8 DEF Quiet
  <2> DEFINE N == [M EXCEPT !.mode = "COMMAND"]
  <2>0. ~d.esc /\ d.link.mode = "DATA" /\ P[k] = MODE_COMMAND
    BY <1>5, <1>8
  <2> HIDE DEF d
  <2>7. Decode(d, P, k, how) = At([Dispatch(d.link, d.batch, how) EXCEPT !.mode = "COMMAND"], <<>>, FALSE)
    BY <1>3, <2>0, <2>1, DecodeCases
  <2>2. D[k] = At(N, <<>>, FALSE)
    BY <1>1, <2>7
  <2>3. N.mode = "COMMAND" /\ N.baud = M.baud
    BY <1>6 DEF Links
  <2> HIDE DEF N, M
  <2>4. D[k].link = N /\ ~D[k].esc
    BY <2>2 DEF At
  <2>5. N.baud = L.baud
    BY <1>5, <1>6, <2>3 DEF BridgeSame
  <2>6. Moves(P, k, mode) = "COMMAND"
    BY <1>8 DEF Moves
  <2> QED
    BY <2>3, <2>4, <2>5, <2>6 DEF In
<1>9. CASE mode = "DATA" /\ c # MODE_COMMAND
  <2>1. c \notin {MODE_COMMAND, TIMING}
    BY <1>9 DEF Quiet
  <2>0. ~d.esc /\ d.link.mode = "DATA" /\ P[k] \notin {MODE_COMMAND, TIMING}
    BY <1>5, <1>9, <2>1
  <2> HIDE DEF d
  <2>7. Decode(d, P, k, how) = At(d.link, Append(d.batch, P[k]), FALSE)
    BY <1>3, <2>0, DecodeCases
  <2>2. D[k] = At(d.link, Append(d.batch, c), FALSE)
    BY <1>1, <2>7
  <2>3. D[k].link = d.link /\ ~D[k].esc
    BY <2>2 DEF At
  <2>4. Moves(P, k, mode) = "DATA"
    BY <1>9 DEF Moves
  <2> QED
    BY <1>5, <1>9, <2>3, <2>4 DEF In
<1>10. CASE mode = "COMMAND"
  <2> DEFINE N == InCommandMode(d.link, c)
  <2>0. ~d.esc /\ d.link.mode = "COMMAND"
    BY <1>5, <1>10
  <2> HIDE DEF d
  <2>7. Decode(d, P, k, how) = At(InCommandMode(d.link, P[k]), <<>>, FALSE)
    BY <1>3, <2>0, DecodeCases
  <2>1. D[k] = At(N, <<>>, FALSE)
    BY <1>1, <2>7
  <2>2. c # MODE_COMMAND /\ ~IsConfig(c)
    BY <1>10 DEF Quiet
  <2>3. N.baud = d.link.baud /\ N.mode = Moves(P, k, mode)
    <3>1. CASE c = MODE_DATA
      <4>1. N = [d.link EXCEPT !.mode = "DATA"]
        BY <1>2, <1>4, <3>1, InCommandModeLink
      <4>2. Moves(P, k, mode) = "DATA"
        BY <1>10, <3>1 DEF Moves
      <4> QED
        BY <4>1, <4>2, <1>4 DEF Links
    <3>2. CASE c # MODE_DATA
      <4>1. N = Command(d.link, c)
        BY <1>2, <1>4, <2>2, <3>2, InCommandModeLink
      <4>2. Moves(P, k, mode) = "COMMAND"
        BY <1>10, <3>2 DEF Moves
      <4>3. Command(d.link, c).mode = d.link.mode /\ Command(d.link, c).baud = d.link.baud
        BY <1>2, <1>4, <2>2, CommandLink
      <4> QED
        BY <4>1, <4>2, <4>3, <1>5, <1>10
    <3> QED
      BY <3>1, <3>2
  <2> HIDE DEF N
  <2>4. D[k].link = N /\ ~D[k].esc
    BY <2>1 DEF At
  <2> QED
    BY <1>5, <2>3, <2>4 DEF In
<1> QED
  BY <1>8, <1>9, <1>10

\* One step to the next place.
LEMMA InNext ==
  ASSUME NEW L \in Links, NEW P \in Seq(Byte), NEW how \in Ways, NEW D,
         Run(L, P, how, D), NEW k \in 0 .. Len(P), k < Len(P), NEW mode \in {"COMMAND", "DATA"},
         In(D, k, L, mode), Quiet(P, k + 1, mode), NEW next, next = Moves(P, k + 1, mode)
  PROVE  In(D, k + 1, L, next)
<1> DEFINE q == k + 1
<1>1. q \in 1 .. Len(P) /\ q - 1 = k
  OBVIOUS
<1>2. In(D, q - 1, L, mode) /\ Quiet(P, q, mode) /\ next = Moves(P, q, mode)
  BY <1>1
<1> HIDE DEF q
<1>3. In(D, q, L, next)
  BY <1>1, <1>2, InStep
<1> QED
  BY <1>3 DEF q

LEMMA SearchCodes ==
  ASSUME NEW u \in {SPEEDSEL_FLEX, SPEEDSEL_OD}
  PROVE  /\ SearchOnCmd + u \in Byte
         /\ SearchOnCmd + u \notin {MODE_COMMAND, MODE_DATA} /\ ~IsConfig(SearchOnCmd + u)
         /\ SearchOff + u \in Byte
         /\ SearchOff + u \notin {MODE_COMMAND, MODE_DATA} /\ ~IsConfig(SearchOff + u)
         /\ SearchRom \notin {MODE_COMMAND, TIMING} /\ 0 \notin {MODE_COMMAND, TIMING}
         /\ ~IsConfig(MODE_DATA) /\ MODE_DATA # MODE_COMMAND
<1>1. u \in {4, 8}
  BY DEF SPEEDSEL_FLEX, SPEEDSEL_OD
<1> DEFINE c == SearchOnCmd + u
           e == SearchOff + u
<1>2. c \in {181, 185} /\ e \in {165, 169}
  BY <1>1 DEF SearchOnCmd, SearchOff
<1> HIDE DEF c, e
<1>3. c \in Byte /\ c \notin {MODE_COMMAND, MODE_DATA} /\ ~IsConfig(c)
  BY <1>2 DEF Byte, MODE_COMMAND, MODE_DATA, IsConfig
<1>4. e \in Byte /\ e \notin {MODE_COMMAND, MODE_DATA} /\ ~IsConfig(e)
  BY <1>2 DEF Byte, MODE_COMMAND, MODE_DATA, IsConfig
<1>5. SearchRom \notin {MODE_COMMAND, TIMING} /\ 0 \notin {MODE_COMMAND, TIMING}
         /\ ~IsConfig(MODE_DATA) /\ MODE_DATA # MODE_COMMAND
  BY DEF SearchRom, MODE_COMMAND, MODE_DATA, TIMING, IsConfig
<1> QED
  BY <1>3, <1>4, <1>5 DEF c, e

\* The decoder gets to the last byte of the packet in command mode.
LEMMA SearchRun ==
  ASSUME NEW L \in Links, NEW a \in 1 .. 2, NEW u \in {SPEEDSEL_FLEX, SPEEDSEL_OD},
         NEW P, Layout(P, a, L.mode, u), NEW how \in Ways, NEW D, Run(L, P, how, D)
  PROVE  In(D, a + 4 + SearchLen, L, "COMMAND")
<1> DEFINE n == a + 5 + SearchLen
           ma == MODE_DATA
           mc == MODE_COMMAND
           on == SearchOnCmd + u
           off == SearchOff + u
<1>1. /\ P \in Seq(Byte) /\ Len(P) = n
      /\ IF L.mode = "DATA" THEN a = 1 ELSE a = 2 /\ P[1] = ma
      /\ P[a] = SearchRom /\ P[a + 1] = mc /\ P[a + 2] = on
      /\ P[a + 3] = ma /\ \A i \in 1 .. SearchLen : P[a + 3 + i] = 0
      /\ P[a + 4 + SearchLen] = mc /\ P[a + 5 + SearchLen] = off
  BY DEF Layout
<1>2. SearchLen \in Nat
  BY LinkAssumption
<1>3. /\ on \in Byte /\ on \notin {MODE_COMMAND, MODE_DATA} /\ ~IsConfig(on)
      /\ off \notin {MODE_COMMAND, MODE_DATA}
      /\ SearchRom \notin {MODE_COMMAND, TIMING} /\ 0 \notin {MODE_COMMAND, TIMING}
      /\ ~IsConfig(ma) /\ ma # mc
  BY SearchCodes
<1>4. In(D, 0, L, L.mode)
  <2>1. D[0] = At(L, <<>>, FALSE)
    BY DEF Run
  <2>2. D[0].link = L /\ ~D[0].esc
    BY <2>1 DEF At
  <2> QED
    BY <2>2 DEF In
<1> HIDE DEF on, off, n
<1>5. In(D, a, L, "DATA")
  <2>1. CASE L.mode = "DATA"
    <3>1. a = 1 /\ P[1] = SearchRom
      BY <1>1, <2>1
    <3> DEFINE k == 0
    <3>2. k \in 0 .. Len(P) /\ k < Len(P) /\ k + 1 = 1
      BY <1>1, <1>2 DEF n
    <3>3. In(D, k, L, "DATA")
      BY <1>4, <2>1
    <3> HIDE DEF k
    <3>4. Quiet(P, k + 1, "DATA") /\ Moves(P, k + 1, "DATA") = "DATA"
      BY <1>3, <3>1, <3>2 DEF Quiet, Moves
    <3>5. In(D, k + 1, L, "DATA")
      BY <1>1, <3>2, <3>3, <3>4, InNext
    <3> QED
      BY <3>1, <3>2, <3>5
  <2>2. CASE L.mode = "COMMAND"
    <3>1. a = 2 /\ P[1] = ma /\ P[2] = SearchRom
      BY <1>1, <2>2
    <3> DEFINE k == 0
               l == 1
    <3>2. /\ k \in 0 .. Len(P) /\ k < Len(P) /\ k + 1 = l
          /\ l \in 0 .. Len(P) /\ l < Len(P) /\ l + 1 = a
      BY <1>1, <1>2, <3>1 DEF n
    <3>3. In(D, k, L, "COMMAND") /\ P[l] = ma /\ P[a] = SearchRom
      BY <1>1, <1>4, <2>2
    <3> HIDE DEF k, l
    <3>4. Quiet(P, k + 1, "COMMAND") /\ Moves(P, k + 1, "COMMAND") = "DATA"
      BY <1>3, <3>2, <3>3 DEF Quiet, Moves
    <3>5. In(D, l, L, "DATA")
      BY <1>1, <3>2, <3>3, <3>4, InNext
    <3>6. Quiet(P, l + 1, "DATA") /\ Moves(P, l + 1, "DATA") = "DATA"
      BY <1>3, <3>2, <3>3 DEF Quiet, Moves
    <3>7. In(D, l + 1, L, "DATA")
      BY <1>1, <3>2, <3>5, <3>6, InNext
    <3> QED
      BY <3>2, <3>7
  <2> QED
    BY <2>1, <2>2, LinkFields
<1>6. In(D, a + 1, L, "COMMAND")
  <2>1. a \in 0 .. Len(P) /\ a < Len(P) /\ a + 1 < Len(P) /\ (a + 1) + 1 = a + 2
    BY <1>1, <1>2 DEF n
  <2>2. P[(a + 1) + 1] = on
    BY <1>1, <2>1
  <2>3. Quiet(P, a + 1, "DATA") /\ Moves(P, a + 1, "DATA") = "COMMAND"
    BY <1>1, <1>3, <2>1, <2>2 DEF Quiet, Moves, MODE_COMMAND, TIMING
  <2> QED
    BY <1>1, <1>5, <2>1, <2>3, InNext
<1>7. In(D, a + 2, L, "COMMAND")
  <2> DEFINE k == a + 1
  <2>1. k \in 0 .. Len(P) /\ k < Len(P) /\ k + 1 = a + 2
    BY <1>1, <1>2 DEF n
  <2>2. In(D, k, L, "COMMAND")
    BY <1>6
  <2> HIDE DEF k
  <2>3. Quiet(P, k + 1, "COMMAND") /\ Moves(P, k + 1, "COMMAND") = "COMMAND"
    BY <1>1, <1>3, <2>1 DEF Quiet, Moves
  <2>4. In(D, k + 1, L, "COMMAND")
    BY <1>1, <2>1, <2>2, <2>3, InNext
  <2> QED
    BY <2>1, <2>4
<1>8. In(D, a + 3, L, "DATA")
  <2> DEFINE k == a + 2
  <2>1. k \in 0 .. Len(P) /\ k < Len(P) /\ k + 1 = a + 3
    BY <1>1, <1>2 DEF n
  <2>2. In(D, k, L, "COMMAND")
    BY <1>7
  <2> HIDE DEF k
  <2>3. Quiet(P, k + 1, "COMMAND") /\ Moves(P, k + 1, "COMMAND") = "DATA"
    BY <1>1, <1>3, <2>1 DEF Quiet, Moves
  <2>4. In(D, k + 1, L, "DATA")
    BY <1>1, <2>1, <2>2, <2>3, InNext
  <2> QED
    BY <2>1, <2>4
<1>9. In(D, a + 3 + SearchLen, L, "DATA")
  <2> DEFINE S == {i \in 0 .. SearchLen : In(D, a + 3 + i, L, "DATA")}
  <2>1. 0 \in S
    <3>1. a + 3 + 0 = a + 3
      OBVIOUS
    <3> QED
      BY <3>1, <1>2, <1>8
  <2>2. ASSUME NEW i \in 0 .. SearchLen, i # 0, i - 1 \in S PROVE i \in S
    <3> DEFINE k == a + 3 + (i - 1)
    <3>1. k \in 0 .. Len(P) /\ k < Len(P) /\ k + 1 = a + 3 + i /\ i \in 1 .. SearchLen
      BY <1>1, <1>2, <2>2 DEF n
    <3>2. In(D, k, L, "DATA") /\ P[a + 3 + i] = 0
      BY <1>1, <2>2, <3>1
    <3> HIDE DEF k
    <3>3. Quiet(P, k + 1, "DATA") /\ Moves(P, k + 1, "DATA") = "DATA"
      BY <1>3, <3>1, <3>2 DEF Quiet, Moves
    <3>4. In(D, k + 1, L, "DATA")
      BY <1>1, <3>1, <3>2, <3>3, InNext
    <3> QED
      BY <3>1, <3>4
  <2>3. \A i \in 0 .. SearchLen : i # 0 /\ i - 1 \in S => i \in S
    BY <2>2
  <2> HIDE DEF S
  <2>4. \A i \in 0 .. SearchLen : i \in S
    BY <1>2, <2>1, <2>3, Upto
  <2>5. SearchLen \in S
    BY <1>2, <2>4
  <2> QED
    BY <2>5 DEF S
<1>10. In(D, a + 4 + SearchLen, L, "COMMAND")
  <2> DEFINE k == a + 3 + SearchLen
  <2>1. /\ k \in 0 .. Len(P) /\ k < Len(P) /\ k + 1 = a + 4 + SearchLen /\ k + 1 < Len(P)
        /\ (k + 1) + 1 = a + 5 + SearchLen
    BY <1>1, <1>2 DEF n
  <2>2. In(D, k, L, "DATA")
    BY <1>9
  <2> HIDE DEF k
  <2>3. P[k + 1] = mc /\ P[(k + 1) + 1] = off
    BY <1>1, <2>1
  <2>4. Quiet(P, k + 1, "DATA") /\ Moves(P, k + 1, "DATA") = "COMMAND"
    BY <1>3, <2>1, <2>3 DEF Quiet, Moves, MODE_COMMAND, TIMING
  <2>5. In(D, k + 1, L, "COMMAND")
    BY <1>1, <2>1, <2>2, <2>4, InNext
  <2> QED
    BY <2>1, <2>5
<1> QED
  BY <1>10

\* The last byte turns the accelerator off and sets the SDK's speed.
LEMMA SearchPacketLink ==
  ASSUME NEW L \in Links, NEW a \in 1 .. 2, NEW u \in {SPEEDSEL_FLEX, SPEEDSEL_OD},
         NEW P, Layout(P, a, L.mode, u), NEW how \in Ways
  PROVE  LET W == WriteCOM(L, P, how)
         IN  W.mode = "COMMAND" /\ W.speed = u /\ ~W.search /\ W.baud = L.baud
<1> DEFINE c == SearchOff + u
           n == a + 5 + SearchLen
           W == WriteCOM(L, P, how)
<1>1. P \in Seq(Byte) /\ Len(P) = n /\ P[n] = c
  BY DEF Layout
<1>2. SearchLen \in Nat
  BY LinkAssumption
<1>3. PICK D : Run(L, P, how, D)
  BY <1>1, Runs
<1>4. In(D, a + 4 + SearchLen, L, "COMMAND")
  BY <1>3, SearchRun
<1>5. n \in 1 .. Len(P) /\ n - 1 = a + 4 + SearchLen /\ n - 1 \in 0 .. Len(P)
  BY <1>1, <1>2
<1> HIDE DEF n
<1> DEFINE d == D[n - 1]
<1>6. d \in Decoders
  BY <1>1, <1>3, <1>5, RunLink
<1>7. d.link.mode = "COMMAND" /\ d.link.baud = L.baud /\ ~d.esc
  BY <1>4, <1>5 DEF In
<1>8. D[n] = Decode(d, P, n, how)
  BY <1>3, <1>5 DEF Run
<1> HIDE DEF d
<1>9. d.link \in Links
  BY <1>6, DecoderFields
<1>10. Decode(d, P, n, how) = At(InCommandMode(d.link, P[n]), <<>>, FALSE)
  BY <1>1, <1>5, <1>6, <1>7, DecodeCases
<1>11. c \in Byte /\ c \notin {MODE_DATA, MODE_COMMAND}
  BY <1>9, SearchOffCommand
<1> HIDE DEF c
<1>12. InCommandMode(d.link, c) = Command(d.link, c)
  BY <1>9, <1>11, InCommandModeLink
<1> DEFINE N == Command(d.link, c)
<1>13. /\ N \in Links /\ N.mode = d.link.mode /\ N.speed = u /\ ~N.search
       /\ N.baud = d.link.baud
  BY <1>9, SearchOffCommand DEF c
<1> HIDE DEF N
<1>14. D[n] = At(N, <<>>, FALSE)
  BY <1>1, <1>8, <1>10, <1>12 DEF N
<1>15. D[n].link = N /\ D[n].batch = <<>>
  BY <1>14 DEF At
<1>16. W = Dispatch(D[n].link, D[n].batch, how)
  BY <1>1, <1>3 DEF Run
<1>17. W = N
  BY <1>13, <1>15, <1>16, DispatchNothing
<1> QED
  BY <1>7, <1>13, <1>17

\* The search itself, and the detection when it fails.
LEMMA SearchKeeps ==
  ASSUME NEW L \in Links, NEW how \in Ways
  PROVE  LET M == Search(L, how)
         IN  M \in Links /\ (Stay(L) => Stay(M)) /\ (Found(L) => Found(M))
<1> DEFINE R == Search(L, how)
<1>1. CASE ~L.ok
  <2>1. R = L
    BY <1>1 DEF Search
  <2> QED
    BY <2>1
<1>2. CASE L.ok
  <2> DEFINE C == [L EXCEPT !.UMode = "COMMAND"]
             F == FlushCOM(C)
             P == SearchPacket(L)
             W == WriteCOM(F, P, how)
             n == SearchLen + 1
             M == Exchange(C, P, n, how)
  <2>1. R = M \/ R = Failed(M, how)
    BY <1>2 DEF Search, Checked
  <2>2. /\ C \in Links /\ C.UMode = "COMMAND" /\ C.USpeed = L.USpeed /\ C.UBaud = L.UBaud
        /\ C.detected = L.detected /\ BridgeSame(L, C)
    BY DEF Links, BridgeSame
  <2> HIDE DEF C, R
  <2>3. F \in Links /\ BridgeSame(C, F)
    BY <2>2, FlushLink
  <2>4. PICK a \in 1 .. 2 : Layout(P, a, L.UMode, L.USpeed)
    BY SearchLayout
  <2>5. P \in Seq(Byte)
    BY <2>4 DEF Layout
  <2>6. n \in Nat
    BY LinkAssumption
  <2> HIDE DEF P, n
  <2>7. M \in Links /\ Beliefs(C, M) /\ W \in Links /\ BridgeSame(W, M)
    BY <2>2, <2>5, <2>6, ExchangeLink
  <2> HIDE DEF M
  <2>8. ASSUME Agree(L)
        PROVE  M.mode = "COMMAND" /\ M.speed = L.USpeed /\ ~M.search /\ M.baud = L.baud
    <3>1. Layout(P, a, F.mode, L.USpeed)
      BY <2>2, <2>3, <2>4, <2>8 DEF Agree, BridgeSame
    <3>2. L.USpeed \in {SPEEDSEL_FLEX, SPEEDSEL_OD}
      BY SpeedIn
    <3>3. W.mode = "COMMAND" /\ W.speed = L.USpeed /\ ~W.search /\ W.baud = F.baud
      BY <2>3, <3>1, <3>2, SearchPacketLink
    <3> QED
      BY <3>3, <2>2, <2>3, <2>7 DEF BridgeSame
  <2>9. M.UMode = "COMMAND" /\ M.USpeed = L.USpeed /\ M.UBaud = L.UBaud /\ M.detected = L.detected
    BY <2>2, <2>7 DEF Beliefs
  <2>10. Stay(L) => Stay(M)
    BY <2>8, <2>9 DEF Stay, Agree, SpeedAgree
  <2>11. Found(L) => Found(M)
    BY <2>8, <2>9 DEF Found, Agree, SpeedAgree
  <2>12. Keeps(M, R)
    BY <2>1, <2>7, EitherKeeps
  <2> QED
    BY <2>7, <2>10, <2>11, <2>12 DEF Keeps, R
<1> QED
  BY <1>1, <1>2

LEMMA NextKeeps ==
  ASSUME NEW L \in Links, NEW do_reset \in BOOLEAN, NEW how \in Ways
  PROVE  LET M == owNext(L, do_reset, how)
         IN  M \in Links /\ (Stay(L) => Stay(M)) /\ (Found(L) => Found(M))
<1> DEFINE A == Begun(L, do_reset, how)
           M == Search(A, how)
<1>1. owNext(L, do_reset, how) = M
  BY DEF owNext
<1>2. Keeps(L, A) /\ A \in Links
  BY BegunKeeps
<1> HIDE DEF A
<1>3. M \in Links /\ (Stay(A) => Stay(M)) /\ (Found(A) => Found(M))
  BY <1>2, SearchKeeps
<1> QED
  BY <1>1, <1>2, <1>3 DEF Keeps

----------------------------------------------------------------------------
(* The calls *)

\* What every call comes to, from the link L before it to the link M after it.
Outcome(L, M, op, arg) ==
  /\ M \in Links
  /\ Plain(arg) /\ op # "PROGRAM" => (Stay(L) => Stay(M))
  /\ Plain(arg) /\ op # "owOverdriveAccess" /\ L.detected = "not tried" => Found(M)
  /\ op \in OneBatch =>
       /\ arg \in Seq(Byte)
       /\ Plain(arg) /\ Idle(L) /\ M.ok =>
            /\ M.handed = L.handed \o arg
            /\ \/ op = "owWriteByte" /\ arg = <<0>>
               \/ \E how \in Answers : HandedOver(L, M, arg, how)

\* A call of the SDK has come to one of its outcomes.
Done(L) ==
  /\ open /\ open' = open
  /\ Outcome(L, link', last'.op, last'.arg)
  /\ last' = [op |-> last'.op, arg |-> last'.arg]

LEMMA CallDone ==
  ASSUME NEW L, NEW op, NEW arg, NEW M, Calls(op, arg, M), Outcome(L, M, op, arg)
  PROVE  Done(L)
<1>1. last'.op = op /\ last'.arg = arg /\ link' = M /\ open /\ open' = open
        /\ last' = [op |-> op, arg |-> arg]
  BY DEF Calls
<1> QED
  BY <1>1 DEF Done

LEMMA KeepsOutcome ==
  ASSUME NEW L, NEW M, NEW op, NEW arg, op \notin OneBatch,
         M \in Links, Stay(L) => Stay(M), L.detected = "not tried" => Found(M)
  PROVE  Outcome(L, M, op, arg)
  BY DEF Outcome

LEMMA KeptOutcome ==
  ASSUME NEW L, NEW M, NEW op, NEW arg, op \notin OneBatch, Keeps(L, M)
  PROVE  Outcome(L, M, op, arg)
<1>1. L.detected = "not tried" => Found(L)
  BY DEF Found
<1> QED
  BY <1>1 DEF Outcome, Keeps

LEMMA DoesOutcome ==
  ASSUME NEW L, NEW M, NEW op, NEW arg \in Seq(Byte), op # "owOverdriveAccess",
         NEW how \in Answers, Does(L, M, arg, how)
  PROVE  Outcome(L, M, op, arg)
<1>1. L.detected = "not tried" => Found(L)
  BY DEF Found
<1> QED
  BY <1>1 DEF Outcome, Does, HandedOver

LEMMA ProgramOutcome ==
  ASSUME NEW L \in Links, NEW how
  PROVE  Outcome(L, owLevel(L, "PROGRAM", how), "PROGRAM", <<>>)
<1> DEFINE M == [L EXCEPT !.UMode = "COMMAND", !.ok = FALSE]
<1>1. M \in Links /\ M.detected = L.detected
  BY DEF Links
<1>2. "PROGRAM" # L.ULevel
  BY DEF Links
<1>3. owLevel(L, "PROGRAM", how) = M
  BY <1>2 DEF owLevel
<1> HIDE DEF M
<1>4. L.detected = "not tried" => Found(M)
  BY <1>1 DEF Found
<1>5. "PROGRAM" \notin OneBatch
  BY DEF OneBatch
<1>6. Outcome(L, M, "PROGRAM", <<>>)
  BY <1>1, <1>4, <1>5 DEF Outcome
<1> QED
  BY <1>3, <1>6

LEMMA WriteByteOutcome ==
  ASSUME NEW L \in Links, NEW byte \in Byte, NEW how \in Answers
  PROVE  Outcome(L, owWriteByte(L, byte, how), "owWriteByte", <<byte>>)
<1> DEFINE M == owWriteByte(L, byte, how)
           arg == <<byte>>
           z == <<0>>
<1>1. /\ M \in Links
      /\ Plain(arg) =>
           /\ Stay(L) => Stay(M)
           /\ Found(L) => Found(M)
           /\ Idle(L) => M.handed = L.handed \o arg
           /\ Idle(L) /\ M.ok /\ arg # z => HandedOver(L, M, arg, how)
  <2>1. how \in Ways
    BY LinkAssumption DEF Ways
  <2> QED
    BY <2>1, WriteByteDoes
<1>2. arg \in Seq(Byte)
  OBVIOUS
<1> HIDE DEF M, arg
<1>3. L.detected = "not tried" => Found(L)
  BY DEF Found
<1>4. Outcome(L, M, "owWriteByte", arg)
  BY <1>1, <1>2, <1>3 DEF Outcome
<1> QED
  BY <1>4 DEF M, arg

\* Every call of Do comes to its outcome.
LEMMA DoDone ==
  ASSUME NEW L \in Links, Do(L)
  PROVE  Done(L)
<1>0. \A op \in {"owTouchReset", "owTouchBit", "owReadBitPower", "owWriteBytePower",
                 "owReadBytePower", "owNext", "owSpeed", "owOverdriveAccess", "NORMAL",
                 "STRONG5"} : op \notin OneBatch
  BY DEF OneBatch
<1>00. SendBytes \subseteq Byte /\ (\A blk \in Blocks : blk \in Seq(Byte))
         /\ (\A rom \in Roms : rom \in Seq(Byte)) /\ Answers \subseteq Ways
  BY LinkAssumption DEF Ways
<1>1. ASSUME NEW how \in Answers, Calls("owTouchReset", <<>>, owTouchReset(L, how))
      PROVE  Done(L)
  <2>1. Keeps(L, owTouchReset(L, how))
    BY <1>00, ResetKeeps
  <2>2. Outcome(L, owTouchReset(L, how), "owTouchReset", <<>>)
    BY <1>0, <2>1, KeptOutcome
  <2> QED
    BY <1>1, <2>2, CallDone
<1>2. ASSUME NEW how \in Answers, NEW bit \in {0, 1},
             Calls("owTouchBit", <<bit>>, owTouchBit(L, bit, how))
      PROVE  Done(L)
  <2>1. Keeps(L, owTouchBit(L, bit, how))
    BY <1>00, BitKeeps
  <2>2. Outcome(L, owTouchBit(L, bit, how), "owTouchBit", <<bit>>)
    BY <1>0, <2>1, KeptOutcome
  <2> QED
    BY <1>2, <2>2, CallDone
<1>3. ASSUME NEW how \in Answers, NEW bit \in {0, 1},
             Calls("owReadBitPower", <<bit>>, owReadBitPower(L, bit, how))
      PROVE  Done(L)
  <2>1. Keeps(L, owReadBitPower(L, bit, how))
    BY <1>00, ReadBitPowerKeeps
  <2>2. Outcome(L, owReadBitPower(L, bit, how), "owReadBitPower", <<bit>>)
    BY <1>0, <2>1, KeptOutcome
  <2> QED
    BY <1>3, <2>2, CallDone
<1>4. ASSUME NEW how \in Answers, NEW byte \in SendBytes,
             Calls("owTouchByte", <<byte>>, owTouchByte(L, byte, how))
      PROVE  Done(L)
  <2>1. byte \in Byte
    BY <1>00
  <2>2. Does(L, owTouchByte(L, byte, how), <<byte>>, how)
    BY <1>00, <2>1, TouchByteDoes
  <2>3. <<byte>> \in Seq(Byte)
    BY <2>1
  <2>4. Outcome(L, owTouchByte(L, byte, how), "owTouchByte", <<byte>>)
    BY <2>2, <2>3, DoesOutcome
  <2> QED
    BY <1>4, <2>4, CallDone
<1>5. ASSUME NEW how \in Answers, NEW byte \in SendBytes,
             Calls("owWriteByte", <<byte>>, owWriteByte(L, byte, how))
      PROVE  Done(L)
  <2>1. byte \in Byte
    BY <1>00
  <2>2. Outcome(L, owWriteByte(L, byte, how), "owWriteByte", <<byte>>)
    BY <2>1, WriteByteOutcome
  <2> QED
    BY <1>5, <2>2, CallDone
<1>6. ASSUME NEW how \in Answers, NEW byte \in SendBytes,
             Calls("owWriteBytePower", <<byte>>, owWriteBytePower(L, byte, how))
      PROVE  Done(L)
  <2>1. byte \in Byte
    BY <1>00
  <2>2. Keeps(L, owWriteBytePower(L, byte, how))
    BY <1>00, <2>1, WriteBytePowerKeeps
  <2>3. Outcome(L, owWriteBytePower(L, byte, how), "owWriteBytePower", <<byte>>)
    BY <1>0, <2>2, KeptOutcome
  <2> QED
    BY <1>6, <2>3, CallDone
<1>7. ASSUME NEW how \in Answers, Calls("owReadBytePower", <<>>, owReadBytePower(L, how))
      PROVE  Done(L)
  <2> DEFINE byte == 255
  <2>1. byte \in Byte /\ owReadBytePower(L, how) = BytePower(L, byte, how)
    BY DEF owReadBytePower, Byte
  <2> HIDE DEF byte
  <2>2. Keeps(L, owReadBytePower(L, how))
    BY <1>00, <2>1, BytePowerKeeps
  <2>3. Outcome(L, owReadBytePower(L, how), "owReadBytePower", <<>>)
    BY <1>0, <2>2, KeptOutcome
  <2> QED
    BY <1>7, <2>3, CallDone
<1>8. ASSUME NEW how \in Answers, NEW blk \in Blocks, NEW do_reset \in BOOLEAN,
             NEW op \in {"owBlock", "owBlockReset"},
             Calls(op, blk, owBlock(L, do_reset, blk, how))
      PROVE  Done(L)
  <2>1. blk \in Seq(Byte)
    BY <1>00
  <2>2. Does(L, owBlock(L, do_reset, blk, how), blk, how)
    BY <1>00, <2>1, OwBlockDoes
  <2>3. op # "owOverdriveAccess"
    OBVIOUS
  <2>4. Outcome(L, owBlock(L, do_reset, blk, how), op, blk)
    BY <2>1, <2>2, <2>3, DoesOutcome
  <2> QED
    BY <1>8, <2>4, CallDone
<1>9. ASSUME NEW how \in Answers, NEW rom \in Roms,
             Calls("owAccess", <<MatchRom>> \o rom, owAccess(L, rom, how))
      PROVE  Done(L)
  <2> DEFINE arg == <<MatchRom>> \o rom
  <2>1. rom \in Seq(Byte) /\ arg \in Seq(Byte)
    BY <1>00, MatchBytes
  <2>2. Does(L, owAccess(L, rom, how), arg, how)
    BY <1>00, <2>1, AccessDoes
  <2>5. Calls("owAccess", arg, owAccess(L, rom, how))
    BY <1>9
  <2> HIDE DEF arg
  <2>4. Outcome(L, owAccess(L, rom, how), "owAccess", arg)
    BY <2>1, <2>2, DoesOutcome
  <2> QED
    BY <2>4, <2>5, CallDone
<1>10. ASSUME NEW how \in Answers, NEW do_reset \in BOOLEAN,
              Calls("owNext", <<>>, owNext(L, do_reset, how))
       PROVE  Done(L)
  <2> DEFINE M == owNext(L, do_reset, how)
  <2>1. M \in Links /\ (Stay(L) => Stay(M)) /\ (Found(L) => Found(M))
    BY <1>00, NextKeeps
  <2>3. Calls("owNext", <<>>, M)
    BY <1>10
  <2> HIDE DEF M
  <2>4. L.detected = "not tried" => Found(M)
    BY <2>1 DEF Found
  <2>2. Outcome(L, M, "owNext", <<>>)
    BY <1>0, <2>1, <2>4, KeepsOutcome
  <2> QED
    BY <2>2, <2>3, CallDone
<1>11. ASSUME NEW how \in Answers, NEW s \in {SPEEDSEL_FLEX, SPEEDSEL_OD},
              Calls("owSpeed", <<s>>, owSpeed(L, s, how))
       PROVE  Done(L)
  <2> DEFINE M == owSpeed(L, s, how)
  <2>1. M \in Links /\ (Stay(L) => Stay(M)) /\ (L.detected = "not tried" => Found(M))
    BY <1>00, SpeedLink
  <2>3. Calls("owSpeed", <<s>>, M)
    BY <1>11
  <2> HIDE DEF M
  <2>2. Outcome(L, M, "owSpeed", <<s>>)
    BY <1>0, <2>1, KeepsOutcome
  <2> QED
    BY <2>2, <2>3, CallDone
<1>12. ASSUME NEW how \in Answers, NEW level \in Levels,
              Calls(level, <<>>, owLevel(L, level, how))
       PROVE  Done(L)
  <2>1. level \in {"NORMAL", "STRONG5"} \/ level = "PROGRAM"
    BY LinkAssumption
  <2>2. CASE level \in {"NORMAL", "STRONG5"}
    <3>1. Keeps(L, owLevel(L, level, how)) /\ level \notin OneBatch
      BY <1>0, <1>00, <2>2, LevelsKeep
    <3>2. Outcome(L, owLevel(L, level, how), level, <<>>)
      BY <3>1, KeptOutcome
    <3> QED
      BY <1>12, <3>2, CallDone
  <2>3. CASE level = "PROGRAM"
    <3>1. Outcome(L, owLevel(L, level, how), level, <<>>)
      BY <2>3, ProgramOutcome
    <3> QED
      BY <1>12, <3>1, CallDone
  <2> QED
    BY <2>1, <2>2, <2>3
<1>13. ASSUME NEW first \in Answers, NEW second \in Answers, NEW rom \in Roms,
              Calls("owOverdriveAccess", rom, owOverdriveAccess(L, rom, first, second))
       PROVE  Done(L)
  <2> DEFINE M == owOverdriveAccess(L, rom, first, second)
  <2>1. rom \in Seq(Byte)
    BY <1>00
  <2>2. M \in Links /\ (Plain(rom) => Stays(L, M))
    BY <1>00, <2>1, OverdriveStays
  <2>3. Calls("owOverdriveAccess", rom, M)
    BY <1>13
  <2> HIDE DEF M
  <2>4. Outcome(L, M, "owOverdriveAccess", rom)
    BY <1>0, <2>2 DEF Outcome, Stays
  <2> QED
    BY <2>3, <2>4, CallDone
<1> DEFINE x == FALSE
           y == TRUE
<1>14. x \in BOOLEAN /\ y \in BOOLEAN
  OBVIOUS
<1>15. ASSUME NEW how \in Answers, NEW blk \in Blocks,
              Calls("owBlock", blk, owBlock(L, FALSE, blk, how))
                \/ Calls("owBlockReset", blk, owBlock(L, TRUE, blk, how))
       PROVE  Done(L)
  <2>1. \/ Calls("owBlock", blk, owBlock(L, x, blk, how))
        \/ Calls("owBlockReset", blk, owBlock(L, y, blk, how))
    BY <1>15
  <2> HIDE DEF x, y
  <2> QED
    BY <1>8, <1>14, <2>1
<1> QED
  BY <1>1, <1>2, <1>3, <1>4, <1>5, <1>6, <1>7, <1>9, <1>10, <1>11, <1>12, <1>13, <1>15 DEF Do

----------------------------------------------------------------------------
(* The theorems *)

\* The type invariant: the model's state space.
LinkInv == link \in Links /\ open \in BOOLEAN

\* Forgetting the last call's results changes nothing else.
LEMMA BeforeLink ==
  ASSUME NEW L \in Links
  PROVE  /\ Before(L) \in Links /\ BridgeSame(L, Before(L)) /\ Len(Before(L).handed) = 0
         /\ Before(L).UMode = L.UMode /\ Before(L).UBaud = L.UBaud
         /\ Before(L).USpeed = L.USpeed /\ Before(L).detected = "not tried"
<1> DEFINE e == <<>>
           M == [L EXCEPT !.got = e, !.ok = FALSE, !.detected = "not tried", !.handed = e]
<1>1. e \in Seq(Byte) /\ Len(e) = 0
  OBVIOUS
<1>2. Before(L) = M
  BY DEF Before
<1> HIDE DEF e
<1>3. M \in Links
  BY <1>1 DEF Links
<1>4. /\ BridgeSame(L, M) /\ M.handed = e
      /\ M.UMode = L.UMode /\ M.UBaud = L.UBaud /\ M.USpeed = L.USpeed
      /\ M.detected = "not tried"
  BY DEF Links, BridgeSame
<1> QED
  BY <1>1, <1>2, <1>3, <1>4

\* OpenCOM makes a bridge that is not searching.
LEMMA PowerUpLink ==
  ASSUME NEW L \in Links
  PROVE  PowerUp(L) \in Links /\ ~PowerUp(L).search
<1> DEFINE s == SPEEDSEL_STD
           b == PARMSET_9600
           z == 0
           M == [L EXCEPT !.mode = "COMMAND", !.speed = s, !.baud = b, !.search = FALSE,
                          !.srch = z]
<1>1. s \in Speeds /\ b \in 0 .. 14
  BY DEF SPEEDSEL_STD, Speeds, PARMSET_9600
<1>2. z \in 0 .. SearchLen - 1
  BY LinkAssumption
<1>3. PowerUp(L) = M
  BY DEF PowerUp
<1> HIDE DEF s, b, z
<1>4. M \in Links /\ ~M.search
  BY <1>1, <1>2 DEF Links
<1> QED
  BY <1>3, <1>4

\* What owAcquire leaves.
Acquired(M) == M \in Links /\ Found(M) /\ (M.detected # "no" => Stay(M))

LEMMA AcquireLink ==
  ASSUME LinkInv, owAcquire
  PROVE  Acquired(link') /\ open' \in BOOLEAN /\ last'.op = "owAcquire"
<1> DEFINE P == PowerUp(Before(link))
           how == "echo"
           M == DS2480Detect(P, how)
<1>1. Before(link) \in Links
  BY BeforeLink DEF LinkInv
<1>2. P \in Links /\ ~P.search
  BY <1>1, PowerUpLink
<1>3. how \in Ways
  BY DEF Ways
<1>4. link' = M /\ open' = M.ok /\ last'.op = "owAcquire"
  BY DEF owAcquire
<1> HIDE DEF P, how
<1>5. Redetected(P, M)
  BY <1>2, <1>3, DetectLink
<1> HIDE DEF M
<1>6. M \in Links /\ Found(M) /\ (M.search => P.search) /\ M.UBaud = PARMSET_9600
  BY <1>2, <1>5, RedetectedKeeps DEF Redetected
<1>7. M.detected # "not tried" /\ (M.detected # "no" => M.baud = PARMSET_9600)
  BY <1>5 DEF Redetected
<1>8. M.detected # "no" => Stay(M)
  BY <1>2, <1>6, <1>7 DEF Found, Stay
<1>9. M.ok \in BOOLEAN
  BY <1>6, LinkFields
<1> QED
  BY <1>4, <1>6, <1>8, <1>9 DEF Acquired

\* A step: the port is opened, it is closed, or a call is made.
LEMMA NextLink ==
  ASSUME LinkInv, Next
  PROVE  \/ Acquired(link') /\ open' \in BOOLEAN /\ last'.op = "owAcquire"
         \/ ~open' /\ link' = Before(link) /\ last'.op = "owRelease"
         \/ Done(Before(link))
<1>1. Before(link) \in Links
  BY BeforeLink DEF LinkInv
<1>2. CASE owAcquire
  BY <1>2, AcquireLink
<1>3. CASE owRelease
  BY <1>3 DEF owRelease
<1>4. CASE Do(Before(link))
  BY <1>1, <1>4, DoDone
<1> QED
  BY <1>2, <1>3, <1>4 DEF Next

LEMMA NextOpen ==
  ASSUME LinkInv, Next
  PROVE  open' \in BOOLEAN
<1>1. CASE owAcquire
  BY <1>1, AcquireLink
<1>2. CASE owRelease
  BY <1>2 DEF owRelease
<1>3. CASE Do(Before(link))
  <2>1. Before(link) \in Links
    BY BeforeLink DEF LinkInv
  <2>2. Done(Before(link))
    BY <1>3, <2>1, DoDone
  <2> QED
    BY <2>2 DEF Done, LinkInv
<1> QED
  BY <1>1, <1>2, <1>3 DEF Next

LEMMA InitLink == Init => LinkInv
<1> SUFFICES ASSUME Init PROVE LinkInv
  OBVIOUS
<1> DEFINE e == <<>>
           z == 0
           s == SPEEDSEL_STD
           b == PARMSET_9600
<1>1. e \in Seq(Byte) /\ s \in Speeds /\ b \in 0 .. 14
  BY DEF SPEEDSEL_STD, Speeds, PARMSET_9600
<1>2. z \in 0 .. SearchLen - 1
  BY LinkAssumption
<1>3. link = [mode |-> "COMMAND", speed |-> s, baud |-> b,
              search |-> FALSE, srch |-> z, UMode |-> "COMMAND",
              UBaud |-> PARMSET_9600, USpeed |-> SPEEDSEL_FLEX,
              ULevel |-> "NORMAL", rx |-> e, got |-> e, ok |-> FALSE,
              detected |-> "not tried", handed |-> e]
  BY DEF Init
<1> HIDE DEF e, z, s, b
<1>4. link \in Links
  BY <1>1, <1>2, <1>3 DEF Links
<1> QED
  BY <1>4 DEF LinkInv, Init

\* The link has its type, whatever is called with whatever data in whatever
\* order: no packet makes the decoder or the SDK leave its states.
THEOREM LinkTypes == Spec => []LinkInv
<1>1. LinkInv /\ [Next]_vars => LinkInv'
  <2> SUFFICES ASSUME LinkInv, [Next]_vars PROVE LinkInv'
    OBVIOUS
  <2>1. CASE Next
    <3>1. Before(link) \in Links /\ open \in BOOLEAN
      BY BeforeLink DEF LinkInv
    <3>2. \/ Acquired(link') /\ open' \in BOOLEAN
          \/ ~open' /\ link' = Before(link)
          \/ Done(Before(link))
      BY <2>1, NextLink
    <3>3. CASE Acquired(link') /\ open' \in BOOLEAN
      BY <3>3 DEF Acquired, LinkInv
    <3>4. CASE ~open' /\ link' = Before(link)
      <4>1. open' \in BOOLEAN
        BY <2>1, <3>1, NextOpen
      <4> QED
        BY <3>1, <3>4, <4>1 DEF LinkInv
    <3>5. CASE Done(Before(link))
      BY <3>1, <3>5 DEF Done, Outcome, LinkInv
    <3> QED
      BY <3>2, <3>3, <3>4, <3>5
  <2>2. CASE UNCHANGED vars
    BY <2>2 DEF vars, LinkInv
  <2> QED
    BY <2>1, <2>2
<1> QED
  BY <1>1, InitLink, PTL DEF Spec

\* A link in step at the start of a call.
LEMMA InStepStays ==
  ASSUME LinkInv, InSync
  PROVE  Stay(Before(link)) /\ Idle(Before(link))
<1> DEFINE B == Before(link)
<1>1. /\ BridgeSame(link, B) /\ B.UMode = link.UMode /\ B.UBaud = link.UBaud
      /\ B.USpeed = link.USpeed
  BY BeforeLink DEF LinkInv
<1> HIDE DEF B
<1>2. /\ link.UMode = link.mode /\ ~link.search /\ link.UBaud = link.baud
      /\ (link.USpeed = SPEEDSEL_OD <=> link.speed = SPEEDSEL_OD)
  BY DEF InSync, ModesAgree, SpeedsAgree
<1>3. Stay(B) /\ Idle(B)
  BY <1>1, <1>2 DEF Stay, Idle, Agree, SpeedAgree, BridgeSame
<1> QED
  BY <1>3 DEF B

\* What a link that stays in step is, of the link before and after a call.
StaysNow == Stay(link) /\ link.detected # "no"

LEMMA StayInStep == StaysNow => InSync
  BY DEF StaysNow, Stay, InSync, Agree, SpeedAgree, ModesAgree, SpeedsAgree

LEMMA StayNext ==
  ASSUME Stay(link'), link'.detected # "no"
  PROVE  StaysNow'
  BY DEF StaysNow, Stay, Agree, SpeedAgree

\* Whatever the calls, the answers and the data, a call leaves the SDK and the
\* bridge in step, with the exceptions that the property names.
THEOREM LinkStaysInSync == Spec => StaysInSync
<1> DEFINE Holds == open /\ open' /\ InSync /\ ~InSync' =>
              ~Plain(last'.arg) \/ last'.op = "PROGRAM" \/ link'.detected = "no"
<1>1. ASSUME LinkInv, Next PROVE Holds
  <2> SUFFICES ASSUME open', InSync, Plain(last'.arg), last'.op # "PROGRAM",
                      link'.detected # "no"
               PROVE  InSync'
    OBVIOUS
  <2>1. StaysNow' => InSync'
    BY StayInStep, PTL
  <2>2. SUFFICES Stay(link')
    BY <2>1, StayNext
  <2>3. CASE Acquired(link')
    BY <2>3 DEF Acquired
  <2>4. CASE Done(Before(link))
    <3>1. Stay(Before(link))
      BY <1>1, InStepStays
    <3> QED
      BY <2>4, <3>1 DEF Done, Outcome
  <2> QED
    BY <1>1, <2>3, <2>4, NextLink
<1>2. ASSUME LinkInv, [Next]_vars PROVE [Holds]_vars
  BY <1>1, <1>2
<1> HIDE DEF Holds
<1>3. LinkInv /\ [Next]_vars => [Holds]_vars
  BY <1>2
<1> QED
  BY <1>3, LinkTypes, PTL DEF Spec, StaysInSync, Holds

\* What a link is when it was detected during the call, at the state after it.
FoundNow == link.detected # "not tried" =>
              /\ link.detected = "yes" <=> link.baud = PARMSET_9600
              /\ ModesAgree /\ SpeedsAgree

LEMMA FoundNext ==
  ASSUME Found(link')
  PROVE  FoundNow'
  BY DEF FoundNow, Found, Agree, SpeedAgree, ModesAgree, SpeedsAgree

\* ds2480ut.c:75-131: a detection, by whichever function of the SDK and with
\* whatever is in the buffer, succeeds exactly when the bridge's baud register
\* reads 9600 then, and leaves what it has detected in step.
THEOREM LinkDetectExact == Spec => DetectExact
<1> DEFINE Holds ==
       link'.detected # "not tried" /\ last'.op # "owOverdriveAccess" /\ Plain(last'.arg) =>
         /\ link'.detected = "yes" <=> link'.baud = PARMSET_9600
         /\ link'.detected = "yes" => ModesAgree' /\ SpeedsAgree'
<1>1. ASSUME LinkInv, Next PROVE Holds
  <2> SUFFICES ASSUME link'.detected # "not tried", last'.op # "owOverdriveAccess",
                      Plain(last'.arg)
               PROVE  FoundNow'
    BY DEF FoundNow
  <2>1. SUFFICES Found(link')
    BY FoundNext
  <2>2. Before(link).detected = "not tried"
    BY BeforeLink, <1>1 DEF LinkInv
  <2>3. CASE Acquired(link')
    BY <2>3 DEF Acquired
  <2>4. CASE link' = Before(link)
    BY <2>2, <2>4
  <2>5. CASE Done(Before(link))
    BY <2>2, <2>5 DEF Done, Outcome
  <2> QED
    BY <1>1, <2>3, <2>4, <2>5, NextLink
<1>2. ASSUME LinkInv, [Next]_vars PROVE [Holds]_vars
  BY <1>1, <1>2
<1> HIDE DEF Holds
<1>3. LinkInv /\ [Next]_vars => [Holds]_vars
  BY <1>2
<1> QED
  BY <1>3, LinkTypes, PTL DEF Spec, DetectExact, Holds

\* What a call of OneBatch gives on a link in step: its bytes are handed over.
LEMMA DeliveredNext ==
  ASSUME LinkInv, InSync, Done(Before(link)), last'.op \in OneBatch, link'.ok, Plain(last'.arg)
  PROVE  /\ link'.handed = last'.arg
         /\ \/ last' = WriteZero
            \/ \E how \in Answers :
                 /\ Len(last'.arg) <= Len(Answer(how, last'.arg))
                 /\ link'.got = SubSeq(Answer(how, last'.arg), 1, Len(last'.arg))
<1> DEFINE L == Before(link)
           M == link'
           op == last'.op
           arg == last'.arg
<1>1. L \in Links /\ Len(L.handed) = 0 /\ Idle(L)
  BY BeforeLink, InStepStays DEF LinkInv
<1>2. Outcome(L, M, op, arg) /\ last' = [op |-> op, arg |-> arg]
  BY DEF Done
<1> HIDE DEF L, M, op, arg
<1>3. op \in OneBatch /\ M.ok /\ Plain(arg)
  BY DEF op, arg, M
<1>4. /\ arg \in Seq(Byte)
      /\ M.handed = L.handed \o arg
      /\ \/ op = "owWriteByte" /\ arg = <<0>>
         \/ \E how \in Answers : HandedOver(L, M, arg, how)
  BY <1>1, <1>2, <1>3 DEF Outcome
<1>5. L.handed \in Seq(Byte)
  BY <1>1, LinkFields
<1>6. L.handed \o arg = arg
  BY <1>1, <1>4, <1>5
<1>7. M.handed = arg
  BY <1>4, <1>6
<1>8. CASE op = "owWriteByte" /\ arg = <<0>>
  <2>1. last' = WriteZero
    BY <1>2, <1>8 DEF WriteZero
  <2> QED
    BY <1>7, <2>1 DEF M, arg
<1>9. CASE \E how \in Answers : HandedOver(L, M, arg, how)
  <2>1. PICK how \in Answers : HandedOver(L, M, arg, how)
    BY <1>9
  <2>2. /\ Len(arg) <= Len(Answer(how, arg))
        /\ M.got = SubSeq(Answer(how, arg), 1, Len(arg))
    BY <1>3, <2>1 DEF HandedOver
  <2> QED
    BY <1>7, <2>2 DEF M, arg
<1> QED
  BY <1>4, <1>8, <1>9

\* owtrnu.c:78-138, owllu.c:248-295: for every block, ROM, byte and answer, a
\* call that reports success has handed the button its data once and in order,
\* and returns the first bytes of the answer to it.
THEOREM LinkDelivered == Spec => Delivered
<1> DEFINE Holds ==
       open /\ InSync /\ last'.op \in OneBatch /\ link'.ok /\ Plain(last'.arg) =>
         /\ link'.handed = last'.arg
         /\ \/ last' = WriteZero
            \/ \E how \in Answers :
                 /\ Len(last'.arg) <= Len(Answer(how, last'.arg))
                 /\ link'.got = SubSeq(Answer(how, last'.arg), 1, Len(last'.arg))
<1>1. ASSUME LinkInv, Next PROVE Holds
  <2> SUFFICES ASSUME InSync, last'.op \in OneBatch, link'.ok, Plain(last'.arg) PROVE Holds
    OBVIOUS
  <2>1. last'.op # "owAcquire" /\ last'.op # "owRelease"
    BY DEF OneBatch
  <2>2. Done(Before(link))
    BY <1>1, <2>1, NextLink
  <2> QED
    BY <1>1, <2>2, DeliveredNext
<1>2. ASSUME LinkInv, [Next]_vars PROVE [Holds]_vars
  BY <1>1, <1>2
<1> HIDE DEF Holds
<1>3. LinkInv /\ [Next]_vars => [Holds]_vars
  BY <1>2
<1> QED
  BY <1>3, LinkTypes, PTL DEF Spec, Delivered, Holds
=============================================================================
