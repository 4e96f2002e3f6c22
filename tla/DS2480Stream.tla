---------------------------- MODULE DS2480Stream ----------------------------
(***************************************************************************)
(* What the bridge promises, whatever way the bytes were cut into writes:  *)
(* the stream the host sends is decoded one unit at a time (a command      *)
(* byte, a data byte, an escaped 0xE3, a mode switch), and each unit has   *)
(* its effect exactly once and in the order of the stream.  This is the    *)
(* reading of the comment at ds2480sim.c:131-138.                          *)
(***************************************************************************)
EXTENDS DS2480Codes, Sequences

CONSTANT Streams

VARIABLES stream,   \* everything the host sends
          pos,      \* index of the next byte to decode
          mode,     \* "COMMAND" or "DATA"
          speed,    \* last 1-Wire speed selected
          search,   \* search accelerator flag
          config,   \* the parameter registers
          bus       \* what happened so far: pulses, data bytes, replies

vars == <<stream, pos, mode, speed, search, config, bus>>

Init == /\ stream \in Streams
        /\ pos = 1
        /\ mode = "COMMAND" /\ speed = SPEEDSEL_STD /\ search = FALSE
        /\ config = ResetConfig
        /\ bus = <<>>

b == stream[pos]
More == pos <= Len(stream)

\* A data byte on its way to the button, or to the search accelerator.
DataEvent(byte, s) == [kind |-> IF s THEN "search" ELSE "data", byte |-> byte]
Reply(byte) == [kind |-> "reply", byte |-> byte]
Pulse       == [kind |-> "pulse", byte |-> 0]

ToData ==
  /\ mode = "COMMAND" /\ b = MODE_DATA
  /\ mode' = "DATA" /\ pos' = pos + 1
  /\ UNCHANGED <<stream, speed, search, config, bus>>

Skip ==
  /\ mode = "COMMAND"
  /\ b = MODE_COMMAND \/ (~IsComm(b) /\ ~IsConfig(b))
  /\ pos' = pos + 1
  /\ UNCHANGED <<stream, mode, speed, search, config, bus>>

Communicate ==
  /\ mode = "COMMAND" /\ IsComm(b) /\ b \notin {MODE_DATA, MODE_COMMAND}
  /\ pos' = pos + 1
  /\ speed' = IF Funct(b) = "chmod" THEN speed ELSE SpeedOf(b)
  /\ search' = IF Funct(b) = "search" THEN SearchOn(b) ELSE search
  /\ bus' = CASE Funct(b) = "bit"    -> Append(bus, Reply(BitReply(b)))
              [] Funct(b) = "reset"  -> bus \o <<Pulse, Reply(RESET_REPLY)>>
              [] Funct(b) = "chmod"  -> Append(bus, Reply(ChmodReply(b)))
              [] Funct(b) = "search" -> bus
  /\ UNCHANGED <<stream, mode, config>>

Configure ==
  /\ mode = "COMMAND" /\ IsConfig(b)
  /\ pos' = pos + 1
  /\ IF ParmSel(b) # 0
     THEN /\ config' = [config EXCEPT ![ParmSel(b)] = ParmSet(b)]
          /\ bus' = Append(bus, Reply(ParmReply(b)))
     ELSE /\ bus' = Append(bus, Reply(config[ParmRead(b)]))
          /\ UNCHANGED config
  /\ UNCHANGED <<stream, mode, speed, search>>

Data ==
  /\ mode = "DATA" /\ b \notin {MODE_COMMAND, TIMING}
  /\ pos' = pos + 1
  /\ bus' = Append(bus, DataEvent(b, search))
  /\ UNCHANGED <<stream, mode, speed, search, config>>

Escaped == pos < Len(stream) /\ stream[pos + 1] = MODE_COMMAND

Escape ==
  /\ mode = "DATA" /\ b = MODE_COMMAND /\ Escaped
  /\ pos' = pos + 2
  /\ bus' = Append(bus, DataEvent(MODE_COMMAND, search))
  /\ UNCHANGED <<stream, mode, speed, search, config>>

ToCommand ==
  /\ mode = "DATA" /\ b = MODE_COMMAND /\ ~Escaped
  /\ mode' = "COMMAND" /\ pos' = pos + 1
  /\ UNCHANGED <<stream, speed, search, config, bus>>

Timing ==
  /\ mode = "DATA" /\ b = TIMING
  /\ mode' = "COMMAND" /\ pos' = pos + 1
  /\ config' = [config EXCEPT ![PARMSEL_BAUDRATE] = PARMSET_9600]
  /\ UNCHANGED <<stream, speed, search, bus>>

Next == More /\ (\/ ToData \/ Skip \/ Communicate \/ Configure
                 \/ Data \/ Escape \/ ToCommand \/ Timing)

Spec == Init /\ [][Next]_vars /\ WF_vars(Next)
=============================================================================
