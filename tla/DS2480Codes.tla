---------------------------- MODULE DS2480Codes ----------------------------
(***************************************************************************)
(* The serial byte codes of the DS2480B bridge (extern/ds2480.h) and the   *)
(* decoding of a command byte as ds2480sim.c performs it with masks and    *)
(* shifts.  A byte is a natural below 256; masks are written with \div and *)
(* % so that the operators can be used in proofs.                          *)
(***************************************************************************)
EXTENDS Integers

Byte == 0..255

MODE_DATA    == 225     \* 0xE1
MODE_COMMAND == 227     \* 0xE3
TIMING       == 193     \* 0xC1: FUNCTSEL_RESET at standard speed
RESET_REPLY  == 205     \* 0xCD: always a presence pulse

\* SPEEDSEL_STD, SPEEDSEL_FLEX, SPEEDSEL_OD, SPEEDSEL_PULSE
Speeds == {0, 4, 8, 12}
SPEEDSEL_STD == 0
SPEEDSEL_OD  == 8

PARMSEL_BAUDRATE == 7   \* index of the register in config[]
PARMSET_9600     == 0

\* (b & CMD_COMM) == CMD_COMM, and (b & CMD_CONFIG) == CMD_CONFIG otherwise
IsComm(b)   == b >= 128 /\ b % 2 = 1
IsConfig(b) == b < 128 /\ b % 2 = 1

\* b & FUNCTSEL_MASK, as one of the four functions
Funct(b) == CASE (b \div 32) % 4 = 0 -> "bit"
              [] (b \div 32) % 4 = 1 -> "search"
              [] (b \div 32) % 4 = 2 -> "reset"
              [] OTHER              -> "chmod"

SpeedOf(b)    == 4 * ((b \div 4) % 4)     \* b & SPEEDSEL_MASK
SearchOn(b)   == (b \div 16) % 2 = 1      \* (b >> 4) & 1
ParmSel(b)    == (b \div 16) % 8          \* (b >> 4) & 7
ParmSet(b)    == 2 * ((b \div 2) % 8)     \* b & 0x0E
ParmRead(b)   == (b \div 2) % 8           \* (b & 0x0E) >> 1

BitReply(b)   == 128 + (b % 32)           \* b & 0x9F, for b >= 0x80
ChmodReply(b) == 224 + 4 * ((b \div 4) % 8)   \* (b & 0x1C) | 0xE0
ParmReply(b)  == 16 * ParmSel(b) + ParmSet(b) \* (b & 0x70) | stored value

\* config[] as ds2480_master_reset leaves it: the eight registers that a
\* command byte can address (the other 248 cells are never read).
ResetConfig == [r \in 0..7 |-> IF r = 0 THEN 170 ELSE IF r \in {2, 3} THEN 8 ELSE 0]
=============================================================================
