---------------------------- MODULE MCDS2480Sim ----------------------------
(***************************************************************************)
(* Instances of the bridge for TLC: all short streams over one byte of     *)
(* each kind the decoder tells apart.                                      *)
(***************************************************************************)
EXTENDS DS2480Sim, SequencesExt

BitOne   == 153   \* 0x99: single bit at overdrive speed
SearchOn1 == 177  \* 0xB1
Chmod    == 237   \* 0xED: pulse command
Baud115  == 119   \* 0x77: write 115200 to the baud register
ReadBaud == 15    \* 0x0F: read the baud register
Zero     == 0     \* no command at all, a plain data byte

AllKinds == {MODE_DATA, MODE_COMMAND, TIMING, BitOne, SearchOn1, Chmod,
             Baud115, ReadBaud, Zero}
Switches == {MODE_DATA, MODE_COMMAND, TIMING, Zero}

\* Up to 3 bytes of any kind behind every way into data mode, and longer
\* streams of the bytes that switch modes.
MCStreams == BoundedSeq(AllKinds, 3)
             \cup {<<MODE_DATA>> \o s : s \in BoundedSeq(AllKinds, 3)}
             \cup {<<SearchOn1, MODE_DATA>> \o s : s \in BoundedSeq(AllKinds, 2)}
             \cup BoundedSeq(Switches, 5)

\* Command bytes for a room that cannot hold the replies.  No reset byte: a
\* starved call repeats its pulse for ever and the history would not be finite.
MCCommands == BoundedSeq({BitOne, SearchOn1, ReadBaud, MODE_DATA, Zero}, 4)

\* The same for a bridge that may run out of memory, and data for it.
MCLimits == MCCommands
            \cup {<<MODE_DATA>> \o s :
                    s \in BoundedSeq({MODE_COMMAND, Zero, ReadBaud}, 4)}
            \cup {<<MODE_DATA>> \o s \o <<MODE_COMMAND, BitOne, BitOne>> :
                    s \in BoundedSeq({Zero, SearchOn1}, 3)}
=============================================================================
