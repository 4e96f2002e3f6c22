----------------------------- MODULE MCFakePty -----------------------------
(***************************************************************************)
(* Instance of the daemon for TLC: small buffers, so that the tty fills up *)
(* in both directions, and replies that need several writes.               *)
(***************************************************************************)
EXTENDS FakePty
=============================================================================
