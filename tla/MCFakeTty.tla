----------------------------- MODULE MCFakeTty -----------------------------
(***************************************************************************)
(* Instance of the kernel module for TLC: three files, so that a close     *)
(* meets both a running write and a waiting one.                           *)
(***************************************************************************)
EXTENDS FakeTty, TLC

CONSTANTS c1, c2, c3
=============================================================================
