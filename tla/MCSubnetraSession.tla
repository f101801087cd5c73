-------------------------- MODULE MCSubnetraSession --------------------------
(* Small instances of SubnetraSession for TLC. *)
EXTENDS SubnetraSession
===============================================================================
