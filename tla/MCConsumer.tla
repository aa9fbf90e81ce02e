----------------------------- MODULE MCConsumer -----------------------------
(* Small instances of Consumer for TLC. *)
EXTENDS Consumer

CONSTANTS c1, c2
=============================================================================
