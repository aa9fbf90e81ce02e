---------------------------- MODULE MCPublisher ----------------------------
(* Small instances of Publisher for TLC. *)
EXTENDS Publisher

CONSTANTS p1, p2, e1, e2, e3
=============================================================================
