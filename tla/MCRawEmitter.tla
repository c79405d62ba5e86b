---------------------------- MODULE MCRawEmitter ----------------------------
(* Instances of RawEmitter for TLC.                                         *)
EXTENDS RawEmitter

CONSTANTS a, b

(* No condition, one, and two different ones.                               *)
MCWants == {<<>>, <<a>>, <<a, b>>}
=============================================================================
