------------------------------- MODULE MCNode -------------------------------
(***************************************************************************)
(* Small instances of Node: two connections to one peer, inbound and       *)
(* outbound, and one inbound connection from another.                      *)
(***************************************************************************)
EXTENDS Node

CONSTANTS i1, i2, o1,   \* connections
          p, q          \* peers

Ends == [c \in Conn |-> IF c = i2 THEN q ELSE p]
=============================================================================
