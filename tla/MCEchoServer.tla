---------------------------- MODULE MCEchoServer ----------------------------
(* Instances of EchoServer for TLC. *)
EXTENDS EchoServer

CONSTANTS c1, x

MaxInput == 4   \* bound: characters on the standard input of a client

Words == UNION {[1 .. n -> {x, NL}] : n \in 0 .. MaxInput}

(* One client may be given any input, the other one a single line. *)
AnyInput == [c \in Client |-> IF c = c1 THEN Words ELSE {<<x, NL>>}]
=============================================================================
