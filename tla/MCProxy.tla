------------------------------ MODULE MCProxy -------------------------------
(* Instances of Proxy for TLC. *)
EXTENDS Proxy

CONSTANTS plain, listed, other, c1

(* Three fragments of a request: the request line, the start of the Host   *)
(* header, and the rest with the blank line.                               *)
Get(h) == [len |-> 3, blank |-> 3, lf_cr_lf |-> {3}, lf |-> {2, 3}, uri_end |-> 1,
           host_at |-> 2, checks |-> {}, host |-> h]

BadPort == [Get(plain) EXCEPT !.checks = {"port"}]

(* Bytes behind the blank line, such as a body. *)
WithBody == [Get(plain) EXCEPT !.len = 4]

(* A request that arrives at once. *)
Short == [len |-> 1, blank |-> 1, lf_cr_lf |-> {1}, lf |-> {1}, uri_end |-> 0,
          host_at |-> 1, checks |-> {}, host |-> other]

(* One client makes any request in any fragments, the other one a short    *)
(* one to a host whose answer is short.                                    *)
Requests == [c \in Client |-> IF c = c1 THEN {Get(plain), Get(listed), BadPort, WithBody}
                                        ELSE {Short}]

Responses == [h \in Host |-> IF h = other THEN 1 ELSE 2]
=============================================================================
