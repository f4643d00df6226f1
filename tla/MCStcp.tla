------------------------------- MODULE MCStcp -------------------------------
(* Instances of Stcp for TLC: how many bytes each application may write. *)
EXTENDS StcpStream

WritesOf(c, s) == [e \in Endpoint |-> IF e = "client" THEN c ELSE s]

MaxBytes00 == WritesOf(0, 0)

MaxBytes30 == WritesOf(3, 0)

MaxBytes11 == WritesOf(1, 1)

MaxBytes42 == WritesOf(4, 2)
=============================================================================
