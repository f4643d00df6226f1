---------------------------- MODULE MCArpRouter ----------------------------
(***************************************************************************)
(* Instances of ArpRouter for TLC.                                         *)
(*                                                                         *)
(* "a", "b" and "c" are hosts on three links whose router addresses are    *)
(* "ra", "rb" and "rc"; "x" has no route; "k" is blacklisted.              *)
(***************************************************************************)
EXTENDS ArpRouter

Routers == {"ra", "rb", "rc"}

Addresses == {"a", "b", "c", "k", "x"} \cup Routers

(* The repository's rtable: each host is its own gateway, and each         *)
(* interface is in its host's network.                                     *)
LinkOf(a) == CASE a \in {"a", "ra"} -> "ra"
               [] a \in {"b", "rb"} -> "rb"
               [] OTHER -> "rc"

HostOf(r) == CASE r = "ra" -> "a" [] r = "rb" -> "b" [] OTHER -> "c"

DirectInterface == [a \in Addresses |-> LinkOf(a)]

DirectGateway ==
    [a \in Addresses |-> IF a = "x" THEN "none" ELSE HostOf(LinkOf(a))]

D(src, dst, ttl, ip_p) == [src |-> src, dst |-> dst, ttl |-> ttl, ip_p |-> ip_p]

(* One packet for each path of sr_handlepacket(), among them a source and  *)
(* a destination without a route                                           *)
AllPaths == {D("a", "b", 2, "udp"), D("a", "b", 0, "udp"), D("a", "b", 1, "udp"),
             D("a", "ra", 2, "echo"), D("b", "rb", 2, "udp"), D("k", "b", 2, "udp"),
             D("b", "x", 2, "udp"), D("x", "ra", 2, "echo")}

Pings == {D("a", "ra", 2, "echo")}
=============================================================================
