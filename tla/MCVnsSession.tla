---------------------------- MODULE MCVnsSession ----------------------------
(* Instances of VnsSession for TLC. *)
EXTENDS VnsSession, SequencesExt

Command(type, n) == [type |-> type, at |-> 0, len |-> n, ok |-> TRUE, hw |-> << >>,
                     iface |-> NoIface, long |-> FALSE, foreign |-> FALSE]

AuthRequest(salt) == Command("auth_request", HEADER + 1 + salt)
Accepted == Command("auth_status", HEADER + 2)
Refused == [Accepted EXCEPT !.ok = FALSE]
RtableCmd == Command("rtable", HEADER + 2)
Close == Command("close", HEADER + 1)
Banner == Command("banner", HEADER + 2)
Oversized == Command("banner", MAX_LEN + 1)
Packet(iface, long, foreign) ==
    [Command("packet", HEADER + 2) EXCEPT !.iface = iface, !.long = long, !.foreign = foreign]
Hwinfo(e) == [Command("hwinfo", HEADER + 2) EXCEPT !.hw = e]

Port(i) == <<<<"interface", i>>, <<"speed", i>>, <<"ether", i>>, <<"ethip", i>>>>
OnePort == Hwinfo(Port("e1"))
TwoPorts == Hwinfo(Port("e1") \o Port("e2"))
NoPort == Hwinfo(<<<<"ether", "e1">>>>)

(* What follows the authentication, without and with a template. *)
Loops == {<<OnePort, Packet("e1", TRUE, FALSE), Close>>,
          <<Packet("e1", FALSE, FALSE), Packet("e1", TRUE, FALSE)>>,
          <<Packet("e1", FALSE, FALSE), OnePort, Packet("e2", FALSE, FALSE)>>,
          <<NoPort>>,
          <<Hwinfo(<< >>)>>,
          <<Banner, OnePort, Packet("e1", TRUE, TRUE), OnePort, Oversized>>,
          <<RtableCmd, TwoPorts, Packet("e2", TRUE, FALSE), RtableCmd, Close>>}

(* The commands of s, one behind the other. *)
Placed(s) ==
    [i \in 1 .. Len(s) |->
        [s[i] EXCEPT !.at = FoldLeft(LAMBDA sum, c : sum + c.len, 0, SubSeq(s, 1, i - 1))]]

(* Salts from none to more than a block, and sessions that fail early. *)
Sessions ==
    {<<AuthRequest(n), Refused>> : n \in 0 .. 11}
    \cup {<<AuthRequest(0), Accepted>> \o l : l \in Loops}
    \cup {<<Banner>>, <<AuthRequest(0), Close>>, <<Oversized>>}

TestScripts == {Placed(s) : s \in Sessions}
=============================================================================
