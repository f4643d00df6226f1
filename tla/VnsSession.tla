----------------------------- MODULE VnsSession -----------------------------
(***************************************************************************)
(* The router's process from main() to the end of its session with the     *)
(* virtual network server (sr_main.c, sr_vns_comm.c, sr_if.c): loading the *)
(* routing table, connecting and authenticating, reading commands off the  *)
(* connection, and handling each of them.  The routing table and its use   *)
(* are those of RoutingTable.                                              *)
(*                                                                         *)
(* The server's side of the connection is a stream of commands, script; a  *)
(* byte of it is known by its position.  A command's length field takes    *)
(* HEADER places and its type the next one.                                *)
(*   type    what the command is                                           *)
(*   at      where it begins                                               *)
(*   len     its length; the salt of an "auth_request" is what follows     *)
(*           length and type                                               *)
(*   ok      whether an "auth_status" accepts the user                     *)
(*   hw      the entries <<key, interface>> of an "hwinfo"                 *)
(*   iface   the interface a "packet" arrived on                           *)
(*   long    the packet is at least as long as an ARP packet               *)
(*   foreign the packet is an ARP request for another address              *)
(***************************************************************************)
EXTENDS RoutingTable, Sha1

CONSTANTS
    Scripts,        \* what the server may send
    NoIface,        \* no interface's name, or an address not set
    HEADER,         \* bytes of a command's length field (4)
    MAX_LEN,        \* the longest command accepted (10000)
    AUTH_KEY_LEN,   \* bytes of the authentication key (64)
    MaxPackets      \* bound: packets the router sends

HwKey == {"fixedip", "interface", "speed", "subnet", "mask", "ethip", "ether",
          "unknown"}

(* The commands a server sends. *)
WellFormed(c) ==
    /\ c.type \in {"auth_request", "auth_status", "rtable", "hwinfo", "packet",
                   "banner", "close"}
    /\ c.at \in Nat /\ c.len \in Nat /\ c.len > HEADER
    /\ c.hw \in Seq(HwKey \X Iface)
    /\ c.type = "packet" => c.iface \in Iface

(* Each command begins where the one before it ends. *)
Contiguous(s) ==
    \A i \in 1 .. Len(s) :
        /\ i = 1 => s[i].at = 0
        /\ i > 1 => s[i].at = s[i - 1].at + s[i - 1].len
        /\ \A j \in 1 .. i - 1 : s[j].at + s[j].len <= s[i].at

ASSUME SessionAssumption ==
    /\ NoIface \notin Iface
    /\ HEADER \in Nat \ {0} /\ MAX_LEN \in Nat
    /\ AUTH_KEY_LEN \in Nat /\ MaxPackets \in Nat
    /\ \A s \in Scripts :
          Len(s) \in Nat /\ Contiguous(s) /\ \A i \in 1 .. Len(s) : WellFormed(s[i])

VARIABLES
    template,    \* -T: "none", or whether -r names the file it brings
    rtable,      \* the contents of the file -r names
    script,      \* the commands the server sends
    phase,       \* where main() is: "boot", "auth_request", "auth_status", "open",
                 \* "rtable", "reload", "loading", "loop"; it ends "spinning",
                 \* "failed", "ended" or "aborted"
    len,         \* the command's length, 0 while the length is being read
    bytes_read,  \* bytes of the length or of the rest read so far
    taken,       \* bytes read from the connection in all
    commands,    \* commands handled
    sha1,        \* the context of the digest in progress
    message,     \* the bytes it has still to take in
    if_list,     \* the interfaces, each with its name and addresses
    entries,     \* entries of the hardware information handled so far
    handled,     \* the places of the packets given to sr_handlepacket()
    out          \* what the router has sent to the server

startup == <<template, rtable, script>>
reader == <<len, bytes_read, taken>>
hashing == <<sha1, message>>
interfaces == <<if_list, entries>>
session == <<startup, phase, reader, commands, hashing, interfaces, handled, out>>
all == <<vars, session>>

Running == phase \notin {"failed", "ended", "aborted"}

(* No digest is in progress. *)
NoHash == << >>

(* Without a template the routing table is loaded first of all. *)
SessionInit ==
    /\ Init
    /\ template \in {"none", "other", "vrhost"}
    /\ IF template = "none" THEN pc = "load" /\ rtable = file
                            ELSE pc = "idle" /\ rtable \in Files /\ file = << >>
    /\ script \in Scripts
    /\ phase = "boot"
    /\ len = 0 /\ bytes_read = 0 /\ taken = 0 /\ commands = 0
    /\ sha1 = NoHash /\ message = << >>
    /\ if_list = << >> /\ entries = 0 /\ handled = {} /\ out = << >>

-----------------------------------------------------------------------------
(* main() and sr_connect_to_server() *)

(* The first or the second call of sr_load_rt_wrap(). *)
Load ==
    /\ phase \in {"boot", "loading"}
    /\ \/ LoadLine /\ UNCHANGED session
       \/ /\ LoadError
          /\ phase' = "failed"
          /\ UNCHANGED <<startup, reader, commands, hashing, interfaces, handled, out>>
       \/ LoadEnd /\ UNCHANGED session

(* gethostbyname(), socket() and connect() *)
Connect ==
    /\ phase = "boot" /\ pc = "idle"
    /\ phase' \in {"auth_request", "failed"}
    /\ UNCHANGED <<vars, startup, reader, commands, hashing, interfaces, handled, out>>

(* VNSOPEN or VNS_OPEN_TEMPLATE; with a template the table follows. *)
Open ==
    /\ phase = "open"
    /\ phase' = IF template = "none" THEN "reload" ELSE "rtable"
    /\ out' = Append(out, [kind |-> "open"])
    /\ UNCHANGED <<vars, startup, reader, commands, hashing, interfaces, handled>>

OpenFails ==
    /\ phase = "open"
    /\ phase' = "failed"
    /\ UNCHANGED <<vars, startup, reader, commands, hashing, interfaces, handled, out>>

(* The file that -r names is loaded, for the second time if there is no    *)
(* template.                                                               *)
LoadAgain ==
    /\ phase = "reload"
    /\ Reload(rtable)
    /\ phase' = "loading"
    /\ UNCHANGED <<startup, reader, commands, hashing, interfaces, handled, out>>

(* sr_init() starts the thread that sweeps the ARP cache. *)
SrInit ==
    /\ phase = "loading" /\ pc = "idle"
    /\ phase' = "loop"
    /\ UNCHANGED <<vars, startup, reader, commands, hashing, interfaces, handled, out>>

-----------------------------------------------------------------------------
(* sr_read_from_server_expect() *)

Reading == phase \in {"auth_request", "auth_status", "rtable", "loop"}

(* The bytes of the first n commands. *)
StreamLength(n) == IF n = 0 THEN 0 ELSE script[n].at + script[n].len

(* Mutant: the length is taken not to count its own field. *)
WholeLength(n) == n

(* Bytes that follow the length field. *)
RestLength(n) == n - HEADER

Wanted == IF len = 0 THEN HEADER ELSE RestLength(len)

(* recv() and read() return some of the bytes asked for.  A call that a    *)
(* signal interrupts is made again.                                        *)
ReadSome ==
    /\ Reading
    /\ \E n \in 1 .. Wanted - bytes_read :
          /\ taken + n <= StreamLength(Len(script))
          /\ bytes_read' = bytes_read + n
          /\ taken' = taken + n
    /\ UNCHANGED <<vars, startup, phase, len, commands, hashing, interfaces, handled, out>>

(* recv() and read() fail: -1 to the caller. *)
ReadFails ==
    /\ Reading /\ bytes_read < Wanted
    /\ phase' = IF phase = "loop" THEN "ended" ELSE "failed"
    /\ UNCHANGED <<vars, startup, reader, commands, hashing, interfaces, handled, out>>

(* The length field is what the command at this place says, if a command   *)
(* begins there.                                                           *)
LengthsAt(position) ==
    LET here == {i \in 1 .. Len(script) : script[i].at = position}
    IN  IF here = {} THEN HEADER + 1 .. MAX_LEN + 1 ELSE {script[i].len : i \in here}

LengthRead ==
    /\ Reading /\ len = 0 /\ bytes_read = HEADER
    /\ \E n \in LengthsAt(taken - HEADER) :
          IF n > MAX_LEN
          THEN /\ phase' = IF phase = "loop" THEN "ended" ELSE "failed"
               /\ UNCHANGED len
          ELSE len' = n /\ UNCHANGED phase
    /\ bytes_read' = 0
    /\ UNCHANGED <<vars, startup, taken, commands, hashing, interfaces, handled, out>>

(* The connection has ended and all its bytes are read: recv() and read()  *)
(* return 0, and the loop around them goes on for ever.                    *)
LinkLost ==
    /\ Reading /\ bytes_read < Wanted
    /\ phase' = "spinning"
    /\ UNCHANGED <<vars, startup, reader, commands, hashing, interfaces, handled, out>>

-----------------------------------------------------------------------------
(* The commands *)

command == script[commands + 1]

(* The command is complete. *)
Complete ==
    /\ Reading /\ len # 0 /\ bytes_read = RestLength(len)
    /\ commands < Len(script)

(* What main() and sr_connect_to_server() do with the result. *)
AfterCommand(result) ==
    IF phase = "loop" THEN IF result = 1 THEN "loop" ELSE "ended"
    ELSE IF result # 1 THEN "failed"
    ELSE CASE phase = "auth_request" -> "auth_status"
           [] phase = "auth_status"  -> "open"
           [] phase = "rtable"       -> "reload"

Expected == phase = "loop" \/ command.type = phase

Return(result) ==
    /\ phase' = AfterCommand(result)
    /\ commands' = commands + 1
    /\ len' = 0 /\ bytes_read' = 0
    /\ UNCHANGED taken

Received(type) == Complete /\ Expected /\ command.type = type

(* VNSCLOSE is handled at any time. *)
Unexpected ==
    /\ Complete /\ ~Expected /\ command.type # "close"
    /\ Return(-1)
    /\ UNCHANGED <<vars, startup, hashing, interfaces, handled, out>>

(* Mutant: the loop goes on after VNSCLOSE. *)
CloseIgnored == 1

CloseResult == 0

HandleClose ==
    /\ Complete /\ command.type = "close"
    /\ Return(CloseResult)
    /\ UNCHANGED <<vars, startup, hashing, interfaces, handled, out>>

(* VNSBANNER, and the commands the router does not know. *)
HandleOther ==
    /\ Received("banner")
    /\ Return(1)
    /\ UNCHANGED <<vars, startup, hashing, interfaces, handled, out>>

Salt(c) == [i \in 1 .. c.len - HEADER - 1 |-> i]
Key == [i \in 1 .. AUTH_KEY_LEN |-> 1000 + i]

(* sr_handle_auth_request() hashes the salt and then the key, byte by      *)
(* byte, and sends the digest.                                             *)
HashBegin ==
    /\ Received("auth_request") /\ sha1 = NoHash
    /\ sha1' = SHA1Reset
    /\ message' = Salt(command) \o Key
    /\ UNCHANGED <<vars, startup, phase, reader, commands, interfaces, handled, out>>

HashByte ==
    /\ sha1 # NoHash /\ message # << >>
    /\ sha1' = SHA1InputByte(sha1, Head(message))
    /\ message' = Tail(message)
    /\ UNCHANGED <<vars, startup, phase, reader, commands, interfaces, handled, out>>

HandleAuthRequest ==
    /\ sha1 # NoHash /\ message = << >> /\ ~sha1.Corrupted
    /\ out' = Append(out, [kind |-> "auth_reply", salt |-> Salt(command),
                           digest |-> SHA1PadMessage(sha1).Message_Digest])
    /\ sha1' = NoHash /\ UNCHANGED message
    /\ Return(1)
    /\ UNCHANGED <<vars, startup, interfaces, handled>>

(* There is no key, the digest cannot be computed, or the reply cannot be  *)
(* sent.                                                                   *)
AuthRequestFails ==
    /\ Received("auth_request")
    /\ sha1 = NoHash \/ message = << >>
    /\ sha1' = NoHash /\ UNCHANGED message
    /\ Return(-1)
    /\ UNCHANGED <<vars, startup, interfaces, handled, out>>

(* Mutant: the status is not looked at. *)
AnyStatus == 1

AuthResult == IF command.ok THEN 1 ELSE -1

HandleAuthStatus ==
    /\ Received("auth_status")
    /\ Return(AuthResult)
    /\ UNCHANGED <<vars, startup, hashing, interfaces, handled, out>>

(* The table is written to a file; whether that file is loaded is up to    *)
(* main(), which loads none after the loop has begun.                      *)
HandleRtable ==
    /\ Received("rtable")
    /\ IF template = "vrhost" /\ phase # "loop" THEN rtable' \in Files
                                               ELSE UNCHANGED rtable
    /\ Return(1)
    /\ UNCHANGED <<vars, template, script, hashing, interfaces, handled, out>>

RtableFails ==
    /\ Received("rtable")
    /\ Return(-1)
    /\ UNCHANGED <<vars, startup, hashing, interfaces, handled, out>>

-----------------------------------------------------------------------------
(* The interface list *)

sr_add_interface(list, name) ==
    Append(list, [name |-> name, ip |-> NoIface, addr |-> NoIface])

(* sr_set_ether_ip() and sr_set_ether_addr() change the last interface. *)
LastInterface(list) == Len(list)

(* One entry of the hardware information; FIXEDIP, SPEED, SUBNET, MASK and *)
(* unknown keys change nothing.                                            *)
HwEntry(list, e) ==
    CASE e[1] = "interface" -> sr_add_interface(list, e[2])
      [] e[1] = "ethip"     -> [list EXCEPT ![LastInterface(list)].ip = e[2]]
      [] e[1] = "ether"     -> [list EXCEPT ![LastInterface(list)].addr = e[2]]
      [] OTHER              -> list

(* sr_set_ether_ip() and sr_set_ether_addr() assert that there is one. *)
AddressFirst(e) == e[1] \in {"ethip", "ether"} /\ if_list = << >>

(* One turn of the loop of sr_handle_hwinfo().  The sweeper may use the    *)
(* list between two of them.                                               *)
HwinfoEntry ==
    /\ Received("hwinfo") /\ entries < Len(command.hw)
    /\ ~AddressFirst(command.hw[entries + 1])
    /\ if_list' = HwEntry(if_list, command.hw[entries + 1])
    /\ entries' = entries + 1
    /\ UNCHANGED <<vars, startup, phase, reader, commands, hashing, handled, out>>

Named(list, name) == {i \in 1 .. Len(list) : list[i].name = name}

(* Mutant: an empty routing table passes. *)
EmptyAccepted(list) ==
    /\ list # << >>
    /\ \A i \in 1 .. Len(routing_table) : Named(list, routing_table[i].interface) # {}

(* sr_verify_routing_table() returns 0: neither list is empty and every    *)
(* route's interface exists.                                               *)
Verified(list) ==
    /\ list # << >> /\ routing_table # << >>
    /\ \A i \in 1 .. Len(routing_table) : Named(list, routing_table[i].interface) # {}

HandleHwinfo ==
    /\ Received("hwinfo") /\ entries = Len(command.hw)
    /\ Return(IF Verified(if_list) THEN 1 ELSE -1)
    /\ entries' = 0
    /\ UNCHANGED <<vars, startup, hashing, if_list, handled, out>>

(* The assertion of sr_set_ether_ip(), sr_set_ether_addr() or              *)
(* sr_arp_req_not_for_us() ends the process; or sr_handlepacket(), given a *)
(* short packet, uses a route whose interface does not exist.              *)
Abort ==
    /\ \/ /\ Received("hwinfo") /\ entries < Len(command.hw)
          /\ AddressFirst(command.hw[entries + 1])
       \/ Received("packet") /\ command.long /\ Named(if_list, command.iface) = {}
       \/ /\ Received("packet") /\ ~command.long
          /\ \E i \in 1 .. Len(routing_table) : Named(if_list, routing_table[i].interface) = {}
    /\ phase' = "aborted"
    /\ UNCHANGED <<vars, startup, reader, commands, hashing, interfaces, handled, out>>

-----------------------------------------------------------------------------
(* Packets *)

(* sr_arp_req_not_for_us() drops the packet, or sr_handlepacket() gets it. *)
(* A packet too short for ARP is never dropped, and its interface is not   *)
(* looked at.                                                              *)
HandlePacket ==
    /\ Received("packet")
    /\ command.long => Named(if_list, command.iface) # {}
    /\ handled' = IF command.long /\ command.foreign
                  THEN handled ELSE handled \cup {commands + 1}
    /\ Return(1)
    /\ UNCHANGED <<vars, startup, hashing, interfaces, out>>

(* Lookups and packets sent are caused by a packet received. *)
Busy == phase = "loop" /\ \E i \in 1 .. commands : script[i].type = "packet"

(* sr_handlepacket() and the sweeper look up routes. *)
Lookup ==
    /\ Busy
    /\ FindBegin \/ ScanEntry \/ ScanEnd
    /\ UNCHANGED session

(* sr_send_packet(), called by either of them: the packet has to carry the *)
(* address of the interface it leaves by.                                  *)
SendPacket ==
    /\ Busy
    /\ Len(SelectSeq(out, LAMBDA o : o.kind = "packet")) < MaxPackets
    /\ \E i \in 1 .. Len(if_list) :
          /\ \A j \in Named(if_list, if_list[i].name) : i <= j
          /\ out' = Append(out, [kind |-> "packet", iface |-> if_list[i].name,
                                 source |-> if_list[i].addr])
    /\ UNCHANGED <<vars, startup, phase, reader, commands, hashing, interfaces, handled>>

-----------------------------------------------------------------------------
Step ==
    \/ Load
    \/ Connect
    \/ Open
    \/ OpenFails
    \/ LoadAgain
    \/ SrInit
    \/ ReadSome
    \/ LengthRead
    \/ Unexpected
    \/ HandleClose
    \/ HandleOther
    \/ HashBegin
    \/ HashByte
    \/ HandleAuthRequest
    \/ AuthRequestFails
    \/ HandleAuthStatus
    \/ HandleRtable
    \/ RtableFails
    \/ HwinfoEntry
    \/ HandleHwinfo
    \/ Abort
    \/ HandlePacket

SessionNext == Step \/ ReadFails \/ LinkLost \/ Lookup \/ SendPacket

SessionSpec == SessionInit /\ [][SessionNext]_all

(* The process runs, and bytes that were sent arrive. *)
FairSession == SessionSpec /\ WF_all(Step)

-----------------------------------------------------------------------------
(* Properties *)

(* However the reads are cut, and wherever the connection ends, commands   *)
(* are handled in order, once, and only when they have arrived completely. *)
FramedInStep ==
    len = 0 /\ Running => taken = StreamLength(commands) + bytes_read

(* The reply to an authentication request holds the SHA-1 digest of the    *)
(* salt followed by the key, whatever the salt's length.                   *)
AuthReplyCorrect ==
    \A i \in 1 .. Len(out) :
        out[i].kind = "auth_reply" => out[i].digest = Sha1Blocks(out[i].salt \o Key)

(* The router asks for its topology after the server has accepted it, and  *)
(* sends packets only after that.                                          *)
AuthenticatedFirst ==
    \A i \in 1 .. Len(out) :
        /\ out[i].kind = "open" =>
              \E j \in 1 .. commands : script[j].type = "auth_status" /\ script[j].ok
        /\ out[i].kind = "packet" => \E j \in 1 .. i - 1 : out[j].kind = "open"

(* The packet at this place is long enough for ARP, or came after          *)
(* hardware information.                                                   *)
NeedsInterfaces(i) == script[i].long \/ \E j \in 1 .. i - 1 : script[j].type = "hwinfo"

(* The comment on sr_verify_routing_table(): once the router is given such *)
(* a packet, every route leaves by an interface that exists, which a       *)
(* handler does not check; and if the server lists an interface before its *)
(* addresses, none has the address of another one.  (A packet shorter than *)
(* ARP that comes before any hardware information is handled without       *)
(* interfaces.)                                                            *)
RoutesUsable ==
    (\E i \in handled : NeedsInterfaces(i)) =>
        /\ routing_table # << >>
        /\ \A i \in 1 .. Len(routing_table) : Named(if_list, routing_table[i].interface) # {}
        /\ \A i \in 1 .. Len(if_list) :
              /\ if_list[i].ip \in {NoIface, if_list[i].name}
              /\ if_list[i].addr \in {NoIface, if_list[i].name}

(* If the server ends the session with VNSCLOSE and the connection stays   *)
(* up until then, the process ends.  (Without VNSCLOSE it reads for ever.) *)
SessionEnds ==
    (\E i \in 1 .. Len(script) : script[i].type = "close")
        => <>(phase = "spinning" \/ ~Running)
=============================================================================
