---------------------------- MODULE RoutingTable ----------------------------
(***************************************************************************)
(* The routing table of the router: sr_load_rt() reads it from a file line *)
(* by line (sr_rt.c), once or twice before the router starts, and          *)
(* sr_findLPMentry() scans it for each packet (sr_router.c).               *)
(*                                                                         *)
(* Addresses are numbers below AddressMod.  A mask is the number whose     *)
(* leading bits are one; the bits it leaves free span AddressMod - mask    *)
(* addresses.  An entry's gateway is left out.  The result of a lookup is  *)
(* the entry's place in the table.                                         *)
(***************************************************************************)
EXTENDS Integers, Sequences

CONSTANTS
    AddressMod,  \* addresses are 0 .. AddressMod - 1 (2^32)
    Dest,        \* the destinations of the table's entries
    Mask,        \* their masks
    Iface,       \* their interfaces
    MaxLines     \* bound: lines of the file

ASSUME ConstantsAssumption ==
    /\ AddressMod \in Nat \ {0}
    /\ Dest \subseteq 0 .. AddressMod - 1
    /\ Mask \subseteq 0 .. AddressMod - 1
    /\ MaxLines \in Nat

Ip == 0 .. AddressMod - 1

Entry == [dest : Dest, mask : Mask, interface : Iface]

(* A line without any field. *)
Blank == [dest |-> -1, mask |-> -1]

(* A line with a field inet_aton() rejects.  A file that cannot be read is *)
(* taken for one with such a line: sr_load_rt() returns -1 for both.       *)
Malformed == [dest |-> -2, mask |-> -2]

Line == Entry \cup {Blank, Malformed}

VARIABLES
    file,            \* the lines not yet read
    fields,          \* dest, gw, mask and iface: what sscanf() stored last
    clear_routing_table,  \* this load has replaced the table
    routing_table,
    pc,              \* "load", "idle", "scan", "found" or "exited"
    ip_dst,          \* the address looked up
    entry,           \* the place the scan is at
    lpmentry, lpmmask

lookup == <<ip_dst, entry, lpmentry, lpmmask>>

vars == <<file, fields, clear_routing_table, routing_table, pc, lookup>>

NULL == 0

TypeOK ==
    /\ file \in Seq(Line)
    /\ fields \in Line
    /\ clear_routing_table \in BOOLEAN
    /\ routing_table \in Seq(Entry)
    /\ pc \in {"load", "idle", "scan", "found", "exited"}
    /\ ip_dst \in Ip
    /\ entry \in 1 .. Len(routing_table) + 1
    /\ lpmentry \in 0 .. Len(routing_table)
    /\ lpmmask \in Nat

Files == UNION {[1 .. n -> Line] : n \in 0 .. MaxLines}

(* The table is read before the router connects, unless it asks for a      *)
(* topology template.                                                      *)
Init ==
    /\ file \in Files
    /\ fields = Blank
    /\ clear_routing_table = FALSE
    /\ routing_table = << >>
    /\ pc \in {"load", "idle"}
    /\ ip_dst = 0 /\ entry = 1 /\ lpmentry = NULL /\ lpmmask = 0

-----------------------------------------------------------------------------
(* sr_load_rt() *)

(* sscanf() leaves the fields alone if the line is blank, so that the      *)
(* entry before it is added again.  Before the first entry they are not    *)
(* initialised.                                                            *)
Scanned(line) == IF line # Blank THEN {line}
                 ELSE IF fields # Blank THEN {fields}
                 ELSE Entry \cup {Malformed}

(* sr_add_rt_entry(); the first entry of a load replaces the whole table,  *)
(* so that a file without lines leaves the former table in place.          *)
AddEntry(e) == IF clear_routing_table THEN Append(routing_table, e) ELSE <<e>>

LoadLine ==
    /\ pc = "load" /\ file # << >>
    /\ \E e \in Scanned(Head(file)) :
          /\ e # Malformed
          /\ fields' = e
          /\ routing_table' = AddEntry(e)
    /\ clear_routing_table' = TRUE
    /\ file' = Tail(file)
    /\ UNCHANGED <<pc, lookup>>

LoadError ==
    /\ pc = "load" /\ file # << >>
    /\ Malformed \in Scanned(Head(file))
    /\ pc' = "exited"
    /\ UNCHANGED <<file, fields, clear_routing_table, routing_table, lookup>>

LoadEnd ==
    /\ pc = "load" /\ file = << >>
    /\ pc' = "idle"
    /\ UNCHANGED <<file, fields, clear_routing_table, routing_table, lookup>>

(* A second call of sr_load_rt(), on a file that may be another one: its   *)
(* local variables are uninitialised again.                                *)
Reload(f) ==
    /\ pc = "idle"
    /\ pc' = "load"
    /\ file' = f
    /\ fields' = Blank
    /\ clear_routing_table' = FALSE
    /\ UNCHANGED <<routing_table, lookup>>

-----------------------------------------------------------------------------
(* sr_findLPMentry() *)

Masked(ip, mask) == ip - (ip % (AddressMod - mask))

Matches(ip, e) == Masked(ip, e.mask) = Masked(e.dest, e.mask)

FindBegin ==
    /\ pc \in {"idle", "found"}
    /\ ip_dst' \in Ip
    /\ entry' = 1 /\ lpmentry' = NULL /\ lpmmask' = 0
    /\ pc' = "scan"
    /\ UNCHANGED <<file, fields, clear_routing_table, routing_table>>

(* Mutant: a later entry wins. *)
LastWins(e) == Matches(ip_dst, e) /\ e.mask >= lpmmask

IsLongerMatch(e) == Matches(ip_dst, e) /\ e.mask > lpmmask

ScanEntry ==
    /\ pc = "scan" /\ entry <= Len(routing_table)
    /\ IF IsLongerMatch(routing_table[entry])
       THEN lpmentry' = entry /\ lpmmask' = routing_table[entry].mask
       ELSE UNCHANGED <<lpmentry, lpmmask>>
    /\ entry' = entry + 1
    /\ UNCHANGED <<file, fields, clear_routing_table, routing_table, pc, ip_dst>>

ScanEnd ==
    /\ pc = "scan" /\ entry > Len(routing_table)
    /\ pc' = "found"
    /\ UNCHANGED <<file, fields, clear_routing_table, routing_table, lookup>>

Next ==
    \/ LoadLine
    \/ LoadError
    \/ LoadEnd
    \/ \E f \in Files : Reload(f)
    \/ FindBegin
    \/ ScanEntry
    \/ ScanEnd

Spec == Init /\ [][Next]_vars

-----------------------------------------------------------------------------
(* Properties *)

(* The entries a lookup can return: the scan starts with lpmmask = 0, so   *)
(* that a default route, whose mask is 0, never is a longer match.         *)
Candidate(ip, e) == Matches(ip, e) /\ e.mask > 0

(* Longest prefix match, as a relation: r is the best of the first n       *)
(* entries for ip if it is a candidate with the longest mask, and comes    *)
(* first among equals; there is none only if there is no candidate.        *)
IsBest(r, n, ip) ==
    /\ r = NULL => \A j \in 1 .. n : ~Candidate(ip, routing_table[j])
    /\ r # NULL => /\ r \in 1 .. n
                   /\ Candidate(ip, routing_table[r])
                   /\ \A j \in 1 .. n : Candidate(ip, routing_table[j]) =>
                         \/ routing_table[j].mask < routing_table[r].mask
                         \/ routing_table[j].mask = routing_table[r].mask /\ r <= j

(* sr_findLPMentry() returns the longest match among the entries that are  *)
(* not default routes, whatever the order of the table and wherever        *)
(* default routes stand in it, the first one of several equal entries, and *)
(* none if only default routes match.                                      *)
LongestMatchFound == pc = "found" => IsBest(lpmentry, Len(routing_table), ip_dst)
=============================================================================
