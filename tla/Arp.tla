----------------------------------- MODULE Arp -----------------------------------
(* The table of arp.c.  The replies that the notifier of the card receives go *)
(* into it; processes that send a UDP packet look addresses up.               *)
EXTENDS Integers, Sequences

CONSTANTS
  ARP_TABLE_SIZE,
  IpAddr,          \* IP addresses
  ZeroIp,          \* 0.0.0.0, which is what an entry that was never filled holds
  Mac,             \* hardware addresses
  ZeroMac

ASSUME ArpAssumption ==
  ARP_TABLE_SIZE \in Nat \ {0} /\ ZeroIp \in IpAddr /\ ZeroMac \in Mac

VARIABLES
  arp_table,       \* slot |-> init, ip, mac
  heard            \* the addresses the replies gave, the latest of each host

arp_vars == <<arp_table, heard>>

Slots == 0 .. ARP_TABLE_SIZE - 1
EmptySlot == [init |-> FALSE, ip |-> ZeroIp, mac |-> ZeroMac]

ArpInit ==
  /\ arp_table = [s \in Slots |-> EmptySlot]
  /\ heard = << >>

\* The first slot of a set: the loops run upwards and leave at a match.
First(S) == CHOOSE s \in S : \A t \in S : s <= t

Matches(ip) == {s \in Slots : arp_table[s].ip = ip}

\* Variant: the loop ends one slot early.
Unused_short == {s \in Slots : ~arp_table[s].init /\ s + 1 \in Slots}

Unused == {s \in Slots : ~arp_table[s].init}

(* A known host gets its new address, a new one the first unused slot; when   *)
(* there is none the reply is dropped.                                        *)
arp_add_cache(ip, mac) ==
  /\ \/ /\ Matches(ip) # {}
        /\ arp_table' = [arp_table EXCEPT ![First(Matches(ip))].mac = mac]
     \/ /\ Matches(ip) = {} /\ Unused # {}
        /\ arp_table' = [arp_table EXCEPT ![First(Unused)] =
                           [init |-> TRUE, ip |-> ip, mac |-> mac]]
     \/ /\ Matches(ip) = {} /\ Unused = {}
        /\ UNCHANGED arp_table
  /\ heard' = [i \in DOMAIN heard \cup {ip} |-> IF i = ip THEN mac ELSE heard[i]]

arp_ip_to_mac_found(ip) == Matches(ip) # {}
arp_ip_to_mac(ip) == arp_table[First(Matches(ip))].mac

ArpNext == \E ip \in IpAddr, mac \in Mac : arp_add_cache(ip, mac)

ArpSpec == ArpInit /\ [][ArpNext]_arp_vars

-------------------------------------------------------------------------------
\* What is found for a host is what it said last, whatever was said by and
\* about others before and since.
FoundIsLatest ==
  \A ip \in IpAddr \ {ZeroIp} :
    arp_ip_to_mac_found(ip) => /\ ip \in DOMAIN heard
                               /\ arp_ip_to_mac(ip) = heard[ip]

\* A host that answered is not found only when the table is full of others,
\* each of which can still be found: nothing is evicted.
LostOnlyIfFull ==
  \A ip \in DOMAIN heard \ {ZeroIp} :
    ~arp_ip_to_mac_found(ip) =>
      \A s \in Slots : arp_table[s].init /\ First(Matches(arp_table[s].ip)) = s

\* What arp_ip_to_mac finds for a host is what this host said last; it finds
\* nothing for a host that answered only if the table is full of others.
LatestAddress == FoundIsLatest /\ LostOnlyIfFull
===============================================================================
