---------------------------- MODULE Devices_proofs ----------------------------
(* Theorems about devices: the table of arp.c, of any size and for any hosts;   *)
(* the packed entries of a file allocation table, in memory and on its device;  *)
(* the network card's driver, whose two processes share the card; the checksums *)
(* of UDP packets of any length and contents; the automaton of the keyboard's   *)
(* notifier; and the names of files.                                            *)
EXTENDS Ne2k, Protocol, FatTable, FatNames, ScanCodes, WellFoundedInduction, TLAPS

-------------------------------------------------------------------------------
(* The table of arp.c.                                                         *)

\* A non-empty set of natural numbers has a least element.
LEMMA LeastNumber ==
  ASSUME NEW T \in SUBSET Nat, T # {}
  PROVE  \E x \in T : \A y \in T : x <= y
<1>1. \E x \in T : \A y \in T : ~ (<<y, x>> \in OpToRel(<, Nat))
  BY NatLessThanWellFounded, WFMin
<1>2. PICK x \in T : \A y \in T : ~ (<<y, x>> \in OpToRel(<, Nat))
  BY <1>1
<1>3. ASSUME NEW y \in T PROVE x <= y
  <2>1. ~ (y < x)
    BY <1>2 DEF OpToRel
  <2>2. QED
    BY <2>1
<1>4. QED
  BY <1>3

\* The loops of arp.c end at a slot that they look for.
LEMMA FirstFacts ==
  ASSUME NEW S \in SUBSET Slots, S # {}
  PROVE  First(S) \in S
<1>1. S \in SUBSET Nat
  BY ArpAssumption DEF Slots
<1>2. PICK x \in S : \A y \in S : x <= y
  BY <1>1, LeastNumber
<1>3. QED
  BY <1>2 DEF First

\* A slot is in use exactly when it has a host, which has no other slot; it holds
\* what this host said last; and a host that was turned away found no slot unused.
ArpInv ==
  /\ arp_table \in [Slots -> [init : BOOLEAN, ip : IpAddr, mac : Mac]]
  /\ \A s \in Slots : arp_table[s].init <=> arp_table[s].ip # ZeroIp
  /\ \A s, t \in Slots : arp_table[s].ip = arp_table[t].ip /\ arp_table[s].init => s = t
  /\ \A s \in Slots : arp_table[s].init =>
       arp_table[s].ip \in DOMAIN heard /\ arp_table[s].mac = heard[arp_table[s].ip]
  /\ \A a \in DOMAIN heard \ {ZeroIp} : Matches(a) = {} => Unused = {}

\* The slot of a host is found by its address.
LEMMA SlotOfHost ==
  ASSUME ArpInv, NEW s \in Slots, arp_table[s].init
  PROVE  Matches(arp_table[s].ip) = {s} /\ First(Matches(arp_table[s].ip)) = s
<1>1. Matches(arp_table[s].ip) = {s}
  BY DEF ArpInv, Matches
<1>2. First({s}) = s
  BY FirstFacts, <1>1
<1>3. QED
  BY <1>1, <1>2

\* arp_add_cache() for a host that is in the table.
LEMMA KnownHost ==
  ASSUME ArpInv, NEW a \in IpAddr, NEW m \in Mac, arp_add_cache(a, m), Matches(a) # {}
  PROVE  ArpInv'
<1> DEFINE k == First(Matches(a))
<1>1. k \in Slots /\ arp_table[k].ip = a
  <2>1. Matches(a) \in SUBSET Slots
    BY DEF Matches
  <2>2. QED
    BY <2>1, FirstFacts DEF Matches
<1> HIDE DEF k
<1>2. /\ arp_table' = [arp_table EXCEPT ![k].mac = m]
      /\ heard' = [x \in DOMAIN heard \cup {a} |-> IF x = a THEN m ELSE heard[x]]
  BY DEF arp_add_cache, k
<1>3. /\ arp_table' \in [Slots -> [init : BOOLEAN, ip : IpAddr, mac : Mac]]
      /\ \A s \in Slots : /\ arp_table'[s].init = arp_table[s].init
                          /\ arp_table'[s].ip = arp_table[s].ip
                          /\ arp_table'[s].mac = IF s = k THEN m ELSE arp_table[s].mac
  BY <1>1, <1>2 DEF ArpInv
<1>4. Unused' = Unused /\ \A x \in IpAddr : Matches(x)' = Matches(x)
  BY <1>3 DEF Unused, Matches
<1>5. ASSUME NEW s \in Slots, arp_table'[s].init
      PROVE  arp_table'[s].ip \in DOMAIN heard' /\ arp_table'[s].mac = heard'[arp_table'[s].ip]
  <2>1. arp_table[s].ip \in DOMAIN heard /\ arp_table[s].mac = heard[arp_table[s].ip]
    BY <1>3, <1>5 DEF ArpInv
  <2>2. s = k <=> arp_table[s].ip = a
    BY <1>1, <1>3, <1>5 DEF ArpInv
  <2>3. QED
    BY <1>2, <1>3, <2>1, <2>2
<1>6. ASSUME NEW x \in DOMAIN heard' \ {ZeroIp}, Matches(x)' = {} PROVE Unused' = {}
  <2>1. x # a
    BY <1>3, <1>1, <1>6 DEF Matches
  <2>2. x \in DOMAIN heard
    BY <1>2, <2>1
  <2>3. Matches(x) = {}
    BY <1>3, <1>6 DEF Matches
  <2>4. QED
    BY <1>4, <2>2, <2>3 DEF ArpInv
<1>7. QED
  BY <1>3, <1>5, <1>6 DEF ArpInv

\* arp_add_cache() for a host that gets a slot of its own.
LEMMA NewHost ==
  ASSUME ArpInv, NEW a \in IpAddr, NEW m \in Mac, arp_add_cache(a, m),
         Matches(a) = {}, Unused # {}
  PROVE  ArpInv'
<1> DEFINE k == First(Unused)
<1>1. k \in Slots /\ ~ arp_table[k].init
  <2>1. Unused \in SUBSET Slots
    BY DEF Unused
  <2>2. QED
    BY <2>1, FirstFacts DEF Unused
<1> HIDE DEF k
<1>2. /\ arp_table' = [arp_table EXCEPT ![k] = [init |-> TRUE, ip |-> a, mac |-> m]]
      /\ heard' = [x \in DOMAIN heard \cup {a} |-> IF x = a THEN m ELSE heard[x]]
  BY DEF arp_add_cache, k
<1>3. \A s \in Slots : arp_table[s].ip # a
  BY DEF Matches
<1>4. a # ZeroIp
  BY <1>1, <1>3 DEF ArpInv
<1>5. /\ arp_table' \in [Slots -> [init : BOOLEAN, ip : IpAddr, mac : Mac]]
      /\ arp_table'[k] = [init |-> TRUE, ip |-> a, mac |-> m]
      /\ \A s \in Slots \ {k} : arp_table'[s] = arp_table[s]
  BY <1>1, <1>2 DEF ArpInv
<1>6. ASSUME NEW s \in Slots, arp_table'[s].init
      PROVE  arp_table'[s].ip \in DOMAIN heard' /\ arp_table'[s].mac = heard'[arp_table'[s].ip]
  BY <1>2, <1>3, <1>5, <1>6 DEF ArpInv
<1>7. ASSUME NEW x \in DOMAIN heard' \ {ZeroIp}, Matches(x)' = {} PROVE Unused' = {}
  <2>1. x # a
    BY <1>1, <1>5, <1>7 DEF Matches
  <2>2. x \in DOMAIN heard
    BY <1>2, <2>1
  <2>3. Matches(x) = {}
    BY <1>1, <1>5, <1>7, <2>1 DEF Matches, ArpInv
  <2>4. QED
    BY <1>1, <2>2, <2>3 DEF ArpInv, Unused
<1>8. ASSUME NEW s \in Slots, NEW t \in Slots,
             arp_table'[s].ip = arp_table'[t].ip, arp_table'[s].init
      PROVE  s = t
  BY <1>3, <1>5, <1>8 DEF ArpInv
<1>9. \A s \in Slots : arp_table'[s].init <=> arp_table'[s].ip # ZeroIp
  BY <1>4, <1>5 DEF ArpInv
<1>10. QED
  BY <1>5, <1>6, <1>7, <1>8, <1>9 DEF ArpInv

\* arp_add_cache() for a host that finds the table full.
LEMMA HostTurnedAway ==
  ASSUME ArpInv, NEW a \in IpAddr, NEW m \in Mac, arp_add_cache(a, m),
         Matches(a) = {}, Unused = {}
  PROVE  ArpInv'
<1>1. /\ arp_table' = arp_table
      /\ heard' = [x \in DOMAIN heard \cup {a} |-> IF x = a THEN m ELSE heard[x]]
  BY DEF arp_add_cache
<1>2. \A s \in Slots : arp_table[s].ip # a
  BY DEF Matches
<1>3. Unused' = {}
  BY <1>1 DEF Unused
<1>4. QED
  BY <1>1, <1>2, <1>3 DEF ArpInv

\* Every reply keeps the invariant.
LEMMA ArpStep ==
  ASSUME ArpInv,
         UNCHANGED arp_vars \/ \E ip \in IpAddr, mac \in Mac : arp_add_cache(ip, mac)
  PROVE  ArpInv'
<1>1. CASE UNCHANGED arp_vars
  BY <1>1 DEF arp_vars, ArpInv, Matches, Unused
<1>2. CASE \E ip \in IpAddr, mac \in Mac : arp_add_cache(ip, mac)
  BY <1>2, KnownHost, NewHost, HostTurnedAway
<1>3. QED
  BY <1>1, <1>2

\* The invariant says what is found.
LEMMA ArpLatest == ArpInv => LatestAddress
<1>1. ArpInv => FoundIsLatest
  <2> SUFFICES ASSUME ArpInv, NEW a \in IpAddr \ {ZeroIp}, Matches(a) # {}
               PROVE  a \in DOMAIN heard /\ arp_ip_to_mac(a) = heard[a]
    BY DEF FoundIsLatest, arp_ip_to_mac_found
  <2>1. PICK s \in Slots : arp_table[s].ip = a
    BY DEF Matches
  <2>2. arp_table[s].init
    BY <2>1 DEF ArpInv
  <2>3. First(Matches(a)) = s
    BY <2>1, <2>2, SlotOfHost
  <2>4. QED
    BY <2>1, <2>2, <2>3 DEF ArpInv, arp_ip_to_mac
<1>2. ArpInv => LostOnlyIfFull
  <2> SUFFICES ASSUME ArpInv, NEW a \in DOMAIN heard \ {ZeroIp}, Matches(a) = {},
                      NEW s \in Slots
               PROVE  arp_table[s].init /\ First(Matches(arp_table[s].ip)) = s
    BY DEF LostOnlyIfFull, arp_ip_to_mac_found
  <2>1. arp_table[s].init
    BY DEF ArpInv, Unused
  <2>2. QED
    BY <2>1, SlotOfHost
<1>3. QED
  BY <1>1, <1>2 DEF LatestAddress

\* The table is empty at first.
LEMMA ArpInitially == ArpInit => ArpInv
BY ArpAssumption DEF ArpInit, ArpInv, EmptySlot, Matches, Unused

\* The invariant holds of every table of arp.c.
LEMMA ArpInvariance == ArpSpec => []ArpInv
<1>1. ArpInv /\ [ArpNext]_arp_vars => ArpInv'
  BY ArpStep DEF ArpNext
<1>2. QED
  BY <1>1, ArpInitially, PTL DEF ArpSpec

\* Whatever replies come in whatever order: an address that arp_ip_to_mac() finds
\* is the one its host gave last, and a host that answered is missing only from a
\* table that is full of others, all of which can be found.
THEOREM AddressesAreLatest == ArpSpec => []LatestAddress
BY ArpLatest, ArpInvariance, PTL

-------------------------------------------------------------------------------
(* The file allocation table: numbers.                                         *)

\* A byte is two half bytes, and a word is two bytes.
LEMMA Halves ==
  /\ \A w \in Nat : w < 65536 => /\ w \div 256 \in Nat /\ w \div 256 < 256
                                 /\ w % 256 \in Nat /\ w % 256 < 256
                                 /\ (w % 256) + 256 * (w \div 256) = w
  /\ \A x, y \in Nat : x < 256 /\ y < 256 => x + 256 * y \in Nat /\ x + 256 * y < 65536
<1>1. ASSUME NEW w \in Nat, w < 65536
      PROVE  /\ w \div 256 \in Nat /\ w \div 256 < 256
             /\ w % 256 \in Nat /\ w % 256 < 256
             /\ (w % 256) + 256 * (w \div 256) = w
  BY <1>1
<1>2. ASSUME NEW x \in Nat, NEW y \in Nat, x < 256, y < 256
      PROVE  x + 256 * y \in Nat /\ x + 256 * y < 65536
  BY <1>2
<1>3. QED
  BY <1>1, <1>2

\* The words that have the given bits.
LEMMA Bits ==
  ASSUME NEW v \in Nat, v < 4096, NEW q \in Nat, q < 16
  PROVE  /\ v + q * 4096 \in Nat /\ v + q * 4096 < 65536
         /\ (v + q * 4096) % 4096 = v
         /\ ((v + q * 4096) \div 256) \div 16 = q
         /\ v * 16 + q \in Nat /\ v * 16 + q < 65536
         /\ (v * 16 + q) \div 16 = v
         /\ ((v * 16 + q) % 256) % 16 = q
<1>1. v + q * 4096 \in Nat /\ v + q * 4096 < 65536
  OBVIOUS
<1>2. (v + q * 4096) % 4096 = v
  OBVIOUS
<1>3. ((v + q * 4096) \div 256) \div 16 = q
  OBVIOUS
<1>4. v * 16 + q \in Nat /\ v * 16 + q < 65536
  OBVIOUS
<1>5. (v * 16 + q) \div 16 = v
  OBVIOUS
<1>6. ((v * 16 + q) % 256) % 16 = q
  OBVIOUS
<1>7. QED
  BY <1>1, <1>2, <1>3, <1>4, <1>5, <1>6

\* The half bytes of a byte, the two ways in which an entry lies in the word of
\* its two bytes, and the words that are written for a value.
High(b) == b \div 16
Low(b) == b % 16
UpperBits(x, y) == (x + 256 * y) \div 16
LowerBits(x, y) == (x + 256 * y) % 4096
OddWord(x, y, v) == v * 16 + ((x + 256 * y) % 16)
EvenWord(x, y, v) == (v % 4096) + ((x + 256 * y) \div 4096) * 4096

\* The entry with an even number, and what it leaves of the byte it shares.
LEMMA EvenEntry ==
  ASSUME NEW x \in Nat, x < 256, NEW y \in Nat, y < 256, NEW v \in Nat, v < 4096
  PROVE  LET w == EvenWord(x, y, v)
         IN  w \in Nat /\ w < 65536 /\ w % 4096 = v /\ High(w \div 256) = High(y)
<1>1. /\ y \div 16 \in Nat /\ y \div 16 < 16
      /\ (x + 256 * y) \div 4096 = y \div 16
  OBVIOUS
<1>2. v % 4096 = v
  OBVIOUS
<1>3. EvenWord(x, y, v) = v + (y \div 16) * 4096
  BY <1>1, <1>2 DEF EvenWord
<1>4. QED
  BY <1>1, <1>3, Bits DEF High

\* The entry with an odd number, and what it leaves of the byte it shares.
LEMMA OddEntry ==
  ASSUME NEW x \in Nat, x < 256, NEW y \in Nat, y < 256, NEW v \in Nat, v < 4096
  PROVE  LET w == OddWord(x, y, v)
         IN  w \in Nat /\ w < 65536 /\ w \div 16 = v /\ Low(w % 256) = Low(x)
<1>1. /\ x % 16 \in Nat /\ x % 16 < 16
      /\ (x + 256 * y) % 16 = x % 16
  OBVIOUS
<1>2. OddWord(x, y, v) = v * 16 + (x % 16)
  BY <1>1 DEF OddWord
<1>3. QED
  BY <1>1, <1>2, Bits DEF Low

\* Of the byte that it shares an entry reads only its own half.
LEMMA SharedByte ==
  ASSUME NEW x \in Nat, NEW y \in Nat, NEW z \in Nat
  PROVE  /\ High(x) = High(y) => UpperBits(x, z) = UpperBits(y, z)
         /\ Low(x) = Low(y) => LowerBits(z, x) = LowerBits(z, y)
<1>1. (x + 256 * z) \div 16 = x \div 16 + 16 * z /\ (y + 256 * z) \div 16 = y \div 16 + 16 * z
  OBVIOUS
<1>2. x % 16 = y % 16 => (z + 256 * x) % 4096 = (z + 256 * y) % 4096
  OBVIOUS
<1>3. QED
  BY <1>1, <1>2 DEF High, Low, UpperBits, LowerBits

-------------------------------------------------------------------------------
(* The file allocation table: entries and sectors.                             *)

\* The tools load the table from the sector behind the boot sector, where it is
\* if no other sectors are reserved.
OneReserved == TableFits /\ RsvdSecCnt = 1

\* A table of bytes.
Bytes(tab) ==
  /\ tab \in [Table_bytes -> Nat]
  /\ \A b \in Table_bytes : tab[b] < 256

\* The bytes of the table, and those of the device up to its end.
LEMMA Sizes ==
  ASSUME OneReserved
  PROVE  /\ FatSize * BytesPerSec \in Nat /\ BytesPerSec \in Nat
         /\ TotalClusters \in Nat /\ FatSize * BytesPerSec >= 2 * (TotalClusters + 2)
         /\ Table_bytes = 0 .. FatSize * BytesPerSec - 1
         /\ Device_bytes = 0 .. FatSize * BytesPerSec + BytesPerSec - 1
<1>1. /\ FatSize \in Nat /\ BytesPerSec \in Nat /\ TotalClusters \in Nat /\ RsvdSecCnt = 1
      /\ FatSize * BytesPerSec >= 2 * (TotalClusters + 2)
  BY DEF OneReserved, TableFits
<1>2. FatSize * BytesPerSec \in Nat
  BY <1>1
<1>3. (1 + FatSize) * BytesPerSec = FatSize * BytesPerSec + BytesPerSec
  BY <1>1
<1>4. Device_bytes = 0 .. FatSize * BytesPerSec + BytesPerSec - 1
  BY <1>1, <1>3 DEF Device_bytes
<1>5. QED
  BY <1>1, <1>2, <1>4 DEF Table_bytes

\* Both bytes of an entry are in the table.
LEMMA EntryFits ==
  ASSUME OneReserved, fat_type \in {12, 16}, NEW c \in Clusters
  PROVE  /\ c \in Nat /\ Offset(c) \in Nat
         /\ Offset(c) \in Table_bytes /\ Offset(c) + 1 \in Table_bytes
<1>1. c \in Nat /\ TotalClusters \in Nat /\ c <= TotalClusters + 1
  BY Sizes DEF Clusters
<1>2. c \div 2 \in Nat /\ c \div 2 <= c
  BY <1>1
<1>3. Offset(c) \in Nat /\ Offset(c) <= 2 * c
  BY <1>1, <1>2 DEF Offset
<1>4. QED
  BY <1>1, <1>3, Sizes

\* An entry lies in the sectors that are written.
LEMMA EntryInSectors ==
  ASSUME OneReserved, fat_type \in {12, 16}, NEW c \in Clusters
  PROVE  LET first == (Offset(c) \div BytesPerSec) * BytesPerSec
         IN  /\ first \in Nat /\ first <= Offset(c)
             /\ Offset(c) + 1 < first + Sectors_of(c) * BytesPerSec
             /\ Sectors_of(c) * BytesPerSec \in Nat
<1> DEFINE o == Offset(c)
           q == o \div BytesPerSec
           r == o % BytesPerSec
<1>1. BytesPerSec \in Nat \ {0} /\ BytesPerSec % 2 = 0
  BY DEF OneReserved, TableFits
<1>2. c \in Nat /\ o \in Nat
  BY EntryFits
<1>3. q \in Nat /\ r \in Nat /\ r < BytesPerSec /\ o = q * BytesPerSec + r
  BY <1>1, <1>2
<1>4. q * BytesPerSec \in Nat
  BY <1>1, <1>3
<1>5. ASSUME fat_type = 16 PROVE r # BytesPerSec - 1
  <2>1. o = 2 * c
    BY <1>2, <1>5 DEF Offset
  <2>2. PICK h \in Nat : BytesPerSec = 2 * h
    BY <1>1
  <2>3. q * BytesPerSec = 2 * (q * h)
    BY <1>3, <2>2
  <2>4. q * h \in Nat
    BY <1>3, <2>2
  <2> HIDE DEF o, q, r
  <2>5. QED
    BY <1>2, <1>3, <2>1, <2>2, <2>3, <2>4
<1>6. /\ Sectors_of(c) = 2 \/ (Sectors_of(c) = 1 /\ r # BytesPerSec - 1)
  BY <1>5 DEF Sectors_of
<1>7. /\ Sectors_of(c) * BytesPerSec \in Nat
      /\ o + 1 < q * BytesPerSec + Sectors_of(c) * BytesPerSec
  <2>1. CASE Sectors_of(c) = 2
    <3>1. Sectors_of(c) * BytesPerSec = BytesPerSec + BytesPerSec
      BY <1>1, <2>1
    <3> HIDE DEF o, q, r
    <3>2. QED
      BY <1>1, <1>2, <1>3, <1>4, <3>1
  <2>2. CASE Sectors_of(c) = 1 /\ r # BytesPerSec - 1
    <3>1. Sectors_of(c) * BytesPerSec = BytesPerSec
      BY <1>1, <2>2
    <3> HIDE DEF o, q
    <3>2. QED
      BY <1>1, <1>2, <1>3, <1>4, <2>2, <3>1
  <2>3. QED
    BY <1>6, <2>1, <2>2
<1>8. QED
  BY <1>3, <1>4, <1>7

\* Writing a word changes two bytes.
LEMMA WordPut ==
  ASSUME NEW tab, Bytes(tab), NEW o \in Table_bytes, o \in Nat, o + 1 \in Table_bytes,
         NEW w \in Nat, w < 65536
  PROVE  LET new == Put_word(tab, o, w)
         IN  /\ Bytes(new)
             /\ new[o] = w % 256 /\ new[o + 1] = w \div 256
             /\ Word_at(new, o) = w
             /\ \A b \in Table_bytes \ {o, o + 1} : new[b] = tab[b]
<1> DEFINE new == Put_word(tab, o, w)
<1>1. /\ w \div 256 \in Nat /\ w \div 256 < 256
      /\ w % 256 \in Nat /\ w % 256 < 256
      /\ (w % 256) + 256 * (w \div 256) = w
  BY Halves
<1>2. o # o + 1
  OBVIOUS
<1>3. /\ new \in [Table_bytes -> Nat]
      /\ new[o] = w % 256 /\ new[o + 1] = w \div 256
      /\ \A b \in Table_bytes \ {o, o + 1} : new[b] = tab[b]
  BY <1>1, <1>2 DEF Put_word, Bytes
<1>4. Word_at(new, o) = w
  BY <1>1, <1>3 DEF Word_at
<1>5. Bytes(new)
  BY <1>1, <1>3 DEF Bytes
<1> HIDE DEF new
<1>6. QED
  BY <1>3, <1>4, <1>5 DEF new

\* What an entry reads, from its two bytes.
LEMMA EntryReads ==
  ASSUME OneReserved, fat_type = 12, NEW tab, Bytes(tab), NEW c \in Clusters
  PROVE  /\ \E k \in Nat :
              \/ c = 2 * k /\ Offset(c) = 3 * k /\ c % 2 = 0
              \/ c = 2 * k + 1 /\ Offset(c) = 3 * k + 1 /\ c % 2 = 1
         /\ fs_get_fat_cluster_entry(tab, c) =
              IF c % 2 = 1 THEN Word_at(tab, Offset(c)) \div 16
                           ELSE Word_at(tab, Offset(c)) % 4096
<1>1. c \in Nat
  BY EntryFits
<1>2. Offset(c) = c + c \div 2
  BY DEF Offset
<1>3. PICK k \in Nat : c = 2 * k \/ c = 2 * k + 1
  <2>1. c \div 2 \in Nat /\ (c = 2 * (c \div 2) \/ c = 2 * (c \div 2) + 1)
    BY <1>1
  <2>2. QED
    BY <2>1
<1>4. c = 2 * k => Offset(c) = 3 * k /\ c % 2 = 0
  BY <1>2, <1>3
<1>5. c = 2 * k + 1 => Offset(c) = 3 * k + 1 /\ c % 2 = 1
  BY <1>2, <1>3
<1>6. QED
  BY <1>3, <1>4, <1>5 DEF fs_get_fat_cluster_entry

\* Setting a FAT12 entry sets it, although its neighbour shares a byte with it.
LEMMA Packed12 ==
  ASSUME OneReserved, fat_type = 12, NEW tab, Bytes(tab), NEW c \in Clusters,
         NEW v \in Nat, v < 4096
  PROVE  LET w == Packed(tab, c, v)
             new == Put_word(tab, Offset(c), w)
         IN  /\ w \in Nat /\ w < 65536
             /\ fs_get_fat_cluster_entry(new, c) = v
             /\ \A d \in Clusters \ {c} :
                  fs_get_fat_cluster_entry(new, d) = fs_get_fat_cluster_entry(tab, d)
<1> DEFINE o == Offset(c)
           w == Packed(tab, c, v)
           new == Put_word(tab, o, w)
           x == tab[o]
           y == tab[o + 1]
<1>1. o \in Nat /\ o \in Table_bytes /\ o + 1 \in Table_bytes
  BY EntryFits
<1>2. x \in Nat /\ x < 256 /\ y \in Nat /\ y < 256
  BY <1>1 DEF Bytes
<1>3. w = IF c % 2 = 1 THEN OddWord(x, y, v) ELSE EvenWord(x, y, v)
  BY DEF Packed, Word_at, OddWord, EvenWord
<1>4. /\ w \in Nat /\ w < 65536
      /\ c % 2 = 1 => w \div 16 = v /\ Low(w % 256) = Low(x)
      /\ c % 2 # 1 => w % 4096 = v /\ High(w \div 256) = High(y)
  <2> HIDE DEF o, w, x, y
  <2>1. CASE c % 2 = 1
    BY <1>2, <1>3, <2>1, OddEntry
  <2>2. CASE c % 2 # 1
    BY <1>2, <1>3, <2>2, EvenEntry
  <2>3. QED
    BY <2>1, <2>2
<1>5. /\ Bytes(new)
      /\ new[o] = w % 256 /\ new[o + 1] = w \div 256
      /\ Word_at(new, o) = w
      /\ \A b \in Table_bytes \ {o, o + 1} : new[b] = tab[b]
  <2> HIDE DEF o, w
  <2>1. QED
    BY <1>1, <1>4, WordPut
<1> HIDE DEF w, new, x, y
<1>6. fs_get_fat_cluster_entry(new, c) = v
  BY <1>4, <1>5, EntryReads
<1>7. ASSUME NEW d \in Clusters \ {c}
      PROVE  fs_get_fat_cluster_entry(new, d) = fs_get_fat_cluster_entry(tab, d)
  <2> DEFINE e == Offset(d)
  <2>1. e \in Nat /\ e \in Table_bytes /\ e + 1 \in Table_bytes
    BY EntryFits
  <2>2. PICK k \in Nat : \/ c = 2 * k /\ o = 3 * k /\ c % 2 = 0
                         \/ c = 2 * k + 1 /\ o = 3 * k + 1 /\ c % 2 = 1
    BY EntryReads
  <2>3. PICK j \in Nat : \/ d = 2 * j /\ e = 3 * j /\ d % 2 = 0
                         \/ d = 2 * j + 1 /\ e = 3 * j + 1 /\ d % 2 = 1
    BY EntryReads
  <2> HIDE DEF o, e
  <2>4. \/ e \notin {o, o + 1} /\ e + 1 \notin {o, o + 1}
        \/ c % 2 = 0 /\ d % 2 = 1 /\ e = o + 1 /\ e + 1 \notin {o, o + 1}
        \/ c % 2 = 1 /\ d % 2 = 0 /\ e + 1 = o /\ e \notin {o, o + 1}
    BY <2>2, <2>3
  <2>5. CASE e \notin {o, o + 1} /\ e + 1 \notin {o, o + 1}
    <3>1. Word_at(new, e) = Word_at(tab, e)
      BY <1>5, <2>1, <2>5 DEF Word_at
    <3>2. QED
      BY <3>1 DEF fs_get_fat_cluster_entry, e
  <2>6. CASE c % 2 = 0 /\ d % 2 = 1 /\ e = o + 1 /\ e + 1 \notin {o, o + 1}
    <3>1. /\ High(new[e]) = High(tab[e]) /\ new[e + 1] = tab[e + 1]
          /\ new[e] \in Nat /\ tab[e] \in Nat /\ tab[e + 1] \in Nat
      BY <1>4, <1>5, <2>1, <2>6 DEF y, Bytes
    <3>2. UpperBits(new[e], new[e + 1]) = UpperBits(tab[e], tab[e + 1])
      BY <3>1, SharedByte
    <3>3. QED
      BY <1>5, <2>6, <3>2, EntryReads DEF e, UpperBits, Word_at
  <2>7. CASE c % 2 = 1 /\ d % 2 = 0 /\ e + 1 = o /\ e \notin {o, o + 1}
    <3>1. /\ Low(new[e + 1]) = Low(tab[e + 1]) /\ new[e] = tab[e]
          /\ new[e + 1] \in Nat /\ tab[e + 1] \in Nat /\ tab[e] \in Nat
      BY <1>4, <1>5, <2>1, <2>7 DEF x, Bytes
    <3>2. LowerBits(new[e], new[e + 1]) = LowerBits(tab[e], tab[e + 1])
      BY <3>1, SharedByte
    <3>3. QED
      BY <1>5, <2>7, <3>2, EntryReads DEF e, LowerBits, Word_at
  <2>8. QED
    BY <2>4, <2>5, <2>6, <2>7
<1>8. QED
  BY <1>4, <1>6, <1>7 DEF w, new, o

\* Setting a FAT16 entry sets it and no other.
LEMMA Packed16 ==
  ASSUME OneReserved, fat_type = 16, NEW tab, Bytes(tab), NEW c \in Clusters,
         NEW v \in Nat, v < 65536
  PROVE  LET w == Packed(tab, c, v)
             new == Put_word(tab, Offset(c), w)
         IN  /\ w \in Nat /\ w < 65536
             /\ fs_get_fat_cluster_entry(new, c) = v
             /\ \A d \in Clusters \ {c} :
                  fs_get_fat_cluster_entry(new, d) = fs_get_fat_cluster_entry(tab, d)
<1> DEFINE o == Offset(c)
           new == Put_word(tab, o, v)
<1>1. \A d \in Clusters : /\ Offset(d) = 2 * d /\ d \in Nat
                          /\ Offset(d) \in Table_bytes /\ Offset(d) + 1 \in Table_bytes
                          /\ \A m : fs_get_fat_cluster_entry(m, d) = Word_at(m, Offset(d))
  BY EntryFits DEF Offset, fs_get_fat_cluster_entry
<1>2. /\ Word_at(new, o) = v
      /\ \A b \in Table_bytes \ {o, o + 1} : new[b] = tab[b]
  BY <1>1, WordPut
<1>3. ASSUME NEW d \in Clusters \ {c}
      PROVE  Word_at(new, Offset(d)) = Word_at(tab, Offset(d))
  <2>1. Offset(d) \notin {o, o + 1} /\ Offset(d) + 1 \notin {o, o + 1}
    BY <1>1
  <2> HIDE DEF new
  <2>2. QED
    BY <1>1, <1>2, <2>1 DEF Word_at
<1>4. Packed(tab, c, v) = v
  BY DEF Packed
<1> HIDE DEF new
<1>5. QED
  BY <1>1, <1>2, <1>3, <1>4 DEF new

-------------------------------------------------------------------------------
(* The file allocation table: the specification.                               *)

\* The device has the table that is in memory, and its entries are what was set.
FatInv ==
  /\ fat_type \in {12, 16}
  /\ Bytes(fat)
  /\ DOMAIN device = Device_bytes
  /\ table \in [Clusters -> Nat]
  /\ \A b \in Table_bytes : device[b + BytesPerSec] = fat[b]
  /\ EntriesKept

\* The sectors that are written take the two changed bytes to their place.
LEMMA WrittenThrough ==
  ASSUME OneReserved, FatInv, NEW c \in Clusters, NEW v, fs_set_fat_cluster_entry(c, v),
         \A b \in Table_bytes \ {Offset(c), Offset(c) + 1} : fat'[b] = fat[b]
  PROVE  /\ DOMAIN device' = Device_bytes
         /\ \A b \in Table_bytes : device'[b + BytesPerSec] = fat'[b]
<1> DEFINE o == Offset(c)
           first == (o \div BytesPerSec) * BytesPerSec
           num == Sectors_of(c) * BytesPerSec
<1>1. /\ o \in Nat /\ first \in Nat /\ num \in Nat
      /\ first <= o /\ o + 1 < first + num
  BY EntryFits, EntryInSectors DEF FatInv
<1>2. device' = fs_bio_write(device, fat', first, RsvdSecCnt * BytesPerSec + first, num)
  BY DEF fs_set_fat_cluster_entry
<1>3. BytesPerSec \in Nat /\ RsvdSecCnt * BytesPerSec + first = BytesPerSec + first
  <2>1. BytesPerSec \in Nat /\ RsvdSecCnt = 1
    BY Sizes DEF OneReserved
  <2> HIDE DEF first
  <2>2. QED
    BY <2>1, <1>1
<1> HIDE DEF first, num, o
<1>4. device' = [b \in Device_bytes |->
                   IF b \in BytesPerSec + first .. BytesPerSec + first + num - 1
                   THEN fat'[b - (BytesPerSec + first) + first] ELSE device[b]]
  BY <1>2, <1>3 DEF fs_bio_write, FatInv
<1>5. ASSUME NEW b \in Table_bytes PROVE device'[b + BytesPerSec] = fat'[b]
  <2>1. b \in Nat /\ b + BytesPerSec \in Device_bytes
    BY <1>3, Sizes
  <2>2. CASE b \in first .. first + num - 1
    <3>1. b + BytesPerSec \in BytesPerSec + first .. BytesPerSec + first + num - 1
      BY <1>1, <1>3, <2>1, <2>2
    <3>2. ((b + BytesPerSec) - (BytesPerSec + first)) + first = b
      BY <1>1, <1>3, <2>1
    <3>3. QED
      BY <1>4, <2>1, <3>1, <3>2
  <2>3. CASE b \notin first .. first + num - 1
    <3>1. b + BytesPerSec \notin BytesPerSec + first .. BytesPerSec + first + num - 1
      BY <1>1, <1>3, <2>1, <2>3
    <3>2. b # o /\ b # o + 1
      BY <1>1, <2>1, <2>3
    <3>3. fat'[b] = fat[b]
      BY <3>2 DEF o
    <3>4. QED
      BY <1>4, <2>1, <3>1, <3>3 DEF FatInv
  <2>4. QED
    BY <2>2, <2>3
<1>6. QED
  BY <1>4, <1>5

\* Setting an entry.
LEMMA SetStep ==
  ASSUME OneReserved, FatInv, NEW c \in Clusters, NEW v \in Values, Fits(v),
         fs_set_fat_cluster_entry(c, v)
  PROVE  FatInv'
<1> DEFINE w == Packed(fat, c, v)
<1>1. /\ fat' = Put_word(fat, Offset(c), w)
      /\ table' = [table EXCEPT ![c] = v] /\ fat_type' = fat_type
  BY DEF fs_set_fat_cluster_entry
<1>2. Bytes(fat) /\ fat_type \in {12, 16} /\ v \in Nat /\ v < 65536
  BY DEF FatInv, OneReserved, TableFits
<1>3. /\ w \in Nat /\ w < 65536
      /\ fs_get_fat_cluster_entry(fat', c) = v
      /\ \A d \in Clusters \ {c} :
           fs_get_fat_cluster_entry(fat', d) = fs_get_fat_cluster_entry(fat, d)
  <2>1. CASE fat_type = 12
    <3>1. v < 4096
      BY <2>1 DEF Fits
    <3>2. QED
      BY <1>1, <1>2, <2>1, <3>1, Packed12
  <2>2. CASE fat_type = 16
    BY <1>1, <1>2, <2>2, Packed16
  <2>3. QED
    BY <1>2, <2>1, <2>2
<1> HIDE DEF w
<1>4. /\ Bytes(fat')
      /\ \A b \in Table_bytes \ {Offset(c), Offset(c) + 1} : fat'[b] = fat[b]
  BY <1>1, <1>2, <1>3, EntryFits, WordPut
<1>5. DOMAIN device' = Device_bytes /\ \A b \in Table_bytes : device'[b + BytesPerSec] = fat'[b]
  BY <1>4, WrittenThrough
<1>6. EntriesKept'
  <2>1. \A d : fs_get_fat_cluster_entry(fat, d)' = fs_get_fat_cluster_entry(fat', d)
    BY <1>1 DEF fs_get_fat_cluster_entry, Word_at, Offset
  <2>2. ASSUME NEW d \in Clusters PROVE fs_get_fat_cluster_entry(fat, d)' = table'[d]
    BY <1>1, <1>3, <2>1 DEF FatInv, EntriesKept
  <2>3. QED
    BY <2>2 DEF EntriesKept
<1>7. QED
  BY <1>1, <1>2, <1>4, <1>5, <1>6 DEF FatInv, Bytes

\* The invariant holds of every volume, whichever tools follow each other.
LEMMA FatInvariance == OneReserved => (FtSpec => []FatInv)
<1> SUFFICES ASSUME OneReserved PROVE FtSpec => []FatInv
  OBVIOUS
<1>1. FtInit => FatInv
  <2> SUFFICES ASSUME FtInit PROVE FatInv
    OBVIOUS
  <2>1. /\ fat = [b \in Table_bytes |-> 0] /\ device = [b \in Device_bytes |-> 0]
        /\ table = [c \in Clusters |-> 0] /\ fat_type \in {12, 16}
    BY DEF FtInit
  <2>2. ASSUME NEW b \in Table_bytes PROVE b + BytesPerSec \in Device_bytes
    BY Sizes
  <2>3. Bytes(fat)
    BY <2>1 DEF Bytes
  <2>4. ASSUME NEW c \in Clusters PROVE fs_get_fat_cluster_entry(fat, c) = 0
    <3>1. Word_at(fat, Offset(c)) = 0
      BY <2>1, EntryFits DEF Word_at
    <3>2. QED
      BY <3>1 DEF fs_get_fat_cluster_entry
  <2>5. QED
    BY <2>1, <2>2, <2>3, <2>4 DEF FatInv, EntriesKept
<1>2. FatInv /\ [FtNext]_ft_vars => FatInv'
  <2> SUFFICES ASSUME FatInv, [FtNext]_ft_vars PROVE FatInv'
    OBVIOUS
  <2>1. CASE UNCHANGED <<fat, fat_type, device, table>>
    <3>1. \A d : fs_get_fat_cluster_entry(fat, d)' = fs_get_fat_cluster_entry(fat, d)
      BY <2>1 DEF fs_get_fat_cluster_entry, Word_at, Offset
    <3>2. QED
      BY <2>1, <3>1 DEF FatInv, EntriesKept, Bytes
  <2>2. CASE fs_init
    <3>1. fat' = [b \in Table_bytes |-> fat[b]]
      BY <2>2 DEF fs_init, FatInv
    <3>2. fat' = fat
      BY <3>1 DEF FatInv, Bytes
    <3>3. QED
      BY <2>1, <2>2, <3>2 DEF fs_init
  <2>3. CASE \E c \in Clusters, v \in Values : Fits(v) /\ fs_set_fat_cluster_entry(c, v)
    BY <2>3, SetStep
  <2>4. QED
    BY <2>1, <2>2, <2>3 DEF FtNext, ft_vars
<1>3. QED
  BY <1>1, <1>2, PTL DEF FtSpec

\* For volumes of any size and any even size of sectors, of both types: every entry
\* reads as it was set last, however its neighbours in the same bytes and in the
\* next sector are set, and however often a tool ends and the next one loads the table.
THEOREM EntriesAreKept == OneReserved => (FtSpec => []EntriesKept)
<1>1. FatInv => EntriesKept
  BY DEF FatInv
<1>2. QED
  BY <1>1, FatInvariance, PTL

-------------------------------------------------------------------------------
(* The network card: the invariant.                                            *)

IsrBits == {"PRX", "PTX", "RDC"}
Frames == [kind : {"reply", "request", "udp", "garbage"}, ip : IpAddr,
           mac : Mac \cup {NULL}, nr : Nat]
FromWire == [kind : {"reply", "request", "udp", "garbage"}, ip : IpAddr, mac : Mac, nr : Nat]

\* In ne_setup: until the ring has its bounds, until CURR is set again, and until
\* what came before that is acknowledged.
Early == {"program", "check", "prom", "loop", "bounds"}
Stale == Early \cup {"page1", "curr"}
Unclear == Stale \cup {"par", "start", "clear"}
Setup == Unclear \cup {"mask", "unloop"}
Transmit == {"transmit", "copy", "copy_rest", "sleep", "tpsr", "send"}
Resting == {"absent", "enable", "wait", "waiting", "sleep"}
Serving == {"woken", "dpc", "ack", "ack_all", "receive"}
NotifierAt == Resting \cup Serving \cup {"process"} \cup Setup \cup Transmit
UserAt == {"sleep_init", "probe", "restart", "idle", "sleep_arp", "again"}
            \cup Setup \cup Transmit

CardType == [on : BOOLEAN, isr : SUBSET IsrBits, imr : SUBSET IsrBits, page : {0, 1},
             dma : Process \cup {NULL}, curr : 0 .. Page - 1, bnry : 0 .. Page - 1,
             bounds : BOOLEAN, tpsr : {"buffer", "other"}, loopback : BOOLEAN,
             ring : [0 .. Page - 1 -> FromWire], tx : Frames]
NeType == [next_pkt : 0 .. Page - 1, ip : IpAddr, initialized : BOOLEAN]
SentType == [by : Process, asked : Frames, during : UserAt, frame : Frames, left : BOOLEAN]

NeTypeOK ==
  /\ card \in CardType
  /\ irr \in BOOLEAN
  /\ ne \in NeType
  /\ isr \in SUBSET IsrBits
  /\ p \in FromWire
  /\ out \in [Process -> Frames]
  /\ DOMAIN pc = Process /\ pc[notifier] \in NotifierAt /\ pc[user] \in UserAt
  /\ arrived \in Nat /\ commands \in Nat
  /\ passed \in Seq(FromWire)
  /\ sent \in Seq(SentType)
  /\ cut \in SUBSET {"setup", "page"}

\* Which registers are selected, and who has the card in loopback mode.
Registers ==
  /\ pc[notifier] # "program" => ne.next_pkt = 0
  /\ card.page # 0 => pc[user] \in Paged \/ pc[notifier] \in Paged \cup {"program"}
  /\ pc[notifier] \in Paged => card.page = 1
  /\ card.loopback => pc[user] \in Looped \/ pc[notifier] \in Looped
  /\ pc[notifier] = "check" => ~ card.on

\* As long as the notifier does not come in, page 1 stays selected.
PageKept ==
  pc[user] \in Paged => card.page = 1 /\ pc[notifier] \in Resting

\* The ring has no bounds only until the first set-up gives them, and does not lose
\* them while page 1 is selected.
BoundsSet ==
  card.bounds \/ pc[notifier] \in (Resting \ {"sleep"}) \cup Serving \cup Early

\* At boot nothing arrives before the first set-up.
SetupFirst ==
  ~ card.bounds =>
    /\ pc[user] \in Early /\ pc[notifier] \in Resting \ {"sleep"}
    /\ pc[user] \in {"program", "check"} =>
         ~ card.on /\ card.isr = {} /\ ~ irr /\ card.curr = 0

\* Nobody has set the card up half.
Settled == pc[notifier] \notin Stale /\ pc[user] \notin Stale \ {"program"}

\* The user sets the card up while the notifier rests.
Undisturbed ==
  /\ pc[user] \in InSetup => pc[notifier] \in Resting
  /\ pc[user] = "check" => ~ card.on
  /\ pc[notifier] \notin Early => card.bnry = 0

\* The frame at the head of the ring came after all that were handed on.
HeadIsNewer ==
  Settled /\ card.curr # 0 =>
    /\ card.ring[0].kind # "garbage"
    /\ card.ring[0].nr <= arrived
    /\ \A k \in 1 .. Len(passed) : passed[k].nr < card.ring[0].nr

\* So did p, and what is in the ring by then came after p.
FrameInHand ==
  pc[notifier] \in Setup \cup {"process"} =>
    /\ p.kind # "garbage"
    /\ p.nr <= arrived
    /\ \A k \in 1 .. Len(passed) : passed[k].nr < p.nr
    /\ Settled /\ card.curr # 0 => p.nr < card.ring[0].nr

\* PRX, once it can be acted on, says that there is a frame.
ReceivedIsThere ==
  /\ "PRX" \in card.isr =>
       \/ pc[notifier] \in Unclear
       \/ pc[user] \in Unclear \ {"program"}
       \/ card.curr # 0
  /\ pc[notifier] = "ack" /\ "PRX" \in isr => card.curr # 0
  /\ pc[notifier] = "receive" => card.curr # 0

\* Only the notifier is about to transmit, nobody takes the remote DMA and the
\* buffer from it, and the card knows the buffer.
AnswerInHand ==
  /\ pc[user] \notin Transmit \cup {"sleep_arp", "again"}
  /\ pc[notifier] \in {"copy", "copy_rest"} => card.dma = notifier
  /\ pc[notifier] \in {"sleep", "tpsr", "send"} => card.tx = out[notifier]
  /\ pc[notifier] = "send" => card.tpsr = "buffer"
  /\ \A k \in 1 .. Len(sent) : /\ sent[k].frame = sent[k].asked
                               /\ sent[k].left \/ sent[k].during \in Looped

InOrderInv ==
  /\ PacketThere /\ InOrder
  /\ \A k \in 1 .. Len(passed) : passed[k].nr <= arrived
  /\ SetupFirst /\ Undisturbed /\ HeadIsNewer /\ FrameInHand /\ ReceivedIsThere

NeInv ==
  /\ NeTypeOK /\ ArpInv /\ Registers
  /\ "page" \notin cut => PageKept /\ BoundsSet
  /\ cut = {} => InOrderInv
  /\ "sendudp" \notin given /\ "page" \notin cut => AnswerInHand

-------------------------------------------------------------------------------
(* The network card: what the steps change.                                    *)

\* The two processes are two.
LEMMA TwoProcesses ==
  /\ notifier \in Process /\ user \in Process /\ notifier # user
  /\ \A q \in Process : q = notifier \/ q = user
  /\ garbage \in FromWire /\ garbage \in Frames /\ FromWire \subseteq Frames
BY Ne2kAssumption, ArpAssumption DEF Process, garbage, FromWire, Frames

\* Process q goes on from a to b.
Moves(q, a, b) ==
  /\ pc[q] = a /\ pc'[q] = b
  /\ DOMAIN pc' = Process
  /\ \A r \in Process \ {q} : pc'[r] = pc[r]

\* A process goes on to another place.
LEMMA GotoMoves ==
  ASSUME NeTypeOK, NEW q \in Process, NEW b, Goto(q, b)
  PROVE  Moves(q, pc[q], b)
BY TwoProcesses DEF NeTypeOK, Goto, Moves

\* The card becomes c; the interrupt controller sees its line go up only if an
\* interrupt is pending.
LEMMA CardBecomes ==
  ASSUME NeTypeOK, NEW c, Card(c)
  PROVE  card' = c /\ irr' \in BOOLEAN /\ (irr' => card'.isr # {})
<1>1. card' = c
  BY DEF Card
<1>2. irr' \in BOOLEAN /\ (irr' => Line(c))
  BY Zenon DEF Card
<1>3. Line(c) => c.isr # {}
  BY DEF Line
<1>4. QED
  BY <1>1, <1>2, <1>3

\* What Touch changes besides the card.
LEMMA TouchFacts ==
  ASSUME NeTypeOK, NEW q \in Process, NEW a, NEW b, NEW c, Touch(q, a, b, c)
  PROVE  /\ Moves(q, a, b) /\ (q = user => pc[notifier] \in Blocked)
         /\ card' = c /\ irr' \in BOOLEAN /\ (irr' => card'.isr # {})
         /\ UNCHANGED <<ne, isr, p, out>>
         /\ UNCHANGED history /\ UNCHANGED arp_vars
<1>1. pc[q] = a /\ (q = user => pc[notifier] \in Blocked) /\ Card(c) /\ Goto(q, b)
  BY DEF Touch, At
<1>2. UNCHANGED <<mem, history, arp_vars>>
  BY DEF Touch
<1>3. QED
  BY <1>1, <1>2, GotoMoves, CardBecomes DEF mem

\* The command register.
LEMMA CommandFields ==
  ASSUME NeTypeOK, NEW run \in BOOLEAN
  PROVE  /\ Command(run) \in CardType
         /\ Command(run).on = run /\ Command(run).page = 0 /\ Command(run).dma = NULL
         /\ Command(run).isr = card.isr /\ Command(run).imr = card.imr
         /\ Command(run).curr = card.curr /\ Command(run).bnry = card.bnry
         /\ Command(run).bounds = card.bounds /\ Command(run).tpsr = card.tpsr
         /\ Command(run).loopback = card.loopback
         /\ Command(run).ring = card.ring /\ Command(run).tx = card.tx
<1>1. card \in CardType
  BY DEF NeTypeOK
<1>2. QED
  BY <1>1 DEF Command, CardType

\* What ne_setup may change, when process q goes on from a to b.
SetupEffect(q, a, b) ==
  /\ Moves(q, a, b) /\ (q = user => pc[notifier] \in Blocked)
  /\ \/ <<a, b>> \in {<<"program", "check">>, <<"check", "prom">>, <<"prom", "loop">>,
                      <<"loop", "bounds">>, <<"bounds", "page1">>, <<"page1", "curr">>,
                      <<"curr", "par">>, <<"par", "start">>, <<"start", "clear">>,
                      <<"clear", "mask">>, <<"mask", "unloop">>}
     \/ /\ a = "unloop" \/ (a = "check" /\ card.on)
        /\ b = IF q = notifier THEN "process" ELSE "sleep_init"
  /\ UNCHANGED <<isr, p, out>> /\ UNCHANGED history /\ UNCHANGED arp_vars
  /\ card' \in CardType /\ irr' \in BOOLEAN /\ (irr' => irr \/ card'.isr # {})
  /\ card'.ring = card.ring /\ card'.tx = card.tx
  /\ a = "program" => ~ card'.on /\ card'.isr \subseteq card.isr
  /\ "PRX" \in card'.isr => "PRX" \in card.isr /\ a # "clear"
  /\ card'.page = IF a \in {"program", "prom", "start"} THEN 0
                  ELSE IF a = "page1" THEN 1 ELSE card.page
  /\ card'.curr = IF a = "curr" /\ card.page = 1 THEN ne.next_pkt ELSE card.curr
  /\ card'.bnry = IF a = "bounds" THEN 0 ELSE card.bnry
  /\ card.bounds /\ ~ (a = "par" /\ card.page = 0) => card'.bounds
  /\ a = "bounds" => card'.bounds
  /\ card'.loopback => a = "loop" \/ (card.loopback /\ a \notin {"program", "unloop"})
  /\ ne' \in NeType
  /\ ne'.next_pkt = IF a = "program" THEN 0 ELSE ne.next_pkt

\* A step of ne_setup that only accesses the card.
LEMMA SetupTouch ==
  ASSUME NeTypeOK, NEW q \in Process, ne_setup(q),
         ~ (program_step(q) \/ check_step(q) \/ unloop_step(q))
  PROVE  \E a, b : SetupEffect(q, a, b)
<1> DEFINE Effect(a, b, c) ==
      /\ <<a, b>> \in {<<"prom", "loop">>, <<"loop", "bounds">>, <<"bounds", "page1">>,
                       <<"page1", "curr">>, <<"curr", "par">>, <<"par", "start">>,
                       <<"start", "clear">>, <<"clear", "mask">>, <<"mask", "unloop">>}
      /\ Touch(q, a, b, c)
      /\ c \in CardType /\ c.ring = card.ring /\ c.tx = card.tx
      /\ "PRX" \in c.isr => "PRX" \in card.isr /\ a # "clear"
      /\ c.page = IF a \in {"prom", "start"} THEN 0 ELSE IF a = "page1" THEN 1 ELSE card.page
      /\ c.curr = IF a = "curr" /\ card.page = 1 THEN ne.next_pkt ELSE card.curr
      /\ c.bnry = IF a = "bounds" THEN 0 ELSE card.bnry
      /\ card.bounds /\ ~ (a = "par" /\ card.page = 0) => c.bounds
      /\ a = "bounds" => c.bounds
      /\ c.loopback => a = "loop" \/ card.loopback
<1>1. card \in CardType /\ ne.next_pkt \in 0 .. Page - 1 /\ 0 \in 0 .. Page - 1
  BY Ne2kAssumption DEF NeTypeOK, NeType
<1>2. ASSUME NEW a, NEW b, NEW c, Effect(a, b, c) PROVE \E x, y : SetupEffect(q, x, y)
  <2>1. /\ Moves(q, a, b) /\ (q = user => pc[notifier] \in Blocked)
        /\ card' = c /\ irr' \in BOOLEAN /\ (irr' => card'.isr # {})
        /\ UNCHANGED <<ne, isr, p, out>>
        /\ UNCHANGED history /\ UNCHANGED arp_vars
    BY <1>2, TouchFacts
  <2>2. a \notin {"program", "unloop", "check"}
    BY <1>2
  <2>3. ne \in NeType
    BY DEF NeTypeOK
  <2>4. SetupEffect(q, a, b)
    BY <1>2, <2>1, <2>2, <2>3 DEF SetupEffect
  <2>5. QED
    BY <2>4
<1>3. CASE prom_step(q)
  <2>1. Effect("prom", "loop", [Command(TRUE) EXCEPT !.isr = @ \cup {"RDC"}])
    BY <1>3, CommandFields DEF prom_step, CardType, IsrBits
  <2>2. QED
    BY <1>2, <2>1
<1>4. CASE loop_step(q)
  <2>1. \/ Effect("loop", "bounds", [card EXCEPT !.tpsr = "other", !.loopback = TRUE])
        \/ Effect("bounds", "page1", [card EXCEPT !.bounds = TRUE, !.bnry = 0])
    BY <1>1, <1>4 DEF loop_step, CardType
  <2>2. QED
    BY <1>2, <2>1
<1>5. CASE page_step(q)
  <2>1. CASE Touch(q, "page1", "curr", [Command(FALSE) EXCEPT !.page = 1])
    <3>1. Effect("page1", "curr", [Command(FALSE) EXCEPT !.page = 1])
      BY <2>1, CommandFields DEF CardType
    <3>2. QED
      BY <1>2, <3>1
  <2>2. ASSUME NEW c, Touch(q, "curr", "par", c),
               c = IF card.page = 1 THEN [card EXCEPT !.curr = ne.next_pkt]
                   ELSE [card EXCEPT !.isr = @ \ {"PTX", "RDC"}]
        PROVE  \E a, b : SetupEffect(q, a, b)
    <3>1. Effect("curr", "par", c)
      BY <1>1, <2>2 DEF CardType, IsrBits
    <3>2. QED
      BY <1>2, <3>1
  <2>3. ASSUME NEW kept \in {card.bounds, FALSE}, NEW c, Touch(q, "par", "start", c),
               c = Written([card EXCEPT !.bounds = kept, !.tpsr = "other"])
        PROVE  \E a, b : SetupEffect(q, a, b)
    <3>1. Effect("par", "start", c)
      BY <1>1, <2>3 DEF CardType, Written
    <3>2. QED
      BY <1>2, <3>1
  <2>4. CASE Touch(q, "start", "clear", Command(TRUE))
    <3>1. Effect("start", "clear", Command(TRUE))
      BY <2>4, CommandFields
    <3>2. QED
      BY <1>2, <3>1
  <2>5. QED
    BY <1>5, <2>1, <2>2, <2>3, <2>4 DEF page_step
<1>6. CASE clear_step(q) \/ Touch(q, "mask", "unloop", [card EXCEPT !.imr = IMR])
  <2>1. \/ Effect("clear", "mask", [card EXCEPT !.isr = {}])
        \/ Effect("mask", "unloop", [card EXCEPT !.imr = IMR])
    BY <1>1, <1>6 DEF clear_step, CardType, IMR, IsrBits
  <2>2. QED
    BY <1>2, <2>1
<1>7. QED
  BY <1>3, <1>4, <1>5, <1>6 DEF ne_setup

\* Each step of ne_setup.
LEMMA SetupSteps ==
  ASSUME NeTypeOK, NEW q \in Process, ne_setup(q)
  PROVE  \E a, b : SetupEffect(q, a, b)
<1>1. card \in CardType /\ irr \in BOOLEAN /\ ne \in NeType /\ 0 \in 0 .. Page - 1
  BY Ne2kAssumption DEF NeTypeOK
<1>2. CASE program_step(q)
  <2>1. /\ pc[q] = "program" /\ (q = user => pc[notifier] \in Blocked)
        /\ ne' = [ne EXCEPT !.next_pkt = 0, !.ip = OwnIp]
        /\ Goto(q, "check") /\ UNCHANGED <<isr, p, out, history, arp_vars>>
    BY <1>2 DEF program_step, At
  <2>2. PICK bits \in {card.isr, {}}, mask \in {card.imr, {}} :
          Card([Command(FALSE) EXCEPT !.isr = bits, !.imr = mask, !.loopback = FALSE])
    BY <1>2 DEF program_step, ne_reset
  <2> DEFINE c == [Command(FALSE) EXCEPT !.isr = bits, !.imr = mask, !.loopback = FALSE]
  <2>3. /\ c \in CardType /\ c.ring = card.ring /\ c.tx = card.tx /\ ~ c.on
        /\ c.isr \subseteq card.isr /\ c.page = 0 /\ c.curr = card.curr
        /\ c.bnry = card.bnry /\ (card.bounds => c.bounds) /\ ~ c.loopback
    BY <1>1, CommandFields DEF CardType
  <2>4. Card(c)
    BY <2>2
  <2> HIDE DEF c
  <2>5. card' = c /\ irr' \in BOOLEAN /\ (irr' => card'.isr # {})
    BY <2>4, CardBecomes
  <2>6. ne' \in NeType /\ ne'.next_pkt = 0
    BY <1>1, <2>1, Ne2kAssumption DEF NeType
  <2>7. Moves(q, "program", "check")
    BY <2>1, GotoMoves
  <2>8. SetupEffect(q, "program", "check")
    BY <2>1, <2>3, <2>5, <2>6, <2>7 DEF SetupEffect
  <2>9. QED
    BY <2>8
<1>3. CASE check_step(q) \/ unloop_step(q)
  <2> DEFINE end == IF q = notifier THEN "process" ELSE "sleep_init"
  <2>1. \/ check_step(q) /\ ~ card.on /\ pc[q] = "check" /\ Goto(q, "prom") /\ UNCHANGED ne
        \/ check_step(q) /\ card.on /\ pc[q] = "check" /\ Setup_returns(q, FALSE)
        \/ unloop_step(q) /\ pc[q] = "unloop" /\ Setup_returns(q, TRUE)
    BY <1>3 DEF check_step, unloop_step, At
  <2>2. ASSUME NEW r \in BOOLEAN, Setup_returns(q, r)
        PROVE  Goto(q, end) /\ ne' \in NeType /\ ne'.next_pkt = ne.next_pkt
    BY <1>1, <2>2 DEF Setup_returns, NeType
  <2>3. PICK a, b : /\ \/ a = "check" /\ b = "prom"
                       \/ (a = "unloop" \/ (a = "check" /\ card.on)) /\ b = end
                    /\ pc[q] = a /\ Goto(q, b)
                    /\ ne' \in NeType /\ ne'.next_pkt = ne.next_pkt
                    /\ a = "unloop" <=> unloop_step(q)
    <3>1. CASE check_step(q) /\ ~ card.on /\ pc[q] = "check" /\ Goto(q, "prom") /\ UNCHANGED ne
      BY <1>1, <3>1 DEF unloop_step, At
    <3>2. CASE check_step(q) /\ card.on /\ pc[q] = "check" /\ Setup_returns(q, FALSE)
      BY <2>2, <3>2 DEF unloop_step, At
    <3>3. CASE unloop_step(q) /\ pc[q] = "unloop" /\ Setup_returns(q, TRUE)
      <4>1. Goto(q, end) /\ ne' \in NeType /\ ne'.next_pkt = ne.next_pkt
        BY <2>2, <3>3
      <4> HIDE DEF end
      <4>2. QED
        BY <3>3, <4>1
    <3>4. QED
      BY <2>1, <3>1, <3>2, <3>3
  <2>4. Moves(q, a, b)
    BY <2>3, GotoMoves
  <2>5. /\ (q = user => pc[notifier] \in Blocked)
        /\ UNCHANGED <<isr, p, out>> /\ UNCHANGED history /\ UNCHANGED arp_vars
    BY <1>3 DEF check_step, unloop_step, At
  <2>6. CASE a = "unloop"
    <3>1. Card([card EXCEPT !.loopback = FALSE])
      BY <2>3, <2>6 DEF unloop_step
    <3>2. /\ card' = [card EXCEPT !.loopback = FALSE]
          /\ irr' \in BOOLEAN /\ (irr' => card'.isr # {})
      BY <3>1, CardBecomes
    <3>3. /\ card' \in CardType /\ card'.ring = card.ring /\ card'.tx = card.tx
          /\ card'.isr = card.isr /\ card'.page = card.page /\ card'.curr = card.curr
          /\ card'.bnry = card.bnry /\ (card.bounds => card'.bounds) /\ ~ card'.loopback
      BY <1>1, <3>2 DEF CardType
    <3>4. SetupEffect(q, a, b)
      BY <2>3, <2>4, <2>5, <2>6, <3>2, <3>3 DEF SetupEffect
    <3>5. QED
      BY <3>4
  <2>7. CASE a = "check"
    <3>1. check_step(q) /\ Off
      BY <1>3, <2>3, <2>7 DEF check_step
    <3>2. card' = card /\ irr' = irr
      BY <3>1 DEF Off
    <3>3. SetupEffect(q, a, b)
      BY <1>1, <2>3, <2>4, <2>5, <2>7, <3>2 DEF SetupEffect
    <3>4. QED
      BY <3>3
  <2>8. QED
    BY <2>3, <2>6, <2>7
<1>4. QED
  BY <1>2, <1>3, SetupTouch

\* What is recorded of a frame that process q transmits.
Entry(q) == [by |-> q, asked |-> out[q], during |-> pc[user],
             frame |-> IF card.tpsr = "buffer" THEN card.tx ELSE garbage,
             left |-> ~ card.loopback]

\* What ne_transmit may change, when process q goes on from a to b.
TransmitEffect(q, a, b) ==
  /\ Moves(q, a, b) /\ (q = user /\ a # "sleep" => pc[notifier] \in Blocked)
  /\ \/ <<a, b>> \in {<<"transmit", "copy">>, <<"copy", "copy_rest">>, <<"copy_rest", "sleep">>,
                      <<"copy", "sleep">>, <<"sleep", "tpsr">>, <<"tpsr", "send">>}
     \/ a = "send" /\ b = After(q, out[q])
  /\ UNCHANGED <<ne, isr, p, out>> /\ UNCHANGED arp_vars
  /\ UNCHANGED <<arrived, commands, given, passed>>
  /\ card' \in CardType /\ irr' \in BOOLEAN
  /\ card'.ring = card.ring /\ card'.curr = card.curr /\ card'.bnry = card.bnry
  /\ card'.bounds = card.bounds /\ card'.loopback = card.loopback
  /\ "PRX" \in card'.isr => "PRX" \in card.isr
  /\ card'.page = IF a \in {"transmit", "send"} THEN 0 ELSE card.page
  /\ a = "sleep" => card' = card
  /\ a = "transmit" => card'.dma = q
  /\ a = "copy" => card'.dma = card.dma /\ b = "copy_rest"
  /\ a = "copy_rest" /\ card.dma = q => card'.tx = out[q]
  /\ a \notin {"copy", "copy_rest"} => card'.tx = card.tx
  /\ a = "tpsr" /\ card.page = 0 => card'.tpsr = "buffer"
  /\ sent' = IF a = "send" THEN Append(sent, Entry(q)) ELSE sent
  /\ IF a = "sleep" /\ q = notifier THEN Comes_in ELSE cut' = cut

\* Each step of ne_transmit.
LEMMA TransmitSteps ==
  ASSUME NeTypeOK, NEW q \in Process, ne_transmit(q)
  PROVE  \E a, b : TransmitEffect(q, a, b)
<1> DEFINE Effect(a, b, c) ==
      /\ <<a, b>> \in {<<"transmit", "copy">>, <<"copy", "copy_rest">>,
                       <<"copy_rest", "sleep">>, <<"tpsr", "send">>}
      /\ Touch(q, a, b, c)
      /\ c \in CardType /\ c.ring = card.ring /\ c.curr = card.curr /\ c.bnry = card.bnry
      /\ c.bounds = card.bounds /\ c.loopback = card.loopback
      /\ "PRX" \in c.isr => "PRX" \in card.isr
      /\ c.page = IF a = "transmit" THEN 0 ELSE card.page
      /\ a = "transmit" => c.dma = q
      /\ a = "copy" => c.dma = card.dma
      /\ a = "copy_rest" /\ card.dma = q => c.tx = out[q]
      /\ a \notin {"copy", "copy_rest"} => c.tx = card.tx
      /\ a = "tpsr" /\ card.page = 0 => c.tpsr = "buffer"
<1>1. card \in CardType /\ irr \in BOOLEAN /\ out[q] \in Frames /\ garbage \in Frames
  BY TwoProcesses DEF NeTypeOK
<1>2. ASSUME NEW a, NEW b, NEW c, Effect(a, b, c) PROVE \E x, y : TransmitEffect(q, x, y)
  <2>1. /\ Moves(q, a, b) /\ (q = user => pc[notifier] \in Blocked)
        /\ card' = c /\ irr' \in BOOLEAN
        /\ UNCHANGED <<ne, isr, p, out>>
        /\ UNCHANGED history /\ UNCHANGED arp_vars
    BY <1>2, TouchFacts
  <2>2. UNCHANGED <<arrived, commands, given, passed, sent, cut>>
    BY <2>1 DEF history
  <2>3. a \notin {"send", "sleep"} /\ (a = "copy" => b = "copy_rest")
    BY <1>2
  <2>4. TransmitEffect(q, a, b)
    BY <1>2, <2>1, <2>2, <2>3 DEF TransmitEffect
  <2>5. QED
    BY <2>4
<1>3. CASE Touch(q, "transmit", "copy", [Command(TRUE) EXCEPT !.isr = @ \ {"RDC"}, !.dma = q])
  <2>1. Effect("transmit", "copy", [Command(TRUE) EXCEPT !.isr = @ \ {"RDC"}, !.dma = q])
    BY <1>3, CommandFields DEF CardType, IsrBits
  <2>2. QED
    BY <1>2, <2>1
<1>4. CASE copy_step(q)
  <2>1. ASSUME NEW c, Touch(q, "copy", "copy_rest", c),
               c = IF card.dma = q THEN [card EXCEPT !.tx = garbage] ELSE card
        PROVE  \E x, y : TransmitEffect(q, x, y)
    <3>1. Effect("copy", "copy_rest", c)
      BY <1>1, <2>1 DEF CardType
    <3>2. QED
      BY <1>2, <3>1
  <2>2. ASSUME NEW c, Touch(q, "copy_rest", "sleep", c),
               c = IF card.dma = q
                   THEN [card EXCEPT !.tx = out[q], !.dma = NULL, !.isr = @ \cup {"RDC"}]
                   ELSE card
        PROVE  \E x, y : TransmitEffect(q, x, y)
    <3>1. Effect("copy_rest", "sleep", c)
      BY <1>1, <2>2 DEF CardType, IsrBits
    <3>2. QED
      BY <1>2, <3>1
  <2>3. QED
    BY <1>4, <2>1, <2>2 DEF copy_step
<1>5. ASSUME NEW c, Touch(q, "tpsr", "send", c), c = Written([card EXCEPT !.tpsr = "buffer"])
      PROVE  \E x, y : TransmitEffect(q, x, y)
  <2>1. Effect("tpsr", "send", c)
    BY <1>1, <1>5 DEF CardType, Written
  <2>2. QED
    BY <1>2, <2>1
<1> HIDE DEF Effect
<1>6. CASE /\ pc[q] = "sleep"
           /\ Goto(q, "tpsr")
           /\ IF q = notifier THEN Comes_in ELSE UNCHANGED cut
           /\ Off /\ UNCHANGED <<mem, arp_vars, arrived, commands, given, passed, to_em, sent,
                                configured>>
  <2>1. Moves(q, "sleep", "tpsr") /\ card' = card /\ irr' = irr
    BY <1>6, GotoMoves DEF Off
  <2>2. UNCHANGED <<ne, isr, p, out>> /\ UNCHANGED arp_vars
        /\ UNCHANGED <<arrived, commands, given, passed, sent>>
    BY <1>6 DEF mem
  <2>3. TransmitEffect(q, "sleep", "tpsr")
    BY <1>1, <1>6, <2>1, <2>2 DEF TransmitEffect
  <2>4. QED
    BY <2>3
<1>7. CASE /\ At(q, "send")
           /\ Card([Command(TRUE) EXCEPT !.isr = @ \cup {"PTX"}])
           /\ sent' = Append(sent, [by |-> q, asked |-> out[q], during |-> pc[user],
                                    frame |-> IF card.tpsr = "buffer" THEN card.tx ELSE garbage,
                                    left |-> ~ card.loopback])
           /\ Goto(q, After(q, out[q]))
           /\ UNCHANGED <<mem, arp_vars, arrived, commands, given, passed, to_em, configured,
                          cut>>
  <2>1. Moves(q, "send", After(q, out[q])) /\ (q = user => pc[notifier] \in Blocked)
    BY <1>7, GotoMoves DEF At
  <2>2. card' = [Command(TRUE) EXCEPT !.isr = @ \cup {"PTX"}] /\ irr' \in BOOLEAN
    BY <1>7, CardBecomes
  <2>3. /\ card' \in CardType
        /\ card'.ring = card.ring /\ card'.curr = card.curr /\ card'.bnry = card.bnry
        /\ card'.bounds = card.bounds /\ card'.loopback = card.loopback
        /\ "PRX" \in card'.isr => "PRX" \in card.isr
        /\ card'.page = 0 /\ card'.tx = card.tx
    BY <2>2, CommandFields DEF CardType, IsrBits
  <2>4. UNCHANGED <<ne, isr, p, out>> /\ UNCHANGED arp_vars
        /\ UNCHANGED <<arrived, commands, given, passed, cut>>
    BY <1>7 DEF mem
  <2>5. sent' = Append(sent, Entry(q))
    BY <1>7 DEF Entry
  <2> DEFINE b == After(q, out[q])
  <2>6. irr' \in BOOLEAN /\ Moves(q, "send", b) /\ b = After(q, out[q])
    BY <2>1, <2>2
  <2> HIDE DEF b
  <2>7. TransmitEffect(q, "send", b)
    BY <2>1, <2>3, <2>4, <2>5, <2>6 DEF TransmitEffect
  <2>8. QED
    BY <2>7
<1>8. QED
  BY <1>3, <1>4, <1>5, <1>6, <1>7 DEF ne_transmit

\* What the interrupt, the notifier's loop and ne_dpc may change.
NotifierEffect(a, b) ==
  /\ Moves(notifier, a, b)
  /\ a = b \/ <<a, b>> \in {<<"absent", "wait">>, <<"absent", "enable">>, <<"enable", "wait">>,
              <<"wait", "waiting">>, <<"waiting", "woken">>, <<"woken", "dpc">>,
              <<"dpc", "ack">>, <<"dpc", "ack_all">>, <<"ack", "receive">>, <<"ack", "dpc">>,
              <<"ack_all", "enable">>}
  /\ UNCHANGED <<ne, out>> /\ UNCHANGED arp_vars
  /\ UNCHANGED <<arrived, commands, given, passed, sent>>
  /\ IF a = "waiting" /\ b = "woken" THEN irr /\ Comes_in ELSE cut' = cut
  /\ card' \in CardType /\ irr' \in BOOLEAN /\ (irr' => irr \/ card'.isr # {})
  /\ card'.ring = card.ring /\ card'.curr = card.curr /\ card'.bnry = card.bnry
  /\ card'.bounds = card.bounds /\ card'.loopback = card.loopback
  /\ card'.tx = card.tx
  /\ card'.isr \subseteq card.isr
  /\ card'.page = IF a = "dpc" /\ b # a THEN 0 ELSE card.page
  /\ a # "dpc" => card'.on = card.on
  /\ a = b => card' = card
  /\ isr' = IF a = "dpc" /\ b # a THEN card.isr ELSE isr
  /\ a = "ack" /\ b = "receive" => "PRX" \in isr
  /\ p' = IF a = "ack" /\ b # a THEN garbage ELSE p

\* Each of these steps.
LEMMA NotifierMoves ==
  ASSUME NeTypeOK, isr_ne2k_driver \/ ne2k_driver_notifier \/ ne_dpc
  PROVE  \E a, b : NotifierEffect(a, b)
<1> DEFINE Effect(a, b, c) ==
      /\ <<a, b>> \in {<<"enable", "wait">>, <<"wait", "waiting">>, <<"woken", "dpc">>,
                       <<"ack_all", "enable">>}
      /\ Touch(notifier, a, b, c)
      /\ c \in CardType /\ c.ring = card.ring /\ c.curr = card.curr /\ c.bnry = card.bnry
      /\ c.bounds = card.bounds /\ c.loopback = card.loopback /\ c.tx = card.tx
      /\ c.isr \subseteq card.isr /\ c.page = card.page /\ c.on = card.on
<1> USE TwoProcesses
<1>1. card \in CardType /\ irr \in BOOLEAN /\ isr \in SUBSET IsrBits
  BY DEF NeTypeOK
<1>2. ASSUME NEW a, NEW b, NEW c, Effect(a, b, c) PROVE \E x, y : NotifierEffect(x, y)
  <2>1. /\ Moves(notifier, a, b)
        /\ card' = c /\ irr' \in BOOLEAN /\ (irr' => card'.isr # {})
        /\ UNCHANGED <<ne, isr, p, out>>
        /\ UNCHANGED history /\ UNCHANGED arp_vars
    BY <1>2, TouchFacts
  <2>2. UNCHANGED <<arrived, commands, given, passed, sent, cut>>
    BY <2>1 DEF history
  <2>3. a \notin {"dpc", "ack", "waiting"}
    BY <1>2
  <2>4. NotifierEffect(a, b)
    BY <1>2, <2>1, <2>2, <2>3 DEF NotifierEffect
  <2>5. QED
    BY <2>4
<1>3. \A s \in SUBSET IsrBits :
        /\ <<"enable", "wait">> \in {<<"enable", "wait">>}
        /\ Written([card EXCEPT !.imr = s]) \in CardType
        /\ Written([card EXCEPT !.imr = s]).ring = card.ring
        /\ Written([card EXCEPT !.imr = s]).curr = card.curr
        /\ Written([card EXCEPT !.imr = s]).bnry = card.bnry
        /\ Written([card EXCEPT !.imr = s]).bounds = card.bounds
        /\ Written([card EXCEPT !.imr = s]).loopback = card.loopback
        /\ Written([card EXCEPT !.imr = s]).tx = card.tx
        /\ Written([card EXCEPT !.imr = s]).isr = card.isr
        /\ Written([card EXCEPT !.imr = s]).page = card.page
        /\ Written([card EXCEPT !.imr = s]).on = card.on
  BY <1>1 DEF CardType, Written
<1>4. CASE ne2k_driver_notifier /\ ~ create_notifier
  <2>1. IMR \in SUBSET IsrBits /\ {} \in SUBSET IsrBits
    BY DEF IMR, IsrBits
  <2>2. CASE Touch(notifier, "enable", "wait", Written([card EXCEPT !.imr = IMR]))
    <3>1. Effect("enable", "wait", Written([card EXCEPT !.imr = IMR]))
      BY <1>3, <2>1, <2>2
    <3>2. QED
      BY <1>2, <3>1
  <2>3. CASE Touch(notifier, "wait", "waiting", card)
    <3>1. Effect("wait", "waiting", card)
      BY <1>1, <2>3
    <3>2. QED
      BY <1>2, <3>1
  <2>4. CASE Touch(notifier, "woken", "dpc", Written([card EXCEPT !.imr = {}]))
    <3>1. Effect("woken", "dpc", Written([card EXCEPT !.imr = {}]))
      BY <1>3, <2>1, <2>4
    <3>2. QED
      BY <1>2, <3>1
  <2>5. QED
    BY <1>4, <2>2, <2>3, <2>4 DEF ne2k_driver_notifier
<1>5. CASE Touch(notifier, "ack_all", "enable", [card EXCEPT !.isr = {}])
  <2>1. Effect("ack_all", "enable", [card EXCEPT !.isr = {}])
    BY <1>1, <1>5 DEF CardType
  <2>2. QED
    BY <1>2, <2>1
<1> HIDE DEF Effect
<1>6. CASE create_notifier
  <2>1. \E b \in {"wait", "enable"} : Goto(notifier, b)
    BY <1>6 DEF create_notifier
  <2>2. PICK b \in {"wait", "enable"} : Moves(notifier, "absent", b)
    BY <1>6, <2>1, GotoMoves DEF create_notifier
  <2>3. /\ card' = card /\ irr' = irr /\ UNCHANGED <<ne, isr, p, out>> /\ UNCHANGED arp_vars
        /\ UNCHANGED <<arrived, commands, given, passed, sent, cut>>
    BY <1>6 DEF create_notifier, Off, mem, history
  <2>4. NotifierEffect("absent", b)
    BY <1>1, <2>2, <2>3 DEF NotifierEffect
  <2>5. QED
    BY <2>4
<1>7. CASE isr_ne2k_driver
  <2>1. /\ irr /\ irr' = FALSE /\ card' = card /\ UNCHANGED <<ne, isr, p, out>>
        /\ UNCHANGED arp_vars /\ UNCHANGED <<arrived, commands, given, passed, sent>>
    BY <1>7 DEF isr_ne2k_driver, mem
  <2>2. CASE pc[notifier] = "waiting"
    <3>1. Moves(notifier, "waiting", "woken") /\ Comes_in
      BY <1>7, <2>2, GotoMoves DEF isr_ne2k_driver
    <3>2. NotifierEffect("waiting", "woken")
      BY <1>1, <2>1, <3>1 DEF NotifierEffect
    <3>3. QED
      BY <3>2
  <2>3. CASE pc[notifier] # "waiting"
    <3>1. Moves(notifier, pc[notifier], pc[notifier]) /\ cut' = cut
      BY <1>7, <2>3 DEF isr_ne2k_driver, Moves, NeTypeOK
    <3>2. NotifierEffect(pc[notifier], pc[notifier])
      BY <1>1, <2>1, <2>3, <3>1 DEF NotifierEffect
    <3>3. QED
      BY <3>2
  <2>4. QED
    BY <2>2, <2>3
<1>8. CASE /\ At(notifier, "dpc")
           /\ isr' = card.isr
           /\ Card(Command(TRUE))
           /\ Goto(notifier, IF card.isr = {} THEN "ack_all" ELSE "ack")
           /\ UNCHANGED <<ne, p, out, history, arp_vars>>
  <2>1. PICK b \in {"ack_all", "ack"} : Goto(notifier, b)
    BY <1>8
  <2>2. Moves(notifier, "dpc", b)
    BY <1>8, <2>1, GotoMoves DEF At
  <2>3. card' = Command(TRUE) /\ irr' \in BOOLEAN /\ (irr' => card'.isr # {})
    BY <1>8, CardBecomes
  <2>4. UNCHANGED <<arrived, commands, given, passed, sent, cut>> /\ UNCHANGED arp_vars
    BY <1>8 DEF history
  <2>5. NotifierEffect("dpc", b)
    BY <1>8, <2>2, <2>3, <2>4, CommandFields DEF NotifierEffect
  <2>6. QED
    BY <2>5
<1>9. CASE /\ At(notifier, "ack")
           /\ Card([card EXCEPT !.isr = @ \ Acknowledged(isr)])
           /\ Goto(notifier, IF "PRX" \in isr THEN "receive" ELSE "dpc")
           /\ p' = garbage
           /\ UNCHANGED <<ne, isr, out, history, arp_vars>>
  <2>1. PICK b \in {"receive", "dpc"} : Goto(notifier, b) /\ (b = "receive" => "PRX" \in isr)
    BY <1>9
  <2>2. Moves(notifier, "ack", b)
    BY <1>9, <2>1, GotoMoves DEF At
  <2>3. /\ card' = [card EXCEPT !.isr = @ \ isr]
        /\ irr' \in BOOLEAN /\ (irr' => card'.isr # {})
    BY <1>9, CardBecomes DEF Acknowledged
  <2>4. UNCHANGED <<arrived, commands, given, passed, sent, cut>> /\ UNCHANGED arp_vars
    BY <1>9 DEF history
  <2>5. /\ card' \in CardType /\ card'.ring = card.ring /\ card'.curr = card.curr
        /\ card'.bnry = card.bnry /\ card'.bounds = card.bounds /\ card'.page = card.page
        /\ card'.loopback = card.loopback /\ card'.tx = card.tx /\ card'.on = card.on
        /\ card'.isr \subseteq card.isr
    BY <1>1, <2>3 DEF CardType, IsrBits
  <2>6. NotifierEffect("ack", b)
    BY <1>9, <2>1, <2>2, <2>3, <2>4, <2>5 DEF NotifierEffect
  <2>7. QED
    BY <2>6
<1>10. QED
  BY <1>4, <1>5, <1>6, <1>7, <1>8, <1>9 DEF ne_dpc, ne2k_driver_notifier

\* What the first half of ne_receive may change: it reads the frame, if there is one.
ReadEffect ==
  /\ Moves(notifier, "receive", "program")
  /\ UNCHANGED <<isr, out>> /\ UNCHANGED history /\ UNCHANGED arp_vars
  /\ card' \in CardType /\ irr' \in BOOLEAN
  /\ card'.ring = card.ring /\ card'.curr = card.curr
  /\ card'.bounds = card.bounds /\ card'.loopback = card.loopback
  /\ card'.tx = card.tx
  /\ p' \in FromWire /\ ne' \in NeType
  /\ ne.next_pkt # card.curr => p' = card.ring[ne.next_pkt]

\* What the second half may change: it hands on what p points to.
HandOnEffect(b) ==
  /\ Moves(notifier, "process", b) /\ b \in {"dpc", "transmit"}
  /\ passed' = Append(passed, p)
  /\ UNCHANGED <<card, irr, ne, isr, p>>
  /\ UNCHANGED <<arrived, commands, given, sent, cut>>
  /\ out' \in [Process -> Frames]
  /\ UNCHANGED arp_vars \/ arp_add_cache(p.ip, p.mac)

\* The two steps of ne_receive.
LEMMA ReceiveSteps ==
  ASSUME NeTypeOK, ne_receive
  PROVE  ReadEffect \/ \E b : HandOnEffect(b)
<1> USE TwoProcesses
<1>1. /\ card \in CardType /\ irr \in BOOLEAN /\ ne \in NeType /\ p \in FromWire
      /\ 0 \in 0 .. Page - 1 /\ out \in [Process -> Frames]
  BY Ne2kAssumption DEF NeTypeOK
<1>2. /\ Next_page(ne.next_pkt) \in 0 .. Page - 1 /\ ne.next_pkt \in 0 .. Page - 1
      /\ card.ring[ne.next_pkt] \in FromWire
  <2>1. ne.next_pkt \in 0 .. Page - 1 /\ card.ring \in [0 .. Page - 1 -> FromWire]
    BY <1>1 DEF NeType, CardType
  <2>2. Page \in Nat \ {0} /\ ne.next_pkt \in Nat
    BY <2>1, Ne2kAssumption
  <2>3. QED
    BY <2>1, <2>2 DEF Next_page
<1>3. CASE pc[notifier] = "receive"
  <2> DEFINE c == [Command(TRUE) EXCEPT !.page = 1, !.bnry = Next_page(ne.next_pkt),
                                        !.isr = @ \cup {"RDC"}]
             d == [Command(TRUE) EXCEPT !.page = 1]
  <2>1. /\ \/ /\ ne.next_pkt # card.curr /\ Card(c)
              /\ p' = card.ring[ne.next_pkt]
              /\ ne' = [ne EXCEPT !.next_pkt = Next_page(@)]
           \/ /\ ne.next_pkt = card.curr /\ Card(d) /\ UNCHANGED <<ne, p>>
        /\ Goto(notifier, "program")
        /\ UNCHANGED <<isr, out, history, arp_vars>>
    BY <1>3 DEF ne_receive, At
  <2> DEFINE Kept(e) == /\ e \in CardType /\ e.ring = card.ring /\ e.curr = card.curr
                        /\ e.bounds = card.bounds /\ e.loopback = card.loopback
                        /\ e.tx = card.tx
  <2>2. Kept(c) /\ Kept(d)
    <3>1. Command(TRUE) \in CardType
      BY CommandFields
    <3>2. Kept(c)
      BY <1>2, <3>1, CommandFields DEF CardType, IsrBits
    <3>3. Kept(d)
      BY <3>1, CommandFields DEF CardType
    <3>4. QED
      BY <3>2, <3>3
  <2> HIDE DEF c, d
  <2>3. card' \in {c, d} /\ irr' \in BOOLEAN
    BY <2>1, CardBecomes
  <2>4. Moves(notifier, "receive", "program")
    BY <1>3, <2>1, GotoMoves
  <2>5. p' \in FromWire /\ ne' \in NeType
    BY <1>1, <1>2, <2>1 DEF NeType
  <2>6. QED
    BY <2>1, <2>2, <2>3, <2>4, <2>5 DEF ReadEffect
<1>4. CASE pc[notifier] = "process"
  <2>1. /\ passed' = Append(passed, p)
        /\ Off /\ UNCHANGED <<ne, isr, p, arrived, commands, given, sent, configured, cut>>
    BY <1>4 DEF ne_receive, At
  <2>2. \/ arp_add_cache(p.ip, p.mac) /\ Goto(notifier, "dpc") /\ UNCHANGED out
        \/ /\ UNCHANGED arp_vars
           /\ ne_send_ethernet(notifier, [kind |-> "reply", ip |-> ne.ip, mac |-> p.mac,
                                          nr |-> p.nr])
        \/ UNCHANGED arp_vars /\ Goto(notifier, "dpc") /\ UNCHANGED out
    BY <1>4 DEF ne_receive, At
  <2>3. [kind |-> "reply", ip |-> ne.ip, mac |-> p.mac, nr |-> p.nr] \in Frames
    BY <1>1 DEF NeType, Frames, FromWire
  <2>4. /\ \E b \in {"dpc", "transmit"} : Goto(notifier, b)
        /\ out' \in [Process -> Frames]
    BY <1>1, <2>2, <2>3 DEF ne_send_ethernet, After
  <2>5. PICK b \in {"dpc", "transmit"} : Moves(notifier, "process", b)
    BY <1>4, <2>4, GotoMoves
  <2>6. HandOnEffect(b)
    BY <2>1, <2>2, <2>4, <2>5 DEF HandOnEffect, Off
  <2>7. QED
    BY <2>6
<1>5. QED
  BY <1>3, <1>4 DEF ne_receive, At

\* What the user's own steps may change.
UserEffect(a, b) ==
  /\ Moves(user, a, b)
  /\ a \notin {"sleep_init", "sleep_arp"} => pc[notifier] \in Blocked
  /\ <<a, b>> \in {<<"sleep_init", "probe">>, <<"probe", "restart">>, <<"restart", "idle">>,
                   <<"sleep_arp", "again">>, <<"again", "transmit">>, <<"again", "idle">>,
                   <<"idle", "transmit">>, <<"idle", "sleep_arp">>, <<"idle", "program">>,
                   <<"idle", "idle">>}
  /\ a = "idle" /\ b \in {"transmit", "sleep_arp"} => "sendudp" \in given'
  /\ UNCHANGED <<isr, p>> /\ UNCHANGED arp_vars
  /\ UNCHANGED <<arrived, passed, sent, cut>>
  /\ given \subseteq given' /\ commands' \in Nat
  /\ out' \in [Process -> Frames] /\ out'[notifier] = out[notifier]
  /\ ne' \in NeType /\ ne'.next_pkt = ne.next_pkt
  /\ card' \in CardType /\ irr' \in BOOLEAN
  /\ card'.ring = card.ring /\ card'.curr = card.curr /\ card'.bnry = card.bnry
  /\ card'.bounds = card.bounds /\ card'.tx = card.tx
  /\ card'.isr \subseteq card.isr
  /\ card'.page = 0 \/ card'.page = card.page
  /\ card'.loopback => card.loopback
  /\ a \in {"sleep_init", "sleep_arp"} => card' = card

\* What the user sends is a frame.
LEMMA UserFrames ==
  ASSUME NeTypeOK, ArpInv, NEW ip \in IpAddr
  PROVE  /\ arp_ip_to_mac_found(ip) => Udp(ip) \in Frames
         /\ Arp_request(ip) \in Frames
         /\ Udp(ip).kind = "udp"
<1>1. commands \in Nat
  BY DEF NeTypeOK
<1>2. Arp_request(ip) \in Frames
  BY <1>1 DEF Arp_request, Frames
<1>3. ASSUME arp_ip_to_mac_found(ip) PROVE Udp(ip) \in Frames
  <2>1. First(Matches(ip)) \in Slots
    <3>1. Matches(ip) \in SUBSET Slots /\ Matches(ip) # {}
      BY <1>3 DEF Matches, arp_ip_to_mac_found
    <3>2. QED
      BY <3>1, FirstFacts
  <2>2. arp_ip_to_mac(ip) \in Mac
    BY <2>1 DEF arp_ip_to_mac, ArpInv
  <2>3. QED
    BY <1>1, <2>2 DEF Udp, Frames
<1>4. Udp(ip).kind = "udp"
  BY DEF Udp
<1>5. QED
  BY <1>2, <1>3, <1>4

\* Each of the user's own steps.
LEMMA UserMoves ==
  ASSUME NeTypeOK, ArpInv,
         ne_init \/ wait_for_mac_address \/ \E c \in Commands, ip \in IpAddr : command(c, ip)
  PROVE  \E a, b : UserEffect(a, b)
<1> USE TwoProcesses
<1>1. /\ card \in CardType /\ irr \in BOOLEAN /\ ne \in NeType /\ commands \in Nat
      /\ out \in [Process -> Frames]
  BY DEF NeTypeOK
<1>2. ASSUME NEW a, NEW b, Moves(user, a, b),
             <<a, b>> \in {<<"sleep_init", "probe">>, <<"probe", "restart">>,
                           <<"restart", "idle">>},
             a # "sleep_init" => pc[notifier] \in Blocked,
             UNCHANGED <<mem, history, arp_vars>>,
             card' \in CardType, irr' \in BOOLEAN,
             card'.ring = card.ring, card'.curr = card.curr, card'.bnry = card.bnry,
             card'.bounds = card.bounds, card'.tx = card.tx, card'.isr \subseteq card.isr,
             card'.page = 0 \/ card'.page = card.page,
             card'.loopback => card.loopback,
             a = "sleep_init" => card' = card
      PROVE  \E x, y : UserEffect(x, y)
  <2>1. UNCHANGED <<ne, isr, p, out>> /\ UNCHANGED arp_vars
        /\ UNCHANGED <<arrived, commands, given, passed, sent, cut>>
    BY <1>2 DEF mem, history
  <2>2. a # "idle" /\ a # "sleep_arp"
    BY <1>2
  <2>3. UserEffect(a, b)
    BY <1>1, <1>2, <2>1, <2>2 DEF UserEffect
  <2>4. QED
    BY <2>3
<1>3. CASE ne_init
  <2>1. UNCHANGED <<mem, history, arp_vars>>
    BY <1>3 DEF ne_init, Touch
  <2>2. CASE pc[user] = "sleep_init" /\ Goto(user, "probe") /\ Off
    <3>1. Moves(user, "sleep_init", "probe") /\ card' = card /\ irr' = irr
      BY <2>2, GotoMoves DEF Off
    <3>2. QED
      BY <1>1, <1>2, <2>1, <3>1
  <2>3. CASE At(user, "probe") /\ ne_reset /\ Goto(user, "restart")
    <3>1. PICK bits \in {card.isr, {}}, mask \in {card.imr, {}} :
            Card([Command(FALSE) EXCEPT !.isr = bits, !.imr = mask, !.loopback = FALSE])
      BY <2>3 DEF ne_reset
    <3> DEFINE c == [Command(FALSE) EXCEPT !.isr = bits, !.imr = mask, !.loopback = FALSE]
    <3>2. /\ c \in CardType /\ c.ring = card.ring /\ c.tx = card.tx
          /\ c.isr \subseteq card.isr /\ c.page = 0 /\ c.curr = card.curr
          /\ c.bnry = card.bnry /\ c.bounds = card.bounds /\ ~ c.loopback
      BY <1>1, CommandFields DEF CardType
    <3>3. Card(c)
      BY <3>1
    <3> HIDE DEF c
    <3>4. card' = c /\ irr' \in BOOLEAN
      BY <3>3, CardBecomes
    <3>5. Moves(user, "probe", "restart") /\ pc[notifier] \in Blocked
      BY <2>3, GotoMoves DEF At
    <3>6. QED
      BY <1>2, <2>1, <3>2, <3>4, <3>5
  <2>4. CASE Touch(user, "restart", "idle", Command(TRUE))
    <3>1. /\ Moves(user, "restart", "idle") /\ pc[notifier] \in Blocked
          /\ card' = Command(TRUE) /\ irr' \in BOOLEAN
      BY <2>4, TouchFacts
    <3>2. QED
      BY <1>2, <2>1, <3>1, CommandFields
  <2>5. QED
    BY <1>3, <2>2, <2>3, <2>4 DEF ne_init
<1>4. CASE wait_for_mac_address
  <2>1. /\ card' = card /\ irr' = irr /\ UNCHANGED <<ne, isr, p>> /\ UNCHANGED arp_vars
        /\ UNCHANGED <<arrived, commands, given, passed, sent, cut>>
    BY <1>4 DEF wait_for_mac_address, Off, mem, history
  <2>2. CASE pc[user] = "sleep_arp"
    <3>1. Goto(user, "again") /\ out' = out
      BY <1>4, <2>2 DEF wait_for_mac_address, At, mem
    <3>2. Moves(user, "sleep_arp", "again")
      BY <2>2, <3>1, GotoMoves
    <3>3. UserEffect("sleep_arp", "again")
      BY <1>1, <2>1, <3>1, <3>2 DEF UserEffect
    <3>4. QED
      BY <3>3
  <2>3. CASE At(user, "again") /\ pc[user] # "sleep_arp"
    <3> DEFINE ip == out[user].ip
    <3>1. ip \in IpAddr
      BY <1>1 DEF Frames
    <3>2. \/ arp_ip_to_mac_found(ip) /\ ne_send_ethernet(user, Udp(ip))
          \/ Goto(user, "idle") /\ UNCHANGED out
      BY <1>4, <2>3 DEF wait_for_mac_address
    <3> HIDE DEF ip
    <3>3. CASE arp_ip_to_mac_found(ip) /\ ne_send_ethernet(user, Udp(ip))
      <4>1. Udp(ip) \in Frames /\ Udp(ip).kind = "udp"
        BY <3>1, <3>3, UserFrames
      <4>2. out' = [out EXCEPT ![user] = Udp(ip)]
        BY <3>3 DEF ne_send_ethernet
      <4>3. Goto(user, "transmit") \/ Goto(user, "idle")
        BY <3>3, <4>1 DEF ne_send_ethernet, After
      <4>4. out' \in [Process -> Frames] /\ out'[notifier] = out[notifier]
        BY <1>1, <4>1, <4>2
      <4>5. Moves(user, "again", "transmit") \/ Moves(user, "again", "idle")
        BY <2>3, <4>3, GotoMoves DEF At
      <4>6. UserEffect("again", "transmit") \/ UserEffect("again", "idle")
        BY <1>1, <2>1, <2>3, <4>4, <4>5 DEF UserEffect, At
      <4>7. QED
        BY <4>6
    <3>4. CASE Goto(user, "idle") /\ UNCHANGED out
      <4>1. Moves(user, "again", "idle")
        BY <2>3, <3>4, GotoMoves DEF At
      <4>2. UserEffect("again", "idle")
        BY <1>1, <2>1, <2>3, <3>4, <4>1 DEF UserEffect, At
      <4>3. QED
        BY <4>2
    <3>5. QED
      BY <3>2, <3>3, <3>4
  <2>4. QED
    BY <1>4, <2>2, <2>3 DEF wait_for_mac_address
<1>5. CASE \E c \in Commands, ip \in IpAddr : command(c, ip)
  <2>1. PICK c \in Commands, ip \in IpAddr : command(c, ip)
    BY <1>5
  <2>2. /\ pc[user] = "idle" /\ pc[notifier] \in Blocked
        /\ commands' = commands + 1 /\ given' = given \cup {c}
        /\ card' = card /\ irr' = irr /\ UNCHANGED <<isr, p>> /\ UNCHANGED arp_vars
        /\ UNCHANGED <<arrived, passed, sent, cut>>
    BY <2>1 DEF command, At, Off
  <2>3. CASE Goto(user, "program") /\ UNCHANGED <<ne, out>>
    <3>1. Moves(user, "idle", "program")
      BY <2>2, <2>3, GotoMoves
    <3>2. UserEffect("idle", "program")
      BY <1>1, <2>2, <2>3, <3>1 DEF UserEffect
    <3>3. QED
      BY <3>2
  <2>4. CASE ne' = [ne EXCEPT !.ip = ip] /\ UNCHANGED <<pc, out>>
    <3>1. Moves(user, "idle", "idle")
      BY <2>2, <2>4 DEF Moves, NeTypeOK
    <3>2. ne' \in NeType /\ ne'.next_pkt = ne.next_pkt
      BY <1>1, <2>4 DEF NeType
    <3>3. UserEffect("idle", "idle")
      BY <1>1, <2>2, <2>4, <3>1, <3>2 DEF UserEffect
    <3>4. QED
      BY <3>3
  <2>5. CASE c = "sendudp" /\ ne_do_send_udp(ip) /\ UNCHANGED ne
    <3>1. PICK f \in Frames : ne_send_ethernet(user, f)
      BY <2>5, UserFrames DEF ne_do_send_udp
    <3>2. PICK b \in {"transmit", "sleep_arp", "idle"} : Goto(user, b)
      BY <3>1 DEF ne_send_ethernet, After
    <3>3. Moves(user, "idle", b)
      BY <2>2, <3>2, GotoMoves
    <3>4. out' \in [Process -> Frames] /\ out'[notifier] = out[notifier]
      BY <1>1, <3>1 DEF ne_send_ethernet
    <3>5. UserEffect("idle", b)
      BY <1>1, <2>2, <2>5, <3>3, <3>4 DEF UserEffect
    <3>6. QED
      BY <3>5
  <2>6. QED
    BY <2>1, <2>3, <2>4, <2>5 DEF command
<1>6. QED
  BY <1>3, <1>4, <1>5

\* What the arrival of frame f may change.
ArriveEffect(f) ==
  /\ UNCHANGED <<ne, isr, p, out, pc>> /\ UNCHANGED arp_vars
  /\ UNCHANGED <<commands, given, passed, sent, cut>>
  /\ arrived' = arrived + 1
  /\ f \in FromWire /\ f.kind # "garbage" /\ f.nr = arrived + 1
  /\ \/ card' = card /\ irr' = irr
     \/ /\ card' \in CardType /\ irr' \in BOOLEAN
        /\ card.on /\ card'.on = card.on /\ card'.page = card.page
        /\ card'.dma = card.dma /\ card'.bnry = card.bnry /\ card'.bounds = card.bounds
        /\ card'.loopback = card.loopback /\ card'.tpsr = card.tpsr
        /\ card.bounds => card'.tx = card.tx
        /\ card.bounds => card'.curr # card.bnry
        /\ card'.ring = [card.ring EXCEPT ![card.curr] = f]

\* A frame arrives.
LEMMA ArriveSteps ==
  ASSUME NeTypeOK, NEW k \in Kinds, NEW ip \in Host, arrive(k, ip)
  PROVE  \E f : ArriveEffect(f)
<1> DEFINE f == [kind |-> k, ip |-> ip, mac |-> ip, nr |-> arrived + 1]
<1>1. card \in CardType /\ irr \in BOOLEAN /\ arrived \in Nat /\ garbage \in Frames
  BY TwoProcesses DEF NeTypeOK
<1>2. f \in FromWire /\ f.kind # "garbage" /\ f.nr = arrived + 1
  <2>1. k \in {"reply", "request", "udp"} /\ ip \in Mac /\ ip \in IpAddr
    BY Ne2kAssumption
  <2>2. QED
    BY <1>1, <2>1 DEF FromWire
<1>3. /\ UNCHANGED <<ne, isr, p, out, pc>> /\ UNCHANGED arp_vars
      /\ UNCHANGED <<commands, given, passed, sent, cut>> /\ arrived' = arrived + 1
  BY DEF arrive, mem
<1>4. CASE Off
  BY <1>2, <1>3, <1>4 DEF ArriveEffect, Off
<1>5. CASE ~ Off
  <2>1. /\ card.on /\ ~ Full
        /\ \E a \in IF card.bounds THEN {Next_page(card.curr)} ELSE 0 .. Page - 1,
              t \in IF card.bounds THEN {card.tx} ELSE {card.tx, garbage} :
             Card([card EXCEPT !.ring[card.curr] = f, !.curr = a, !.tx = t,
                               !.isr = @ \cup {"PRX"}])
    BY <1>5 DEF arrive
  <2>2. PICK a \in IF card.bounds THEN {Next_page(card.curr)} ELSE 0 .. Page - 1,
             t \in IF card.bounds THEN {card.tx} ELSE {card.tx, garbage} :
             Card([card EXCEPT !.ring[card.curr] = f, !.curr = a, !.tx = t,
                               !.isr = @ \cup {"PRX"}])
    BY <2>1
  <2> DEFINE c == [card EXCEPT !.ring[card.curr] = f, !.curr = a, !.tx = t,
                               !.isr = @ \cup {"PRX"}]
  <2> HIDE DEF f
  <2>3. Next_page(card.curr) \in 0 .. Page - 1
    <3>1. card.curr \in Nat /\ Page \in Nat \ {0}
      BY <1>1, Ne2kAssumption DEF CardType
    <3>2. QED
      BY <3>1 DEF Next_page
  <2>4. a \in 0 .. Page - 1 /\ t \in Frames
        /\ (card.bounds => a = Next_page(card.curr) /\ t = card.tx)
    <3>1. CASE card.bounds
      BY <1>1, <2>3, <3>1 DEF CardType
    <3>2. CASE ~ card.bounds
      BY <1>1, <3>2 DEF CardType
    <3>3. QED
      BY <3>1, <3>2
  <2>5. card.bounds => a # card.bnry
    BY <2>1, <2>4 DEF Full
  <2>6. /\ c \in CardType /\ c.on = card.on /\ c.page = card.page
        /\ c.dma = card.dma /\ c.bnry = card.bnry /\ c.bounds = card.bounds
        /\ c.loopback = card.loopback /\ c.tpsr = card.tpsr /\ c.tx = t /\ c.curr = a
        /\ c.ring = [card.ring EXCEPT ![card.curr] = f]
    BY <1>1, <1>2, <2>4 DEF CardType, IsrBits
  <2>7. Card(c)
    BY <2>2
  <2> HIDE DEF c
  <2>8. card' = c /\ irr' \in BOOLEAN
    BY <2>7, CardBecomes
  <2>9. ArriveEffect(f)
    BY <1>2, <1>3, <2>1, <2>4, <2>5, <2>6, <2>8 DEF ArriveEffect
  <2>10. QED
    BY <2>9
<1>6. QED
  BY <1>4, <1>5

\* Every step is one of these.
Effects ==
  \/ \E q \in Process : \E a, b : SetupEffect(q, a, b)
  \/ \E q \in Process : \E a, b : TransmitEffect(q, a, b)
  \/ \E a, b : NotifierEffect(a, b)
  \/ ReadEffect
  \/ \E b : HandOnEffect(b)
  \/ \E a, b : UserEffect(a, b)
  \/ \E f : ArriveEffect(f)

\* The steps of the driver, the card and the user.
LEMMA NeSteps ==
  ASSUME NeTypeOK, ArpInv, NeNext
  PROVE  Effects
<1> USE TwoProcesses
<1>1. CASE ne_init \/ wait_for_mac_address \/ \E c \in Commands, ip \in IpAddr : command(c, ip)
  BY <1>1, UserMoves DEF Effects
<1>2. CASE \E q \in Process : ne_setup(q)
  BY <1>2, SetupSteps DEF Effects
<1>3. CASE \E q \in Process : ne_transmit(q)
  BY <1>3, TransmitSteps DEF Effects
<1>4. CASE isr_ne2k_driver \/ ne2k_driver_notifier \/ ne_dpc
  BY <1>4, NotifierMoves DEF Effects
<1>5. CASE ne_receive
  BY <1>5, ReceiveSteps DEF Effects
<1>6. CASE \E k \in Kinds, ip \in Host : arrive(k, ip)
  BY <1>6, ArriveSteps DEF Effects
<1>7. QED
  BY <1>1, <1>2, <1>3, <1>4, <1>5, <1>6 DEF NeNext, NotifierSteps, UserSteps

\* What was given or has happened stays so.
LEMMA HistoryGrows ==
  ASSUME Effects
  PROVE  cut \subseteq cut' /\ given \subseteq given'
BY DEF Effects, SetupEffect, TransmitEffect, NotifierEffect, ReadEffect, HandOnEffect,
       UserEffect, ArriveEffect, Comes_in, history

-------------------------------------------------------------------------------
(* The network card: types and registers.                                      *)

\* The place a process goes to is one of its places.
LEMMA PlaceTypes ==
  ASSUME NeTypeOK, NEW q \in Process, NEW a, NEW b, Moves(q, a, b),
         q = notifier => b \in NotifierAt, q = user => b \in UserAt
  PROVE  DOMAIN pc' = Process /\ pc'[notifier] \in NotifierAt /\ pc'[user] \in UserAt
BY TwoProcesses DEF NeTypeOK, Moves

\* Every step keeps the types.
LEMMA NeTypeStep ==
  ASSUME NeTypeOK, ArpInv, NeNext
  PROVE  NeTypeOK'
<1> USE TwoProcesses
<1> HIDE DEF CardType, NeType, SentType
<1>1. Effects
  BY NeSteps
<1>2. ASSUME NEW q \in Process, NEW a, NEW b, SetupEffect(q, a, b) PROVE NeTypeOK'
  <2>1. b \in Setup \cup {"process", "sleep_init"} /\ (b = "process" <=> b # "sleep_init" /\ b \notin Setup)
        /\ (b = "process" => q = notifier) /\ (b = "sleep_init" => q # notifier)
    BY <1>2 DEF SetupEffect, Setup, Unclear, Stale, Early
  <2>2. DOMAIN pc' = Process /\ pc'[notifier] \in NotifierAt /\ pc'[user] \in UserAt
    BY <1>2, <2>1, PlaceTypes DEF SetupEffect, NotifierAt, UserAt
  <2>3. QED
    BY <1>2, <2>2 DEF SetupEffect, NeTypeOK, history
<1>3. ASSUME NEW q \in Process, NEW a, NEW b, TransmitEffect(q, a, b) PROVE NeTypeOK'
  <2>1. \/ b \in Transmit
        \/ b = "dpc" /\ q = notifier
        \/ b \in {"sleep_arp", "idle"} /\ q = user
    BY <1>3 DEF TransmitEffect, Transmit, After
  <2>2. DOMAIN pc' = Process /\ pc'[notifier] \in NotifierAt /\ pc'[user] \in UserAt
    BY <1>3, <2>1, PlaceTypes DEF TransmitEffect, NotifierAt, UserAt, Serving
  <2>3. Entry(q) \in SentType
    <3>1. card.tx \in Frames /\ out[q] \in Frames /\ pc[user] \in UserAt
      BY DEF NeTypeOK, CardType
    <3>2. (~ card.loopback) \in BOOLEAN
      OBVIOUS
    <3>3. QED
      BY <3>1, <3>2 DEF Entry, SentType
  <2>4. sent' \in Seq(SentType)
    BY <1>3, <2>3 DEF TransmitEffect, NeTypeOK
  <2>5. cut' \in SUBSET {"setup", "page"}
    BY <1>3 DEF TransmitEffect, NeTypeOK, Comes_in
  <2>6. QED
    BY <1>3, <2>2, <2>4, <2>5 DEF TransmitEffect, NeTypeOK
<1>4. ASSUME NEW a, NEW b, NotifierEffect(a, b) PROVE NeTypeOK'
  <2>1. b \in NotifierAt
    BY <1>4 DEF NotifierEffect, Moves, NeTypeOK, NotifierAt, Resting, Serving
  <2>2. DOMAIN pc' = Process /\ pc'[notifier] \in NotifierAt /\ pc'[user] \in UserAt
    BY <1>4, <2>1, PlaceTypes DEF NotifierEffect
  <2>3. isr' \in SUBSET IsrBits /\ p' \in FromWire /\ cut' \in SUBSET {"setup", "page"}
    BY <1>4 DEF NotifierEffect, NeTypeOK, CardType, Comes_in
  <2>4. QED
    BY <1>4, <2>2, <2>3 DEF NotifierEffect, NeTypeOK
<1>5. ASSUME ReadEffect PROVE NeTypeOK'
  <2>1. DOMAIN pc' = Process /\ pc'[notifier] \in NotifierAt /\ pc'[user] \in UserAt
    BY <1>5, PlaceTypes DEF ReadEffect, NotifierAt, Setup, Unclear, Stale, Early
  <2>2. QED
    BY <1>5, <2>1 DEF ReadEffect, NeTypeOK, history
<1>6. ASSUME NEW b, HandOnEffect(b) PROVE NeTypeOK'
  <2>1. DOMAIN pc' = Process /\ pc'[notifier] \in NotifierAt /\ pc'[user] \in UserAt
    BY <1>6, PlaceTypes DEF HandOnEffect, NotifierAt, Serving, Transmit
  <2>2. passed' \in Seq(FromWire)
    BY <1>6 DEF HandOnEffect, NeTypeOK
  <2>3. QED
    BY <1>6, <2>1, <2>2 DEF HandOnEffect, NeTypeOK
<1>7. ASSUME NEW a, NEW b, UserEffect(a, b) PROVE NeTypeOK'
  <2>1. b \in UserAt
    BY <1>7 DEF UserEffect, UserAt, Setup, Unclear, Stale, Early, Transmit
  <2>2. DOMAIN pc' = Process /\ pc'[notifier] \in NotifierAt /\ pc'[user] \in UserAt
    BY <1>7, <2>1, PlaceTypes DEF UserEffect
  <2>3. QED
    BY <1>7, <2>2 DEF UserEffect, NeTypeOK
<1>8. ASSUME NEW f, ArriveEffect(f) PROVE NeTypeOK'
  <2>1. card' \in CardType /\ irr' \in BOOLEAN /\ arrived' \in Nat
    BY <1>8 DEF ArriveEffect, NeTypeOK
  <2>2. QED
    BY <1>8, <2>1 DEF ArriveEffect, NeTypeOK
<1>9. QED
  BY <1>1, <1>2, <1>3, <1>4, <1>5, <1>6, <1>7, <1>8 DEF Effects

\* The table of arp.c in the driver.
LEMMA NeTable ==
  ASSUME NeTypeOK, ArpInv, Effects
  PROVE  ArpInv'
<1>1. UNCHANGED arp_vars \/ arp_add_cache(p.ip, p.mac)
  BY DEF Effects, SetupEffect, TransmitEffect, NotifierEffect, ReadEffect, HandOnEffect,
         UserEffect, ArriveEffect
<1>2. p.ip \in IpAddr /\ p.mac \in Mac
  BY DEF NeTypeOK, FromWire
<1>3. QED
  BY <1>1, <1>2, ArpStep

\* The registers, in every step.
LEMMA RegistersStep ==
  ASSUME NeTypeOK, Registers, Effects
  PROVE  Registers'
<1> USE TwoProcesses
<1> USE DEF Moves, Paged, Looped
<1>1. ASSUME NEW q \in Process, NEW a, NEW b, SetupEffect(q, a, b) PROVE Registers'
  <2>1. CASE q = notifier
    BY <1>1, <2>1 DEF SetupEffect, Registers
  <2>2. CASE q = user
    BY <1>1, <2>2 DEF SetupEffect, Registers, Blocked
  <2>3. QED
    BY <2>1, <2>2
<1>2. ASSUME NEW q \in Process, NEW a, NEW b, TransmitEffect(q, a, b) PROVE Registers'
  <2>1. b \in Transmit \cup {"dpc", "idle", "sleep_arp"} /\ a \in Transmit
    BY <1>2 DEF TransmitEffect, After, Transmit
  <2>2. card'.page = 0 \/ card'.page = card.page
    BY <1>2 DEF TransmitEffect
  <2>3. CASE q = notifier
    BY <1>2, <2>1, <2>2, <2>3 DEF TransmitEffect, Registers, Transmit
  <2>4. CASE q = user
    <3>1. CASE a = "sleep"
      BY <1>2, <2>1, <2>4, <3>1 DEF TransmitEffect, Registers, Transmit
    <3>2. CASE a # "sleep"
      <4>1. pc[notifier] \in Blocked /\ pc'[notifier] = pc[notifier]
        BY <1>2, <2>4, <3>2 DEF TransmitEffect
      <4>2. QED
        BY <1>2, <2>1, <2>2, <2>4, <4>1 DEF TransmitEffect, Registers, Transmit, Blocked
    <3>3. QED
      BY <3>1, <3>2
  <2>5. QED
    BY <2>3, <2>4
<1>3. ASSUME NEW a, NEW b, NotifierEffect(a, b) PROVE Registers'
  <2>1. CASE a = b
    BY <1>3, <2>1 DEF NotifierEffect, Registers
  <2>2. CASE a # b
    BY <1>3, <2>2 DEF NotifierEffect, Registers
  <2>3. QED
    BY <2>1, <2>2
<1>4. ASSUME ReadEffect PROVE Registers'
  BY <1>4 DEF ReadEffect, Registers
<1>5. ASSUME NEW b, HandOnEffect(b) PROVE Registers'
  BY <1>5 DEF HandOnEffect, Registers
<1>6. ASSUME NEW a, NEW b, UserEffect(a, b) PROVE Registers'
  <2>1. /\ pc'[notifier] = pc[notifier] /\ pc[user] = a /\ pc'[user] = b
        /\ a \notin Looped /\ b \notin Looped
        /\ ne'.next_pkt = ne.next_pkt
        /\ card'.page = 0 \/ card'.page = card.page
        /\ card'.loopback => card.loopback
    BY <1>6 DEF UserEffect
  <2>2. CASE pc[notifier] \in Blocked
    BY <2>1, <2>2 DEF Registers, Blocked
  <2>3. CASE pc[notifier] \notin Blocked
    <3>1. card' = card
      BY <1>6, <2>3 DEF UserEffect
    <3>2. QED
      BY <2>1, <3>1 DEF Registers
  <2>4. QED
    BY <2>2, <2>3
<1>7. ASSUME NEW f, ArriveEffect(f) PROVE Registers'
  BY <1>7 DEF ArriveEffect, Registers
<1>8. QED
  BY <1>1, <1>2, <1>3, <1>4, <1>5, <1>6, <1>7 DEF Effects

\* Page 1 and the bounds, as long as the notifier does not come in while page 1 is
\* selected.
LEMMA PageStep ==
  ASSUME NeTypeOK, Registers, PageKept, BoundsSet, Effects, "page" \notin cut'
  PROVE  PageKept' /\ BoundsSet'
<1> USE TwoProcesses
<1> USE DEF Moves, Paged, Resting, Serving, Early
<1>1. ASSUME NEW q \in Process, NEW a, NEW b, SetupEffect(q, a, b) PROVE PageKept' /\ BoundsSet'
  <2>1. CASE q = notifier
    <3>1. PageKept'
      BY <1>1, <2>1 DEF SetupEffect, PageKept
    <3>2. a # "check" \/ ~ card.on
      BY <1>1, <2>1 DEF SetupEffect, Registers
    <3>3. a = "par" => card.page = 1
      BY <1>1, <2>1 DEF SetupEffect, Registers
    <3>4. BoundsSet'
      BY <1>1, <2>1, <3>2, <3>3 DEF SetupEffect, BoundsSet
    <3>5. QED
      BY <3>1, <3>4
  <2>2. CASE q = user
    <3>1. pc[notifier] \in Resting /\ pc'[notifier] = pc[notifier]
      BY <1>1, <2>2 DEF SetupEffect, Blocked, NeTypeOK, NotifierAt, Setup, Unclear, Stale,
                        Transmit
    <3>2. a = "par" => card.page = 1
      BY <1>1, <2>2 DEF SetupEffect, PageKept
    <3>3. PageKept'
      BY <1>1, <2>2, <3>1 DEF SetupEffect, PageKept
    <3>4. BoundsSet'
      BY <1>1, <2>2, <3>1, <3>2 DEF SetupEffect, BoundsSet
    <3>5. QED
      BY <3>3, <3>4
  <2>3. QED
    BY <2>1, <2>2
<1>2. ASSUME NEW q \in Process, NEW a, NEW b, TransmitEffect(q, a, b)
      PROVE PageKept' /\ BoundsSet'
  <2>1. b \in Transmit \cup {"dpc", "idle", "sleep_arp"} /\ a \in Transmit
        /\ card'.bounds = card.bounds
    BY <1>2 DEF TransmitEffect, After, Transmit
  <2>2. CASE q = notifier
    <3>1. BoundsSet'
      BY <1>2, <2>1, <2>2 DEF TransmitEffect, BoundsSet, Transmit
    <3>2. pc'[user] = pc[user] /\ pc[notifier] = a
      BY <1>2, <2>2 DEF TransmitEffect
    <3>3. CASE a = "sleep"
      <4>1. Comes_in
        BY <1>2, <2>2, <3>3 DEF TransmitEffect
      <4>2. pc[user] \notin Paged
        BY <4>1 DEF Comes_in
      <4>3. QED
        BY <3>1, <3>2, <4>2 DEF PageKept
    <3>4. CASE a # "sleep"
      BY <2>1, <3>1, <3>2, <3>4 DEF PageKept, Transmit
    <3>5. QED
      BY <3>3, <3>4
  <2>3. CASE q = user
    <3>1. pc'[notifier] = pc[notifier] /\ pc'[user] = b
      BY <1>2, <2>3 DEF TransmitEffect
    <3>2. QED
      BY <2>1, <3>1 DEF PageKept, BoundsSet, Transmit
  <2>4. QED
    BY <2>2, <2>3
<1>3. ASSUME NEW a, NEW b, NotifierEffect(a, b) PROVE PageKept' /\ BoundsSet'
  <2>1. /\ pc'[user] = pc[user] /\ pc[notifier] = a /\ pc'[notifier] = b
        /\ card'.bounds = card.bounds
    BY <1>3 DEF NotifierEffect
  <2>2. BoundsSet'
    BY <1>3, <2>1 DEF NotifierEffect, BoundsSet
  <2>3. CASE a = "waiting" /\ b = "woken"
    <3>1. pc[user] \notin Paged
      BY <1>3, <2>3 DEF NotifierEffect, Comes_in
    <3>2. QED
      BY <2>1, <2>2, <3>1 DEF PageKept
  <2>4. CASE ~ (a = "waiting" /\ b = "woken")
    BY <1>3, <2>1, <2>2, <2>4 DEF NotifierEffect, PageKept
  <2>5. QED
    BY <2>3, <2>4
<1>4. ASSUME ReadEffect PROVE PageKept' /\ BoundsSet'
  BY <1>4 DEF ReadEffect, PageKept, BoundsSet
<1>5. ASSUME NEW b, HandOnEffect(b) PROVE PageKept' /\ BoundsSet'
  BY <1>5 DEF HandOnEffect, PageKept, BoundsSet
<1>6. ASSUME NEW a, NEW b, UserEffect(a, b) PROVE PageKept' /\ BoundsSet'
  BY <1>6 DEF UserEffect, PageKept, BoundsSet
<1>7. ASSUME NEW f, ArriveEffect(f) PROVE PageKept' /\ BoundsSet'
  BY <1>7 DEF ArriveEffect, PageKept, BoundsSet
<1>8. QED
  BY <1>1, <1>2, <1>3, <1>4, <1>5, <1>6, <1>7 DEF Effects

-------------------------------------------------------------------------------
(* The network card: the frames.                                               *)

\* Steps that leave the ring and the frames that were handed on as they are.
LEMMA OrderKept ==
  ASSUME InOrderInv, UNCHANGED <<passed, arrived>>,
         p' = p \/ pc'[notifier] \notin Setup \cup {"process"},
         card'.ring = card.ring,
         Settled' /\ card'.curr # 0 => Settled /\ card'.curr = card.curr,
         pc'[notifier] \in Setup \cup {"process"} => pc[notifier] \in Setup \cup {"process"}
  PROVE  /\ PacketThere' /\ InOrder'
         /\ (\A k \in 1 .. Len(passed) : passed[k].nr <= arrived)'
         /\ HeadIsNewer' /\ FrameInHand'
<1>1. PacketThere' /\ InOrder' /\ (\A k \in 1 .. Len(passed) : passed[k].nr <= arrived)'
  BY DEF InOrderInv, PacketThere, InOrder
<1> HIDE DEF Settled
<1>2. HeadIsNewer'
  BY DEF InOrderInv, HeadIsNewer
<1>3. FrameInHand'
  <2>1. SUFFICES ASSUME pc'[notifier] \in Setup \cup {"process"} PROVE FrameInHand'
    BY DEF FrameInHand
  <2>2. p' = p /\ pc[notifier] \in Setup \cup {"process"}
    BY <2>1
  <2> HIDE DEF Setup
  <2>3. QED
    BY <2>2 DEF InOrderInv, FrameInHand
<1>4. QED
  BY <1>1, <1>2, <1>3

\* ne_setup in the notifier, with a frame in hand.
LEMMA OrderSetup ==
  ASSUME NeTypeOK, InOrderInv, Registers, NEW a, NEW b, SetupEffect(notifier, a, b)
  PROVE  InOrderInv'
<1> USE TwoProcesses
<1>1. /\ pc[notifier] = a /\ pc'[notifier] = b /\ pc'[user] = pc[user]
      /\ a \in Setup /\ b \in Setup \cup {"process"} /\ b # "program"
      /\ (a = "check" => b = "prom") /\ (a = "clear" <=> b = "mask")
      /\ (a = "curr" => b = "par") /\ (a = "bounds" <=> b = "page1")
      /\ (b \in Stale => a \in Stale) /\ (b \in Unclear => a \in Unclear)
      /\ (b \in Early => a \in Early) /\ (a \in Stale /\ b \notin Stale => a = "curr")
      /\ (a \in Unclear /\ b \notin Unclear => a = "clear")
      /\ (a \in Early /\ b \notin Early => a = "bounds")
  <2>1. pc[notifier] = a /\ pc'[notifier] = b /\ pc'[user] = pc[user]
    BY DEF SetupEffect, Moves
  <2>2. a # "check" \/ ~ card.on
    BY <2>1 DEF Registers
  <2>3. QED
    BY <2>1, <2>2 DEF SetupEffect, Setup, Unclear, Stale, Early
<1>2. /\ UNCHANGED <<passed, arrived, p, isr>> /\ card'.ring = card.ring
      /\ "PRX" \in card'.isr => "PRX" \in card.isr /\ a # "clear"
      /\ card'.curr = IF a = "curr" THEN 0 ELSE card.curr
      /\ card'.bnry = IF a = "bounds" THEN 0 ELSE card.bnry
      /\ card.bounds => card'.bounds
  <2>1. a \in Paged => card.page = 1
    BY <1>1 DEF Registers
  <2>2. a # "program" => ne.next_pkt = 0
    BY <1>1 DEF Registers
  <2>3. QED
    BY <2>1, <2>2 DEF SetupEffect, history, Paged
<1>3. /\ card.bounds /\ pc[user] \notin InSetup
      /\ (Settled <=> a \notin Stale) /\ (Settled' <=> b \notin Stale)
  <2>1. a \notin Resting
    BY <1>1 DEF Setup, Unclear, Stale, Early, Resting
  <2>2. card.bounds /\ pc[user] \notin InSetup
    BY <1>1, <2>1 DEF InOrderInv, SetupFirst, Undisturbed
  <2>3. pc[user] \notin Stale \ {"program"}
    BY <2>2 DEF InSetup, Looped, Paged, Stale, Early
  <2>4. QED
    BY <1>1, <2>2, <2>3 DEF Settled
<1>4. /\ PacketThere' /\ InOrder' /\ HeadIsNewer' /\ FrameInHand'
      /\ (\A k \in 1 .. Len(passed) : passed[k].nr <= arrived)'
  <2>1. Settled' /\ card'.curr # 0 => Settled /\ card'.curr = card.curr
    BY <1>1, <1>2, <1>3
  <2>2. QED
    BY <1>1, <1>2, <2>1, OrderKept
<1>5. SetupFirst'
  BY <1>2, <1>3 DEF SetupFirst
<1>6. Undisturbed'
  <2>1. pc'[user] \notin InSetup /\ "check" \in InSetup
    BY <1>1, <1>3 DEF InSetup
  <2>2. pc'[notifier] \notin Early => card'.bnry = 0
    BY <1>1, <1>2 DEF InOrderInv, Undisturbed
  <2>3. QED
    BY <2>1, <2>2 DEF Undisturbed
<1>7. ReceivedIsThere'
  <2>1. b \notin {"ack", "receive"}
    BY <1>1 DEF Setup, Unclear, Stale, Early
  <2>2. a = "curr" => b \in Unclear
    BY <1>1 DEF Unclear
  <2>3. QED
    BY <1>1, <1>2, <2>1, <2>2 DEF InOrderInv, ReceivedIsThere
<1>8. QED
  BY <1>4, <1>5, <1>6, <1>7 DEF InOrderInv

\* ne_setup in the user, with the notifier at rest.
LEMMA OrderUserSetup ==
  ASSUME NeTypeOK, InOrderInv, Registers, PageKept, NEW a, NEW b, SetupEffect(user, a, b)
  PROVE  InOrderInv'
<1> USE TwoProcesses
<1>1. /\ pc[user] = a /\ pc'[user] = b /\ pc'[notifier] = pc[notifier]
      /\ pc[notifier] \in {"absent", "waiting", "sleep"}
  <2>1. pc[user] = a /\ pc'[user] = b /\ pc'[notifier] = pc[notifier]
        /\ pc[notifier] \in Blocked
    BY DEF SetupEffect, Moves
  <2>2. pc[notifier] \in NotifierAt
    BY DEF NeTypeOK
  <2>3. QED
    BY <2>1, <2>2 DEF Blocked, NotifierAt, Resting, Serving, Setup, Unclear, Stale, Early,
                      Transmit
<1>2. /\ a \in Setup /\ b \in Setup \cup {"sleep_init"} /\ b # "program"
      /\ (a = "check" => b = "prom") /\ (a = "program" <=> b = "check")
      /\ (a = "clear" <=> b = "mask") /\ (a = "curr" <=> b = "par")
      /\ (b \in Stale => a \in Stale) /\ (b \in Unclear => a \in Unclear)
      /\ (a \in Stale /\ b \notin Stale => a = "curr")
      /\ (a \in Unclear /\ b \notin Unclear => a = "clear")
      /\ (a \in Early /\ b \notin Early => a = "bounds")
      /\ (b = "prom" <=> a = "check")
  <2>1. a # "check" \/ ~ card.on
    BY <1>1 DEF InOrderInv, Undisturbed
  <2>2. QED
    BY <2>1 DEF SetupEffect, Setup, Unclear, Stale, Early
<1>3. /\ UNCHANGED <<passed, arrived, p, isr>> /\ card'.ring = card.ring
      /\ "PRX" \in card'.isr => "PRX" \in card.isr /\ a # "clear"
      /\ card'.curr = IF a = "curr" THEN 0 ELSE card.curr
      /\ card'.bnry = IF a = "bounds" THEN 0 ELSE card.bnry
      /\ (card.bounds \/ a = "bounds" => card'.bounds)
      /\ a = "program" => ~ card'.on /\ card'.isr \subseteq card.isr
      /\ irr' => irr \/ card'.isr # {}
  <2>1. a \in Paged => card.page = 1
    BY <1>1 DEF PageKept
  <2>2. ne.next_pkt = 0
    BY <1>1 DEF Registers
  <2>3. QED
    BY <2>1, <2>2 DEF SetupEffect, history, Paged
<1>4. /\ PacketThere' /\ InOrder' /\ HeadIsNewer' /\ FrameInHand'
      /\ (\A k \in 1 .. Len(passed) : passed[k].nr <= arrived)'
  <2>1. Settled' /\ card'.curr # 0 => Settled /\ card'.curr = card.curr
    <3>1. Settled' /\ card'.curr # 0 => pc'[user] \notin Stale
      BY <1>1, <1>2 DEF Settled
    <3>2. Settled' /\ card'.curr # 0 => pc[user] \notin Stale /\ a # "curr"
      BY <1>1, <1>2, <1>3, <3>1
    <3>3. QED
      BY <1>1, <1>3, <3>2 DEF Settled
  <2>2. pc'[notifier] \notin Setup \cup {"process"}
    BY <1>1 DEF Setup, Unclear, Stale, Early
  <2>3. QED
    BY <1>1, <1>3, <2>1, <2>2, OrderKept
<1>5. SetupFirst'
  <2>1. CASE card.bounds \/ a = "bounds"
    BY <1>3, <2>1 DEF SetupFirst
  <2>2. CASE ~ card.bounds /\ a # "bounds"
    <3>1. /\ a \in Early /\ pc[notifier] \in Resting \ {"sleep"}
          /\ a \in {"program", "check"} =>
               ~ card.on /\ card.isr = {} /\ ~ irr /\ card.curr = 0
      BY <1>1, <2>2 DEF InOrderInv, SetupFirst
    <3>2. b \in Early
      BY <1>2, <2>2, <3>1
    <3>3. CASE a = "program"
      <4>1. ~ card'.on /\ card'.isr = {} /\ ~ irr' /\ card'.curr = 0
        BY <1>3, <3>1, <3>3
      <4>2. QED
        BY <1>1, <3>1, <3>2, <4>1 DEF SetupFirst
    <3>4. CASE a # "program"
      BY <1>1, <1>2, <3>1, <3>2, <3>4 DEF SetupFirst
    <3>5. QED
      BY <3>3, <3>4
  <2>3. QED
    BY <2>1, <2>2
<1>6. Undisturbed'
  <2>1. pc'[notifier] \in Resting
    BY <1>1 DEF Resting
  <2>2. pc'[user] = "check" => ~ card'.on
    BY <1>1, <1>2, <1>3
  <2>3. card'.bnry = 0
    BY <1>1, <1>3 DEF InOrderInv, Undisturbed, Early
  <2>4. QED
    BY <2>1, <2>2, <2>3 DEF Undisturbed
<1>7. ReceivedIsThere'
  <2>1. "PRX" \in card'.isr => b \in Unclear \ {"program"} \/ card'.curr # 0
    <3>1. ASSUME "PRX" \in card'.isr, b \notin Unclear PROVE card'.curr # 0
      <4>1. "PRX" \in card.isr /\ a # "clear" /\ a \notin Unclear
        BY <1>2, <1>3, <3>1
      <4>2. pc[notifier] \notin Unclear
        BY <1>1 DEF Unclear, Stale, Early
      <4>3. card.curr # 0
        BY <1>1, <4>1, <4>2 DEF InOrderInv, ReceivedIsThere
      <4>4. a # "curr"
        BY <4>1 DEF Unclear, Stale
      <4>5. QED
        BY <1>3, <4>3, <4>4
    <3>2. QED
      BY <1>2, <3>1
  <2>2. QED
    BY <1>1, <2>1 DEF ReceivedIsThere
<1>8. QED
  BY <1>4, <1>5, <1>6, <1>7 DEF InOrderInv

\* ne_transmit, in both processes.
LEMMA OrderTransmit ==
  ASSUME NeTypeOK, InOrderInv, NEW q \in Process, NEW a, NEW b, TransmitEffect(q, a, b),
         cut' = {}
  PROVE  InOrderInv'
<1> USE TwoProcesses
<1>1. /\ a \in Transmit /\ b \in Transmit \cup {"dpc", "idle", "sleep_arp"}
      /\ pc[q] = a /\ pc'[q] = b /\ (q = notifier => pc'[user] = pc[user])
      /\ (q = user => pc'[notifier] = pc[notifier])
  BY DEF TransmitEffect, After, Transmit, Moves
<1>2. /\ a \notin Setup \cup {"process", "ack", "receive"} /\ a \notin InSetup
      /\ b \notin Setup \cup {"process", "ack", "receive"} /\ b \notin InSetup
  BY <1>1 DEF Transmit, Setup, Unclear, Stale, Early, InSetup, Looped, Paged
<1>3. /\ UNCHANGED <<passed, arrived, p, isr>>
      /\ card'.ring = card.ring /\ card'.curr = card.curr /\ card'.bnry = card.bnry
      /\ card'.bounds = card.bounds /\ ("PRX" \in card'.isr => "PRX" \in card.isr)
  BY DEF TransmitEffect
<1>4. card.bounds
  <2>1. \/ pc[user] \notin Early
        \/ pc[notifier] \notin Resting \ {"sleep"}
    BY <1>1 DEF Transmit, Early, Resting
  <2>2. QED
    BY <2>1 DEF InOrderInv, SetupFirst
<1>5. (Settled' <=> Settled)
  <2>1. pc'[notifier] \in Stale <=> pc[notifier] \in Stale
    BY <1>1, <1>2 DEF Setup, Unclear
  <2>2. pc'[user] \in Stale \ {"program"} <=> pc[user] \in Stale \ {"program"}
    BY <1>1, <1>2 DEF Setup, Unclear
  <2>3. QED
    BY <2>1, <2>2 DEF Settled
<1>6. /\ PacketThere' /\ InOrder' /\ HeadIsNewer' /\ FrameInHand'
      /\ (\A k \in 1 .. Len(passed) : passed[k].nr <= arrived)'
  BY <1>1, <1>2, <1>3, <1>5, OrderKept
<1>7. SetupFirst'
  BY <1>3, <1>4 DEF SetupFirst
<1>8. Undisturbed'
  <2>1. pc'[user] \in InSetup => pc'[notifier] \in Resting
    <3>1. CASE q = user
      BY <1>1, <1>2, <3>1
    <3>2. CASE q = notifier /\ a = "sleep"
      <4>1. Comes_in
        BY <3>2 DEF TransmitEffect
      <4>2. pc[user] \notin InSetup
        BY <4>1 DEF Comes_in
      <4>3. QED
        BY <1>1, <3>2, <4>2
    <3>3. CASE q = notifier /\ a # "sleep"
      <4>1. a \notin Resting
        BY <1>1, <3>3 DEF Transmit, Resting
      <4>2. QED
        BY <1>1, <3>3, <4>1 DEF InOrderInv, Undisturbed
    <3>4. QED
      BY <3>1, <3>2, <3>3
  <2>2. pc'[user] = "check" => ~ card'.on
    <3>1. CASE q = user
      BY <1>1, <1>2, <3>1 DEF InSetup
    <3>2. CASE q = notifier
      <4>1. "check" \in InSetup
        BY DEF InSetup
      <4>2. pc'[user] = "check" => pc[notifier] \in Resting
        BY <1>1, <3>2, <4>1 DEF InOrderInv, Undisturbed
      <4>3. pc'[user] = "check" => pc'[notifier] \in Resting
        BY <2>1, <4>1
      <4>4. pc'[user] # "check"
        BY <1>1, <3>2, <4>1, <4>2, <4>3 DEF TransmitEffect, Transmit, Resting, Comes_in
      <4>5. QED
        BY <4>4
    <3>3. QED
      BY <3>1, <3>2
  <2>3. pc'[notifier] \notin Early => card'.bnry = 0
    <3>1. pc'[notifier] \in Early <=> pc[notifier] \in Early
      BY <1>1, <1>2 DEF Setup, Unclear, Stale
    <3>2. QED
      BY <1>3, <3>1 DEF InOrderInv, Undisturbed
  <2>4. QED
    BY <2>1, <2>2, <2>3 DEF Undisturbed
<1>9. ReceivedIsThere'
  <2>1. (pc'[notifier] \in Unclear <=> pc[notifier] \in Unclear)
        /\ (pc'[user] \in Unclear \ {"program"} <=> pc[user] \in Unclear \ {"program"})
    BY <1>1, <1>2 DEF Setup
  <2>2. pc'[notifier] \in {"ack", "receive"} => pc'[notifier] = pc[notifier]
    BY <1>1, <1>2
  <2>3. QED
    BY <1>3, <2>1, <2>2 DEF InOrderInv, ReceivedIsThere
<1>10. QED
  BY <1>6, <1>7, <1>8, <1>9 DEF InOrderInv


\* The interrupt, the notifier's loop and ne_dpc.
LEMMA OrderNotifier ==
  ASSUME NeTypeOK, InOrderInv, NEW a, NEW b, NotifierEffect(a, b), cut' = {}
  PROVE  InOrderInv'
<1> USE TwoProcesses
<1>1. /\ pc[notifier] = a /\ pc'[notifier] = b /\ pc'[user] = pc[user]
      /\ a = b \/ (a \notin Setup \cup {"process"} /\ b \notin Setup \cup {"process"})
      /\ (a # b /\ a \in Resting => b \in Resting \/ (a = "waiting" /\ b = "woken"))
      /\ (a # b => b # "sleep")
  BY DEF NotifierEffect, Moves, Setup, Unclear, Stale, Early, Resting
<1>2. /\ UNCHANGED <<passed, arrived>> /\ card'.ring = card.ring /\ card'.curr = card.curr
      /\ card'.bnry = card.bnry /\ card'.bounds = card.bounds /\ card'.isr \subseteq card.isr
      /\ (irr' => irr \/ card'.isr # {}) /\ (a # "dpc" => card'.on = card.on)
      /\ (p' = p \/ (a = "ack" /\ a # b))
  BY DEF NotifierEffect
<1>3. CASE a = "waiting" /\ b = "woken"
  <2>1. irr /\ Comes_in
    BY <1>3 DEF NotifierEffect
  <2>2. pc[user] \notin InSetup
    BY <2>1 DEF Comes_in
  <2>3. card.bounds
    BY <2>1, <2>2 DEF InOrderInv, SetupFirst, Early, InSetup, Looped, Paged
  <2>4. SetupFirst'
    BY <1>2, <2>3 DEF SetupFirst
  <2>5. Undisturbed'
    BY <1>1, <1>2, <1>3, <2>2 DEF InOrderInv, Undisturbed, InSetup, Early
  <2>6. ReceivedIsThere'
    BY <1>1, <1>2, <1>3 DEF InOrderInv, ReceivedIsThere, Unclear, Stale, Early
  <2>7. (Settled' <=> Settled) /\ b \notin Setup \cup {"process"}
    BY <1>1, <1>3 DEF Settled, Setup, Unclear, Stale, Early
  <2>8. QED
    BY <1>1, <1>2, <1>3, <2>4, <2>5, <2>6, <2>7, OrderKept DEF InOrderInv
<1>4. CASE ~ (a = "waiting" /\ b = "woken")
  <2>1. SetupFirst'
    <3>1. SUFFICES ASSUME ~ card.bounds PROVE SetupFirst'
      BY <1>2 DEF SetupFirst
    <3>2. /\ pc[user] \in Early /\ a \in Resting \ {"sleep"}
          /\ pc[user] \in {"program", "check"} =>
               ~ card.on /\ card.isr = {} /\ ~ irr /\ card.curr = 0
      BY <1>1, <3>1 DEF InOrderInv, SetupFirst
    <3>3. b \in Resting \ {"sleep"} /\ a # "dpc"
      BY <1>1, <1>4, <3>2 DEF Resting
    <3>4. pc[user] \in {"program", "check"} =>
            ~ card'.on /\ card'.isr = {} /\ ~ irr' /\ card'.curr = 0
      BY <1>2, <3>2, <3>3
    <3>5. QED
      BY <1>1, <3>2, <3>3, <3>4 DEF SetupFirst
  <2>2. pc'[user] \in InSetup => pc'[notifier] \in Resting
    BY <1>1, <1>4 DEF InOrderInv, Undisturbed
  <2>3. pc'[user] = "check" => ~ card'.on
    <3>1. pc[user] = "check" => a \in Resting
      BY <1>1 DEF InOrderInv, Undisturbed, InSetup
    <3>2. QED
      BY <1>1, <1>2, <3>1 DEF InOrderInv, Undisturbed, Resting
  <2>4. pc'[notifier] \notin Early => card'.bnry = 0
    BY <1>1, <1>2 DEF InOrderInv, Undisturbed, Setup, Unclear, Stale
  <2>5. "PRX" \in card'.isr =>
          \/ pc'[notifier] \in Unclear
          \/ pc'[user] \in Unclear \ {"program"}
          \/ card'.curr # 0
    BY <1>1, <1>2 DEF InOrderInv, ReceivedIsThere, Setup
  <2>6. pc'[notifier] = "ack" /\ "PRX" \in isr' => card'.curr # 0
    <3>1. CASE b = "ack" /\ a # b
      <4>1. a = "dpc" /\ isr' = card.isr
        BY <3>1 DEF NotifierEffect
      <4>2. pc[user] \notin InSetup
        BY <1>1, <4>1 DEF InOrderInv, Undisturbed, Resting
      <4>3. pc[user] \notin Unclear \ {"program"} /\ pc[notifier] \notin Unclear
        BY <1>1, <4>1, <4>2 DEF Unclear, Stale, Early, InSetup, Looped, Paged
      <4>4. QED
        BY <1>2, <4>1, <4>3 DEF InOrderInv, ReceivedIsThere
    <3>2. CASE b = "ack" /\ a = b
      <4>1. isr' = isr
        BY <3>2 DEF NotifierEffect
      <4>2. QED
        BY <1>1, <1>2, <3>2, <4>1 DEF InOrderInv, ReceivedIsThere
    <3>3. QED
      BY <1>1, <3>1, <3>2
  <2>7. pc'[notifier] = "receive" => card'.curr # 0
    <3>1. CASE b = "receive" /\ a # b
      <4>1. a = "ack" /\ "PRX" \in isr
        BY <3>1 DEF NotifierEffect
      <4>2. QED
        BY <1>1, <1>2, <4>1 DEF InOrderInv, ReceivedIsThere
    <3>2. CASE b = "receive" /\ a = b
      BY <1>1, <1>2, <3>2 DEF InOrderInv, ReceivedIsThere
    <3>3. QED
      BY <1>1, <3>1, <3>2
  <2>8. (Settled' <=> Settled)
    BY <1>1 DEF Settled, Setup, Unclear
  <2>9. p' = p \/ b \notin Setup \cup {"process"}
    BY <1>1, <1>2
  <2>10. /\ PacketThere' /\ InOrder' /\ HeadIsNewer' /\ FrameInHand'
         /\ (\A k \in 1 .. Len(passed) : passed[k].nr <= arrived)'
    BY <1>1, <1>2, <2>8, <2>9, OrderKept
  <2>11. ReceivedIsThere'
    BY <2>5, <2>6, <2>7 DEF ReceivedIsThere
  <2>12. Undisturbed'
    BY <2>2, <2>3, <2>4 DEF Undisturbed
  <2>13. QED
    BY <2>1, <2>10, <2>11, <2>12 DEF InOrderInv
<1>5. QED
  BY <1>3, <1>4

\* ne_receive reads the frame at the head of the ring.
LEMMA OrderRead ==
  ASSUME NeTypeOK, InOrderInv, Registers, ReadEffect
  PROVE  InOrderInv'
<1> USE TwoProcesses
<1>1. /\ pc[notifier] = "receive" /\ pc'[notifier] = "program" /\ pc'[user] = pc[user]
      /\ UNCHANGED <<passed, arrived>> /\ card'.ring = card.ring /\ card'.curr = card.curr
      /\ card'.bounds = card.bounds
  BY DEF ReadEffect, Moves, history
<1>2. card.bounds /\ pc[user] \notin InSetup /\ card.curr # 0
  BY <1>1 DEF InOrderInv, SetupFirst, Undisturbed, ReceivedIsThere, Resting
<1>3. p' = card.ring[0]
  BY <1>1, <1>2 DEF ReadEffect, Registers
<1>4. Settled
  BY <1>1, <1>2 DEF Settled, InSetup, Looped, Paged, Stale, Early
<1>5. /\ p'.kind # "garbage" /\ p'.nr <= arrived
      /\ \A k \in 1 .. Len(passed) : passed[k].nr < p'.nr
  BY <1>2, <1>3, <1>4 DEF InOrderInv, HeadIsNewer
<1>6. ~ Settled'
  BY <1>1 DEF Settled, Stale, Early
<1>7. HeadIsNewer' /\ FrameInHand'
  BY <1>1, <1>5, <1>6 DEF HeadIsNewer, FrameInHand
<1>8. PacketThere' /\ InOrder' /\ (\A k \in 1 .. Len(passed) : passed[k].nr <= arrived)'
  BY <1>1 DEF InOrderInv, PacketThere, InOrder
<1>9. SetupFirst'
  BY <1>1, <1>2 DEF SetupFirst
<1>10. Undisturbed'
  BY <1>1, <1>2 DEF Undisturbed, Early, InSetup
<1>11. ReceivedIsThere'
  BY <1>1 DEF ReceivedIsThere, Unclear, Stale, Early
<1>12. QED
  BY <1>7, <1>8, <1>9, <1>10, <1>11 DEF InOrderInv

\* ne_receive hands on the frame in hand.
LEMMA OrderHandOn ==
  ASSUME NeTypeOK, InOrderInv, NEW b, HandOnEffect(b)
  PROVE  InOrderInv'
<1> USE TwoProcesses
<1>1. /\ pc[notifier] = "process" /\ pc'[notifier] = b /\ pc'[user] = pc[user]
      /\ b \in {"dpc", "transmit"}
      /\ passed' = Append(passed, p) /\ UNCHANGED <<card, p, isr, arrived>>
  BY DEF HandOnEffect, Moves
<1>2. card.bounds /\ pc[user] \notin InSetup
  BY <1>1 DEF InOrderInv, SetupFirst, Undisturbed, Resting
<1>3. Settled
  BY <1>1, <1>2 DEF Settled, InSetup, Looped, Paged, Stale, Early
<1>4. /\ p.kind # "garbage" /\ p.nr <= arrived
      /\ \A k \in 1 .. Len(passed) : passed[k].nr < p.nr
      /\ card.curr # 0 => p.nr < card.ring[0].nr
  BY <1>1, <1>3 DEF InOrderInv, FrameInHand
<1>5. /\ Len(passed') = Len(passed) + 1 /\ passed'[Len(passed) + 1] = p
      /\ \A k \in 1 .. Len(passed) : passed'[k] = passed[k]
      /\ Len(passed) \in Nat
  BY <1>1 DEF NeTypeOK
<1>6. \A k \in 1 .. Len(passed') : k \in 1 .. Len(passed) \/ k = Len(passed) + 1
  BY <1>5
<1>7. PacketThere' /\ (\A k \in 1 .. Len(passed) : passed[k].nr <= arrived)'
  BY <1>1, <1>4, <1>5, <1>6 DEF InOrderInv, PacketThere
<1>8. InOrder'
  <2>1. \A j, k \in 1 .. Len(passed) : j < k => passed[j].nr < passed[k].nr
    BY DEF InOrderInv, InOrder
  <2>2. ASSUME NEW j \in 1 .. Len(passed'), NEW k \in 1 .. Len(passed'), j < k
        PROVE  passed'[j].nr < passed'[k].nr
    BY <1>4, <1>5, <1>6, <2>1, <2>2
  <2>3. QED
    BY <2>2 DEF InOrder
<1>9. HeadIsNewer'
  <2>1. card.curr # 0 => /\ card.ring[0].kind # "garbage" /\ card.ring[0].nr <= arrived
                         /\ \A k \in 1 .. Len(passed) : passed[k].nr < card.ring[0].nr
    BY <1>3 DEF InOrderInv, HeadIsNewer
  <2>2. card.curr # 0 => \A k \in 1 .. Len(passed') : passed'[k].nr < card.ring[0].nr
    BY <1>4, <1>5, <1>6, <2>1
  <2>3. QED
    BY <1>1, <2>1, <2>2 DEF HeadIsNewer
<1>10. b \notin Setup \cup {"process"} /\ "process" \notin Unclear /\ "process" \notin Early
  BY <1>1 DEF Setup, Unclear, Stale, Early
<1>11. FrameInHand'
  BY <1>1, <1>10 DEF FrameInHand
<1>12. SetupFirst' /\ Undisturbed'
  BY <1>1, <1>2, <1>10 DEF InOrderInv, SetupFirst, Undisturbed, InSetup
<1>13. ReceivedIsThere'
  BY <1>1, <1>10 DEF InOrderInv, ReceivedIsThere
<1>14. QED
  BY <1>7, <1>8, <1>9, <1>11, <1>12, <1>13 DEF InOrderInv

\* The user's own steps.
LEMMA OrderUser ==
  ASSUME NeTypeOK, InOrderInv, NEW a, NEW b, UserEffect(a, b)
  PROVE  InOrderInv'
<1> USE TwoProcesses
<1>1. /\ pc[user] = a /\ pc'[user] = b /\ pc'[notifier] = pc[notifier]
      /\ a \notin InSetup /\ a \notin Unclear /\ a \notin Early
      /\ b \notin InSetup /\ b \notin Unclear \ {"program"} /\ b \notin Stale \ {"program"}
      /\ UNCHANGED <<passed, arrived, p, isr>> /\ card'.ring = card.ring
      /\ card'.curr = card.curr /\ card'.bnry = card.bnry /\ card'.bounds = card.bounds
      /\ card'.isr \subseteq card.isr
  BY DEF UserEffect, Moves, InSetup, Looped, Paged, Unclear, Stale, Early
<1>2. card.bounds
  BY <1>1 DEF InOrderInv, SetupFirst
<1>3. (Settled' <=> Settled)
  BY <1>1 DEF Settled, Unclear
<1>4. /\ PacketThere' /\ InOrder' /\ HeadIsNewer' /\ FrameInHand'
      /\ (\A k \in 1 .. Len(passed) : passed[k].nr <= arrived)'
  BY <1>1, <1>3, OrderKept
<1>5. SetupFirst'
  BY <1>1, <1>2 DEF SetupFirst
<1>6. Undisturbed'
  BY <1>1 DEF InOrderInv, Undisturbed, InSetup
<1>7. ReceivedIsThere'
  BY <1>1 DEF InOrderInv, ReceivedIsThere
<1>8. QED
  BY <1>4, <1>5, <1>6, <1>7 DEF InOrderInv

\* A frame arrives.
LEMMA OrderArrive ==
  ASSUME NeTypeOK, InOrderInv, NEW f, ArriveEffect(f)
  PROVE  InOrderInv'
<1> USE TwoProcesses
<1>1. /\ UNCHANGED <<ne, isr, p, pc, passed>> /\ arrived' = arrived + 1 /\ arrived \in Nat
      /\ f.kind # "garbage" /\ f.nr = arrived + 1 /\ f \in FromWire
      /\ p.nr \in Nat /\ \A k \in 1 .. Len(passed) : passed[k].nr \in Nat
  <2>1. \A k \in 1 .. Len(passed) : passed[k] \in FromWire
    BY DEF NeTypeOK
  <2>2. \A g \in FromWire : g.nr \in Nat
    BY DEF FromWire
  <2>3. p \in FromWire /\ arrived \in Nat
    BY DEF NeTypeOK
  <2>4. QED
    BY <2>1, <2>2, <2>3 DEF ArriveEffect
<1>2. PacketThere' /\ InOrder' /\ (\A k \in 1 .. Len(passed) : passed[k].nr <= arrived)'
  BY <1>1 DEF InOrderInv, PacketThere, InOrder
<1>3. card.ring \in [0 .. Page - 1 -> FromWire] /\ card.curr \in 0 .. Page - 1
      /\ 0 \in 0 .. Page - 1
  BY Ne2kAssumption DEF NeTypeOK, CardType
<1>4. card.ring[0] \in FromWire /\ card.ring[0].nr \in Nat
  BY <1>3 DEF FromWire
<1>5. CASE card' = card /\ irr' = irr
  <2>1. SetupFirst' /\ Undisturbed' /\ ReceivedIsThere'
    BY <1>1, <1>5 DEF InOrderInv, SetupFirst, Undisturbed, ReceivedIsThere
  <2>2. HeadIsNewer'
    BY <1>1, <1>4, <1>5 DEF InOrderInv, HeadIsNewer, Settled
  <2>3. FrameInHand'
    BY <1>1, <1>5 DEF InOrderInv, FrameInHand, Settled
  <2>4. QED
    BY <1>2, <2>1, <2>2, <2>3 DEF InOrderInv
<1>6. CASE /\ card.on /\ card'.on = card.on
           /\ card'.bnry = card.bnry /\ card'.bounds = card.bounds
           /\ card.bounds => card'.curr # card.bnry
           /\ card'.ring = [card.ring EXCEPT ![card.curr] = f]
  <2>1. SetupFirst'
    BY <1>1, <1>6 DEF InOrderInv, SetupFirst
  <2>2. Undisturbed'
    BY <1>1, <1>6 DEF InOrderInv, Undisturbed
  <2>3. Settled' <=> Settled
    BY <1>1 DEF Settled
  <2>4. card.bounds /\ pc[notifier] \notin Early => card.bnry = 0 /\ card'.curr # 0
    BY <1>6 DEF InOrderInv, Undisturbed
  <2>5. pc[notifier] \in Setup \cup {"process", "ack", "receive"} => card.bounds
    BY DEF InOrderInv, SetupFirst, Setup, Unclear, Stale, Early, Resting
  <2>6. card'.ring[0] = IF card.curr = 0 THEN f ELSE card.ring[0]
    BY <1>3, <1>6
  <2>7. HeadIsNewer'
    <3>1. SUFFICES ASSUME Settled, card'.curr # 0 PROVE HeadIsNewer'
      BY <2>3 DEF HeadIsNewer
    <3>2. CASE card.curr = 0
      <4>1. card'.ring[0] = f
        BY <2>6, <3>2
      <4>2. \A k \in 1 .. Len(passed) : passed[k].nr <= arrived
        BY DEF InOrderInv
      <4>3. \A k \in 1 .. Len(passed') : passed'[k].nr < card'.ring[0].nr
        BY <1>1, <4>1, <4>2
      <4>4. QED
        BY <1>1, <4>1, <4>3 DEF HeadIsNewer
    <3>3. CASE card.curr # 0
      <4>1. /\ card.ring[0].kind # "garbage" /\ card.ring[0].nr <= arrived
            /\ \A k \in 1 .. Len(passed) : passed[k].nr < card.ring[0].nr
        BY <3>1, <3>3 DEF InOrderInv, HeadIsNewer
      <4>2. card'.ring[0] = card.ring[0]
        BY <2>6, <3>3
      <4>3. card'.ring[0].nr <= arrived'
        BY <1>1, <1>4, <4>1, <4>2
      <4>4. QED
        BY <1>1, <4>1, <4>2, <4>3 DEF HeadIsNewer
    <3>4. QED
      BY <3>2, <3>3
  <2>8. FrameInHand'
    <3>1. SUFFICES ASSUME pc[notifier] \in Setup \cup {"process"} PROVE FrameInHand'
      BY <1>1 DEF FrameInHand
    <3>2. /\ p.kind # "garbage" /\ p.nr <= arrived
          /\ \A k \in 1 .. Len(passed) : passed[k].nr < p.nr
          /\ Settled /\ card.curr # 0 => p.nr < card.ring[0].nr
      BY <3>1 DEF InOrderInv, FrameInHand
    <3>3. Settled => p.nr < card'.ring[0].nr
      <4>1. CASE card.curr = 0
        BY <1>1, <2>6, <3>2, <4>1
      <4>2. CASE card.curr # 0
        BY <2>6, <3>2, <4>2
      <4>3. QED
        BY <4>1, <4>2
    <3>4. p.nr <= arrived'
      BY <1>1, <3>2
    <3>5. QED
      BY <1>1, <2>3, <3>2, <3>3, <3>4 DEF FrameInHand
  <2>9. ReceivedIsThere'
    <3>1. pc[notifier] \notin Unclear /\ pc[user] \notin Unclear \ {"program"} => card'.curr # 0
      <4>1. pc[notifier] \notin Unclear => pc[notifier] \notin Early
        BY DEF Unclear, Stale
      <4>2. pc[notifier] \notin Unclear /\ pc[user] \notin Unclear \ {"program"} => card.bounds
        <5>1. ASSUME ~ card.bounds, pc[user] \notin Unclear \ {"program"} PROVE FALSE
          <6>1. pc[user] \in Early
            BY <5>1 DEF InOrderInv, SetupFirst
          <6>2. pc[user] = "program"
            BY <5>1, <6>1 DEF Unclear, Stale
          <6>3. ~ card.on
            BY <5>1, <6>2 DEF InOrderInv, SetupFirst
          <6>4. QED
            BY <1>6, <6>3
        <5>2. QED
          BY <5>1
      <4>3. QED
        BY <2>4, <4>1, <4>2
    <3>2. pc[notifier] \in {"ack", "receive"} => card'.curr # 0
      <4>1. {"ack", "receive"} \cap Early = {}
        BY DEF Early
      <4>2. QED
        BY <2>4, <2>5, <4>1
    <3>3. QED
      BY <1>1, <3>1, <3>2 DEF ReceivedIsThere
  <2>10. QED
    BY <1>2, <2>1, <2>2, <2>7, <2>8, <2>9 DEF InOrderInv
<1>7. QED
  BY <1>5, <1>6 DEF ArriveEffect

\* Every step keeps the order of the frames, as long as the notifier does not come in
\* while the user sets the card up.
LEMMA OrderStep ==
  ASSUME NeTypeOK, Registers, PageKept, InOrderInv, Effects, cut' = {}
  PROVE  InOrderInv'
<1> USE TwoProcesses
<1>1. ASSUME NEW q \in Process, NEW a, NEW b, SetupEffect(q, a, b) PROVE InOrderInv'
  BY <1>1, OrderSetup, OrderUserSetup
<1>2. QED
  BY <1>1, OrderTransmit, OrderNotifier, OrderRead, OrderHandOn, OrderUser, OrderArrive
     DEF Effects

-------------------------------------------------------------------------------
(* The network card: the answers.                                              *)

\* ne_transmit in the notifier.
LEMMA AnswerTransmit ==
  ASSUME NeTypeOK, Registers, PageKept, AnswerInHand,
         NEW a, NEW b, TransmitEffect(notifier, a, b)
  PROVE  AnswerInHand'
<1> USE TwoProcesses
<1>1. /\ pc[notifier] = a /\ pc'[notifier] = b /\ pc'[user] = pc[user] /\ out' = out
      /\ <<a, b>> \in {<<"transmit", "copy">>, <<"copy", "copy_rest">>, <<"copy_rest", "sleep">>,
                       <<"sleep", "tpsr">>, <<"tpsr", "send">>, <<"send", "dpc">>}
  BY DEF TransmitEffect, Moves, After
<1>2. b \in {"copy", "copy_rest"} => card'.dma = notifier
  BY <1>1 DEF TransmitEffect, AnswerInHand
<1>3. b \in {"sleep", "tpsr", "send"} => card'.tx = out'[notifier]
  <2>1. CASE a = "copy_rest"
    BY <1>1, <2>1 DEF TransmitEffect, AnswerInHand
  <2>2. CASE a \in {"sleep", "tpsr"}
    BY <1>1, <2>2 DEF TransmitEffect, AnswerInHand
  <2>3. QED
    BY <1>1, <2>1, <2>2
<1>4. b = "send" => card'.tpsr = "buffer"
  <2>1. SUFFICES ASSUME b = "send" PROVE card'.tpsr = "buffer"
    OBVIOUS
  <2>2. a = "tpsr"
    BY <1>1, <2>1
  <2>3. card.page = 0
    <3>1. pc[user] \notin Paged
      BY <1>1, <2>2 DEF PageKept, Resting
    <3>2. QED
      BY <1>1, <2>2, <3>1 DEF Registers, NeTypeOK, CardType, Paged
  <2>4. QED
    BY <2>2, <2>3 DEF TransmitEffect
<1>5. \A k \in 1 .. Len(sent') : /\ sent'[k].frame = sent'[k].asked
                                 /\ sent'[k].left \/ sent'[k].during \in Looped
  <2>1. \A k \in 1 .. Len(sent) : /\ sent[k].frame = sent[k].asked
                                  /\ sent[k].left \/ sent[k].during \in Looped
    BY DEF AnswerInHand
  <2>2. CASE a # "send"
    BY <2>1, <2>2 DEF TransmitEffect
  <2>3. CASE a = "send"
    <3>1. sent' = Append(sent, Entry(notifier)) /\ sent \in Seq(SentType)
      BY <2>3 DEF TransmitEffect, NeTypeOK
    <3>2. Entry(notifier).frame = Entry(notifier).asked
      BY <1>1, <2>3 DEF AnswerInHand, Entry
    <3>3. Entry(notifier).left \/ Entry(notifier).during \in Looped
      <4>1. card.loopback => pc[user] \in Looped
        BY <1>1, <2>3 DEF Registers, Looped, Paged
      <4>2. Entry(notifier).left = ~ card.loopback /\ Entry(notifier).during = pc[user]
        BY DEF Entry
      <4>3. QED
        BY <4>1, <4>2
    <3> HIDE DEF SentType
    <3>4. /\ Len(sent') = Len(sent) + 1 /\ sent'[Len(sent) + 1] = Entry(notifier)
          /\ \A k \in 1 .. Len(sent) : sent'[k] = sent[k]
          /\ Len(sent) \in Nat
      BY <3>1
    <3>5. \A k \in 1 .. Len(sent') : k \in 1 .. Len(sent) \/ k = Len(sent) + 1
      BY <3>4
    <3>6. QED
      BY <2>1, <3>2, <3>3, <3>4, <3>5
  <2>4. QED
    BY <2>2, <2>3
<1>6. QED
  BY <1>1, <1>2, <1>3, <1>4, <1>5 DEF AnswerInHand

\* Every step keeps the answer in hand, as long as the user sends nothing and the
\* notifier does not come in while page 1 is selected.
LEMMA AnswerStep ==
  ASSUME NeTypeOK, Registers, PageKept, BoundsSet, AnswerInHand, Effects,
         "sendudp" \notin given'
  PROVE  AnswerInHand'
<1> USE TwoProcesses
<1> DEFINE Holding == {"copy", "copy_rest", "sleep", "tpsr", "send"}
<1>1. ASSUME pc'[user] \notin Transmit \cup {"sleep_arp", "again"},
             UNCHANGED sent, pc'[notifier] \notin Holding
      PROVE  AnswerInHand'
  BY <1>1 DEF AnswerInHand
<1>2. ASSUME pc'[user] \notin Transmit \cup {"sleep_arp", "again"},
             UNCHANGED sent, pc'[notifier] = pc[notifier], out'[notifier] = out[notifier],
             pc[notifier] \in {"sleep", "tpsr", "send"} => card'.tx = card.tx,
             \/ pc[notifier] \notin Holding \ {"sleep"}
             \/ card'.dma = card.dma /\ card'.tpsr = card.tpsr
      PROVE  AnswerInHand'
  BY <1>2 DEF AnswerInHand
<1>3. ASSUME NEW a, NEW b, SetupEffect(notifier, a, b) PROVE AnswerInHand'
  <2>1. pc'[notifier] = b /\ pc'[user] = pc[user] /\ sent' = sent
    BY <1>3 DEF SetupEffect, Moves, history
  <2>2. b \notin Holding
    BY <1>3 DEF SetupEffect
  <2>3. QED
    BY <1>1, <2>1, <2>2 DEF AnswerInHand
<1>4. ASSUME NEW a, NEW b, SetupEffect(user, a, b) PROVE AnswerInHand'
  <2>1. /\ pc'[user] = b /\ pc'[notifier] = pc[notifier] /\ pc[notifier] \in Blocked
        /\ sent' = sent /\ out' = out /\ card'.tx = card.tx
    BY <1>4 DEF SetupEffect, Moves, history
  <2>2. b \notin Transmit \cup {"sleep_arp", "again"}
    BY <1>4 DEF SetupEffect, Transmit
  <2>3. pc[notifier] \notin Holding \ {"sleep"}
    BY <2>1 DEF Blocked
  <2>4. QED
    BY <1>2, <2>1, <2>2, <2>3
<1>5. ASSUME NEW q \in Process, NEW a, NEW b, TransmitEffect(q, a, b) PROVE AnswerInHand'
  <2>1. q # user
    BY <1>5 DEF TransmitEffect, Moves, AnswerInHand, Transmit
  <2>2. QED
    BY <1>5, <2>1, AnswerTransmit
<1>6. ASSUME NEW a, NEW b, NotifierEffect(a, b) PROVE AnswerInHand'
  <2>1. /\ pc[notifier] = a /\ pc'[notifier] = b /\ pc'[user] = pc[user] /\ sent' = sent
        /\ out' = out
    BY <1>6 DEF NotifierEffect, Moves
  <2>2. CASE a = b
    <3>1. card' = card
      BY <1>6, <2>2 DEF NotifierEffect
    <3>2. QED
      BY <1>2, <2>1, <2>2, <3>1 DEF AnswerInHand
  <2>3. CASE a # b
    <3>1. b \notin Holding
      BY <1>6, <2>3 DEF NotifierEffect
    <3>2. QED
      BY <1>1, <2>1, <3>1 DEF AnswerInHand
  <2>4. QED
    BY <2>2, <2>3
<1>7. ASSUME ReadEffect \/ \E b : HandOnEffect(b) PROVE AnswerInHand'
  <2>1. pc'[notifier] \notin Holding /\ pc'[user] = pc[user] /\ sent' = sent
    BY <1>7 DEF ReadEffect, HandOnEffect, Moves, history
  <2>2. QED
    BY <1>1, <2>1 DEF AnswerInHand
<1>8. ASSUME NEW a, NEW b, UserEffect(a, b) PROVE AnswerInHand'
  <2>1. /\ pc[user] = a /\ pc'[user] = b /\ pc'[notifier] = pc[notifier] /\ sent' = sent
        /\ out'[notifier] = out[notifier] /\ card'.tx = card.tx
    BY <1>8 DEF UserEffect, Moves
  <2>2. b \notin Transmit \cup {"sleep_arp", "again"}
    BY <1>8, <2>1 DEF UserEffect, AnswerInHand, Transmit
  <2>3. pc[notifier] \in Blocked \/ card' = card
    BY <1>8 DEF UserEffect
  <2>4. QED
    BY <1>2, <2>1, <2>2, <2>3 DEF Blocked
<1>9. ASSUME NEW f, ArriveEffect(f) PROVE AnswerInHand'
  <2>1. pc' = pc /\ sent' = sent /\ out' = out
        /\ card'.dma = card.dma /\ card'.tpsr = card.tpsr
        /\ (card.bounds => card'.tx = card.tx)
    BY <1>9 DEF ArriveEffect
  <2>2. pc[notifier] \in {"sleep", "tpsr", "send"} => card.bounds
    BY DEF BoundsSet, Resting, Serving, Early
  <2>3. QED
    BY <1>2, <2>1, <2>2 DEF AnswerInHand
<1>10. QED
  BY <1>3, <1>4, <1>5, <1>6, <1>7, <1>8, <1>9 DEF Effects

-------------------------------------------------------------------------------
(* The network card: the theorems.                                             *)

\* The invariant holds at first.
LEMMA NeInitially ==
  ASSUME NeInit
  PROVE  NeInv
<1> USE TwoProcesses
<1>1. /\ pc[notifier] = "absent" /\ pc[user] = "program" /\ DOMAIN pc = Process
  BY DEF NeInit
<1>2. 0 \in 0 .. Page - 1 /\ ZeroIp \in IpAddr
  BY Ne2kAssumption, ArpAssumption
<1>3. NeTypeOK
  <2>1. card \in CardType
    <3>1. [i \in 0 .. Page - 1 |-> garbage] \in [0 .. Page - 1 -> FromWire]
      OBVIOUS
    <3>2. /\ card = [on |-> FALSE, isr |-> {}, imr |-> {}, page |-> 0, dma |-> NULL,
                     curr |-> 0, bnry |-> 0, bounds |-> FALSE, tpsr |-> "other",
                     loopback |-> FALSE, ring |-> [i \in 0 .. Page - 1 |-> garbage],
                     tx |-> garbage]
      BY DEF NeInit
    <3> HIDE DEF FromWire, Frames
    <3>3. QED
      BY <1>2, <3>1, <3>2 DEF CardType
  <2>2. ne \in NeType
    BY <1>2 DEF NeInit, NeType
  <2>3. pc[notifier] \in NotifierAt /\ pc[user] \in UserAt
    BY <1>1 DEF NotifierAt, Resting, UserAt, Setup, Unclear, Stale, Early
  <2>4. /\ irr \in BOOLEAN /\ isr \in SUBSET IsrBits /\ p \in FromWire
        /\ out \in [Process -> Frames] /\ arrived \in Nat /\ commands \in Nat
        /\ cut \in SUBSET {"setup", "page"}
    BY DEF NeInit
  <2>5. passed \in Seq(FromWire) /\ sent \in Seq(SentType)
    <3>1. passed = << >> /\ sent = << >>
      BY DEF NeInit
    <3> HIDE DEF FromWire, SentType
    <3>2. QED
      BY <3>1
  <2>6. QED
    BY <1>1, <2>1, <2>2, <2>3, <2>4, <2>5 DEF NeTypeOK
<1>4. ArpInv
  <2>1. ArpInit
    BY DEF NeInit
  <2>2. QED
    BY <2>1, ArpInitially
<1>5. Registers
  <2>1. ne.next_pkt = 0 /\ card.page = 0 /\ ~ card.loopback
    BY DEF NeInit
  <2>2. QED
    BY <1>1, <2>1 DEF Registers, Paged
<1>6. PageKept /\ BoundsSet
  BY <1>1 DEF PageKept, BoundsSet, Paged, Resting
<1>7. InOrderInv
  <2>1. /\ card.curr = 0 /\ card.bnry = 0 /\ ~ card.on /\ card.isr = {} /\ irr = FALSE
        /\ passed = << >>
    BY DEF NeInit
  <2>2. Len(passed) = 0
    BY <2>1
  <2>3. PacketThere /\ InOrder /\ \A k \in 1 .. Len(passed) : passed[k].nr <= arrived
    BY <2>2 DEF PacketThere, InOrder
  <2>4. SetupFirst /\ Undisturbed /\ HeadIsNewer
    BY <1>1, <2>1 DEF SetupFirst, Undisturbed, HeadIsNewer, Early, Resting, InSetup
  <2>5. FrameInHand /\ ReceivedIsThere
    BY <1>1, <2>1 DEF FrameInHand, ReceivedIsThere, Setup, Unclear, Stale, Early
  <2>6. QED
    BY <2>3, <2>4, <2>5 DEF InOrderInv
<1>8. AnswerInHand
  BY <1>1 DEF NeInit, AnswerInHand, Transmit
<1>9. QED
  BY <1>3, <1>4, <1>5, <1>6, <1>7, <1>8 DEF NeInv

\* Every step keeps it.
LEMMA NeKept ==
  ASSUME NeInv, NeNext
  PROVE  NeInv'
<1>1. NeTypeOK /\ ArpInv /\ Registers
  BY DEF NeInv
<1>2. Effects
  BY <1>1, NeSteps
<1>3. cut \subseteq cut' /\ given \subseteq given'
  BY <1>2, HistoryGrows
<1>4. NeTypeOK' /\ ArpInv' /\ Registers'
  BY <1>1, <1>2, NeTypeStep, NeTable, RegistersStep
<1>5. ASSUME "page" \notin cut' PROVE PageKept' /\ BoundsSet'
  <2>1. PageKept /\ BoundsSet
    BY <1>3, <1>5 DEF NeInv
  <2>2. QED
    BY <1>1, <1>2, <1>5, <2>1, PageStep
<1>6. ASSUME cut' = {} PROVE InOrderInv'
  <2>1. cut = {} /\ "page" \notin cut
    BY <1>3, <1>6
  <2>2. PageKept /\ InOrderInv
    BY <2>1 DEF NeInv
  <2>3. QED
    BY <1>1, <1>2, <1>6, <2>2, OrderStep
<1>7. ASSUME "sendudp" \notin given', "page" \notin cut' PROVE AnswerInHand'
  <2>1. PageKept /\ BoundsSet /\ AnswerInHand
    BY <1>3, <1>7 DEF NeInv
  <2>2. QED
    BY <1>1, <1>2, <1>7, <2>1, AnswerStep
<1>8. QED
  BY <1>4, <1>5, <1>6, <1>7 DEF NeInv

\* A step that changes nothing keeps it.
LEMMA NeStutter ==
  ASSUME NeInv, UNCHANGED ne_vars
  PROVE  NeInv'
<1>1. /\ UNCHANGED <<card, irr, ne, isr, p, out, pc>> /\ UNCHANGED arp_vars
      /\ UNCHANGED <<arrived, commands, given, passed, sent, cut>>
  BY DEF ne_vars, mem, history
<1>2. ArpInv'
  BY <1>1, ArpStep DEF NeInv
<1>3. NeTypeOK' /\ Registers'
  BY <1>1 DEF NeInv, NeTypeOK, Registers
<1>4. "page" \notin cut' => PageKept' /\ BoundsSet'
  BY <1>1 DEF NeInv, PageKept, BoundsSet
<1>5. "sendudp" \notin given' /\ "page" \notin cut' => AnswerInHand'
  BY <1>1 DEF NeInv, AnswerInHand
<1>6. cut' = {} => InOrderInv'
  BY <1>1 DEF NeInv, InOrderInv, PacketThere, InOrder, SetupFirst, Undisturbed, HeadIsNewer,
              FrameInHand, ReceivedIsThere, Settled
<1>7. QED
  BY <1>2, <1>3, <1>4, <1>5, <1>6 DEF NeInv

\* The invariant of the driver.
LEMMA NeInvariance == NeSpec => []NeInv
<1>1. NeInit => NeInv
  BY NeInitially
<1>2. NeInv /\ [NeNext]_ne_vars => NeInv'
  BY NeKept, NeStutter
<1>3. QED
  BY <1>1, <1>2, PTL DEF NeSpec

\* As long as the notifier does not come in while the user sets the card up,
\* ne_receive hands on only frames that it has read, none of them twice and none after
\* a later one, although it sets the card up again after each and resets the ring, and
\* the user may do so while the notifier waits for a frame or sleeps.
THEOREM FramesStayInOrder == NeSpec => []FramesInOrder
<1>1. NeInv => FramesInOrder
  BY DEF NeInv, FramesInOrder, InOrderInv
<1>2. QED
  BY <1>1, NeInvariance, PTL

\* As long as the user sends nothing, and the notifier does not come in while the user
\* has page 1 selected, the card is told to transmit every answer to an ARP request as
\* it was made, although the transmit buffer, the remote DMA and the registers belong
\* to nobody; the answers that do not leave the card are those for which it is told
\* so while the user has it in loopback mode.
THEOREM AnswersStayIntact == NeSpec => []OwnAnswersIntact
<1>1. NeInv => OwnAnswersIntact
  BY DEF NeInv, OwnAnswersIntact, AnswerInHand
<1>2. QED
  BY <1>1, NeInvariance, PTL

\* In the driver, too, the table holds what each host said last.
THEOREM DriverAddressesAreLatest == NeSpec => []LatestAddress
<1>1. NeInv => LatestAddress
  BY ArpLatest DEF NeInv
<1>2. QED
  BY <1>1, NeInvariance, PTL

-------------------------------------------------------------------------------
(* UDP packets: sums.                                                          *)

\* The partial sums of a sequence of words.
Partial(words, f) ==
  f = [k \in 0 .. Len(words) |-> IF k = 0 THEN 0 ELSE f[k - 1] + words[k]]

\* There are partial sums up to every length: otherwise there were a least one
\* without.
LEMMA PartialExists ==
  ASSUME NEW words \in Seq(Nat)
  PROVE  \E f : Partial(words, f)
<1> DEFINE Sums(n, f) == f = [k \in 0 .. n |-> IF k = 0 THEN 0 ELSE f[k - 1] + words[k]]
           Without == {n \in Nat : ~ \E f : Sums(n, f)}
<1>1. Without = {}
  <2> SUFFICES ASSUME Without # {} PROVE FALSE
    OBVIOUS
  <2>1. Without \in SUBSET Nat
    OBVIOUS
  <2>2. PICK n \in Without : \A m \in Without : n <= m
    <3> HIDE DEF Without
    <3>1. QED
      BY <2>1, LeastNumber
  <2>3. CASE n = 0
    <3> DEFINE g == [k \in 0 .. 0 |-> 0]
    <3>1. Sums(0, g)
      OBVIOUS
    <3>2. QED
      BY <2>2, <2>3, <3>1
  <2>4. CASE n # 0
    <3>1. n \in Nat /\ n - 1 \in Nat /\ n - 1 \notin Without
      <4>1. n \in Nat
        OBVIOUS
      <4>2. n - 1 \in Nat /\ ~(n <= n - 1)
        BY <2>4, <4>1
      <4> HIDE DEF Without
      <4>3. QED
        BY <2>2, <4>1, <4>2
    <3>2. PICK f : Sums(n - 1, f)
      BY <3>1
    <3> DEFINE g == [k \in 0 .. n |-> IF k = n THEN f[n - 1] + words[n] ELSE f[k]]
    <3>3. \A k \in 0 .. n - 1 : g[k] = f[k]
      BY <3>1
    <3>4. ASSUME NEW k \in 0 .. n
          PROVE  g[k] = IF k = 0 THEN 0 ELSE g[k - 1] + words[k]
      <4>1. CASE k = n
        BY <2>4, <3>1, <3>3, <4>1
      <4>2. CASE k # n
        <5>1. k \in 0 .. n - 1 /\ (k # 0 => k - 1 \in 0 .. n - 1)
          BY <3>1, <4>2
        <5>2. f[k] = IF k = 0 THEN 0 ELSE f[k - 1] + words[k]
          BY <3>2, <5>1
        <5> HIDE DEF g
        <5>3. QED
          BY <3>3, <5>1, <5>2
      <4>3. QED
        BY <4>1, <4>2
    <3>5. Sums(n, g)
      <4>1. g = [k \in 0 .. n |-> g[k]]
        OBVIOUS
      <4> HIDE DEF g
      <4>2. QED
        BY <3>4, <4>1
    <3>6. QED
      BY <2>2, <3>5
  <2>5. QED
    BY <2>3, <2>4
<1>2. Len(words) \in Nat
  OBVIOUS
<1>3. PICK f : Sums(Len(words), f)
  BY <1>1, <1>2
<1>4. QED
  BY <1>3 DEF Partial

\* A total is the last of the partial sums.
LEMMA TotalIsLast ==
  ASSUME NEW words \in Seq(Nat)
  PROVE  \E f : /\ DOMAIN f = 0 .. Len(words)
                /\ f[0] = 0
                /\ \A k \in 1 .. Len(words) : f[k] = f[k - 1] + words[k]
                /\ Total(words) = f[Len(words)]
<1> DEFINE f == CHOOSE g : Partial(words, g)
<1>1. Partial(words, f)
  BY PartialExists
<1>2. Total(words) = f[Len(words)]
  BY DEF Total, Partial
<1> HIDE DEF f
<1>3. Len(words) \in Nat
  OBVIOUS
<1>4. QED
  BY <1>1, <1>2, <1>3, SMTT(30) DEF Partial

Words16(words) == words \in Seq(Nat) /\ \A k \in 1 .. Len(words) : words[k] <= 65535

\* The total of words is a number, at most 65535 for each.
LEMMA TotalBound ==
  ASSUME NEW words, Words16(words)
  PROVE  Total(words) \in Nat /\ Total(words) <= 65535 * Len(words)
<1>1. PICK f : /\ DOMAIN f = 0 .. Len(words)
               /\ f[0] = 0
               /\ \A k \in 1 .. Len(words) : f[k] = f[k - 1] + words[k]
               /\ Total(words) = f[Len(words)]
  BY TotalIsLast DEF Words16
<1> DEFINE Wrong == {n \in 0 .. Len(words) : ~(f[n] \in Nat /\ f[n] <= 65535 * n)}
<1>2. Len(words) \in Nat /\ \A k \in 1 .. Len(words) : words[k] \in Nat
  BY DEF Words16
<1>3. Wrong = {}
  <2> SUFFICES ASSUME Wrong # {} PROVE FALSE
    OBVIOUS
  <2>1. Wrong \in SUBSET Nat
    BY <1>2
  <2>2. PICK n \in Wrong : \A m \in Wrong : n <= m
    <3> HIDE DEF Wrong
    <3>1. QED
      BY <2>1, LeastNumber
  <2>3. n \in 0 .. Len(words) /\ ~(f[n] \in Nat /\ f[n] <= 65535 * n)
    BY <2>2
  <2>4. n # 0
    BY <1>1, <2>3
  <2>5. n - 1 \in 0 .. Len(words) /\ n \in 1 .. Len(words) /\ ~(n <= n - 1)
    BY <1>2, <2>3, <2>4
  <2>6. n - 1 \notin Wrong
    <3> HIDE DEF Wrong
    <3>1. QED
      BY <2>2, <2>5
  <2>7. f[n - 1] \in Nat /\ f[n - 1] <= 65535 * (n - 1)
    BY <2>5, <2>6
  <2>8. f[n] = f[n - 1] + words[n] /\ words[n] \in Nat /\ words[n] <= 65535
    BY <1>1, <1>2, <2>5 DEF Words16
  <2>9. QED
    BY <1>2, <2>3, <2>5, <2>7, <2>8
<1>4. QED
  BY <1>1, <1>2, <1>3

\* A word that changes changes the total by as much.
LEMMA TotalChange ==
  ASSUME NEW words \in Seq(Nat), NEW others \in Seq(Nat), Len(others) = Len(words),
         NEW j \in 1 .. Len(words), NEW d \in Int, others[j] = words[j] + d,
         \A k \in 1 .. Len(words) : k # j => others[k] = words[k]
  PROVE  Total(others) = Total(words) + d /\ Total(words) \in Int
<1>1. PICK f : /\ DOMAIN f = 0 .. Len(words)
               /\ f[0] = 0
               /\ \A k \in 1 .. Len(words) : f[k] = f[k - 1] + words[k]
               /\ Total(words) = f[Len(words)]
  BY TotalIsLast
<1>2. PICK g : /\ DOMAIN g = 0 .. Len(words)
               /\ g[0] = 0
               /\ \A k \in 1 .. Len(words) : g[k] = g[k - 1] + others[k]
               /\ Total(others) = g[Len(words)]
  BY TotalIsLast
<1> DEFINE Wrong == {n \in 0 .. Len(words) :
                       ~(f[n] \in Int /\ g[n] = f[n] + (IF n >= j THEN d ELSE 0))}
<1>3. /\ Len(words) \in Nat /\ j \in Nat
      /\ \A k \in 1 .. Len(words) : words[k] \in Nat /\ others[k] \in Nat
  BY SMTT(30)
<1>4. Wrong = {}
  <2> SUFFICES ASSUME Wrong # {} PROVE FALSE
    OBVIOUS
  <2>1. Wrong \in SUBSET Nat
    BY <1>3
  <2>2. PICK n \in Wrong : \A m \in Wrong : n <= m
    <3> HIDE DEF Wrong
    <3>1. QED
      BY <2>1, LeastNumber
  <2>3. n \in 0 .. Len(words) /\ ~(f[n] \in Int /\ g[n] = f[n] + (IF n >= j THEN d ELSE 0))
    BY <2>2
  <2>4. n # 0
    BY <1>1, <1>2, <1>3, <2>3
  <2>5. n - 1 \in 0 .. Len(words) /\ n \in 1 .. Len(words) /\ ~(n <= n - 1)
    BY <1>3, <2>3, <2>4
  <2>6. n - 1 \notin Wrong
    <3> HIDE DEF Wrong
    <3>1. QED
      BY <2>2, <2>5
  <2>7. f[n - 1] \in Int /\ g[n - 1] = f[n - 1] + (IF n - 1 >= j THEN d ELSE 0)
    BY <2>5, <2>6
  <2>8. f[n] = f[n - 1] + words[n] /\ words[n] \in Nat
    BY <1>1, <1>3, <2>5
  <2>9. g[n] = g[n - 1] + others[n]
    BY <1>2, <2>5
  <2>10. others[n] = IF n = j THEN words[n] + d ELSE words[n]
    BY <2>5
  <2> DEFINE fn == f[n]  gn == g[n]  fm == f[n - 1]  gm == g[n - 1]  w == words[n]  o == others[n]
  <2>11. fm \in Int /\ w \in Nat /\ fn = fm + w /\ gn = gm + o /\ n \in Nat
    BY <1>3, <2>5, <2>7, <2>8, <2>9
  <2>12. ~(fn \in Int /\ gn = fn + (IF n >= j THEN d ELSE 0))
    BY <2>3
  <2>13. gm = fm + (IF n - 1 >= j THEN d ELSE 0) /\ o = IF n = j THEN w + d ELSE w
    BY <2>7, <2>10
  <2> HIDE DEF fn, gn, fm, gm, w, o
  <2>14. fn \in Int
    BY <2>11
  <2>15. CASE n < j
    BY <1>3, <2>11, <2>12, <2>13, <2>14, <2>15
  <2>16. CASE n = j
    BY <1>3, <2>11, <2>12, <2>13, <2>14, <2>16
  <2>17. CASE n > j
    BY <1>3, <2>11, <2>12, <2>13, <2>14, <2>17
  <2>18. QED
    BY <1>3, <2>11, <2>15, <2>16, <2>17
<1>5. f[Len(words)] \in Int /\ g[Len(words)] = f[Len(words)] + d
  BY <1>3, <1>4, SMTT(30)
<1>6. QED
  BY <1>1, <1>2, <1>5

\* A sum of which no carry is left after the second time.
Holds32(s) == s \in Nat /\ s < 4294901760

Congruent(s, c) == \E k \in Nat : s = 65535 * k + c

\* The carries keep the sum modulo 65535, and of a sum that is not zero they leave
\* something.
LEMMA CarriedFacts ==
  ASSUME NEW s, Holds32(s)
  PROVE  /\ Carried(s) \in Nat /\ Carried(s) <= 65535
         /\ Congruent(s, Carried(s))
         /\ s # 0 => Carried(s) # 0
<1> DEFINE h == s \div 65536
           l == s % 65536
           once == l + h
           h2 == once \div 65536
           l2 == once % 65536
<1>1. /\ h \in Nat /\ l \in Nat /\ l <= 65535 /\ s = 65536 * h + l
      /\ h <= 65534
  <2>1. s \in Nat /\ s < 4294901760
    BY DEF Holds32
  <2>2. QED
    BY <2>1, SMT
<1>2. once \in Nat /\ once = s - 65535 * h /\ once <= 131069
  <2> HIDE DEF h, l
  <2>1. QED
    BY <1>1, SMT
<1>3. h2 \in Nat /\ l2 \in Nat /\ l2 <= 65535 /\ once = 65536 * h2 + l2 /\ h2 <= 1
  <2> HIDE DEF once
  <2>1. QED
    BY <1>2, SMT
<1>4. Carried(s) = l2 + h2
  BY SMT DEF Carried, Word
<1> HIDE DEF h, l, once, h2, l2
<1>5. l2 + h2 <= 65535 /\ l2 + h2 \in Nat
  BY <1>2, <1>3, SMT
<1>6. s = 65535 * (h + h2) + (l2 + h2) /\ h + h2 \in Nat
  BY <1>1, <1>2, <1>3, SMT
<1>7. s # 0 => l2 + h2 # 0
  BY <1>1, <1>2, <1>3, <1>6, SMT
<1>8. QED
  BY <1>4, <1>5, <1>6, <1>7 DEF Congruent

\* A change by less than 65535 is seen in the checksum, one by 65535 is not.
LEMMA ChecksumChange ==
  ASSUME NEW s, Holds32(s), NEW t, Holds32(t), s # 0, t # 0
  PROVE  /\ t = s + 65535 => Checksum_of(t) = Checksum_of(s)
         /\ t # s /\ t < s + 65535 /\ s < t + 65535 => Checksum_of(t) # Checksum_of(s)
<1>1. /\ Carried(s) \in Nat /\ Carried(s) <= 65535 /\ Carried(s) # 0
      /\ Carried(t) \in Nat /\ Carried(t) <= 65535 /\ Carried(t) # 0
  BY CarriedFacts
<1>0. Congruent(s, Carried(s)) /\ Congruent(t, Carried(t))
  BY CarriedFacts
<1>2. PICK k \in Nat : s = 65535 * k + Carried(s)
  BY <1>0 DEF Congruent
<1>3. PICK m \in Nat : t = 65535 * m + Carried(t)
  BY <1>0 DEF Congruent
<1>4. t = s + 65535 => Carried(t) = Carried(s)
  BY <1>1, <1>2, <1>3, SMT
<1>5. t # s /\ t < s + 65535 /\ s < t + 65535 => Carried(t) # Carried(s)
  BY <1>1, <1>2, <1>3, SMT
<1>6. QED
  BY <1>1, <1>4, <1>5, SMT DEF Checksum_of, Complement, Word

-------------------------------------------------------------------------------
(* UDP packets: words and headers.                                             *)

\* The bytes of a word are swapped.
LEMMA Swapped ==
  ASSUME NEW n \in Nat, n <= 65535
  PROVE  htons_tos(n) \in Nat /\ htons_tos(n) <= 65535
<1>1. /\ n % 256 \in Nat /\ n % 256 <= 255
      /\ n \div 256 \in Nat /\ n \div 256 <= 255
  OBVIOUS
<1>2. QED
  BY <1>1 DEF htons_tos

\* No word is more than the total.
LEMMA TotalAtLeast ==
  ASSUME NEW words, Words16(words), NEW j \in 1 .. Len(words)
  PROVE  words[j] <= Total(words)
<1> DEFINE others == [words EXCEPT ![j] = 0]
<1>1. words \in Seq(Nat) /\ words[j] \in Nat /\ \A k \in 1 .. Len(words) : words[k] \in Nat
  BY DEF Words16
<1>2. /\ others \in Seq(Nat) /\ Len(others) = Len(words)
      /\ others[j] = 0 /\ \A k \in 1 .. Len(words) : k # j => others[k] = words[k]
  BY <1>1
<1> HIDE DEF others
<1>3. Words16(others)
  BY <1>2 DEF Words16
<1>4. Total(others) \in Nat
  BY <1>2, <1>3, TotalBound
<1>5. others[j] = words[j] + (0 - words[j]) /\ 0 - words[j] \in Int
  BY <1>1, <1>2
<1>6. Total(others) = Total(words) + (0 - words[j]) /\ Total(words) \in Int
  BY <1>1, <1>2, <1>5, TotalChange, ZenonT(40)
<1>7. QED
  BY <1>1, <1>4, <1>6

\* A bit of a word changes.
LEMMA FlippedWord ==
  ASSUME NEW n \in Nat, n <= 65535, NEW b \in Bits_of_word
  PROVE  /\ Flipped(n, b) \in Nat /\ Flipped(n, b) <= 65535
         /\ b \in Nat /\ 0 < b /\ b <= 32768
         /\ Flipped(n, b) = n + b \/ Flipped(n, b) = n - b
BY DEF Flipped, Bits_of_word, Bits_of_byte

\* A bit of a byte changes.
LEMMA FlippedByte ==
  ASSUME NEW n \in Nat, n <= 255, NEW b \in Bits_of_byte
  PROVE  /\ Flipped(n, b) \in Nat /\ Flipped(n, b) <= 255
         /\ b \in Nat /\ 0 < b /\ b <= 128
         /\ Flipped(n, b) = n + b \/ Flipped(n, b) = n - b
BY DEF Flipped, Bits_of_byte

\* The data of a UDP packet.
Bytes_of(data) ==
  data \in Seq(Nat) /\ Len(data) <= 65507 /\ \A k \in 1 .. Len(data) : data[k] <= 255

\* The words of the data.
LEMMA WordsFacts ==
  ASSUME NEW data, Bytes_of(data)
  PROVE  /\ Words16(Words(data))
         /\ Len(Words(data)) = (Len(data) + 1) \div 2 /\ Len(Words(data)) <= 32754
         /\ \A k \in 1 .. Len(Words(data)) :
              Words(data)[k] = data[2 * k - 1] + (IF 2 * k <= Len(data) THEN 256 * data[2 * k] ELSE 0)
<1> DEFINE n == (Len(data) + 1) \div 2
<1>1. /\ data \in Seq(Nat) /\ Len(data) \in Nat /\ Len(data) <= 65507
      /\ \A k \in 1 .. Len(data) : data[k] \in Nat /\ data[k] <= 255
  BY DEF Bytes_of
<1>2. n \in Nat /\ n <= 32754 /\ 2 * n <= Len(data) + 1
  BY <1>1
<1>3. Words(data) = [k \in 1 .. n |->
                       data[2 * k - 1] + (IF 2 * k <= Len(data) THEN 256 * data[2 * k] ELSE 0)]
  BY DEF Words
<1> HIDE DEF n
<1>4. ASSUME NEW k \in 1 .. n
      PROVE  /\ Words(data)[k] = data[2 * k - 1] + (IF 2 * k <= Len(data) THEN 256 * data[2 * k] ELSE 0)
             /\ Words(data)[k] \in Nat /\ Words(data)[k] <= 65535
  <2>1. k \in Nat /\ 2 * k - 1 \in 1 .. Len(data)
    BY <1>1, <1>2
  <2>2. data[2 * k - 1] \in Nat /\ data[2 * k - 1] <= 255
    BY <1>1, <2>1
  <2>3. 2 * k <= Len(data) => data[2 * k] \in Nat /\ data[2 * k] <= 255
    <3>1. 2 * k <= Len(data) => 2 * k \in 1 .. Len(data)
      BY <1>1, <2>1
    <3>2. QED
      BY <1>1, <3>1
  <2>4. Words(data)[k] = data[2 * k - 1] + (IF 2 * k <= Len(data) THEN 256 * data[2 * k] ELSE 0)
    BY <1>3
  <2>5. QED
    BY <2>2, <2>3, <2>4
<1>5. Words(data) \in Seq(Nat) /\ Len(Words(data)) = n
  BY <1>2, <1>3, <1>4
<1>6. QED
  BY <1>2, <1>4, <1>5 DEF n, Words16

\* What is summed for a UDP checksum.
UdpSum(udp, data, src, dst) == Summed(udp, data) + Pseudo(udp, src, dst)

\* A number of words.
Header(words, n) == Words16(words) /\ Len(words) = n

\* Their total is bounded by their number.
LEMMA HeaderTotal ==
  ASSUME NEW words, NEW n \in Nat, Header(words, n)
  PROVE  Total(words) \in Nat /\ Total(words) <= 65535 * n
BY TotalBound DEF Header

\* Each is a word.
LEMMA HeaderWord ==
  ASSUME NEW words, NEW n \in Nat, Header(words, n), NEW k \in 1 .. n
  PROVE  words[k] \in Nat /\ words[k] <= 65535
BY DEF Header, Words16

\* It is never zero, and 32 bits hold it, also with all ones in the place of the
\* checksum.
LEMMA UdpSumFacts ==
  ASSUME NEW udp, Header(udp, 4), NEW data, Bytes_of(data),
         NEW src, Header(src, 2), NEW dst, Header(dst, 2)
  PROVE  /\ UdpSum(udp, data, src, dst) \in Nat
         /\ UdpSum(udp, data, src, dst) # 0
         /\ Holds32(UdpSum(udp, data, src, dst))
         /\ Holds32(UdpSum(udp, data, src, dst) + 65535)
<1>1. Total(udp) \in Nat /\ Total(udp) <= 65535 * 4
  BY HeaderTotal
<1>2. Total(src) \in Nat /\ Total(src) <= 65535 * 2
  BY HeaderTotal
<1>3. Total(dst) \in Nat /\ Total(dst) <= 65535 * 2
  BY HeaderTotal
<1>4. Total(Words(data)) \in Nat /\ Total(Words(data)) <= 65535 * 32754
  <2>1. Words16(Words(data)) /\ Len(Words(data)) <= 32754 /\ Len(Words(data)) \in Nat
    BY WordsFacts DEF Words16
  <2>2. Total(Words(data)) \in Nat /\ Total(Words(data)) <= 65535 * Len(Words(data))
    BY <2>1, TotalBound
  <2>3. QED
    BY <2>1, <2>2
<1>5. udp[3] \in Nat /\ udp[3] <= 65535
  BY HeaderWord
<1>6. htons_tos(17) = 4352
  BY DEF htons_tos
<1>7. UdpSum(udp, data, src, dst) =
        (Total(udp) + Total(Words(data))) + (((Total(src) + Total(dst)) + 4352) + udp[3])
  BY <1>6 DEF UdpSum, Summed, Pseudo
<1>8. QED
  BY <1>1, <1>2, <1>3, <1>4, <1>5, <1>7, SMT DEF Holds32

\* A word is replaced.
LEMMA HeaderExcept ==
  ASSUME NEW words, NEW n \in Nat, Header(words, n), NEW k \in 1 .. n,
         NEW v \in Nat, v <= 65535
  PROVE  /\ Header([words EXCEPT ![k] = v], n)
         /\ [words EXCEPT ![k] = v][k] = v
         /\ \A j \in 1 .. n : j # k => [words EXCEPT ![k] = v][j] = words[j]
<1>1. words \in Seq(Nat) /\ Len(words) = n /\ \A j \in 1 .. n : words[j] <= 65535
  BY DEF Header, Words16
<1> DEFINE w == [words EXCEPT ![k] = v]
<1>2. w \in Seq(Nat) /\ Len(w) = n /\ w[k] = v /\ \A j \in 1 .. n : j # k => w[j] = words[j]
  BY <1>1
<1> HIDE DEF w
<1>3. \A j \in 1 .. n : w[j] <= 65535
  BY <1>1, <1>2
<1>4. Header(w, n)
  BY <1>2, <1>3 DEF Header, Words16
<1>5. QED
  BY <1>2, <1>4 DEF w

\* Words are equal one by one.
LEMMA HeaderSame ==
  ASSUME NEW words, NEW others, NEW n \in Nat, Header(words, n), Header(others, n),
         \A k \in 1 .. n : words[k] = others[k]
  PROVE  words = others
BY DEF Header, Words16

\* A word that changes changes the total by as much.
LEMMA HeaderChange ==
  ASSUME NEW words, NEW others, NEW n \in Nat, Header(words, n), Header(others, n),
         NEW j \in 1 .. n, NEW d \in Int, others[j] = words[j] + d,
         \A k \in 1 .. n : k # j => others[k] = words[k]
  PROVE  Total(others) = Total(words) + d
<1>1. words \in Seq(Nat) /\ others \in Seq(Nat) /\ Len(words) = n /\ Len(others) = n
  BY DEF Header, Words16
<1>2. /\ j \in 1 .. Len(words) /\ Len(others) = Len(words)
      /\ \A k \in 1 .. Len(words) : k # j => others[k] = words[k]
  BY <1>1
<1>3. QED
  BY <1>1, <1>2, TotalChange

-------------------------------------------------------------------------------
(* UDP packets: made, changed and checked.                                     *)

\* A datagram that the program can be asked to send.
Sendable(sp, dp, src, dst, data) ==
  /\ sp \in Nat /\ sp <= 65535 /\ dp \in Nat /\ dp <= 65535
  /\ Header(src, 2) /\ Header(dst, 2)
  /\ Bytes_of(data)

\* A checksum is a word.
LEMMA ChecksumWord ==
  ASSUME NEW s, Holds32(s)
  PROVE  Checksum_of(s) \in Nat /\ Checksum_of(s) <= 65535
<1>1. Carried(s) \in Nat /\ Carried(s) <= 65535
  BY CarriedFacts
<1>2. QED
  BY <1>1, SMT DEF Checksum_of, Complement, Word

\* The header of IP: ten words, and the checksum over the others.
LEMMA IpHeader ==
  ASSUME NEW src, Header(src, 2), NEW dst, Header(dst, 2),
         NEW len \in Nat, len <= 65515
  PROVE  LET ip == create_ip_hr(src, dst, len)
         IN  /\ Header(ip, 10)
             /\ ip[1] = 4165 /\ ip[3] # 0 /\ ip[5] = 4416
             /\ ip[7] = src[1] /\ ip[8] = src[2] /\ ip[9] = dst[1] /\ ip[10] = dst[2]
             /\ ip[6] = ip_checksum(ip)
<1> DEFINE plain == <<4165, htons_tos(20 + len), 60926, 64, 4416, 0, src[1], src[2], dst[1], dst[2]>>
           sum == ip_checksum(plain)
           ip == [plain EXCEPT ![6] = sum]
<1>1. htons_tos(65261) = 60926 /\ htons_tos(16384) = 64
  BY DEF htons_tos
<1>2. create_ip_hr(src, dst, len) = ip
  <2> DEFINE written == <<69 + 256 * 16, htons_tos(20 + len), htons_tos(65261), htons_tos(16384),
                          64 + 256 * 17, 0, src[1], src[2], dst[1], dst[2]>>
  <2>1. create_ip_hr(src, dst, len) = [written EXCEPT ![6] = ip_checksum(written)]
    BY DEF create_ip_hr
  <2>2. 69 + 256 * 16 = 4165 /\ 64 + 256 * 17 = 4416
    OBVIOUS
  <2>3. written = plain
    BY <1>1, <2>2
  <2> HIDE DEF written, plain
  <2>4. QED
    BY <2>1, <2>3
<1>3. htons_tos(20 + len) \in Nat /\ htons_tos(20 + len) <= 65535
  BY Swapped
<1>4. /\ src[1] \in Nat /\ src[1] <= 65535 /\ src[2] \in Nat /\ src[2] <= 65535
      /\ dst[1] \in Nat /\ dst[1] <= 65535 /\ dst[2] \in Nat /\ dst[2] <= 65535
  BY HeaderWord
<1>5. Header(plain, 10)
  <2>1. plain \in Seq(Nat) /\ Len(plain) = 10
    BY <1>3, <1>4
  <2>2. \A k \in 1 .. 10 : plain[k] <= 65535
    BY <1>3, <1>4
  <2> HIDE DEF plain
  <2>3. QED
    BY <2>1, <2>2 DEF Header, Words16
<1>6. /\ plain[1] = 4165 /\ plain[3] = 60926 /\ plain[5] = 4416 /\ plain[6] = 0
      /\ plain[7] = src[1] /\ plain[8] = src[2] /\ plain[9] = dst[1] /\ plain[10] = dst[2]
  OBVIOUS
<1> HIDE DEF plain
<1>7. ASSUME NEW w, Header(w, 10), \A k \in 1 .. 10 : k # 6 => w[k] = plain[k]
      PROVE  ip_checksum(w) = Checksum_of(Total(plain))
  <2> DEFINE z == [w EXCEPT ![6] = 0]
  <2>1. Header(z, 10) /\ z[6] = 0 /\ \A k \in 1 .. 10 : k # 6 => z[k] = w[k]
    BY <1>7, HeaderExcept
  <2> HIDE DEF z
  <2>2. \A k \in 1 .. 10 : z[k] = plain[k]
    BY <1>6, <1>7, <2>1
  <2>3. z = plain
    BY <1>5, <2>1, <2>2, HeaderSame
  <2>4. ip_checksum(w) = Checksum_of(Total(z))
    BY DEF ip_checksum, z
  <2>5. QED
    BY <2>3, <2>4
<1>8. sum = Checksum_of(Total(plain))
  BY <1>5, <1>7
<1>9. sum \in Nat /\ sum <= 65535
  <2>1. Total(plain) \in Nat /\ Total(plain) <= 65535 * 10
    BY <1>5, HeaderTotal
  <2>2. Holds32(Total(plain))
    BY <2>1, SMT DEF Holds32
  <2>3. QED
    BY <1>8, <2>2, ChecksumWord
<1> HIDE DEF sum
<1>10. Header(ip, 10) /\ ip[6] = sum /\ \A k \in 1 .. 10 : k # 6 => ip[k] = plain[k]
  BY <1>5, <1>9, HeaderExcept
<1> HIDE DEF ip
<1>11. ip_checksum(ip) = sum
  BY <1>7, <1>8, <1>10
<1>12. /\ ip[1] = 4165 /\ ip[3] # 0 /\ ip[5] = 4416
       /\ ip[7] = src[1] /\ ip[8] = src[2] /\ ip[9] = dst[1] /\ ip[10] = dst[2]
  BY <1>6, <1>10
<1>13. QED
  BY <1>2, <1>10, <1>11, <1>12

\* The header of UDP: four words, the last of which is the checksum with zero in its
\* place.
LEMMA UdpHeader ==
  ASSUME NEW sp, NEW dp, NEW src, NEW dst, NEW data, Sendable(sp, dp, src, dst, data)
  PROVE  LET udp == create_udp_hr(sp, dp, data, src, dst)
             plain == [udp EXCEPT ![4] = 0]
         IN  /\ Header(udp, 4)
             /\ udp[4] = Checksum_of(UdpSum(plain, data, src, dst))
<1> DEFINE plain == <<htons_tos(sp), htons_tos(dp), htons_tos(Len(data) + 8), 0>>
           sum == udp_checksum(plain, data, src, dst)
           udp == [plain EXCEPT ![4] = sum]
<1>1. create_udp_hr(sp, dp, data, src, dst) = udp
  BY DEF create_udp_hr
<1>2. /\ htons_tos(sp) \in Nat /\ htons_tos(sp) <= 65535
      /\ htons_tos(dp) \in Nat /\ htons_tos(dp) <= 65535
      /\ htons_tos(Len(data) + 8) \in Nat /\ htons_tos(Len(data) + 8) <= 65535
  <2>1. sp \in Nat /\ sp <= 65535 /\ dp \in Nat /\ dp <= 65535
    BY DEF Sendable
  <2>2. Len(data) + 8 \in Nat /\ Len(data) + 8 <= 65535
    BY DEF Sendable, Bytes_of
  <2>3. QED
    BY <2>1, <2>2, Swapped
<1>3. Header(plain, 4) /\ plain[4] = 0
  <2>1. plain \in Seq(Nat) /\ Len(plain) = 4 /\ plain[4] = 0
    BY <1>2
  <2>2. \A k \in 1 .. 4 : plain[k] <= 65535
    BY <1>2
  <2> HIDE DEF plain
  <2>3. QED
    BY <2>1, <2>2 DEF Header, Words16
<1> HIDE DEF plain
<1>4. ASSUME NEW v \in Nat, v <= 65535
      PROVE  [[plain EXCEPT ![4] = v] EXCEPT ![4] = 0] = plain
  <2> DEFINE w == [plain EXCEPT ![4] = v]
             z == [w EXCEPT ![4] = 0]
  <2>1. Header(w, 4) /\ \A k \in 1 .. 4 : k # 4 => w[k] = plain[k]
    BY <1>3, <1>4, HeaderExcept
  <2> HIDE DEF w
  <2>2. Header(z, 4) /\ z[4] = 0 /\ \A k \in 1 .. 4 : k # 4 => z[k] = w[k]
    BY <2>1, HeaderExcept
  <2> HIDE DEF z
  <2>3. \A k \in 1 .. 4 : z[k] = plain[k]
    BY <1>3, <2>1, <2>2
  <2>4. z = plain
    BY <1>3, <2>2, <2>3, HeaderSame
  <2>5. QED
    BY <2>4 DEF z, w
<1>5. sum = Checksum_of(UdpSum(plain, data, src, dst))
  <2>1. [plain EXCEPT ![4] = Field(@)] = plain
    <3>1. plain[4] = 0 /\ DOMAIN plain = 1 .. 4 /\ plain = [k \in 1 .. 4 |-> plain[k]]
      BY <1>3 DEF Header, Words16
    <3>2. QED
      BY <3>1 DEF Field
  <2>2. QED
    BY <2>1 DEF udp_checksum, UdpSum
<1>6. sum \in Nat /\ sum <= 65535
  <2>1. Holds32(UdpSum(plain, data, src, dst))
    BY <1>3, UdpSumFacts DEF Sendable
  <2>2. QED
    BY <1>5, <2>1, ChecksumWord
<1> HIDE DEF sum
<1>7. Header(udp, 4) /\ udp[4] = sum
  BY <1>3, <1>6, HeaderExcept
<1>8. [udp EXCEPT ![4] = 0] = plain
  BY <1>4, <1>6
<1> HIDE DEF udp
<1>9. QED
  BY <1>1, <1>5, <1>7, <1>8

-------------------------------------------------------------------------------
(* UDP packets: made and accepted.                                            *)

\* What the receiver sums has all ones in the place of the checksum, unless the
\* checksum is zero: as much as the sender, modulo 65535.
LEMMA ReceiverSum ==
  ASSUME NEW sp, NEW dp, NEW src, NEW dst, NEW data, Sendable(sp, dp, src, dst, data)
  PROVE  LET udp == create_udp_hr(sp, dp, data, src, dst)
             full == [udp EXCEPT ![4] = 65535]
         IN  /\ Header(full, 4)
             /\ udp[4] = Checksum_of(UdpSum(full, data, src, dst))
<1> DEFINE udp == create_udp_hr(sp, dp, data, src, dst)
           ones == 65535
           plain == [udp EXCEPT ![4] = 0]
           full == [udp EXCEPT ![4] = ones]
<1> SUFFICES Header(full, 4) /\ udp[4] = Checksum_of(UdpSum(full, data, src, dst))
  OBVIOUS
<1>0. ones \in Nat /\ ones <= 65535
  BY SMT
<1> HIDE DEF ones
<1>1. /\ Header(udp, 4)
      /\ udp[4] = Checksum_of(UdpSum(plain, data, src, dst))
  BY UdpHeader
<1> HIDE DEF udp
<1>2. Header(full, 4) /\ full[4] = ones /\ \A k \in 1 .. 4 : k # 4 => full[k] = udp[k]
  <2>1. ASSUME NEW v \in Nat, v <= 65535
        PROVE  /\ Header([udp EXCEPT ![4] = v], 4)
               /\ [udp EXCEPT ![4] = v][4] = v
               /\ \A k \in 1 .. 4 : k # 4 => [udp EXCEPT ![4] = v][k] = udp[k]
    <3>1. Header(udp, 4)
      BY <1>1
    <3>2. 4 \in Nat /\ 4 \in 1 .. 4
      OBVIOUS
    <3> HIDE DEF plain, full
    <3>3. QED
      BY <2>1, <3>1, <3>2, HeaderExcept
  <2>2. QED
    BY <1>0, <2>1
<1>3. Header(plain, 4) /\ plain[4] = 0 /\ \A k \in 1 .. 4 : k # 4 => plain[k] = udp[k]
  BY <1>1, HeaderExcept
<1> HIDE DEF plain, full
<1>4. Total(full) = Total(plain) + ones
  <2>1. full[4] = plain[4] + ones /\ \A k \in 1 .. 4 : k # 4 => full[k] = plain[k]
    BY <1>0, <1>2, <1>3
  <2>2. QED
    BY <1>0, <1>2, <1>3, <2>1, HeaderChange
<1>5. full[3] = plain[3] /\ plain[3] \in Nat
  BY <1>2, <1>3, HeaderWord
<1>6. UdpSum(full, data, src, dst) = UdpSum(plain, data, src, dst) + 65535
  <2>1. Total(plain) \in Nat
    BY <1>3, HeaderTotal
  <2>0. ones = 65535
    BY DEF ones
  <2>2. Total(Words(data)) \in Nat
    BY WordsFacts, TotalBound DEF Sendable
  <2>3. Total(src) \in Nat /\ Total(dst) \in Nat
    BY HeaderTotal DEF Sendable
  <2>4. htons_tos(17) \in Nat
    BY Swapped
  <2>5. QED
    BY <1>4, <1>5, <2>0, <2>1, <2>2, <2>3, <2>4 DEF UdpSum, Summed, Pseudo
<1>7. /\ UdpSum(plain, data, src, dst) # 0
      /\ Holds32(UdpSum(plain, data, src, dst))
  BY <1>3, UdpSumFacts DEF Sendable
<1>8. /\ UdpSum(full, data, src, dst) # 0
      /\ Holds32(UdpSum(full, data, src, dst))
  BY <1>2, UdpSumFacts DEF Sendable
<1>9. Checksum_of(UdpSum(full, data, src, dst)) = Checksum_of(UdpSum(plain, data, src, dst))
  BY <1>6, <1>7, <1>8, ChecksumChange
<1>10. QED
  BY <1>1, <1>2, <1>9

\* The packet that the program makes for a datagram.
Made(d) == create_udp_packet(d.sp, d.dp, d.src, d.dst, d.data)

Datagrams == [sp : SrcPort, dp : DstPort, src : Address, dst : Address, data : Payload]

\* The assumption on the constants says that the program can be asked to send it.
LEMMA DatagramSendable ==
  ASSUME NEW d \in Datagrams
  PROVE  Sendable(d.sp, d.dp, d.src, d.dst, d.data)
<1>1. \A n \in Uint16 : n \in Nat /\ n <= 65535
  BY DEF Uint16, Word
<1>2. d.sp \in Uint16 /\ d.dp \in Uint16
  BY ProtocolAssumption DEF Datagrams
<1>3. \A a \in Address : Header(a, 2)
  <2> SUFFICES ASSUME NEW a \in Address PROVE Header(a, 2)
    OBVIOUS
  <2>1. PICK x \in Uint16, y \in Uint16 : a = <<x, y>>
    BY ProtocolAssumption
  <2>2. x \in Nat /\ x <= 65535 /\ y \in Nat /\ y <= 65535
    BY <1>1
  <2>3. a \in Seq(Nat) /\ Len(a) = 2 /\ a[1] = x /\ a[2] = y
    BY <2>1, <2>2
  <2>4. QED
    BY <2>2, <2>3 DEF Header, Words16
<1>4. Bytes_of(d.data)
  <2>1. d.data \in Seq(Uint8) /\ Len(d.data) <= 65507
    BY ProtocolAssumption DEF Datagrams
  <2> DEFINE data == d.data
  <2>2. data \in Seq(Uint8)
    BY <2>1
  <2> HIDE DEF data
  <2>3. \A k \in 1 .. Len(data) : data[k] \in Nat /\ data[k] <= 255
    <3> TAKE k \in 1 .. Len(data)
    <3>1. data[k] \in Uint8
      BY <2>2
    <3>2. QED
      BY <3>1 DEF Uint8
  <2>4. data \in Seq(Nat)
    BY <2>2, <2>3
  <2>5. QED
    BY <2>1, <2>3, <2>4 DEF Bytes_of, data
<1>5. QED
  BY <1>1, <1>2, <1>3, <1>4, SMTT(30) DEF Sendable, Datagrams

\* The parts of a packet.
LEMMA MadeFacts ==
  ASSUME NEW d \in Datagrams
  PROVE  /\ Made(d) = [ip |-> Made(d).ip, udp |-> Made(d).udp, data |-> d.data]
         /\ Made(d).udp = create_udp_hr(d.sp, d.dp, d.data, d.src, d.dst)
         /\ Made(d).data = d.data
         /\ Header(Made(d).ip, 10)
         /\ Made(d).ip[1] = 4165 /\ Made(d).ip[3] # 0 /\ Made(d).ip[5] = 4416
         /\ <<Made(d).ip[7], Made(d).ip[8]>> = d.src
         /\ <<Made(d).ip[9], Made(d).ip[10]>> = d.dst
         /\ Made(d).ip[6] = ip_checksum(Made(d).ip)
<1>1. Sendable(d.sp, d.dp, d.src, d.dst, d.data)
  BY DatagramSendable
<1>2. Len(d.data) + 8 \in Nat /\ Len(d.data) + 8 <= 65515
  BY <1>1 DEF Sendable, Bytes_of
<1>3. /\ Made(d).ip = create_ip_hr(d.src, d.dst, Len(d.data) + 8)
      /\ Made(d).udp = create_udp_hr(d.sp, d.dp, d.data, d.src, d.dst)
      /\ Made(d).data = d.data
      /\ Made(d) = [ip |-> Made(d).ip, udp |-> Made(d).udp, data |-> d.data]
  BY DEF Made, create_udp_packet
<1> DEFINE ip == Made(d).ip
<1>4. /\ Header(ip, 10)
      /\ ip[1] = 4165 /\ ip[3] # 0 /\ ip[5] = 4416
      /\ ip[7] = d.src[1] /\ ip[8] = d.src[2] /\ ip[9] = d.dst[1] /\ ip[10] = d.dst[2]
      /\ ip[6] = ip_checksum(ip)
  BY <1>1, <1>2, <1>3, IpHeader, SMTT(30) DEF Sendable
<1> HIDE DEF ip
<1>5. <<ip[7], ip[8]>> = d.src /\ <<ip[9], ip[10]>> = d.dst
  <2>1. Header(d.src, 2) /\ Header(d.dst, 2)
    BY <1>1 DEF Sendable
  <2>2. \A w : Header(w, 2) => <<w[1], w[2]>> = w
    BY DEF Header, Words16
  <2>3. QED
    BY <1>4, <2>1, <2>2
<1>6. QED
  BY <1>3, <1>4, <1>5 DEF ip

\* The receiver accepts what the program makes.
LEMMA MadeAccepted ==
  ASSUME NEW d \in Datagrams
  PROVE  is_udp_packet(Made(d))
<1> DEFINE m == Made(d)
<1>1. /\ m.udp = create_udp_hr(d.sp, d.dp, d.data, d.src, d.dst) /\ m.data = d.data
      /\ m.ip[1] = 4165 /\ m.ip[5] = 4416
      /\ <<m.ip[7], m.ip[8]>> = d.src /\ <<m.ip[9], m.ip[10]>> = d.dst
      /\ m.ip[6] = ip_checksum(m.ip)
  BY MadeFacts
<1> HIDE DEF m
<1>2. 4165 % 16 >= 5 /\ 4416 \div 256 = 17
  OBVIOUS
<1>3. ASSUME m.udp[4] # 0
      PROVE  m.udp[4] = udp_checksum(m.udp, m.data, d.src, d.dst)
  <2>1. m.udp[4] = Checksum_of(UdpSum([m.udp EXCEPT ![4] = 65535], m.data, d.src, d.dst))
    BY <1>1, <1>3, ReceiverSum, DatagramSendable
  <2>2. [m.udp EXCEPT ![4] = Field(@)] = [m.udp EXCEPT ![4] = 65535]
    BY <1>3 DEF Field, Word
  <2>3. udp_checksum(m.udp, m.data, d.src, d.dst)
          = Checksum_of(UdpSum([m.udp EXCEPT ![4] = Field(@)], m.data, d.src, d.dst))
    <3>1. Pseudo([m.udp EXCEPT ![4] = Field(@)], d.src, d.dst) = Pseudo(m.udp, d.src, d.dst)
      <4>1. [m.udp EXCEPT ![4] = Field(@)][3] = m.udp[3]
        <5>1. Header(m.udp, 4)
          <6>1. Sendable(d.sp, d.dp, d.src, d.dst, d.data)
            BY DatagramSendable
          <6>2. Header(create_udp_hr(d.sp, d.dp, d.data, d.src, d.dst), 4)
            BY <6>1, UdpHeader
          <6>3. QED
            BY <1>1, <6>2
        <5>2. 3 \in DOMAIN m.udp
          BY <5>1 DEF Header, Words16
        <5>3. QED
          BY <5>2
      <4>2. QED
        BY <4>1 DEF Pseudo
    <3>2. QED
      BY <3>1 DEF udp_checksum, UdpSum
  <2>4. QED
    BY <2>1, <2>2, <2>3
<1>4. QED
  BY <1>1, <1>2, <1>3 DEF is_udp_packet, is_ip_packet, m

-------------------------------------------------------------------------------
(* UDP packets: a bit changes.                                                 *)

\* A change by less than 65535: a checksum shows it.
Small(d) == d \in Int /\ d # 0 /\ d <= 32768 /\ -32768 <= d

\* A sum that changes by a little has another checksum.
LEMMA SmallChange ==
  ASSUME NEW s, Holds32(s), NEW t, Holds32(t), s # 0, t # 0,
         NEW d, Small(d), t = s + d
  PROVE  Checksum_of(t) # Checksum_of(s)
<1>1. t # s /\ t < s + 65535 /\ s < t + 65535
  <2>1. s \in Nat /\ t \in Nat /\ d \in Int /\ d # 0 /\ d <= 32768 /\ -32768 <= d
    BY DEF Holds32, Small
  <2>2. QED
    BY <2>1, SMT
<1>2. QED
  BY <1>1, ChecksumChange

\* A bit of one of the words changes.
LEMMA FlippedHeader ==
  ASSUME NEW words, NEW n \in Nat, Header(words, n), NEW k \in 1 .. n, NEW b \in Bits_of_word
  PROVE  /\ Header([words EXCEPT ![k] = Flipped(words[k], b)], n)
         /\ \A j \in 1 .. n : j # k => [words EXCEPT ![k] = Flipped(words[k], b)][j] = words[j]
         /\ \E d : /\ Small(d)
                   /\ [words EXCEPT ![k] = Flipped(words[k], b)][k] = words[k] + d
<1> DEFINE v == Flipped(words[k], b)
<1>1. words[k] \in Nat /\ words[k] <= 65535
  BY HeaderWord
<1>2. /\ v \in Nat /\ v <= 65535
      /\ b \in Nat /\ 0 < b /\ b <= 32768
      /\ v = words[k] + b \/ v = words[k] - b
  BY <1>1, FlippedWord
<1> HIDE DEF v
<1>3. /\ Header([words EXCEPT ![k] = v], n)
      /\ [words EXCEPT ![k] = v][k] = v
      /\ \A j \in 1 .. n : j # k => [words EXCEPT ![k] = v][j] = words[j]
  BY <1>2, HeaderExcept
<1>4. \E d : Small(d) /\ v = words[k] + d
  <2>1. Small(b) /\ Small(-b)
    BY <1>2 DEF Small
  <2>2. v = words[k] + b \/ v = words[k] + (-b)
    BY <1>1, <1>2
  <2>3. QED
    BY <2>1, <2>2
<1>5. QED
  BY <1>3, <1>4 DEF v

\* A word of the header of IP changes: its checksum is wrong.
LEMMA IpChange ==
  ASSUME NEW ip, Header(ip, 10), ip[6] = ip_checksum(ip), ip[1] # 0, ip[3] # 0,
         NEW other, Header(other, 10), NEW j \in 1 .. 10,
         \A k \in 1 .. 10 : k # j => other[k] = ip[k],
         NEW d, Small(d), other[j] = ip[j] + d
  PROVE  other[6] # ip_checksum(other)
<1> DEFINE z == [ip EXCEPT ![6] = 0]
           y == [other EXCEPT ![6] = 0]
<1>1. Header(z, 10) /\ z[6] = 0 /\ \A k \in 1 .. 10 : k # 6 => z[k] = ip[k]
  BY HeaderExcept
<1>2. Header(y, 10) /\ y[6] = 0 /\ \A k \in 1 .. 10 : k # 6 => y[k] = other[k]
  BY HeaderExcept
<1>3. ip_checksum(ip) = Checksum_of(Total(z)) /\ ip_checksum(other) = Checksum_of(Total(y))
  BY DEF ip_checksum
<1> HIDE DEF z, y
<1>4. d \in Int /\ d # 0
  BY DEF Small
<1>5. CASE j = 6
  <2>1. \A k \in 1 .. 10 : y[k] = z[k]
    BY <1>1, <1>2, <1>5
  <2>2. y = z
    BY <1>1, <1>2, <2>1, HeaderSame
  <2>3. ip[6] \in Nat
    BY HeaderWord
  <2>4. other[6] # ip[6]
    BY <1>4, <1>5, <2>3
  <2>5. QED
    BY <1>3, <2>2, <2>4
<1>6. CASE j # 6
  <2>1. y[j] = z[j] + d /\ \A k \in 1 .. 10 : k # j => y[k] = z[k]
    BY <1>1, <1>2, <1>6
  <2>2. Total(y) = Total(z) + d
    <3>1. Header(z, 10) /\ Header(y, 10) /\ 10 \in Nat /\ d \in Int
      BY <1>1, <1>2, <1>4
    <3>2. QED
      BY <2>1, <3>1, HeaderChange, ZenonT(40)
  <2>3. PICK a \in 1 .. 10 : a # 6 /\ a # j /\ ip[a] # 0
    <3>1. 1 \in 1 .. 10 /\ 3 \in 1 .. 10
      OBVIOUS
    <3>2. CASE j = 1
      BY <3>1, <3>2
    <3>3. CASE j # 1
      BY <3>1, <3>3
    <3>4. QED
      BY <3>2, <3>3
  <2>4. z[a] # 0 /\ y[a] # 0
    BY <1>1, <1>2, <2>3
  <2>5. ASSUME NEW w, Header(w, 10), w[a] # 0
        PROVE  Holds32(Total(w)) /\ Total(w) # 0
    <3>1. Total(w) \in Nat /\ Total(w) <= 65535 * 10
      BY <2>5, HeaderTotal
    <3>2. Holds32(Total(w))
      BY <3>1, SMT DEF Holds32
    <3>3. w[a] \in Nat
      BY <2>5, HeaderWord
    <3>4. w[a] <= Total(w)
      BY <2>5, TotalAtLeast DEF Header
    <3>5. QED
      BY <2>5, <3>1, <3>2, <3>3, <3>4
  <2>6. Checksum_of(Total(y)) # Checksum_of(Total(z))
    BY <1>1, <1>2, <2>2, <2>4, <2>5, SmallChange
  <2>7. other[6] = ip[6]
    BY <1>6
  <2>8. QED
    BY <1>3, <2>6, <2>7
<1>7. QED
  BY <1>5, <1>6

\* What is summed for UDP changes by a little: another checksum.
LEMMA UdpChange ==
  ASSUME NEW udp, Header(udp, 4), NEW data, Bytes_of(data),
         NEW uother, Header(uother, 4), NEW dother, Bytes_of(dother),
         NEW src, Header(src, 2), NEW dst, Header(dst, 2), udp[3] = uother[3],
         NEW d, Small(d),
         Total(uother) + Total(Words(dother)) = (Total(udp) + Total(Words(data))) + d
  PROVE  Checksum_of(UdpSum(uother, dother, src, dst)) # Checksum_of(UdpSum(udp, data, src, dst))
<1>1. /\ Holds32(UdpSum(udp, data, src, dst)) /\ UdpSum(udp, data, src, dst) # 0
      /\ Holds32(UdpSum(uother, dother, src, dst)) /\ UdpSum(uother, dother, src, dst) # 0
  BY UdpSumFacts
<1>2. UdpSum(uother, dother, src, dst) = UdpSum(udp, data, src, dst) + d
  <2>1. Pseudo(uother, src, dst) = Pseudo(udp, src, dst)
    BY DEF Pseudo
  <2>2. Pseudo(udp, src, dst) \in Int
    <3>1. Total(src) \in Nat /\ Total(dst) \in Nat
      BY HeaderTotal
    <3>2. htons_tos(17) \in Nat
      BY Swapped
    <3>3. udp[3] \in Nat
      BY HeaderWord
    <3>4. QED
      BY <3>1, <3>2, <3>3 DEF Pseudo
  <2>3. /\ Total(udp) \in Nat /\ Total(uother) \in Nat
        /\ Total(Words(data)) \in Nat /\ Total(Words(dother)) \in Nat
    BY HeaderTotal, WordsFacts, TotalBound
  <2>4. d \in Int
    BY DEF Small
  <2>5. QED
    BY <2>1, <2>2, <2>3, <2>4 DEF UdpSum, Summed
<1>3. QED
  BY <1>1, <1>2, SmallChange

\* A byte of the data changes: the sum of their words changes by a little.
LEMMA DataChange ==
  ASSUME NEW data, Bytes_of(data), NEW k \in 1 .. Len(data), NEW b \in Bits_of_byte
  PROVE  LET other == [data EXCEPT ![k] = Flipped(data[k], b)]
         IN  /\ Bytes_of(other)
             /\ \E d : Small(d) /\ Total(Words(other)) = Total(Words(data)) + d
<1> DEFINE v == Flipped(data[k], b)
           other == [data EXCEPT ![k] = v]
<1>1. /\ data \in Seq(Nat) /\ Len(data) \in Nat /\ Len(data) <= 65507 /\ k \in Nat
      /\ \A j \in 1 .. Len(data) : data[j] \in Nat /\ data[j] <= 255
  BY DEF Bytes_of
<1>2. /\ v \in Nat /\ v <= 255 /\ b \in Nat /\ 0 < b /\ b <= 128
      /\ v = data[k] + b \/ v = data[k] - b
  <2>1. data[k] \in Nat /\ data[k] <= 255
    BY <1>1
  <2>2. QED
    BY <2>1, FlippedByte, SMTT(30)
<1> HIDE DEF v
<1>3. /\ other \in Seq(Nat) /\ Len(other) = Len(data) /\ other[k] = v
      /\ \A j \in 1 .. Len(data) : j # k => other[j] = data[j]
  BY <1>1, <1>2
<1> HIDE DEF other
<1>4. Bytes_of(other)
  <2>1. ASSUME NEW j \in 1 .. Len(other)
        PROVE  other[j] <= 255
    <3>1. CASE j = k
      BY <1>2, <1>3, <3>1
    <3>2. CASE j # k
      <4>1. j \in 1 .. Len(data) /\ other[j] = data[j]
        BY <1>3, <3>2
      <4>2. QED
        BY <1>1, <4>1
    <3>3. QED
      BY <3>1, <3>2
  <2>2. QED
    BY <1>1, <1>3, <2>1 DEF Bytes_of
<1> DEFINE W == Words(data)
           O == Words(other)
           at == (k + 1) \div 2
<1>5. /\ Words16(W) /\ Len(W) = (Len(data) + 1) \div 2
      /\ \A j \in 1 .. Len(W) :
           W[j] = data[2 * j - 1] + (IF 2 * j <= Len(data) THEN 256 * data[2 * j] ELSE 0)
  BY WordsFacts
<1>6. /\ Words16(O) /\ Len(O) = (Len(data) + 1) \div 2
      /\ \A j \in 1 .. Len(O) :
           O[j] = other[2 * j - 1] + (IF 2 * j <= Len(data) THEN 256 * other[2 * j] ELSE 0)
  <2>1. /\ Words16(O) /\ Len(O) = (Len(other) + 1) \div 2
        /\ \A j \in 1 .. Len(O) :
             O[j] = other[2 * j - 1] + (IF 2 * j <= Len(other) THEN 256 * other[2 * j] ELSE 0)
    BY <1>4, WordsFacts
  <2>2. QED
    BY <1>3, <2>1
<1>7. at \in Nat /\ at \in 1 .. Len(W) /\ (k = 2 * at - 1 \/ k = 2 * at)
  BY <1>1, <1>5
<1> HIDE DEF W, O, at
<1>8. ASSUME NEW j \in 1 .. Len(W), j # at
      PROVE  O[j] = W[j]
  <2>1. j \in Nat /\ 2 * j - 1 # k /\ 2 * j # k
    BY <1>7, <1>8
  <2>2. 2 * j - 1 \in 1 .. Len(data) /\ (2 * j <= Len(data) => 2 * j \in 1 .. Len(data))
    BY <1>1, <1>5, <2>1
  <2>3. other[2 * j - 1] = data[2 * j - 1]
    BY <1>3, <2>1, <2>2
  <2>4. 2 * j <= Len(data) => other[2 * j] = data[2 * j]
    BY <1>3, <2>1, <2>2
  <2>5. QED
    BY <1>5, <1>6, <2>3, <2>4
<1>9. \E d : Small(d) /\ O[at] = W[at] + d
  <2>1. /\ W[at] = data[2 * at - 1] + (IF 2 * at <= Len(data) THEN 256 * data[2 * at] ELSE 0)
        /\ O[at] = other[2 * at - 1] + (IF 2 * at <= Len(data) THEN 256 * other[2 * at] ELSE 0)
    BY <1>5, <1>6, <1>7
  <2>2. 2 * at - 1 \in 1 .. Len(data) /\ (2 * at <= Len(data) => 2 * at \in 1 .. Len(data))
    BY <1>1, <1>5, <1>7
  <2>3. data[2 * at - 1] \in Nat /\ (2 * at <= Len(data) => data[2 * at] \in Nat)
    BY <1>1, <2>2
  <2>4. Small(b) /\ Small(-b) /\ Small(256 * b) /\ Small(-(256 * b))
    BY <1>2 DEF Small
  <2>5. CASE k = 2 * at - 1
    <3>1. other[2 * at - 1] = v /\ data[2 * at - 1] = data[k]
      BY <1>3, <2>5
    <3>2. 2 * at <= Len(data) => other[2 * at] = data[2 * at]
      BY <1>3, <1>7, <2>2, <2>5
    <3> DEFINE rest == IF 2 * at <= Len(data) THEN 256 * data[2 * at] ELSE 0
    <3>a. rest \in Int
      BY <2>3
    <3>b. W[at] = data[k] + rest /\ O[at] = v + rest
      BY <2>1, <3>1, <3>2
    <3>c. data[k] \in Int
      BY <2>3, <3>1
    <3> HIDE DEF rest
    <3>3. O[at] = W[at] + b \/ O[at] = W[at] + (-b)
      BY <1>2, <3>a, <3>b, <3>c, SMTT(30)
    <3>4. QED
      BY <2>4, <3>3
  <2>6. CASE k = 2 * at
    <3>1. other[2 * at] = v /\ data[2 * at] = data[k] /\ 2 * at <= Len(data)
      BY <1>3, <2>6
    <3>2. other[2 * at - 1] = data[2 * at - 1]
      BY <1>3, <1>7, <2>2, <2>6
    <3> DEFINE rest == data[2 * at - 1]
    <3>a. rest \in Int /\ data[k] \in Int
      BY <2>3, <3>1
    <3>b. W[at] = rest + 256 * data[k] /\ O[at] = rest + 256 * v
      BY <2>1, <3>1, <3>2
    <3> HIDE DEF rest
    <3>c. v = data[k] + b => O[at] = W[at] + 256 * b
      BY <1>2, <3>a, <3>b
    <3>d. v = data[k] - b => O[at] = W[at] + (-(256 * b))
      BY <1>2, <3>a, <3>b, SMTT(30)
    <3>3. O[at] = W[at] + 256 * b \/ O[at] = W[at] + (-(256 * b))
      BY <1>2, <3>c, <3>d
    <3>4. QED
      BY <2>4, <3>3
  <2>7. QED
    BY <1>7, <2>5, <2>6
<1>10. PICK d : Small(d) /\ O[at] = W[at] + d
  BY <1>9
<1>11. Total(O) = Total(W) + d
  <2>1. W \in Seq(Nat) /\ O \in Seq(Nat) /\ Len(O) = Len(W) /\ d \in Int
    BY <1>5, <1>6, <1>10 DEF Words16, Small
  <2>2. QED
    BY <1>7, <1>8, <1>10, <2>1, TotalChange
<1>12. QED
  BY <1>4, <1>10, <1>11 DEF W, O, other, v

\* What is_udp_packet() compares the checksum with, in a packet that has one.
LEMMA Received ==
  ASSUME NEW m, Header(m.udp, 4), m.udp[4] # 0, is_udp_packet(m), NEW src, NEW dst,
         <<m.ip[7], m.ip[8]>> = src, <<m.ip[9], m.ip[10]>> = dst
  PROVE  m.udp[4] = Checksum_of(UdpSum([m.udp EXCEPT ![4] = 65535], m.data, src, dst))
<1>1. m.udp[4] = udp_checksum(m.udp, m.data, src, dst)
  BY DEF is_udp_packet
<1>2. [m.udp EXCEPT ![4] = Field(@)] = [m.udp EXCEPT ![4] = 65535]
  BY DEF Field, Word
<1>3. Pseudo([m.udp EXCEPT ![4] = Field(@)], src, dst) = Pseudo(m.udp, src, dst)
  <2>1. 3 \in DOMAIN m.udp
    BY DEF Header, Words16
  <2>2. [m.udp EXCEPT ![4] = Field(@)][3] = m.udp[3]
    BY <2>1
  <2>3. QED
    BY <2>2 DEF Pseudo
<1>4. udp_checksum(m.udp, m.data, src, dst)
        = Checksum_of(UdpSum([m.udp EXCEPT ![4] = Field(@)], m.data, src, dst))
  BY <1>3 DEF udp_checksum, UdpSum
<1>5. QED
  BY <1>1, <1>2, <1>4

\* All ones in the place of the checksum, in the packet that was made and in the one
\* that came.
LEMMA Ones ==
  ASSUME NEW words, Header(words, 4)
  PROVE  /\ Header([words EXCEPT ![4] = 65535], 4)
         /\ \A k \in 1 .. 4 : k # 4 => [words EXCEPT ![4] = 65535][k] = words[k]
<1> DEFINE ones == 65535
<1>1. ones \in Nat /\ ones <= 65535
  BY SMT
<1> HIDE DEF ones
<1>2. 4 \in Nat /\ 4 \in 1 .. 4
  OBVIOUS
<1>3. /\ Header([words EXCEPT ![4] = ones], 4)
      /\ \A k \in 1 .. 4 : k # 4 => [words EXCEPT ![4] = ones][k] = words[k]
  BY <1>1, <1>2, HeaderExcept
<1>4. QED
  BY <1>3 DEF ones

\* A packet in which a bit of a port changed is not accepted, if it has a checksum.
LEMMA PortNoticed ==
  ASSUME NEW dg \in Datagrams, NEW k \in {1, 2}, NEW b \in Bits_of_word,
         NEW m, m = [Made(dg) EXCEPT !.udp[k] = Flipped(@, b)], is_udp_packet(m)
  PROVE  Made(dg).udp[4] = 0
<1> SUFFICES ASSUME Made(dg).udp[4] # 0 PROVE FALSE
  OBVIOUS
<1> DEFINE udp == Made(dg).udp
           uother == [udp EXCEPT ![k] = Flipped(udp[k], b)]
           full == [udp EXCEPT ![4] = 65535]
           fother == [uother EXCEPT ![4] = 65535]
<1>1. Sendable(dg.sp, dg.dp, dg.src, dg.dst, dg.data)
  BY DatagramSendable
<1>2. Header(dg.src, 2) /\ Header(dg.dst, 2) /\ Bytes_of(dg.data)
  BY <1>1 DEF Sendable
<1>3. /\ udp = create_udp_hr(dg.sp, dg.dp, dg.data, dg.src, dg.dst)
      /\ <<Made(dg).ip[7], Made(dg).ip[8]>> = dg.src /\ <<Made(dg).ip[9], Made(dg).ip[10]>> = dg.dst
      /\ Made(dg) = [ip |-> Made(dg).ip, udp |-> udp, data |-> dg.data]
  BY MadeFacts
<1>4. Header(udp, 4) /\ udp[4] = Checksum_of(UdpSum(full, dg.data, dg.src, dg.dst))
  <2> DEFINE hr == create_udp_hr(dg.sp, dg.dp, dg.data, dg.src, dg.dst)
  <2>1. Header(hr, 4)
    BY <1>1, UdpHeader
  <2>2. hr[4] = Checksum_of(UdpSum([hr EXCEPT ![4] = 65535], dg.data, dg.src, dg.dst))
    BY <1>1, ReceiverSum
  <2>3. udp = hr
    BY <1>3
  <2> HIDE DEF hr, udp
  <2>4. QED
    BY <2>1, <2>2, <2>3
<1>5. m.udp = uother /\ m.ip = Made(dg).ip /\ m.data = dg.data
  BY <1>3
<1> HIDE DEF udp
<1>6. k \in 1 .. 4 /\ k # 4 /\ k # 3 /\ 4 \in Nat /\ 4 \in 1 .. 4 /\ 3 \in 1 .. 4
  OBVIOUS
<1>7. /\ Header(uother, 4)
      /\ \A j \in 1 .. 4 : j # k => uother[j] = udp[j]
      /\ \E d : Small(d) /\ uother[k] = udp[k] + d
  <2>1. Header(udp, 4)
    BY <1>4
  <2> HIDE DEF full, fother
  <2>2. QED
    BY <1>6, <2>1, FlippedHeader
<1> HIDE DEF uother
<1>8. /\ Header(full, 4) /\ Header(fother, 4)
      /\ \A j \in 1 .. 4 : j # 4 => full[j] = udp[j] /\ fother[j] = uother[j]
      /\ full[4] = fother[4]
  <2>1. full[4] = 65535 /\ fother[4] = 65535
    BY <1>4, <1>7 DEF Header, Words16
  <2>2. QED
    BY <1>4, <1>7, <2>1, Ones
<1>9. uother[4] = Checksum_of(UdpSum(fother, dg.data, dg.src, dg.dst))
  <2>1. m.udp[4] # 0
    BY <1>5, <1>6, <1>7 DEF udp
  <2>2. QED
    BY <1>3, <1>5, <1>7, <2>1, Received
<1> HIDE DEF full, fother
<1>10. PICK d : Small(d) /\ uother[k] = udp[k] + d
  BY <1>7
<1>11. d \in Int /\ fother[k] = full[k] + d /\ \A j \in 1 .. 4 : j # k => fother[j] = full[j]
  BY <1>6, <1>7, <1>8, <1>10 DEF Small
<1>12. Total(fother) = Total(full) + d
  BY <1>6, <1>8, <1>11, HeaderChange
<1>13. Total(fother) + Total(Words(dg.data)) = (Total(full) + Total(Words(dg.data))) + d
  <2>1. Total(full) \in Nat /\ Total(Words(dg.data)) \in Nat
    BY <1>2, <1>8, HeaderTotal, WordsFacts, TotalBound
  <2>2. QED
    BY <1>11, <1>12, <2>1
<1>14. Checksum_of(UdpSum(fother, dg.data, dg.src, dg.dst))
         # Checksum_of(UdpSum(full, dg.data, dg.src, dg.dst))
  <2>1. full[3] = fother[3]
    BY <1>6, <1>11
  <2>2. QED
    BY <1>2, <1>8, <1>10, <1>13, <2>1, UdpChange
<1>15. QED
  BY <1>4, <1>6, <1>7, <1>9, <1>14

\* A packet in which a bit of the data changed is not accepted, if it has a checksum.
LEMMA DataNoticed ==
  ASSUME NEW dg \in Datagrams, NEW k \in 1 .. Len(Made(dg).data), NEW b \in Bits_of_byte,
         NEW m, m.ip = Made(dg).ip, m.udp = Made(dg).udp,
         m.data = [Made(dg).data EXCEPT ![k] = Flipped(Made(dg).data[k], b)],
         is_udp_packet(m)
  PROVE  Made(dg).udp[4] = 0
<1> SUFFICES ASSUME Made(dg).udp[4] # 0 PROVE FALSE
  OBVIOUS
<1> DEFINE udp == Made(dg).udp
           dother == [dg.data EXCEPT ![k] = Flipped(dg.data[k], b)]
           full == [udp EXCEPT ![4] = 65535]
<1>1. Sendable(dg.sp, dg.dp, dg.src, dg.dst, dg.data)
  BY DatagramSendable
<1>2. Header(dg.src, 2) /\ Header(dg.dst, 2) /\ Bytes_of(dg.data)
  BY <1>1 DEF Sendable
<1>3. /\ udp = create_udp_hr(dg.sp, dg.dp, dg.data, dg.src, dg.dst)
      /\ <<Made(dg).ip[7], Made(dg).ip[8]>> = dg.src /\ <<Made(dg).ip[9], Made(dg).ip[10]>> = dg.dst
      /\ Made(dg) = [ip |-> Made(dg).ip, udp |-> udp, data |-> dg.data] /\ Made(dg).data = dg.data
  BY MadeFacts
<1>4. Header(udp, 4) /\ udp[4] = Checksum_of(UdpSum(full, dg.data, dg.src, dg.dst))
  <2> DEFINE hr == create_udp_hr(dg.sp, dg.dp, dg.data, dg.src, dg.dst)
  <2>1. Header(hr, 4)
    BY <1>1, UdpHeader
  <2>2. hr[4] = Checksum_of(UdpSum([hr EXCEPT ![4] = 65535], dg.data, dg.src, dg.dst))
    BY <1>1, ReceiverSum
  <2>3. udp = hr
    BY <1>3
  <2> HIDE DEF hr, udp
  <2>4. QED
    BY <2>1, <2>2, <2>3
<1>5. m.udp = udp /\ m.ip = Made(dg).ip /\ m.data = dother
  BY <1>3
<1>6. k \in 1 .. Len(dg.data)
  BY <1>3
<1> HIDE DEF udp
<1>7. Bytes_of(dother) /\ \E d : Small(d) /\ Total(Words(dother)) = Total(Words(dg.data)) + d
  BY <1>2, <1>6, DataChange
<1> HIDE DEF dother
<1>8. Header(full, 4)
  <2>1. Header(udp, 4)
    BY <1>4
  <2>2. QED
    BY <2>1, Ones
<1>9. udp[4] = Checksum_of(UdpSum(full, dother, dg.src, dg.dst))
  <2>1. m.udp[4] # 0 /\ Header(m.udp, 4)
    <3>1. Header(udp, 4)
      BY <1>4
    <3> HIDE DEF full
    <3>2. QED
      BY <1>5, <3>1 DEF udp
  <2>2. <<m.ip[7], m.ip[8]>> = dg.src /\ <<m.ip[9], m.ip[10]>> = dg.dst
    BY <1>3, <1>5
  <2> DEFINE came == [m.udp EXCEPT ![4] = 65535]
  <2>3. \A src, dst : <<m.ip[7], m.ip[8]>> = src /\ <<m.ip[9], m.ip[10]>> = dst
          => m.udp[4] = Checksum_of(UdpSum(came, m.data, src, dst))
    BY <2>1, Received
  <2>4. came = full
    BY <1>5
  <2> HIDE DEF came, full
  <2>5. m.udp[4] = Checksum_of(UdpSum(came, m.data, dg.src, dg.dst))
    BY <2>2, <2>3, Zenon
  <2>6. QED
    BY <1>5, <2>4, <2>5, Zenon
<1> HIDE DEF full
<1>10. PICK d : Small(d) /\ Total(Words(dother)) = Total(Words(dg.data)) + d
  BY <1>7
<1>11. Total(full) + Total(Words(dother)) = (Total(full) + Total(Words(dg.data))) + d
  <2>1. Total(full) \in Nat /\ Total(Words(dg.data)) \in Nat
    BY <1>2, <1>8, HeaderTotal, WordsFacts, TotalBound
  <2>2. d \in Int
    BY <1>10 DEF Small
  <2>3. QED
    BY <1>10, <2>1, <2>2
<1>12. Checksum_of(UdpSum(full, dother, dg.src, dg.dst))
         # Checksum_of(UdpSum(full, dg.data, dg.src, dg.dst))
  BY <1>2, <1>7, <1>8, <1>10, <1>11, UdpChange
<1>13. QED
  BY <1>4, <1>9, <1>12

\* A packet in which a bit of the header of IP changed is not accepted.
LEMMA IpNoticed ==
  ASSUME NEW dg \in Datagrams, NEW k \in 1 .. 10, NEW b \in Bits_of_word,
         NEW m, m = [Made(dg) EXCEPT !.ip[k] = Flipped(@, b)]
  PROVE  ~ is_udp_packet(m)
<1> DEFINE ip == Made(dg).ip
           iother == [ip EXCEPT ![k] = Flipped(ip[k], b)]
<1>1. /\ Header(ip, 10) /\ ip[1] # 0 /\ ip[3] # 0 /\ ip[6] = ip_checksum(ip)
      /\ Made(dg) = [ip |-> ip, udp |-> Made(dg).udp, data |-> dg.data]
  <2>1. /\ Header(ip, 10) /\ ip[1] = 4165 /\ ip[3] # 0 /\ ip[6] = ip_checksum(ip)
        /\ Made(dg) = [ip |-> ip, udp |-> Made(dg).udp, data |-> dg.data]
    BY MadeFacts
  <2> HIDE DEF ip
  <2>2. ip[1] # 0
    BY <2>1
  <2>3. QED
    BY <2>1, <2>2
<1>2. m.ip = iother
  BY <1>1
<1> HIDE DEF ip
<1>3. /\ Header(iother, 10)
      /\ \A j \in 1 .. 10 : j # k => iother[j] = ip[j]
      /\ \E d : Small(d) /\ iother[k] = ip[k] + d
  <2>1. 10 \in Nat /\ Header(ip, 10)
    BY <1>1
  <2>2. QED
    BY <2>1, FlippedHeader
<1> HIDE DEF iother
<1>4. PICK d : Small(d) /\ iother[k] = ip[k] + d
  BY <1>3
<1>5. iother[6] # ip_checksum(iother)
  BY <1>1, <1>3, <1>4, IpChange
<1>6. QED
  BY <1>2, <1>5 DEF is_udp_packet, is_ip_packet

\* What is on the wire and what the receiver says of it.
Noticed == Intact \/ Made(datagram).udp[4] = 0

PrInv ==
  /\ datagram \in Datagrams
  /\ phase = "wire" => wire = Made(datagram)
  /\ phase = "flipped" /\ is_udp_packet(wire) => Noticed
  /\ phase = "received" => result
  /\ phase = "received_flipped" /\ result => Noticed

\* It holds first and in every step.
LEMMA PrInvariance == PrSpec => []PrInv
<1>1. PrInit => PrInv
  BY DEF PrInit, PrInv, Datagrams
<1>2. PrInv /\ [PrNext]_pr_vars => PrInv'
  <2> SUFFICES ASSUME PrInv, [PrNext]_pr_vars PROVE PrInv'
    OBVIOUS
  <2>1. CASE send_packet
    <3>1. wire' = Made(datagram)'
      BY <2>1 DEF send_packet, Made
    <3>2. QED
      BY <2>1, <3>1 DEF send_packet, PrInv
  <2>2. CASE flip
    <3>1. phase = "wire" /\ phase' = "flipped" /\ datagram' = datagram
      BY <2>2 DEF flip
    <3>2. wire = Made(datagram) /\ datagram \in Datagrams
      BY <3>1 DEF PrInv
    <3> DEFINE m == Made(datagram)
    <3>3. ASSUME is_udp_packet(wire')
          PROVE  Noticed'
      <4>1. \/ \E k \in 1 .. 10, b \in Bits_of_word : wire' = [m EXCEPT !.ip[k] = Flipped(@, b)]
            \/ \E k \in {1, 2, 4}, b \in Bits_of_word : wire' = [m EXCEPT !.udp[k] = Flipped(@, b)]
            \/ \E k \in 1 .. Len(m.data), b \in Bits_of_byte :
                 wire' = [m EXCEPT !.data[k] = Flipped(@, b)]
        BY <2>2, <3>2 DEF flip
      <4>2. CASE \E k \in 1 .. 10, b \in Bits_of_word : wire' = [m EXCEPT !.ip[k] = Flipped(@, b)]
        BY <3>2, <3>3, <4>2, IpNoticed
      <4>3. CASE \E k \in 1 .. Len(m.data), b \in Bits_of_byte :
                   wire' = [m EXCEPT !.data[k] = Flipped(@, b)]
        <5>1. PICK k \in 1 .. Len(m.data), b \in Bits_of_byte :
                wire' = [m EXCEPT !.data[k] = Flipped(@, b)]
          BY <4>3
        <5>2. m = [ip |-> m.ip, udp |-> m.udp, data |-> m.data]
          BY <3>2, MadeFacts
        <5>3. /\ wire'.ip = m.ip /\ wire'.udp = m.udp
              /\ wire'.data = [m.data EXCEPT ![k] = Flipped(m.data[k], b)]
          <6> HIDE DEF m
          <6>1. QED
            BY <5>1, <5>2
        <5>4. m.udp[4] = 0
          BY <3>2, <3>3, <5>3, DataNoticed
        <5>5. QED
          BY <3>1, <5>4 DEF Noticed, Made
      <4>4. CASE \E k \in {1, 2, 4}, b \in Bits_of_word :
                   wire' = [m EXCEPT !.udp[k] = Flipped(@, b)]
        <5>1. PICK k \in {1, 2, 4}, b \in Bits_of_word : wire' = [m EXCEPT !.udp[k] = Flipped(@, b)]
          BY <4>4
        <5>2. CASE k = 4
          <6>1. m = [ip |-> m.ip, udp |-> m.udp, data |-> datagram.data]
            BY <3>2, MadeFacts
          <6> HIDE DEF m
          <6>2. /\ wire'.ip = m.ip /\ wire'.data = m.data
                /\ wire'.udp = [m.udp EXCEPT ![4] = Flipped(m.udp[4], b)]
            BY <5>1, <5>2, <6>1
          <6>3. wire'.udp[1] = m.udp[1] /\ wire'.udp[2] = m.udp[2]
            BY <6>2
          <6>4. Intact'
            BY <3>1, <6>2, <6>3 DEF Intact, m, Made
          <6>5. QED
            BY <6>4 DEF Noticed
        <5>3. CASE k # 4
          <6>1. k \in {1, 2}
            BY <5>3
          <6>2. m.udp[4] = 0
            BY <3>2, <3>3, <5>1, <6>1, PortNoticed
          <6>3. QED
            BY <3>1, <6>2 DEF Noticed, Made
        <5>4. QED
          BY <5>2, <5>3
      <4>5. QED
        BY <4>1, <4>2, <4>3, <4>4
    <3>4. QED
      BY <3>1, <3>2, <3>3 DEF PrInv
  <2>3. CASE receive_packet
    <3>1. datagram' = datagram /\ wire' = wire /\ result' = is_udp_packet(wire)
      BY <2>3 DEF receive_packet
    <3>2. Noticed' <=> Noticed
      BY <3>1 DEF Noticed, Intact, Made
    <3>3. CASE phase = "wire"
      <4>1. phase' = "received"
        BY <2>3, <3>3 DEF receive_packet
      <4>2. result'
        BY <3>1, <3>3, MadeAccepted DEF PrInv
      <4>3. QED
        BY <3>1, <4>1, <4>2 DEF PrInv
    <3>4. CASE phase = "flipped"
      <4>1. phase' = "received_flipped"
        BY <2>3, <3>4 DEF receive_packet
      <4>2. result' => Noticed
        BY <3>1, <3>4 DEF PrInv
      <4>3. QED
        BY <3>1, <3>2, <4>1, <4>2 DEF PrInv
    <3>5. QED
      BY <2>3, <3>3, <3>4 DEF receive_packet
  <2>4. CASE UNCHANGED pr_vars
    BY <2>4 DEF pr_vars, PrInv, Noticed, Intact, Made
  <2>5. QED
    BY <2>1, <2>2, <2>3, <2>4 DEF PrNext
<1>3. QED
  BY <1>1, <1>2, PTL DEF PrSpec

\* What this program sends it accepts, for every length and contents; and a bit that
\* changes is noticed, unless the checksum came out as zero.
THEOREM PacketsAreChecked == PrSpec => []PacketsChecked
<1>1. PrInv => PacketsChecked
  <2> SUFFICES ASSUME PrInv PROVE PacketsChecked
    OBVIOUS
  <2>1. OwnAccepted
    BY DEF PrInv, OwnAccepted
  <2>2. ChangeNoticed
    <3>1. Made(datagram).udp
            = create_udp_hr(datagram.sp, datagram.dp, datagram.data, datagram.src, datagram.dst)
      BY MadeFacts DEF PrInv
    <3>2. QED
      BY <3>1 DEF PrInv, ChangeNoticed, Noticed
  <2>3. QED
    BY <2>1, <2>2 DEF PacketsChecked
<1>2. QED
  BY <1>1, PrInvariance, PTL

-------------------------------------------------------------------------------
(* The keyboard: the invariant.                                                *)

\* What has come of the codes of a key and what it left in the flags.
Prefixed == {"rctrl", "up", "enter", "slash"}
Codes ==
  \/ line = << >> /\ flag.special = 0 /\ flag.ignore = IF "print" \in held THEN 1 ELSE 0
  \/ /\ line = Make(moved) /\ moved \in held
     /\ flag.special = 0 /\ flag.ignore = 0
  \/ /\ line = Break(moved) /\ line # << >> /\ moved \notin held
     /\ flag.special = 0 /\ flag.ignore = IF moved = "print" THEN 1 ELSE 0
  \/ /\ moved \in Prefixed
     /\ line = IF moved \in held THEN <<Make(moved)[2]>> ELSE <<Make(moved)[2] + KBIT>>
     /\ flag.special = 1 /\ flag.ignore = 0
  \/ /\ moved = "pause" /\ moved \in held /\ line \in Seq(0 .. 255) /\ line # << >>
     /\ flag.special = 0 /\ flag.ignore = Len(line)
  \/ /\ moved = "print" /\ moved \in held
     /\ \/ line = <<42, 224, 55>> /\ flag.special = 1 /\ flag.ignore = 0
        \/ line = <<224, 55>> /\ flag.special = 0 /\ flag.ignore = 3
        \/ line = << 55 >> /\ flag.special = 0 /\ flag.ignore = 2
  \/ /\ moved = "print" /\ moved \notin held /\ flag.ignore = 0
     /\ \/ line \in {<<183, 224, 170>>, <<224, 170>>} /\ flag.special = 0
        \/ line = << 170 >> /\ flag.special = 1

Flags == [brk : {0}, ignore : 0 .. 5, control : {0, 1}, shift : {0, 1}, special : {0, 1},
          capslock : {0, 1}, numlock : {0, 1}, scrlock : {0, 1}, alt : {0, 1}]

Lifting(keys) == line # << >> /\ moved \in keys \ held
Pressing(keys) == line # << >> /\ moved \in keys \cap held

\* Who is behind a modifier: a key that is down, or one that has just been lifted.
Modifiers ==
  /\ flag.control = 1 => held \cap {"ctrl", "rctrl"} # {} \/ Lifting({"ctrl", "rctrl"})
  /\ flag.shift = 1 => Shifted \/ Lifting(Shifts \cup {"print"})
  /\ flag.shift = 0 => ~ Shifted \/ Pressing(Shifts)
  /\ flag.alt = 1 => alted \/ Lifting({"quote"})
  /\ flag.alt = 0 => ~ alted \/ Pressing({"alt"})
  /\ Lifting(Shifts \cup {"print"}) => lifted
  /\ Pressing(Shifts) => ~ lifted
  /\ Pressing({"alt"}) => alted
  /\ Lifting({"quote"}) => ~ alted

ScanInv ==
  /\ flag \in Flags
  /\ held \subseteq Key
  /\ line # << >> => moved \in Key
  /\ line # << >> /\ moved # "print" => "print" \notin held
  /\ Codes
  /\ Modifiers
  /\ SendsTheKey

-------------------------------------------------------------------------------
(* The keyboard: what a code does to the flags.                                *)

\* What the keyboard sends for each key.
LEMMA MakeCodes ==
  /\ Make("a") = << 30 >> /\ Make("quote") = << 40 >>
  /\ Make("lshift") = << 42 >> /\ Make("rshift") = << 54 >>
  /\ Make("ctrl") = << 29 >> /\ Make("rctrl") = <<224, 29>>
  /\ Make("alt") = << 56 >> /\ Make("caps") = << 58 >>
  /\ Make("num") = << 69 >> /\ Make("scroll") = << 70 >>
  /\ Make("up") = <<224, 72>> /\ Make("keypad8") = << 72 >>
  /\ Make("enter") = <<224, 28>> /\ Make("slash") = <<224, 53>>
  /\ Make("pause") = <<225, 29, 69, 225, 157, 197>>
  /\ Make("print") = <<224, 42, 224, 55>>
BY DEF Make

\* The keys whose make code is one number.
Single == {"a", "quote", "lshift", "rshift", "ctrl", "alt", "caps", "num", "scroll", "keypad8"}

\* What it sends when they are lifted.
LEMMA BreakCodes ==
  /\ \A k \in Single : Break(k) = <<Make(k)[1] + 128>>
  /\ \A k \in Prefixed : Break(k) = <<224, Make(k)[2] + 128>>
  /\ Break("pause") = << >>
  /\ Break("print") = <<224, 183, 224, 170>>
<1>1. ASSUME NEW k \in Single
      PROVE  Break(k) = <<Make(k)[1] + 128>>
  <2>1. Len(Make(k)) = 1
    BY MakeCodes DEF Single
  <2>2. Break(k) = [j \in 1 .. 1 |-> IF j = 1 THEN Make(k)[j] + 128 ELSE Make(k)[j]]
    BY <2>1 DEF Break, KBIT, Single
  <2>3. QED
    BY <2>2
<1>2. ASSUME NEW k \in Prefixed
      PROVE  Break(k) = <<224, Make(k)[2] + 128>>
  <2>1. Len(Make(k)) = 2 /\ Make(k)[1] = 224
    BY MakeCodes DEF Prefixed
  <2>2. Break(k) = [j \in 1 .. 2 |-> IF j = 2 THEN Make(k)[j] + 128 ELSE Make(k)[j]]
    BY <2>1 DEF Break, KBIT, Prefixed
  <2>3. QED
    BY <2>1, <2>2
<1>3. Break("pause") = << >> /\ Break("print") = <<224, 183, 224, 170>>
  BY DEF Break
<1>4. QED
  BY <1>1, <1>2, <1>3

\* Every pass of the loop ends with the two counters.
Seen_flags == [brk : {0, 1}, ignore : 0 .. 5, control : {0, 1}, shift : {0, 1}, special : 0 .. 2,
               capslock : {0, 1}, numlock : {0, 1}, scrlock : {0, 1}, alt : {0, 1}]

\* The end of the loop.
LEMMA LoopFacts ==
  ASSUME NEW f \in Seen_flags, NEW x, Loop(f, x)
  PROVE  /\ flag' \in Flags
         /\ flag'.special = IF f.special = 2 THEN 1 ELSE 0
         /\ flag'.ignore = f.ignore
         /\ flag'.control = f.control
         /\ flag'.shift = f.shift
         /\ flag'.alt = f.alt
         /\ flag'.capslock = f.capslock
         /\ key' = x
<1> DEFINE a == IF f.special > 0 THEN f.special - 1 ELSE 0
           b == IF f.brk > 0 THEN f.brk - 1 ELSE 0
<1>1. flag' = [f EXCEPT !.special = a, !.brk = b] /\ key' = x
  BY DEF Loop
<1>2. a \in {0, 1} /\ a = (IF f.special = 2 THEN 1 ELSE 0) /\ b = 0
  <2>1. f.special \in 0 .. 2 /\ f.brk \in {0, 1}
    BY DEF Seen_flags
  <2>2. QED
    BY <2>1
<1> HIDE DEF a, b
<1>3. flag' \in Flags
  BY <1>1, <1>2 DEF Seen_flags, Flags
<1>4. QED
  BY <1>1, <1>2, <1>3 DEF Seen_flags, Flags

\* A code that is not ignored.
LEMMA CodeFacts ==
  ASSUME flag \in Flags, Code \in 0 .. 255, flag.ignore = 0, keyb_notifier
  PROVE  /\ flag' \in Flags
         /\ flag'.special = IF Code = 224 THEN 1 ELSE 0
         /\ flag'.ignore = IF Code = 225 THEN 5
                           ELSE IF Code = 42 /\ flag.special # 0 THEN 3 ELSE 0
         /\ flag'.control = IF Code = 29 THEN 1 ELSE IF Code = 157 THEN 0 ELSE flag.control
         /\ flag'.shift = IF Code = 54 \/ (Code = 42 /\ flag.special = 0) THEN 1
                          ELSE IF Code \in {170, 182} THEN 0 ELSE flag.shift
         /\ flag'.alt = IF Code = 56 THEN 1 ELSE IF Code = 168 THEN 0 ELSE flag.alt
         /\ Code \notin {58, 186} => flag'.capslock = flag.capslock
         /\ key' = IF Code < 128 /\ Code \notin {29, 42, 54, 56, 58, 69, 70}
                   THEN get_keycode(Code, flag) ELSE None
<1>1. /\ flag.brk = 0 /\ flag.special \in {0, 1} /\ flag \in Seen_flags
  BY DEF Flags, Seen_flags
<1>2. CASE weird
  <2> DEFINE f == [flag EXCEPT !.ignore = 5]
  <2>1. f \in Seen_flags /\ f.ignore = 5 /\ f.special = flag.special /\ f.control = flag.control
        /\ f.shift = flag.shift /\ f.alt = flag.alt /\ f.capslock = flag.capslock
    BY <1>1 DEF Seen_flags
  <2>2. Loop(f, None) /\ Code = 225
    BY <1>2 DEF weird
  <2> HIDE DEF f
  <2>3. QED
    BY <1>1, <2>1, <2>2, LoopFacts
<1>3. ~ ignored
  BY DEF ignored
<1>4. CASE prefix
  <2> DEFINE f == [flag EXCEPT !.special = 2]
  <2>1. f \in Seen_flags /\ f.ignore = 0 /\ f.special = 2 /\ f.control = flag.control
        /\ f.shift = flag.shift /\ f.alt = flag.alt /\ f.capslock = flag.capslock
    BY <1>1 DEF Seen_flags
  <2>2. Loop(f, None) /\ Code = 224
    BY <1>4 DEF prefix
  <2> HIDE DEF f
  <2>3. QED
    BY <1>1, <2>1, <2>2, LoopFacts
<1>5. CASE left_shift
  <2>1. CASE flag.special = 0
    <3> DEFINE f == [flag EXCEPT !.shift = 1]
    <3>1. f \in Seen_flags /\ f.ignore = 0 /\ f.special = 0 /\ f.control = flag.control
          /\ f.shift = 1 /\ f.alt = flag.alt /\ f.capslock = flag.capslock
      BY <1>1, <2>1 DEF Seen_flags
    <3>2. Loop(f, None) /\ Code = 42
      BY <1>5, <2>1 DEF left_shift
    <3> HIDE DEF f
    <3>3. QED
      BY <1>1, <2>1, <3>1, <3>2, LoopFacts
  <2>2. CASE flag.special # 0
    <3> DEFINE f == [flag EXCEPT !.ignore = 3]
    <3>1. f \in Seen_flags /\ f.ignore = 3 /\ f.special = 1 /\ f.control = flag.control
          /\ f.shift = flag.shift /\ f.alt = flag.alt /\ f.capslock = flag.capslock
      BY <1>1, <2>2 DEF Seen_flags
    <3>2. Loop(f, None) /\ Code = 42
      BY <1>5, <2>2 DEF left_shift
    <3> HIDE DEF f
    <3>3. QED
      BY <1>1, <2>2, <3>1, <3>2, LoopFacts
  <2>3. QED
    BY <2>1, <2>2
<1>6. /\ Code >= 128 => new_char = Code - 128
      /\ Code < 128 => new_char = Code
  BY DEF new_char, KBIT
<1>7. /\ Seen \in Seen_flags /\ Seen.ignore = 0 /\ Seen.special = flag.special
      /\ Seen.control = flag.control /\ Seen.shift = flag.shift /\ Seen.brk \in {0, 1}
      /\ Seen.alt = flag.alt /\ Seen.capslock = flag.capslock
      /\ Seen.brk = 1 <=> Code >= 128
      /\ Code < 128 => Seen = flag
  <2>1. CASE Code >= 128
    <3>1. Seen = [flag EXCEPT !.brk = 1]
      BY <2>1 DEF Seen, KBIT
    <3>2. QED
      BY <1>1, <2>1, <3>1 DEF Seen_flags
  <2>2. CASE Code < 128
    <3>1. Seen = flag
      BY <2>2 DEF Seen, KBIT
    <3>2. QED
      BY <1>1, <2>2, <3>1
  <2>3. QED
    BY <2>1, <2>2
<1>8. CASE locks
  <2> DEFINE a == IF new_char = 58 THEN 1 - Seen.capslock ELSE Seen.capslock
             b == IF new_char = 69 THEN 1 - Seen.numlock ELSE Seen.numlock
             c == IF new_char = 70 THEN 1 - Seen.scrlock ELSE Seen.scrlock
             f == [Seen EXCEPT !.capslock = a, !.numlock = b, !.scrlock = c]
  <2>1. a \in {0, 1} /\ b \in {0, 1} /\ c \in {0, 1}
    BY <1>7 DEF Seen_flags
  <2>2. Loop(f, None)
    BY <1>8 DEF locks
  <2> HIDE DEF a, b, c
  <2>3. f \in Seen_flags /\ f.ignore = 0 /\ f.special = flag.special /\ f.control = flag.control
        /\ f.shift = flag.shift /\ f.alt = flag.alt /\ f.capslock = a
    BY <1>7, <2>1 DEF Seen_flags
  <2> HIDE DEF f
  <2>4. /\ Code \notin {29, 157, 42, 54, 170, 182, 224, 225, 56, 168}
        /\ Code < 128 => Code \in {58, 69, 70}
    BY <1>6, <1>8 DEF locks, Further
  <2>6. Code \notin {58, 186} => a = flag.capslock
    BY <1>6, <1>7 DEF a
  <2>5. QED
    BY <1>1, <2>2, <2>3, <2>4, <2>6, LoopFacts
<1>9. CASE released
  <2> DEFINE a == IF new_char = 29 THEN 0 ELSE Seen.control
             b == IF new_char = 40 THEN 0 ELSE Seen.alt
             c == IF new_char \in {54, 42} THEN 0 ELSE Seen.shift
             f == [Seen EXCEPT !.control = a, !.alt = b, !.shift = c]
  <2>1. a \in {0, 1} /\ b \in {0, 1} /\ c \in {0, 1}
    BY <1>7 DEF Seen_flags
  <2>2. Loop(f, None) /\ Code >= 128 /\ Code \notin {224, 225}
    BY <1>9 DEF released, Further, KBIT
  <2>3. /\ a = IF Code = 157 THEN 0 ELSE flag.control
        /\ c = IF Code \in {170, 182} THEN 0 ELSE flag.shift
        /\ b = IF Code = 168 THEN 0 ELSE flag.alt
    BY <1>6, <1>7, <2>2
  <2> HIDE DEF a, b, c
  <2>4. f \in Seen_flags /\ f.ignore = 0 /\ f.special = flag.special /\ f.control = a
        /\ f.shift = c /\ f.alt = b /\ f.capslock = flag.capslock
    BY <1>7, <2>1 DEF Seen_flags
  <2> HIDE DEF f
  <2>5. QED
    BY <1>1, <2>2, <2>3, <2>4, LoopFacts
<1>10. CASE pressed
  <2> DEFINE a == IF Code = 29 THEN 1 ELSE flag.control
             b == IF Code = 56 THEN 1 ELSE flag.alt
             c == IF Code = 54 THEN 1 ELSE flag.shift
             f == [flag EXCEPT !.control = a, !.alt = b, !.shift = c]
  <2>1. a \in {0, 1} /\ b \in {0, 1} /\ c \in {0, 1}
    BY <1>1 DEF Seen_flags
  <2>2. Loop(f, None) /\ Code \in {29, 56, 54}
    BY <1>10 DEF pressed
  <2>3. /\ a = (IF Code = 29 THEN 1 ELSE flag.control) /\ c = (IF Code = 54 THEN 1 ELSE flag.shift)
        /\ b = (IF Code = 56 THEN 1 ELSE flag.alt)
    OBVIOUS
  <2> HIDE DEF a, b, c
  <2>4. f \in Seen_flags /\ f.ignore = 0 /\ f.special = flag.special /\ f.control = a
        /\ f.shift = c /\ f.alt = b /\ f.capslock = flag.capslock
    BY <1>1, <2>1 DEF Seen_flags
  <2> HIDE DEF f
  <2>5. QED
    BY <1>1, <2>2, <2>3, <2>4, LoopFacts
<1>11. CASE character
  <2>1. /\ Loop(Seen, get_keycode(new_char, Seen))
        /\ Code \notin {224, 225, 42, 29, 56, 54, 157, 168, 182, 170}
        /\ new_char \notin {58, 69, 70}
    BY <1>11 DEF character, Further, KBIT
  <2>2. Code >= 128 => get_keycode(new_char, Seen) = None
    BY <1>7 DEF get_keycode
  <2>3. Code < 128 => get_keycode(new_char, Seen) = get_keycode(Code, flag)
    BY <1>6, <1>7
  <2>4. QED
    BY <1>1, <1>6, <1>7, <2>1, <2>2, <2>3, LoopFacts
<1>12. QED
  BY <1>2, <1>3, <1>4, <1>5, <1>8, <1>9, <1>10, <1>11 DEF keyb_notifier

\* A code that is.
LEMMA IgnoredFacts ==
  ASSUME flag \in Flags, flag.ignore # 0, flag.special = 0, keyb_notifier
  PROVE  /\ flag' \in Flags
         /\ flag'.special = 0
         /\ flag'.ignore = flag.ignore - 1
         /\ flag'.control = flag.control
         /\ flag'.shift = flag.shift
         /\ flag'.alt = flag.alt
         /\ key' = None
<1> DEFINE f == [flag EXCEPT !.ignore = flag.ignore - 1]
<1>1. f \in Seen_flags /\ f.ignore = flag.ignore - 1 /\ f.special = 0 /\ f.control = flag.control
      /\ f.shift = flag.shift /\ f.alt = flag.alt
  BY DEF Flags, Seen_flags
<1>2. Loop(f, None)
  BY DEF keyb_notifier, weird, ignored, prefix, left_shift, locks, released, pressed, character,
         Further
<1> HIDE DEF f
<1>3. QED
  BY <1>1, <1>2, LoopFacts

\* Which character a code gives behind a prefix.
LEMMA SpecialCharacters ==
  ASSUME NEW c \in 0 .. 127, flag \in Flags, flag.special = 1
  PROVE  /\ c = 72 => get_keycode(c, flag) = "nul"
         /\ c = 28 => get_keycode(c, flag) = "return"
         /\ c = 53 => get_keycode(c, flag) = "/"
<1>1. flag.brk = 0
  BY DEF Flags
<1>2. QED
  BY <1>1 DEF get_keycode, Arrows, Paging, LowByte, MULT

\* Which character a code gives without one.
LEMMA CharacterFacts ==
  ASSUME flag \in Flags
  PROVE  \A c \in 0 .. 127 :
           /\ flag.special = 0 /\ (c \notin {30, 40, 72} \/ flag.alt = 1) =>
                get_keycode(c, flag) = None
           /\ flag.special = 0 /\ flag.alt = 0 =>
                /\ c = 30 => get_keycode(c, flag) =
                               IF flag.shift = 1 \/ flag.capslock = 1 THEN "A" ELSE "a"
                /\ c = 40 => get_keycode(c, flag) =
                               IF flag.capslock = 1 THEN None
                               ELSE IF flag.shift = 1 THEN "dq" ELSE "'"
                /\ c = 72 => get_keycode(c, flag) =
                               IF flag.shift = 1 /\ flag.capslock = 0 THEN None ELSE "8"
<1> TAKE c \in 0 .. 127
<1>1. /\ flag.brk = 0 /\ flag.special \in {0, 1} /\ flag.shift \in {0, 1}
      /\ flag.capslock \in {0, 1} /\ flag.alt \in {0, 1}
  BY DEF Flags
<1>2. ASSUME flag.special = 0, c \notin {30, 40, 72} \/ flag.alt = 1
      PROVE  get_keycode(c, flag) = None
  BY <1>1, <1>2 DEF get_keycode, small
<1>3. ASSUME flag.special = 0, flag.alt = 0, c \in {30, 40, 72}
      PROVE  get_keycode(c, flag) = Table(flag)[c]
  BY <1>1, <1>3 DEF get_keycode, small
<1>4. /\ Table(flag)[30] = IF flag.shift = 1 \/ flag.capslock = 1 THEN "A" ELSE "a"
      /\ Table(flag)[40] =
           IF flag.capslock = 1 THEN None ELSE IF flag.shift = 1 THEN "dq" ELSE "'"
      /\ Table(flag)[72] = IF flag.shift = 1 /\ flag.capslock = 0 THEN None ELSE "8"
  BY <1>1 DEF Table, small, shfted, capped
<1>5. QED
  BY <1>2, <1>3, <1>4

-------------------------------------------------------------------------------
(* The keyboard: the codes of a key.                                           *)

\* The number that tells the key; it is sent alone or after a prefix.
Final(k) == IF k \in Single THEN Make(k)[1] ELSE Make(k)[2]

\* Which key it tells.
LEMMA FinalCodes ==
  ASSUME NEW k \in Single \cup Prefixed
  PROVE  /\ Final(k) \in {28, 29, 30, 40, 42, 53, 54, 56, 58, 69, 70, 72}
         /\ Final(k) = 29 <=> k \in {"ctrl", "rctrl"}
         /\ Final(k) = 42 <=> k = "lshift"
         /\ Final(k) = 54 <=> k = "rshift"
         /\ Final(k) = 56 <=> k = "alt"
         /\ Final(k) = 58 <=> k = "caps"
         /\ Final(k) = 30 <=> k = "a"
         /\ Final(k) = 40 <=> k = "quote"
         /\ Final(k) = 28 <=> k = "enter"
         /\ Final(k) = 53 <=> k = "slash"
         /\ Final(k) = 72 <=> k \in {"up", "keypad8"}
<1>1. /\ Final("a") = 30 /\ Final("quote") = 40 /\ Final("lshift") = 42 /\ Final("rshift") = 54
      /\ Final("ctrl") = 29 /\ Final("alt") = 56 /\ Final("caps") = 58 /\ Final("num") = 69
      /\ Final("scroll") = 70 /\ Final("keypad8") = 72
  BY MakeCodes DEF Final, Single
<1>2. /\ Final("rctrl") = 29 /\ Final("up") = 72 /\ Final("enter") = 28 /\ Final("slash") = 53
  BY MakeCodes DEF Final, Single, Prefixed
<1>3. k \in Single => (k = "a" \/ k = "quote" \/ k = "lshift" \/ k = "rshift" \/ k = "ctrl"
         \/ k = "alt" \/ k = "caps" \/ k = "num" \/ k = "scroll" \/ k = "keypad8")
  BY DEF Single
<1>4. k \in Prefixed => (k = "rctrl" \/ k = "up" \/ k = "enter" \/ k = "slash")
  BY DEF Prefixed
<1> HIDE DEF Final
<1>5. QED
  BY <1>1, <1>2, <1>3, <1>4

\* The codes of a key one after the other.
LEMMA SingleCodes ==
  ASSUME NEW k \in Single
  PROVE  /\ Make(k) = <<Final(k)>> /\ Make(k)[1] = Final(k) /\ Tail(Make(k)) = << >>
         /\ Break(k) = <<Final(k) + 128>> /\ Break(k)[1] = Final(k) + 128 /\ Tail(Break(k)) = << >>
<1>1. PICK n : Make(k) = <<n>>
  BY MakeCodes DEF Single
<1>2. n = Final(k)
  BY <1>1 DEF Final
<1>3. Break(k) = <<Final(k) + 128>>
  BY BreakCodes DEF Final
<1>4. \A a : Tail(<<a>>) = << >>
  OBVIOUS
<1> HIDE DEF Final
<1>5. QED
  BY <1>1, <1>2, <1>3, <1>4

\* The same of a key with a prefix.
LEMMA PrefixedCodes ==
  ASSUME NEW k \in Prefixed
  PROVE  /\ Make(k) = <<224, Final(k)>> /\ Make(k)[1] = 224 /\ Make(k)[2] = Final(k)
         /\ Tail(Make(k)) = <<Final(k)>>
         /\ Break(k) = <<224, Final(k) + 128>> /\ Break(k)[1] = 224
         /\ Tail(Break(k)) = <<Final(k) + 128>>
<1>0. k \notin Single
  BY DEF Single, Prefixed
<1>1. PICK n : Make(k) = <<224, n>>
  BY MakeCodes DEF Prefixed
<1>2. n = Final(k)
  BY <1>0, <1>1 DEF Final
<1>3. Break(k) = <<224, Final(k) + 128>>
  BY <1>0, BreakCodes DEF Final
<1>4. \A a, b : Tail(<<a, b>>) = <<b>>
  OBVIOUS
<1> HIDE DEF Final
<1>5. QED
  BY <1>1, <1>2, <1>3, <1>4

\* The keys are those whose codes are known.
LEMMA KnownKeys ==
  \A k \in Key : k \in Single \cup Prefixed \cup {"pause", "print"}
BY KeyAssumption DEF Single, Prefixed

\* Each key is of one kind.
LEMMA KeyKinds ==
  /\ "pause" \notin Single \cup Prefixed /\ "print" \notin Single \cup Prefixed
  /\ Single \cap Prefixed = {} /\ Shifts \subseteq Single
BY DEF Single, Prefixed, Shifts

\* No modifier changes, and its key is not done with its codes.
LEMMA SameModifiers ==
  ASSUME Modifiers, line # << >>, UNCHANGED <<held, lifted, moved, alted>>,
         flag'.control = flag.control, flag'.shift = flag.shift, flag'.alt = flag.alt,
         line' # << >> \/ moved \notin Shifts \cup {"ctrl", "rctrl", "alt", "quote"} \cup ({"print"} \ held)
  PROVE  Modifiers'
BY DEF Modifiers, Lifting, Pressing, Shifted, Shifts

\* Nothing is sent while codes are still to come, and when a key is lifted.
LEMMA NothingSent ==
  ASSUME key' = None, line' # << >> \/ moved' \notin held'
  PROVE  SendsTheKey'
BY DEF SendsTheKey, Quiet

\* Some keys have no character.
LEMMA SilentKey ==
  ASSUME key' = None, moved' \in {"pause", "print"}
  PROVE  SendsTheKey'
BY DEF SendsTheKey, Expected, Character

\* What every code leaves alone.
LEMMA KeyboardWaits ==
  ASSUME ScanInv, keyb_notifier
  PROVE  /\ held' = held /\ lifted' = lifted /\ moved' = moved /\ alted' = alted
         /\ line' = Tail(line) /\ line # << >>
         /\ flag \in Flags /\ held \subseteq Key /\ moved \in Key /\ Modifiers
         /\ moved # "print" => "print" \notin held
BY DEF keyb_notifier, ScanInv

\* A pass of the loop ends in a state of the invariant.
LEMMA Together ==
  ASSUME ScanInv, keyb_notifier, flag' \in Flags, Codes', Modifiers', SendsTheKey'
  PROVE  ScanInv'
BY KeyboardWaits DEF ScanInv

\* The prefix of a key.
LEMMA PrefixStep ==
  ASSUME ScanInv, keyb_notifier, moved \in Prefixed, Code = 224,
         flag.special = 0, flag.ignore = 0,
         line' = IF moved \in held THEN <<Final(moved)>> ELSE <<Final(moved) + 128>>
  PROVE  ScanInv'
<1>1. /\ held' = held /\ lifted' = lifted /\ moved' = moved /\ alted' = alted /\ line # << >>
      /\ flag \in Flags /\ Modifiers
  BY KeyboardWaits
<1>2. Code \in 0 .. 255
  OBVIOUS
<1>3. /\ flag' \in Flags /\ flag'.special = 1 /\ flag'.ignore = 0
      /\ flag'.control = flag.control /\ flag'.shift = flag.shift /\ flag'.alt = flag.alt
      /\ key' = None
  BY <1>1, <1>2, CodeFacts
<1>5. Make(moved)[2] = Final(moved)
  BY PrefixedCodes
<1>6. line' = IF moved' \in held' THEN <<Make(moved')[2]>> ELSE <<Make(moved')[2] + KBIT>>
  BY <1>1, <1>5 DEF KBIT
<1>7. Codes'
  BY <1>1, <1>3, <1>6 DEF Codes
<1>8. line' # << >>
  <2>1. \A a : <<a>> # << >>
    OBVIOUS
  <2> HIDE DEF Final
  <2>2. QED
    BY <2>1
<1>9. Modifiers'
  BY <1>1, <1>3, <1>8, SameModifiers
<1>10. QED
  BY <1>3, <1>7, <1>8, <1>9, NothingSent, Together

\* No more codes, none ignored.
LEMMA LineEnds ==
  ASSUME line' = << >>, flag'.special = 0, flag'.ignore = IF "print" \in held' THEN 1 ELSE 0
  PROVE  Codes'
BY DEF Codes

\* The last code of a key that is down.
LEMMA FinalMade ==
  ASSUME ScanInv, keyb_notifier, moved \in Single \cup Prefixed, moved \in held,
         Code = Final(moved), line' = << >>,
         flag.special = (IF moved \in Single THEN 0 ELSE 1), flag.ignore = 0
  PROVE  ScanInv'
<1>1. /\ held' = held /\ lifted' = lifted /\ moved' = moved /\ alted' = alted /\ line # << >>
      /\ flag \in Flags /\ Modifiers /\ "print" \notin held
  BY KeyboardWaits, KeyKinds
<1>2. /\ Code \in {28, 29, 30, 40, 42, 53, 54, 56, 58, 69, 70, 72}
      /\ Code = 29 <=> moved \in {"ctrl", "rctrl"}
      /\ Code = 42 <=> moved = "lshift"
      /\ Code = 54 <=> moved = "rshift"
      /\ Code = 56 <=> moved = "alt"
      /\ Code = 58 <=> moved = "caps"
      /\ Code = 30 <=> moved = "a"
      /\ Code = 28 <=> moved = "enter"
      /\ Code = 72 <=> moved \in {"up", "keypad8"}
      /\ Code = 40 <=> moved = "quote"
      /\ Code = 53 <=> moved = "slash"
  BY FinalCodes
<1> HIDE DEF Final
<1>3. Code \in 0 .. 255 /\ Code \in 0 .. 127 /\ Code \notin {157, 168, 170, 182, 186, 224, 225}
  BY <1>2
<1>4. Code = 42 => flag.special = 0
  BY <1>2 DEF Single
<1>5. /\ flag' \in Flags
      /\ flag'.special = IF Code = 224 THEN 1 ELSE 0
      /\ flag'.ignore = IF Code = 225 THEN 5
                        ELSE IF Code = 42 /\ flag.special # 0 THEN 3 ELSE 0
      /\ flag'.control = IF Code = 29 THEN 1 ELSE IF Code = 157 THEN 0 ELSE flag.control
      /\ flag'.shift = IF Code = 54 \/ (Code = 42 /\ flag.special = 0) THEN 1
                       ELSE IF Code \in {170, 182} THEN 0 ELSE flag.shift
      /\ flag'.alt = IF Code = 56 THEN 1 ELSE IF Code = 168 THEN 0 ELSE flag.alt
      /\ Code \notin {58, 186} => flag'.capslock = flag.capslock
      /\ key' = IF Code < 128 /\ Code \notin {29, 42, 54, 56, 58, 69, 70}
                THEN get_keycode(Code, flag) ELSE None
  BY <1>1, <1>3, CodeFacts
<1>6. /\ flag'.special = 0 /\ flag'.ignore = 0
      /\ flag'.control = IF moved \in {"ctrl", "rctrl"} THEN 1 ELSE flag.control
      /\ flag'.shift = IF moved \in Shifts THEN 1 ELSE flag.shift
      /\ flag'.alt = IF moved = "alt" THEN 1 ELSE flag.alt
      /\ moved # "caps" => flag'.capslock = flag.capslock
      /\ key' = IF Code \notin {29, 42, 54, 56, 58, 69, 70} THEN get_keycode(Code, flag) ELSE None
  BY <1>2, <1>3, <1>4, <1>5 DEF Shifts
<1>7. Codes'
  BY <1>1, <1>6, LineEnds
<1>8. Modifiers'
  <2>1. Shifted' <=> Shifted
    BY <1>1 DEF Shifted
  <2>2. moved \in Shifts => Shifted
    BY <1>1 DEF Modifiers, Pressing, Shifted, Shifts
  <2>3. moved = "alt" => alted
    BY <1>1 DEF Modifiers, Pressing
  <2>4. QED
    BY <1>1, <1>6, <2>1, <2>2, <2>3 DEF Modifiers, Lifting, Pressing, Shifts
<1>9. flag.special \in {0, 1} /\ flag.shift \in {0, 1} /\ flag.alt \in {0, 1}
  BY <1>1 DEF Flags
<1>10. flag \in Flags /\ Code \in 0 .. 127
  BY <1>1, <1>3
<1>11. key' = Expected(moved)'
  <2>1. CASE moved \in {"a", "quote", "keypad8"}
    <3>1. flag.special = 0 /\ Code \in {30, 40, 72} /\ key' = get_keycode(Code, flag)
          /\ flag'.capslock = flag.capslock
      BY <1>2, <1>6, <2>1 DEF Single
    <3>2. (flag.shift = 1 <=> Shifted') /\ (flag.alt = 1 <=> alted')
      <4>1. ~ Pressing(Shifts) /\ ~ Pressing({"alt"})
            /\ ~ Lifting(Shifts \cup {"print"}) /\ ~ Lifting({"quote"})
        BY <2>1 DEF Pressing, Lifting, Shifts
      <4>2. Shifted' <=> Shifted
        BY <1>1 DEF Shifted
      <4>3. QED
        BY <1>1, <1>9, <4>1, <4>2 DEF Modifiers
    <3>3. CASE flag.alt = 1
      <4>1. key' = None
        BY <3>1, <3>3, <1>10, CharacterFacts
      <4>2. QED
        BY <1>1, <2>1, <3>2, <3>3, <4>1 DEF Expected
    <3>4. CASE flag.alt = 0
      <4>1. /\ Code = 30 => key' = IF flag.shift = 1 \/ flag.capslock = 1 THEN "A" ELSE "a"
            /\ Code = 40 => key' =
                 IF flag.capslock = 1 THEN None ELSE IF flag.shift = 1 THEN "dq" ELSE "'"
            /\ Code = 72 => key' = IF flag.shift = 1 /\ flag.capslock = 0 THEN None ELSE "8"
        BY <3>1, <3>4, <1>10, CharacterFacts
      <4>2. Expected(moved)' = Character(moved)'
        BY <3>2, <3>4 DEF Expected
      <4>3. /\ moved = "a" => Code = 30
            /\ moved = "quote" => Code = 40
            /\ moved = "keypad8" => Code = 72
        BY <1>2
      <4>4. QED
        BY <1>1, <2>1, <3>1, <3>2, <4>1, <4>2, <4>3 DEF Character
    <3>5. QED
      BY <1>9, <3>3, <3>4
  <2>2. CASE moved \in {"up", "enter", "slash", "rctrl"}
    <3>1. flag.special = 1
      BY <2>2 DEF Single
    <3>2. /\ moved = "up" => key' = "nul"
          /\ moved = "enter" => key' = "return"
          /\ moved = "slash" => key' = "/"
          /\ moved = "rctrl" => key' = None
      <4>1. /\ Code = 72 => get_keycode(Code, flag) = "nul"
            /\ Code = 28 => get_keycode(Code, flag) = "return"
            /\ Code = 53 => get_keycode(Code, flag) = "/"
        BY <1>10, <3>1, SpecialCharacters
      <4>2. QED
        BY <1>2, <1>6, <2>2, <4>1
    <3>3. QED
      BY <1>1, <2>2, <3>2 DEF Expected, Character
  <2>3. CASE moved \in {"lshift", "rshift", "ctrl", "alt", "caps", "num", "scroll"}
    <3>1. key' = None
      <4>1. Code \in {29, 42, 54, 56, 58, 69, 70}
        BY <1>2, <2>3
      <4>2. QED
        BY <1>6, <4>1
    <3>2. QED
      BY <1>1, <2>3, <3>1 DEF Expected, Character
  <2>4. QED
    BY <2>1, <2>2, <2>3 DEF Single, Prefixed
<1>12. SendsTheKey'
  BY <1>1, <1>11 DEF SendsTheKey, Quiet
<1>13. QED
  BY <1>5, <1>7, <1>8, <1>12, Together

\* And of one that has been lifted.
LEMMA FinalLifted ==
  ASSUME ScanInv, keyb_notifier, moved \in Single \cup Prefixed, moved \notin held,
         Code = Final(moved) + 128, line' = << >>,
         flag.special = (IF moved \in Single THEN 0 ELSE 1), flag.ignore = 0
  PROVE  ScanInv'
<1>1. /\ held' = held /\ lifted' = lifted /\ moved' = moved /\ alted' = alted /\ line # << >>
      /\ flag \in Flags /\ Modifiers /\ "print" \notin held
  BY KeyboardWaits, KeyKinds
<1>2. /\ Final(moved) \in {28, 29, 30, 40, 42, 53, 54, 56, 58, 69, 70, 72}
      /\ Final(moved) = 29 <=> moved \in {"ctrl", "rctrl"}
      /\ Final(moved) = 42 <=> moved = "lshift"
      /\ Final(moved) = 54 <=> moved = "rshift"
      /\ Final(moved) = 40 <=> moved = "quote"
  BY FinalCodes
<1> HIDE DEF Final
<1>3. /\ Code \in 0 .. 255 /\ Code >= 128 /\ Code \notin {224, 225}
      /\ Code = 157 <=> moved \in {"ctrl", "rctrl"}
      /\ Code \in {170, 182} <=> moved \in Shifts
      /\ Code = 168 <=> moved = "quote"
  BY <1>2, SMTT(30) DEF Shifts
<1>5. /\ flag' \in Flags
      /\ flag'.special = IF Code = 224 THEN 1 ELSE 0
      /\ flag'.ignore = IF Code = 225 THEN 5
                        ELSE IF Code = 42 /\ flag.special # 0 THEN 3 ELSE 0
      /\ flag'.control = IF Code = 29 THEN 1 ELSE IF Code = 157 THEN 0 ELSE flag.control
      /\ flag'.shift = IF Code = 54 \/ (Code = 42 /\ flag.special = 0) THEN 1
                       ELSE IF Code \in {170, 182} THEN 0 ELSE flag.shift
      /\ flag'.alt = IF Code = 56 THEN 1 ELSE IF Code = 168 THEN 0 ELSE flag.alt
      /\ key' = IF Code < 128 /\ Code \notin {29, 42, 54, 56, 58, 69, 70}
                THEN get_keycode(Code, flag) ELSE None
  BY <1>1, <1>3, CodeFacts
<1>6. /\ flag'.special = 0 /\ flag'.ignore = 0 /\ key' = None
      /\ flag'.control = IF moved \in {"ctrl", "rctrl"} THEN 0 ELSE flag.control
      /\ flag'.shift = IF moved \in Shifts THEN 0 ELSE flag.shift
      /\ flag'.alt = IF moved = "quote" THEN 0 ELSE flag.alt
  BY <1>3, <1>5
<1>7. Codes'
  BY <1>1, <1>6, LineEnds
<1>8. Modifiers'
  <2>1. Shifted' <=> Shifted
    BY <1>1 DEF Shifted
  <2>2. moved \in Shifts => ~ Shifted
    BY <1>1 DEF Modifiers, Lifting, Shifted
  <2>3. moved # "print"
    BY KeyKinds
  <2>4. QED
    BY <1>1, <1>6, <2>1, <2>2, <2>3 DEF Modifiers, Lifting, Pressing, Shifts
<1>9. QED
  BY <1>1, <1>5, <1>6, <1>7, <1>8, NothingSent, Together

\* Pause: the first code has the following five ignored.
LEMMA PauseStep ==
  ASSUME ScanInv, keyb_notifier, moved = "pause", moved \in held,
         \/ line = Make("pause") /\ flag.special = 0 /\ flag.ignore = 0
         \/ line \in Seq(0 .. 255) /\ flag.special = 0 /\ flag.ignore = Len(line)
  PROVE  ScanInv'
<1>1. /\ held' = held /\ lifted' = lifted /\ moved' = moved /\ alted' = alted /\ line # << >>
      /\ flag \in Flags /\ Modifiers /\ "print" \notin held /\ line' = Tail(line)
  BY KeyboardWaits
<1>2. /\ flag' \in Flags /\ flag'.special = 0 /\ flag'.ignore = Len(line') /\ key' = None
      /\ flag'.control = flag.control /\ flag'.shift = flag.shift /\ flag'.alt = flag.alt 
      /\ line' \in Seq(0 .. 255)
  <2>1. CASE line = Make("pause") /\ flag.special = 0 /\ flag.ignore = 0
    <3>1. line = <<225, 29, 69, 225, 157, 197>>
      BY <2>1, MakeCodes
    <3>2. Code = 225 /\ Code \in 0 .. 255
      BY <3>1 DEF Code
    <3>3. line' \in Seq(0 .. 255) /\ Len(line') = 5
      BY <1>1, <3>1
    <3>4. /\ flag' \in Flags
          /\ flag'.special = 0 /\ flag'.ignore = 5
          /\ flag'.control = flag.control /\ flag'.shift = flag.shift /\ flag'.alt = flag.alt
          /\ key' = None
      BY <1>1, <2>1, <3>2, CodeFacts
    <3>5. QED
      BY <3>2, <3>3, <3>4
  <2>2. CASE line \in Seq(0 .. 255) /\ flag.special = 0 /\ flag.ignore = Len(line)
    <3>1. line' \in Seq(0 .. 255) /\ Len(line') = Len(line) - 1 /\ Len(line) # 0
      BY <1>1, <2>2
    <3>2. QED
      BY <1>1, <2>2, <3>1, IgnoredFacts
  <2>3. QED
    BY <2>1, <2>2
<1>3. Codes'
  <2>1. CASE line' = << >>
    <3>1. flag'.ignore = 0
      BY <1>2, <2>1
    <3>2. QED
      BY <1>1, <1>2, <2>1, <3>1, LineEnds
  <2>2. CASE line' # << >>
    BY <1>1, <1>2, <2>2 DEF Codes
  <2>3. QED
    BY <2>1, <2>2
<1>4. Modifiers'
  BY <1>1, <1>2, SameModifiers DEF Shifts
<1>5. QED
  BY <1>1, <1>2, <1>3, <1>4, SilentKey, Together

\* A code of Print Screen.
LEMMA PrintKept ==
  ASSUME ScanInv, keyb_notifier, moved = "print", flag' \in Flags, Codes', key' = None,
         flag'.control = flag.control, flag'.shift = flag.shift, flag'.alt = flag.alt,
         line' # << >> \/ moved \in held
  PROVE  ScanInv'
<1>1. /\ UNCHANGED <<held, lifted, moved, alted>> /\ line # << >> /\ Modifiers
  BY KeyboardWaits
<1>2. Modifiers'
  BY <1>1, SameModifiers DEF Shifts
<1>3. QED
  BY <1>1, <1>2, SilentKey, Together

\* Print Screen: its second code is taken for a shift key with a prefix and has the
\* following three ignored, of which only two belong to it.
LEMMA PrintMade ==
  ASSUME ScanInv, keyb_notifier, moved = "print", moved \in held,
         \/ line = Make("print") /\ flag.special = 0 /\ flag.ignore = 0
         \/ line = <<42, 224, 55>> /\ flag.special = 1 /\ flag.ignore = 0
         \/ line = <<224, 55>> /\ flag.special = 0 /\ flag.ignore = 3
         \/ line = << 55 >> /\ flag.special = 0 /\ flag.ignore = 2
  PROVE  ScanInv'
<1>1. /\ held' = held /\ moved' = moved /\ flag \in Flags /\ line' = Tail(line)
  BY KeyboardWaits
<1>2. CASE line = Make("print") /\ flag.special = 0 /\ flag.ignore = 0
  <2>1. line = <<224, 42, 224, 55>>
    BY <1>2, MakeCodes
  <2>2. Code = 224 /\ Code \in 0 .. 255 /\ line' = <<42, 224, 55>>
    BY <1>1, <2>1 DEF Code
  <2>3. /\ flag' \in Flags
        /\ flag'.special = 1 /\ flag'.ignore = 0
        /\ flag'.control = flag.control /\ flag'.shift = flag.shift /\ flag'.alt = flag.alt
        /\ key' = None
    BY <1>1, <1>2, <2>2, CodeFacts
  <2>5. Codes'
    BY <1>1, <2>2, <2>3 DEF Codes
  <2>6. QED
    BY <2>3, <2>5, PrintKept
<1>3. CASE line = <<42, 224, 55>> /\ flag.special = 1 /\ flag.ignore = 0
  <2>1. Code = 42 /\ Code \in 0 .. 255 /\ line' = <<224, 55>>
    BY <1>1, <1>3 DEF Code
  <2>3. /\ flag' \in Flags
        /\ flag'.special = 0 /\ flag'.ignore = 3
        /\ flag'.control = flag.control /\ flag'.shift = flag.shift /\ flag'.alt = flag.alt
        /\ key' = None
    BY <1>1, <1>3, <2>1, CodeFacts
  <2>5. Codes'
    BY <1>1, <2>1, <2>3 DEF Codes
  <2>6. QED
    BY <2>3, <2>5, PrintKept
<1>4. CASE line = <<224, 55>> /\ flag.special = 0 /\ flag.ignore = 3
  <2>1. line' = << 55 >>
    BY <1>1, <1>4
  <2>2. /\ flag' \in Flags /\ flag'.special = 0 /\ flag'.ignore = 2 /\ key' = None
        /\ flag'.control = flag.control /\ flag'.shift = flag.shift /\ flag'.alt = flag.alt
    BY <1>1, <1>4, IgnoredFacts
  <2>3. Codes'
    BY <1>1, <2>1, <2>2 DEF Codes
  <2>4. QED
    BY <2>2, <2>3, PrintKept
<1>5. CASE line = << 55 >> /\ flag.special = 0 /\ flag.ignore = 2
  <2>1. line' = << >>
    BY <1>1, <1>5
  <2>2. /\ flag' \in Flags /\ flag'.special = 0 /\ flag'.ignore = 1 /\ key' = None
        /\ flag'.control = flag.control /\ flag'.shift = flag.shift /\ flag'.alt = flag.alt
    BY <1>1, <1>5, IgnoredFacts
  <2>3. Codes'
    BY <1>1, <2>1, <2>2, LineEnds
  <2>4. QED
    BY <2>2, <2>3, PrintKept
<1>6. QED
  BY <1>2, <1>3, <1>4, <1>5

\* Its first code when it is lifted is the third one that is ignored; the last is the
\* break code of a shift key.
LEMMA PrintLifted ==
  ASSUME ScanInv, keyb_notifier, moved = "print", moved \notin held,
         \/ line = Break("print") /\ flag.special = 0 /\ flag.ignore = 1
         \/ line = <<183, 224, 170>> /\ flag.special = 0 /\ flag.ignore = 0
         \/ line = <<224, 170>> /\ flag.special = 0 /\ flag.ignore = 0
         \/ line = << 170 >> /\ flag.special = 1 /\ flag.ignore = 0
  PROVE  ScanInv'
<1>1. /\ held' = held /\ lifted' = lifted /\ moved' = moved /\ alted' = alted /\ line # << >>
      /\ flag \in Flags /\ line' = Tail(line) /\ Modifiers
  BY KeyboardWaits
<1>2. CASE line = Break("print") /\ flag.special = 0 /\ flag.ignore = 1
  <2>1. line = <<224, 183, 224, 170>>
    BY <1>2, BreakCodes
  <2>2. line' = <<183, 224, 170>>
    BY <1>1, <2>1
  <2>3. /\ flag' \in Flags /\ flag'.special = 0 /\ flag'.ignore = 0 /\ key' = None
        /\ flag'.control = flag.control /\ flag'.shift = flag.shift /\ flag'.alt = flag.alt
    BY <1>1, <1>2, IgnoredFacts
  <2>4. Codes'
    BY <1>1, <2>2, <2>3 DEF Codes
  <2>5. QED
    BY <2>2, <2>3, <2>4, PrintKept
<1>3. CASE line = <<183, 224, 170>> /\ flag.special = 0 /\ flag.ignore = 0
  <2>1. Code = 183 /\ Code \in 0 .. 255 /\ line' = <<224, 170>>
    BY <1>1, <1>3 DEF Code
  <2>3. /\ flag' \in Flags
        /\ flag'.special = 0 /\ flag'.ignore = 0
        /\ flag'.control = flag.control /\ flag'.shift = flag.shift /\ flag'.alt = flag.alt
        /\ key' = None
    BY <1>1, <1>3, <2>1, CodeFacts
  <2>5. Codes'
    BY <1>1, <2>1, <2>3 DEF Codes
  <2>6. QED
    BY <2>1, <2>3, <2>5, PrintKept
<1>4. CASE line = <<224, 170>> /\ flag.special = 0 /\ flag.ignore = 0
  <2>1. Code = 224 /\ Code \in 0 .. 255 /\ line' = << 170 >>
    BY <1>1, <1>4 DEF Code
  <2>3. /\ flag' \in Flags
        /\ flag'.special = 1 /\ flag'.ignore = 0
        /\ flag'.control = flag.control /\ flag'.shift = flag.shift /\ flag'.alt = flag.alt
        /\ key' = None
    BY <1>1, <1>4, <2>1, CodeFacts
  <2>5. Codes'
    BY <1>1, <2>1, <2>3 DEF Codes
  <2>6. QED
    BY <2>1, <2>3, <2>5, PrintKept
<1>5. CASE line = << 170 >> /\ flag.special = 1 /\ flag.ignore = 0
  <2>1. Code = 170 /\ Code \in 0 .. 255 /\ line' = << >>
    BY <1>1, <1>5 DEF Code
  <2>3. /\ flag' \in Flags
        /\ flag'.special = 0 /\ flag'.ignore = 0
        /\ flag'.control = flag.control /\ flag'.shift = 0 /\ flag'.alt = flag.alt
        /\ key' = None
    BY <1>1, <1>5, <2>1, CodeFacts
  <2>5. Codes'
    BY <1>1, <2>1, <2>3, LineEnds
  <2>6. lifted
    BY <1>1 DEF Modifiers, Lifting
  <2>7. Modifiers'
    <3>1. ~ Shifted'
      BY <1>1, <2>6 DEF Shifted
    <3>2. QED
      BY <1>1, <2>1, <2>3, <2>6, <3>1 DEF Modifiers, Lifting, Pressing, Shifts
  <2>8. QED
    BY <1>1, <2>3, <2>5, <2>7, SilentKey, Together
<1>6. QED
  BY <1>2, <1>3, <1>4, <1>5

-------------------------------------------------------------------------------
(* The keyboard: the specification.                                            *)

\* Every code, by how far the key's codes have come.
LEMMA NotifierStep ==
  ASSUME ScanInv, keyb_notifier
  PROVE  ScanInv'
<1>1. /\ held' = held /\ lifted' = lifted /\ moved' = moved /\ line' = Tail(line) /\ line # << >>
      /\ flag \in Flags /\ moved \in Key
  BY KeyboardWaits
<1>2. moved \in Single \cup Prefixed \cup {"pause", "print"}
  BY <1>1, KnownKeys
<1>3. Codes
  BY DEF ScanInv
<1>4. CASE moved \in Single
  <2>1. moved \notin Prefixed /\ moved # "pause" /\ moved # "print"
    BY <1>4, KeyKinds
  <2>2. \/ line = Make(moved) /\ moved \in held /\ flag.special = 0 /\ flag.ignore = 0
        \/ line = Break(moved) /\ moved \notin held /\ flag.special = 0 /\ flag.ignore = 0
    BY <1>1, <1>3, <2>1 DEF Codes
  <2>3. CASE line = Make(moved) /\ moved \in held /\ flag.special = 0 /\ flag.ignore = 0
    <3>1. Code = Final(moved) /\ line' = << >>
      BY <1>1, <1>4, <2>3, SingleCodes DEF Code
    <3>2. QED
      BY <1>4, <2>3, <3>1, FinalMade
  <2>4. CASE line = Break(moved) /\ moved \notin held /\ flag.special = 0 /\ flag.ignore = 0
    <3>1. Code = Final(moved) + 128 /\ line' = << >>
      BY <1>1, <1>4, <2>4, SingleCodes DEF Code
    <3>2. QED
      BY <1>4, <2>4, <3>1, FinalLifted
  <2>5. QED
    BY <2>2, <2>3, <2>4
<1>5. CASE moved \in Prefixed
  <2>1. moved \notin Single /\ moved # "pause" /\ moved # "print"
    BY <1>5, KeyKinds
  <2>2. \/ line = Make(moved) /\ moved \in held /\ flag.special = 0 /\ flag.ignore = 0
        \/ line = Break(moved) /\ moved \notin held /\ flag.special = 0 /\ flag.ignore = 0
        \/ /\ line = IF moved \in held THEN <<Make(moved)[2]>> ELSE <<Make(moved)[2] + KBIT>>
           /\ flag.special = 1 /\ flag.ignore = 0
    BY <1>1, <1>3, <2>1 DEF Codes
  <2>3. CASE line = Make(moved) /\ moved \in held /\ flag.special = 0 /\ flag.ignore = 0
    <3>1. Code = 224 /\ line' = <<Final(moved)>>
      BY <1>1, <1>5, <2>3, PrefixedCodes DEF Code
    <3>2. QED
      BY <1>5, <2>3, <3>1, PrefixStep
  <2>4. CASE line = Break(moved) /\ moved \notin held /\ flag.special = 0 /\ flag.ignore = 0
    <3>1. Code = 224 /\ line' = <<Final(moved) + 128>>
      BY <1>1, <1>5, <2>4, PrefixedCodes DEF Code
    <3>2. QED
      BY <1>5, <2>4, <3>1, PrefixStep
  <2>5. CASE /\ line = IF moved \in held THEN <<Make(moved)[2]>> ELSE <<Make(moved)[2] + KBIT>>
             /\ flag.special = 1 /\ flag.ignore = 0
    <3>1. line = IF moved \in held THEN <<Final(moved)>> ELSE <<Final(moved) + 128>>
      BY <1>5, <2>5, PrefixedCodes DEF KBIT
    <3>2. \A a : Tail(<<a>>) = << >> /\ <<a>>[1] = a
      OBVIOUS
    <3> HIDE DEF Final
    <3>3. line' = << >> /\ Code = IF moved \in held THEN Final(moved) ELSE Final(moved) + 128
      BY <1>1, <3>1, <3>2 DEF Code
    <3>4. CASE moved \in held
      BY <1>5, <2>1, <2>5, <3>3, <3>4, FinalMade
    <3>5. CASE moved \notin held
      BY <1>5, <2>1, <2>5, <3>3, <3>5, FinalLifted
    <3>6. QED
      BY <3>4, <3>5
  <2>6. QED
    BY <2>2, <2>3, <2>4, <2>5
<1>6. CASE moved = "pause"
  <2>1. /\ moved \in held
        /\ \/ line = Make("pause") /\ flag.special = 0 /\ flag.ignore = 0
           \/ line \in Seq(0 .. 255) /\ flag.special = 0 /\ flag.ignore = Len(line)
    BY <1>1, <1>3, <1>6, KeyKinds, BreakCodes DEF Codes
  <2>2. QED
    BY <1>6, <2>1, PauseStep
<1>7. CASE moved = "print"
  <2>1. CASE moved \in held
    <3>1. \/ line = Make("print") /\ flag.special = 0 /\ flag.ignore = 0
          \/ line = <<42, 224, 55>> /\ flag.special = 1 /\ flag.ignore = 0
          \/ line = <<224, 55>> /\ flag.special = 0 /\ flag.ignore = 3
          \/ line = << 55 >> /\ flag.special = 0 /\ flag.ignore = 2
      BY <1>1, <1>3, <1>7, <2>1, KeyKinds DEF Codes
    <3>2. QED
      BY <1>7, <2>1, <3>1, PrintMade
  <2>2. CASE moved \notin held
    <3>1. \/ line = Break("print") /\ flag.special = 0 /\ flag.ignore = 1
          \/ line = <<183, 224, 170>> /\ flag.special = 0 /\ flag.ignore = 0
          \/ line = <<224, 170>> /\ flag.special = 0 /\ flag.ignore = 0
          \/ line = << 170 >> /\ flag.special = 1 /\ flag.ignore = 0
      BY <1>1, <1>3, <1>7, <2>2, KeyKinds DEF Codes
    <3>2. QED
      BY <1>7, <2>2, <3>1, PrintLifted
  <2>3. QED
    BY <2>1, <2>2
<1>8. QED
  BY <1>2, <1>4, <1>5, <1>6, <1>7

\* Between two keys.
LEMMA AtRest ==
  ASSUME ScanInv, line = << >>
  PROVE  /\ flag \in Flags /\ held \subseteq Key
         /\ flag.special = 0 /\ flag.ignore = IF "print" \in held THEN 1 ELSE 0
         /\ flag.control = 1 => held \cap {"ctrl", "rctrl"} # {}
         /\ (flag.shift = 1 <=> Shifted) /\ (flag.alt = 1 <=> alted)
<1>1. \A k \in Key : Make(k) # << >>
  <2>1. \A k \in Single : Make(k) # << >>
    BY MakeCodes, SMTT(30) DEF Single
  <2>2. \A k \in Prefixed : Make(k) # << >>
    BY MakeCodes, SMTT(30) DEF Prefixed
  <2>3. Make("pause") # << >> /\ Make("print") # << >>
    BY MakeCodes
  <2>4. QED
    BY <2>1, <2>2, <2>3, KnownKeys
<1>2. flag.special = 0 /\ flag.ignore = IF "print" \in held THEN 1 ELSE 0
  <2>1. ~ (line = Make(moved) /\ moved \in held)
    BY <1>1 DEF ScanInv
  <2>2. ~ (line = IF moved \in held THEN <<Make(moved)[2]>> ELSE <<Make(moved)[2] + KBIT>>)
    <3>1. \A a : <<a>> # << >>
      OBVIOUS
    <3>2. QED
      BY <3>1
  <2>3. ~ (line = <<42, 224, 55>>) /\ ~ (line = <<224, 55>>) /\ ~ (line = << 55 >>)
        /\ ~ (line \in {<<183, 224, 170>>, <<224, 170>>}) /\ ~ (line = << 170 >>)
    OBVIOUS
  <2>4. Codes
    BY DEF ScanInv
  <2>5. QED
    BY <2>1, <2>2, <2>3, <2>4 DEF Codes
<1>3. flag.shift \in {0, 1} /\ flag.alt \in {0, 1}
  BY DEF ScanInv, Flags
<1>4. QED
  BY <1>2, <1>3 DEF ScanInv, Modifiers, Lifting, Pressing

\* A key goes down.
LEMMA PressStep ==
  ASSUME ScanInv, NEW k \in Key, press(k)
  PROVE  ScanInv'
<1>1. /\ line = << >> /\ "print" \notin held /\ line' = Make(k) /\ moved' = k
      /\ held' = held \cup {k} /\ key' = None /\ flag' = flag
      /\ lifted' = IF k \in Shifts \/ held \cap Shifts = {} THEN FALSE ELSE lifted
      /\ alted' = (alted \/ k = "alt")
  BY DEF press
<1>2. /\ flag \in Flags /\ held \subseteq Key /\ flag.special = 0 /\ flag.ignore = 0
      /\ flag.control = 1 => held \cap {"ctrl", "rctrl"} # {}
      /\ (flag.shift = 1 <=> Shifted) /\ (flag.alt = 1 <=> alted)
  BY <1>1, AtRest
<1>3. line' # << >>
  <2>1. \A j \in Single : Make(j) # << >>
    BY MakeCodes, SMTT(30) DEF Single
  <2>2. \A j \in Prefixed : Make(j) # << >>
    BY MakeCodes, SMTT(30) DEF Prefixed
  <2>3. Make("pause") # << >> /\ Make("print") # << >>
    BY MakeCodes
  <2>4. QED
    BY <1>1, <2>1, <2>2, <2>3, KnownKeys
<1>4. Codes'
  BY <1>1, <1>2 DEF Codes
<1>5. Modifiers'
  <2>1. Shifted' <=> Shifted \/ k \in Shifts
    BY <1>1 DEF Shifted
  <2>2. /\ \A keys : ~ Lifting(keys)' /\ (k \in keys => Pressing(keys)')
        /\ \A keys : Pressing(keys)' => k \in keys
    BY <1>1, <1>3 DEF Lifting, Pressing
  <2>3. /\ flag'.control = 1 => held' \cap {"ctrl", "rctrl"} # {}
        /\ k \in Shifts => ~ lifted'
    BY <1>1, <1>2
  <2>4. /\ flag'.shift = 1 => Shifted'
        /\ flag'.shift = 0 => ~ Shifted' \/ k \in Shifts
    BY <1>1, <1>2, <2>1
  <2>5. /\ flag'.alt = 1 => alted'
        /\ flag'.alt = 0 => ~ alted' \/ k = "alt"
        /\ k = "alt" => alted'
    <3>1. alted' <=> alted \/ k = "alt"
      BY <1>1, Zenon
    <3>2. flag.alt = 0 => flag.alt # 1
      OBVIOUS
    <3>3. QED
      BY <1>1, <1>2, <3>1, <3>2, Zenon
  <2>6. QED
    BY <1>1, <2>2, <2>3, <2>4, <2>5 DEF Modifiers, Shifts
<1>6. QED
  BY <1>1, <1>2, <1>3, <1>4, <1>5, NothingSent DEF ScanInv

\* A key is lifted.
LEMMA LiftStep ==
  ASSUME ScanInv, NEW k \in Key, lift(k)
  PROVE  ScanInv'
<1>1. /\ line = << >> /\ k \in held /\ ("print" \in held => k = "print")
      /\ line' = Break(k) /\ moved' = k /\ held' = held \ {k} /\ key' = None /\ flag' = flag
      /\ lifted' = (lifted \/ k \in Shifts \cup {"print"})
      /\ alted' = (alted /\ k # "quote")
  BY DEF lift
<1>2. /\ flag \in Flags /\ held \subseteq Key
      /\ flag.special = 0 /\ flag.ignore = IF "print" \in held THEN 1 ELSE 0
      /\ flag.control = 1 => held \cap {"ctrl", "rctrl"} # {}
      /\ (flag.shift = 1 <=> Shifted) /\ (flag.alt = 1 <=> alted)
  BY <1>1, AtRest
<1>3. line' = << >> <=> k = "pause"
  <2>1. \A j \in Single : Break(j) # << >>
    <3>1. \A a : <<a>> # << >>
      OBVIOUS
    <3>2. QED
      BY <3>1, BreakCodes
  <2>2. \A j \in Prefixed : Break(j) # << >>
    <3>1. \A a, b : <<a, b>> # << >>
      OBVIOUS
    <3>2. QED
      BY <3>1, BreakCodes
  <2>3. Break("pause") = << >> /\ Break("print") # << >>
    BY BreakCodes
  <2>4. QED
    BY <1>1, <2>1, <2>2, <2>3, KnownKeys, KeyKinds
<1>4. Codes'
  BY <1>1, <1>2, <1>3 DEF Codes
<1>5. Modifiers'
  <2>1. Shifted' <=> Shifted /\ k \notin Shifts \cup {"print"}
    BY <1>1 DEF Shifted
  <2>2. k \in Shifts \cup {"print", "quote", "ctrl", "rctrl"} => line' # << >>
    BY <1>3 DEF Shifts
  <2>3. /\ \A keys : ~ Pressing(keys)'
        /\ \A keys : Lifting(keys)' => k \in keys
        /\ \A keys : k \in keys /\ line' # << >> => Lifting(keys)'
    BY <1>1 DEF Lifting, Pressing
  <2>4. flag'.control = 1 => held' \cap {"ctrl", "rctrl"} # {} \/ k \in {"ctrl", "rctrl"}
    BY <1>1, <1>2
  <2>5. /\ flag'.shift = 1 => Shifted' \/ k \in Shifts \cup {"print"}
        /\ flag'.shift = 0 => ~ Shifted'
        /\ k \in Shifts \cup {"print"} => lifted'
    <3>1. lifted' <=> lifted \/ k \in Shifts \cup {"print"}
      BY <1>1, Zenon
    <3>2. flag.shift = 0 => flag.shift # 1
      OBVIOUS
    <3>3. QED
      BY <1>1, <1>2, <2>1, <3>1, <3>2, Zenon
  <2>6. /\ flag'.alt = 1 => alted' \/ k = "quote"
        /\ flag'.alt = 0 => ~ alted'
        /\ k = "quote" => ~ alted'
    <3>1. alted' <=> alted /\ k # "quote"
      BY <1>1, Zenon
    <3>2. flag.alt = 0 => flag.alt # 1
      OBVIOUS
    <3>3. QED
      BY <1>1, <1>2, <3>1, <3>2, Zenon
  <2>7. QED
    BY <2>2, <2>3, <2>4, <2>5, <2>6 DEF Modifiers, Shifts
<1>6. QED
  BY <1>1, <1>2, <1>4, <1>5, NothingSent DEF ScanInv

\* The keyboard starts with no key down.
LEMMA ScanInitially == ScanInit => ScanInv
<1> SUFFICES ASSUME ScanInit PROVE ScanInv
  OBVIOUS
<1>2. flag \in Flags /\ flag.special = 0 /\ flag.ignore = 0 /\ flag.control = 0
  BY DEF ScanInit, Flags
<1>3. line = << >> /\ held = {} /\ key = None /\ flag.shift = 0 /\ flag.alt = 0 /\ ~ alted
  BY DEF ScanInit
<1>4. QED
  BY <1>2, <1>3 DEF ScanInv, Codes, Modifiers, Lifting, Pressing, Shifted, SendsTheKey

\* Every step keeps the invariant.
LEMMA ScanStep == ScanInv /\ [ScanNext]_scan_vars => ScanInv'
<1> SUFFICES ASSUME ScanInv, [ScanNext]_scan_vars PROVE ScanInv'
  OBVIOUS
<1>2. CASE keyb_notifier
  BY <1>2, NotifierStep
<1>3. ASSUME NEW k \in Key, press(k) \/ lift(k)
      PROVE  ScanInv'
  BY <1>3, PressStep, LiftStep
<1>4. CASE UNCHANGED scan_vars
  BY <1>4 DEF scan_vars, ScanInv, Codes, Modifiers, Lifting, Pressing, Shifted, SendsTheKey,
              Quiet, Expected, Character
<1>5. QED
  BY <1>2, <1>3, <1>4 DEF ScanNext

\* What the invariant says between two keys.
LEMMA ScanDecodes == ScanInv => KeysDecoded
<1> SUFFICES ASSUME ScanInv PROVE KeysDecoded
  OBVIOUS
<1>2. SendsTheKey /\ flag \in Flags
  BY DEF ScanInv
<1>3. ModifiersEnd /\ PrefixesUsedUp
  <2>1. CASE line = << >>
    <3>1. flag.brk = 0
      BY <1>2 DEF Flags
    <3>2. QED
      BY <2>1, <3>1, AtRest DEF ModifiersEnd, PrefixesUsedUp
  <2>2. CASE line # << >>
    BY <2>2 DEF ModifiersEnd, PrefixesUsedUp, Quiet
  <2>3. QED
    BY <2>1, <2>2
<1>4. QED
  BY <1>2, <1>3 DEF KeysDecoded

\* So it always holds.
LEMMA ScanInvariance == ScanSpec => []ScanInv
BY ScanInitially, ScanStep, PTL DEF ScanSpec

\* For any of the keys that are known, in any order and any number of them at a time:
\* each press of a key sends its character, by shift, Caps Lock and Alt, lifting one sends
\* nothing, a modifier is on until the key that ends it is lifted (which for Alt is the
\* quote key), and no code leaves a flag behind for the next key (keyb.c).
THEOREM KeysAreDecoded == ScanSpec => []KeysDecoded
BY ScanInvariance, ScanDecodes, PTL

-------------------------------------------------------------------------------
(* The names of files and directories.                                         *)

\* Words without spaces.
Spaceless(w) == w \in Seq(Nat) /\ \A k \in 1 .. Len(w) : w[k] > 0

\* The parts of a name are words without spaces.
LEMMA NameWords ==
  ASSUME NEW n \in Names
  PROVE  /\ Spaceless(n.base) /\ Spaceless(n.ext) /\ n.base # << >> /\ n.dot \in BOOLEAN
         /\ n = [base |-> n.base, dot |-> n.dot, ext |-> n.ext]
<1>1. n \in [base : Bases \ {<< >>}, dot : BOOLEAN, ext : Exts]
  BY DEF Names
<1>2. ASSUME NEW w \in Bases \cup Exts
      PROVE  Spaceless(w)
  <2>1. w \in Seq(Nat) /\ \A k \in DOMAIN w : w[k] > 0
    BY NamesAssumption
  <2>2. DOMAIN w = 1 .. Len(w)
    BY <2>1
  <2>3. QED
    BY <2>1, <2>2 DEF Spaceless
<1>3. n.base \in Bases /\ n.base # << >> /\ n.ext \in Exts /\ n.dot \in BOOLEAN
      /\ n = [base |-> n.base, dot |-> n.dot, ext |-> n.ext]
  BY <1>1
<1>4. QED
  BY <1>2, <1>3

\* A word in upper case.
LEMMA UpperWord ==
  ASSUME NEW w, Spaceless(w)
  PROVE  /\ Spaceless(str2up(w)) /\ Len(str2up(w)) = Len(w)
         /\ \A k \in 1 .. Len(w) : str2up(w)[k] = IF w[k] > Lower THEN w[k] - Lower ELSE w[k]
<1> DEFINE n == Len(w)
<1>1. n \in Nat /\ DOMAIN w = 1 .. n /\ \A k \in 1 .. n : w[k] \in Nat /\ w[k] > 0
  BY DEF Spaceless
<1>2. str2up(w) = [k \in 1 .. n |-> IF w[k] > Lower THEN w[k] - Lower ELSE w[k]]
  BY <1>1 DEF str2up
<1>3. \A k \in 1 .. n : LET c == IF w[k] > Lower THEN w[k] - Lower ELSE w[k]
                        IN  c \in Nat /\ c > 0
  BY <1>1 DEF Lower
<1> HIDE DEF n
<1>4. str2up(w) \in [1 .. n -> Nat] /\ \A k \in 1 .. n : str2up(w)[k] > 0
  BY <1>2, <1>3
<1>5. str2up(w) \in Seq(Nat) /\ Len(str2up(w)) = n
  BY <1>1, <1>4
<1>6. QED
  BY <1>2, <1>4, <1>5 DEF n, Spaceless

\* The eleven characters of a name whose parts are not too long.
Eleven(b, e) == [k \in 1 .. 11 |-> IF k <= Len(b) THEN b[k]
                                  ELSE IF k > 8 /\ k <= 8 + Len(e) THEN e[k - 8] ELSE 0]

\* How a name with short parts is laid out in the eleven characters.
LEMMA SpelledField ==
  ASSUME NEW n, Spaceless(n.base), Spaceless(n.ext), Len(n.base) <= 8, Len(n.ext) <= 3
  PROVE  Spelled(n) = Eleven(n.base, n.ext)
<1> DEFINE b == n.base
           e == n.ext
           la == Len(b)
           lb == Len(e)
           first == strncpy(Blank, 1, b)
           second == strncpy(first, 9, e)
<1>1. la \in Nat /\ lb \in Nat /\ la <= 8 /\ lb <= 3
  BY DEF Spaceless
<1>2. first = [k \in 1 .. 11 |-> IF k \in 1 .. la THEN b[k] ELSE 0]
  <2>1. DOMAIN Blank \cup (1 .. (1 + la - 1)) = 1 .. 11 /\ \A k \in 1 .. 11 : Blank[k] = 0
    BY <1>1 DEF Blank
  <2>2. 1 .. (1 + la - 1) = 1 .. la /\ \A k \in 1 .. 11 : k - 1 + 1 = k
    BY <1>1
  <2> HIDE DEF la, b
  <2>3. first = [k \in 1 .. 11 |-> IF k \in 1 .. la THEN b[k - 1 + 1] ELSE Blank[k]]
    BY <2>1, <2>2 DEF strncpy, la
  <2>4. QED
    BY <2>1, <2>2, <2>3
<1> HIDE DEF first
<1>3. second = [k \in 1 .. 11 |-> IF k \in 9 .. 8 + lb THEN e[k - 8] ELSE first[k]]
  <2>1. DOMAIN first = 1 .. 11
    BY <1>2
  <2>2. (1 .. 11) \cup (9 .. (9 + lb - 1)) = 1 .. 11 /\ 9 .. (9 + lb - 1) = 9 .. (8 + lb)
        /\ \A k \in 1 .. 11 : k - 9 + 1 = k - 8
    BY <1>1
  <2> HIDE DEF lb, e
  <2>3. second = [k \in 1 .. 11 |-> IF k \in 9 .. (8 + lb) THEN e[k - 9 + 1] ELSE first[k]]
    BY <2>1, <2>2 DEF strncpy, lb
  <2>4. QED
    BY <2>2, <2>3
<1>4. Spelled(n) = second
  BY DEF Spelled, first
<1> HIDE DEF second
<1>5. \A k \in 1 .. 11 : (IF k \in 9 .. 8 + lb THEN e[k - 8] ELSE first[k])
                            = (IF k <= la THEN b[k] ELSE IF k > 8 /\ k <= 8 + lb THEN e[k - 8] ELSE 0)
  BY <1>1, <1>2
<1>6. QED
  BY <1>3, <1>4, <1>5 DEF Eleven

\* Upper case is the same before and after.
UpperName(n) == [n EXCEPT !.base = str2up(@), !.ext = str2up(@)]

\* Spelling a name and then changing it to upper case is spelling the upper case name.
LEMMA UpperSpelled ==
  ASSUME NEW n \in Names, Len(n.base) <= 8, Len(n.ext) <= 3
  PROVE  /\ str2up(Spelled(n)) = Spelled(UpperName(n))
         /\ Spelled(UpperName(n)) = Eleven(str2up(n.base), str2up(n.ext))
<1> DEFINE b == n.base
           e == n.ext
           B == str2up(b)
           E == str2up(e)
<1>1. Spaceless(b) /\ Spaceless(e) /\ n = [base |-> b, dot |-> n.dot, ext |-> e]
  BY NameWords
<1>2. /\ Spaceless(B) /\ Len(B) = Len(b)
      /\ \A k \in 1 .. Len(b) : B[k] = IF b[k] > Lower THEN b[k] - Lower ELSE b[k]
  BY <1>1, UpperWord
<1>3. /\ Spaceless(E) /\ Len(E) = Len(e)
      /\ \A k \in 1 .. Len(e) : E[k] = IF e[k] > Lower THEN e[k] - Lower ELSE e[k]
  BY <1>1, UpperWord
<1>4. UpperName(n).base = B /\ UpperName(n).ext = E
  BY <1>1 DEF UpperName
<1> HIDE DEF B, E
<1>5. Spelled(UpperName(n)) = Eleven(B, E)
  <2>1. /\ Spaceless(UpperName(n).base) /\ Spaceless(UpperName(n).ext)
        /\ Len(UpperName(n).base) <= 8 /\ Len(UpperName(n).ext) <= 3
    BY <1>2, <1>3, <1>4
  <2>2. Spelled(UpperName(n)) = Eleven(UpperName(n).base, UpperName(n).ext)
    BY <2>1, SpelledField
  <2>3. QED
    BY <1>4, <2>2
<1>6. Spelled(n) = Eleven(b, e)
  BY <1>1, SpelledField
<1>7. Len(b) \in Nat /\ Len(e) \in Nat /\ Len(b) <= 8 /\ Len(e) <= 3
  BY <1>1 DEF Spaceless
<1> HIDE DEF b, e
<1>8. str2up(Eleven(b, e)) = Eleven(B, E)
  <2> DEFINE f == Eleven(b, e)
  <2>1. /\ f = [k \in 1 .. 11 |-> IF k <= Len(b) THEN b[k]
                     ELSE IF k > 8 /\ k <= 8 + Len(e) THEN e[k - 8] ELSE 0]
    BY DEF Eleven
  <2>2. str2up(f) = [k \in 1 .. 11 |-> IF f[k] > Lower THEN f[k] - Lower ELSE f[k]]
    BY <2>1 DEF str2up
  <2>3. ASSUME NEW k \in 1 .. 11
        PROVE  (IF f[k] > Lower THEN f[k] - Lower ELSE f[k])
                 = (IF k <= Len(B) THEN B[k]
                    ELSE IF k > 8 /\ k <= 8 + Len(E) THEN E[k - 8] ELSE 0)
    <3>1. CASE k <= Len(b)
      <4>1. f[k] = b[k] /\ k \in 1 .. Len(b)
        BY <1>7, <2>1, <3>1
      <4> HIDE DEF f
      <4>2. QED
        BY <1>2, <3>1, <4>1
    <3>2. CASE ~ (k <= Len(b)) /\ k > 8 /\ k <= 8 + Len(e)
      <4>1. f[k] = e[k - 8] /\ k - 8 \in 1 .. Len(e)
        BY <1>7, <2>1, <3>2
      <4> HIDE DEF f
      <4>2. QED
        BY <1>2, <1>3, <3>2, <4>1
    <3>3. CASE ~ (k <= Len(b)) /\ ~ (k > 8 /\ k <= 8 + Len(e))
      <4>1. f[k] = 0
        BY <2>1, <3>3
      <4> HIDE DEF f
      <4>2. ~ (f[k] > Lower)
        BY <4>1 DEF Lower
      <4>3. QED
        BY <1>2, <1>3, <3>3, <4>1, <4>2
    <3>4. QED
      BY <3>1, <3>2, <3>3
  <2> HIDE DEF f
  <2>4. str2up(f) = [k \in 1 .. 11 |-> IF k <= Len(B) THEN B[k]
                    ELSE IF k > 8 /\ k <= 8 + Len(E) THEN E[k - 8] ELSE 0]
    BY <2>2, <2>3
  <2>5. QED
    BY <2>4 DEF Eleven, f
<1>9. QED
  BY <1>5, <1>6, <1>8 DEF B, E, b, e

\* Words of the same length with the same characters are equal.
LEMMA SameWords ==
  ASSUME NEW a \in Seq(Nat), NEW c \in Seq(Nat), Len(a) = Len(c),
         \A k \in 1 .. Len(a) : a[k] = c[k]
  PROVE  a = c
OBVIOUS

\* Words without spaces are equal if they are when filled up with spaces.
LEMMA PaddedWords ==
  ASSUME NEW m \in Nat, NEW a, NEW c, Spaceless(a), Spaceless(c), Len(a) <= m, Len(c) <= m,
         \A k \in 1 .. m : (IF k <= Len(a) THEN a[k] ELSE 0) = (IF k <= Len(c) THEN c[k] ELSE 0)
  PROVE  a = c
<1> DEFINE la == Len(a)
           lb == Len(c)
<1>1. la \in Nat /\ lb \in Nat /\ a \in Seq(Nat) /\ c \in Seq(Nat) /\ la <= m /\ lb <= m
  BY DEF Spaceless
<1>2. (\A k \in 1 .. la : a[k] > 0) /\ (\A k \in 1 .. lb : c[k] > 0)
  BY DEF Spaceless
<1>3. \A k \in 1 .. m : (IF k <= la THEN a[k] ELSE 0) = (IF k <= lb THEN c[k] ELSE 0)
  OBVIOUS
<1>4. la = lb
  <2> HIDE DEF la, lb
  <2>1. ~ (la < lb)
    <3>1. SUFFICES ASSUME la < lb PROVE FALSE
      OBVIOUS
    <3>2. lb \in 1 .. m /\ lb \in 1 .. lb /\ ~ (lb <= la) /\ lb <= lb
      BY <1>1, <3>1
    <3>3. 0 = c[lb]
      BY <1>3, <3>2
    <3>4. c[lb] > 0
      BY <1>2, <3>2
    <3>5. QED
      BY <3>3, <3>4
  <2>2. ~ (lb < la)
    <3>1. SUFFICES ASSUME lb < la PROVE FALSE
      OBVIOUS
    <3>2. la \in 1 .. m /\ la \in 1 .. la /\ ~ (la <= lb) /\ la <= la
      BY <1>1, <3>1
    <3>3. a[la] = 0
      BY <1>3, <3>2
    <3>4. a[la] > 0
      BY <1>2, <3>2
    <3>5. QED
      BY <3>3, <3>4
  <2>3. QED
    BY <1>1, <2>1, <2>2
<1>5. \A k \in 1 .. la : a[k] = c[k]
  <2> HIDE DEF la, lb
  <2>1. ASSUME NEW k \in 1 .. la PROVE a[k] = c[k]
    <3>1. k \in 1 .. m /\ k <= la /\ k <= lb
      BY <1>1, <1>4
    <3>2. QED
      BY <1>3, <3>1
  <2>2. QED
    BY <2>1
<1>6. Len(a) = Len(c) /\ \A k \in 1 .. Len(a) : a[k] = c[k]
  BY <1>4, <1>5
<1> HIDE DEF la, lb
<1>7. QED
  BY <1>1, <1>6, SameWords

\* A field has one name only: a space is in no word.
LEMMA FieldRead ==
  ASSUME NEW a, NEW b, NEW c, NEW d, Spaceless(a), Spaceless(b), Spaceless(c), Spaceless(d),
         Len(a) <= 8, Len(b) <= 3, Len(c) <= 8, Len(d) <= 3, Eleven(a, b) = Eleven(c, d)
  PROVE  a = c /\ b = d
<1> DEFINE la == Len(a)
           lb == Len(b)
           r == Len(c)
           t == Len(d)
<1>1. la \in Nat /\ lb \in Nat /\ r \in Nat /\ t \in Nat /\ la <= 8 /\ lb <= 3 /\ r <= 8 /\ t <= 3
  BY DEF Spaceless
<1>2. ASSUME NEW k \in 1 .. 11
      PROVE  (IF k <= la THEN a[k] ELSE IF k > 8 /\ k <= 8 + lb THEN b[k - 8] ELSE 0)
               = (IF k <= r THEN c[k] ELSE IF k > 8 /\ k <= 8 + t THEN d[k - 8] ELSE 0)
  <2>1. Eleven(a, b)[k] = Eleven(c, d)[k]
    OBVIOUS
  <2>2. QED
    BY <2>1 DEF Eleven
<1> HIDE DEF la, lb, r, t
<1>3. ASSUME NEW k \in 1 .. 8
      PROVE  (IF k <= la THEN a[k] ELSE 0) = (IF k <= r THEN c[k] ELSE 0)
  <2>1. k \in 1 .. 11 /\ ~ (k > 8)
    OBVIOUS
  <2>2. QED
    BY <1>2, <2>1
<1>4. ASSUME NEW k \in 1 .. 3
      PROVE  (IF k <= lb THEN b[k] ELSE 0) = (IF k <= t THEN d[k] ELSE 0)
  <2> DEFINE j == k + 8
  <2>1. /\ j \in 1 .. 11 /\ j - 8 = k /\ ~ (j <= la) /\ ~ (j <= r) /\ j > 8
        /\ j <= 8 + lb <=> k <= lb
        /\ j <= 8 + t <=> k <= t
    BY <1>1
  <2> HIDE DEF j
  <2>2. (IF j <= la THEN a[j] ELSE IF j > 8 /\ j <= 8 + lb THEN b[j - 8] ELSE 0)
          = (IF j <= r THEN c[j] ELSE IF j > 8 /\ j <= 8 + t THEN d[j - 8] ELSE 0)
    BY <1>2, <2>1
  <2>3. QED
    BY <2>1, <2>2
<1>5. a = c
  <2>1. \A k \in 1 .. 8 : (IF k <= Len(a) THEN a[k] ELSE 0) = (IF k <= Len(c) THEN c[k] ELSE 0)
    BY <1>3 DEF la, r
  <2>2. 8 \in Nat
    OBVIOUS
  <2>3. QED
    BY <2>1, <2>2, PaddedWords
<1>6. b = d
  <2>1. \A k \in 1 .. 3 : (IF k <= Len(b) THEN b[k] ELSE 0) = (IF k <= Len(d) THEN d[k] ELSE 0)
    BY <1>4 DEF lb, t
  <2>2. 3 \in Nat
    OBVIOUS
  <2>3. QED
    BY <2>1, <2>2, PaddedWords
<1>7. QED
  BY <1>5, <1>6

\* How a name that is one of 8 and 3 characters is looked up.
LEMMA LookedUp ==
  ASSUME NEW n \in Names, EightDotThree(n)
  PROVE  fs_get_directory_entry_file(n) = Eleven(str2up(n.base), str2up(n.ext))
<1>1. /\ Len(n.base) <= 8 /\ Len(n.ext) <= 3 /\ (n.dot <=> n.ext # << >>)
  BY DEF EightDotThree
<1>2. Spaceless(n.base) /\ Spaceless(n.ext)
  BY NameWords
<1>3. Len(n.base) \in Nat /\ Len(n.ext) \in Nat /\ (n.ext # << >> => Len(n.ext) # 0)
  BY <1>2 DEF Spaceless
<1>4. ~ (IF n.dot THEN Len(n.base) > 8 \/ Len(n.ext) \notin 1 .. 4 ELSE Len(n.base) - 1 > 8)
  <2>1. n.dot => Len(n.ext) \in 1 .. 4
    <3> DEFINE lb == Len(n.ext)
    <3>1. lb \in Nat /\ lb <= 3
      BY <1>1, <1>3
    <3>2. n.dot => lb # 0
      BY <1>1, <1>3, Zenon
    <3> HIDE DEF lb
    <3>3. lb # 0 => lb \in 1 .. 4
      BY <3>1
    <3>4. QED
      BY <3>2, <3>3, Zenon DEF lb
  <2>2. ~ (Len(n.base) > 8) /\ ~ (Len(n.base) - 1 > 8)
    BY <1>1, <1>3
  <2>3. QED
    BY <2>1, <2>2
<1>5. fs_get_directory_entry_file(n) = str2up(Spelled(n))
  BY <1>4 DEF fs_get_directory_entry_file
<1>6. QED
  BY <1>1, <1>5, UpperSpelled

\* One name: the name a file is made with is the one it is looked up under, and no other name is.
LEMMA FilesFound ==
  ASSUME name \in Names
  PROVE  FoundUnderItsName
<1> DEFINE made == fs_convert_path(name)
<1> SUFFICES ASSUME EightDotThree(name), made # Refused
             PROVE  /\ fs_get_directory_entry_file(name) = made
                    /\ TOS_fs_format_dir_entry_name(name) = made
                    /\ \A other \in Names :
                         EightDotThree(other) /\ fs_get_directory_entry_file(other) = made =>
                           /\ str2up(other.base) = str2up(name.base)
                           /\ str2up(other.ext) = str2up(name.ext)
  BY DEF FoundUnderItsName
<1>1. /\ Len(name.base) <= 8 /\ Len(name.ext) <= 3
  BY DEF EightDotThree
<1>2. made = Spelled(UpperName(name)) /\ TOS_fs_format_dir_entry_name(name) = made
  BY DEF fs_convert_path, TOS_fs_format_dir_entry_name, UpperName
<1>3. made = Eleven(str2up(name.base), str2up(name.ext))
  BY <1>1, <1>2, UpperSpelled
<1>4. fs_get_directory_entry_file(name) = Eleven(str2up(name.base), str2up(name.ext))
  BY LookedUp
<1> HIDE DEF made
<1>5. ASSUME NEW other \in Names, EightDotThree(other), fs_get_directory_entry_file(other) = made
      PROVE  str2up(other.base) = str2up(name.base) /\ str2up(other.ext) = str2up(name.ext)
  <2> DEFINE a == str2up(other.base)
             b == str2up(other.ext)
             c == str2up(name.base)
             d == str2up(name.ext)
  <2>1. Len(other.base) <= 8 /\ Len(other.ext) <= 3
    BY <1>5 DEF EightDotThree
  <2>2. Spaceless(other.base) /\ Spaceless(other.ext) /\ Spaceless(name.base) /\ Spaceless(name.ext)
    BY NameWords
  <2>3. /\ Spaceless(a) /\ Spaceless(b) /\ Spaceless(c) /\ Spaceless(d)
        /\ Len(a) <= 8 /\ Len(b) <= 3 /\ Len(c) <= 8 /\ Len(d) <= 3
    <3>1. Spaceless(a) /\ Len(a) = Len(other.base)
      BY <2>2, UpperWord
    <3>2. Spaceless(b) /\ Len(b) = Len(other.ext)
      BY <2>2, UpperWord
    <3>3. Spaceless(c) /\ Len(c) = Len(name.base)
      BY <2>2, UpperWord
    <3>4. Spaceless(d) /\ Len(d) = Len(name.ext)
      BY <2>2, UpperWord
    <3> HIDE DEF a, b, c, d
    <3>5. QED
      BY <1>1, <2>1, <3>1, <3>2, <3>3, <3>4
  <2>4. Eleven(a, b) = Eleven(c, d)
    BY <1>3, <1>5, LookedUp
  <2> HIDE DEF a, b, c, d
  <2>5. a = c /\ b = d
    BY <2>3, <2>4, FieldRead
  <2>6. QED
    BY <2>5 DEF a, b, c, d
<1>6. QED
  BY <1>2, <1>3, <1>4, <1>5

\* One name: an upper case directory name is looked up as it was made.
LEMMA DirectoriesFound ==
  ASSUME name \in Names
  PROVE  DirectoryFound
<1> DEFINE made == fs_create_directory_name(name)
<1> SUFFICES ASSUME EightDotThree(name), Upper(name), made # Refused
             PROVE  fs_get_directory_entry_directory(name) = made
  BY DEF DirectoryFound
<1>1. /\ Len(name.base) <= 8 /\ Len(name.ext) <= 3
  BY DEF EightDotThree
<1>2. Spaceless(name.base) /\ Spaceless(name.ext)
      /\ name = [base |-> name.base, dot |-> name.dot, ext |-> name.ext]
  BY NameWords
<1>3. Len(name.base) \in Nat /\ Len(name.ext) \in Nat
  BY <1>2 DEF Spaceless
<1>4. made = Spelled(name)
  BY DEF fs_create_directory_name
<1>5. fs_get_directory_entry_directory(name) = str2up(Spelled(name))
  BY <1>1, <1>3 DEF fs_get_directory_entry_directory
<1>6. UpperName(name) = name
  BY <1>2 DEF Upper, UpperName
<1>7. QED
  BY <1>1, <1>4, <1>5, <1>6, UpperSpelled

\* A name that is tried is one of the names.
LEMMA NamesStay == FnSpec => [](name \in Names)
<1>1. FnInit => name \in Names
  BY DEF FnInit
<1>2. name \in Names /\ [make_entry]_fn_vars => (name \in Names)'
  BY DEF make_entry, fn_vars
<1>3. QED
  BY <1>1, <1>2, PTL DEF FnSpec

\* For words of any length: a file that was created is found under its name, by both ways
\* to open it, and under no other; a directory with an upper case name is found again.
THEOREM NamesAreFound == FnSpec => []NamesFound
<1>1. name \in Names => NamesFound
  BY FilesFound, DirectoriesFound DEF NamesFound
<1>2. QED
  BY <1>1, NamesStay, PTL
===============================================================================
