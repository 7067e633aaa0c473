--------------------------------- MODULE Protocol ---------------------------------
(* ip.c and udp.c: a UDP packet is made, one bit of it may change on the wire, *)
(* and it is taken apart.  Headers are the 16-bit words that a little-endian   *)
(* processor sees in memory; data are bytes.                                   *)
EXTENDS Integers, Sequences

CONSTANTS
  SrcPort, DstPort,   \* sets of port numbers
  Address,            \* IP addresses, pairs of words
  Payload             \* sequences of bytes, of which an IP packet takes 65507

VARIABLES phase, datagram, wire, result
pr_vars == <<phase, datagram, wire, result>>

Word == 65536
Uint8 == {n \in Nat : n < 256}
Uint16 == 0 .. Word - 1

ASSUME ProtocolAssumption ==
  /\ SrcPort \subseteq Uint16 /\ DstPort \subseteq Uint16
  /\ Address \subseteq Uint16 \X Uint16
  /\ Payload \subseteq Seq(Uint8)
  /\ \A data \in Payload : Len(data) <= 65507

htons_tos(n) == (n % 256) * 256 + n \div 256

\* The sum of a sequence of words.
Total(words) ==
  LET first[k \in 0 .. Len(words)] == IF k = 0 THEN 0 ELSE first[k - 1] + words[k]
  IN  first[Len(words)]

\* The carries are added; of 32-bit sums none is left after the second time.
Carried(sum) == LET once == (sum % Word) + sum \div Word
                IN  (once % Word) + once \div Word

Complement(n) == Word - 1 - n
Checksum_of(sum) == Complement(Carried(sum))

ip_checksum(ip) == Checksum_of(Total([ip EXCEPT ![6] = 0]))

\* The words of data, the last byte of an odd number on its own.
Words(data) == [k \in 1 .. (Len(data) + 1) \div 2 |->
                  data[2 * k - 1] + (IF 2 * k <= Len(data) THEN 256 * data[2 * k] ELSE 0)]

\* Variant: an odd last byte is left out.
Summed_even(udp, data) == Total(udp) + Total(Words(SubSeq(data, 1, 2 * (Len(data) \div 2))))

Summed(udp, data) == Total(udp) + Total(Words(data))

Pseudo(udp, src, dst) == Total(src) + Total(dst) + htons_tos(17) + udp[3]

Field(checksum) == IF checksum # 0 THEN Word - 1 ELSE 0

udp_checksum(udp, data, src, dst) ==
  Checksum_of(Summed([udp EXCEPT ![4] = Field(@)], data) + Pseudo(udp, src, dst))

create_udp_hr(sp, dp, data, src, dst) ==
  LET udp == <<htons_tos(sp), htons_tos(dp), htons_tos(Len(data) + 8), 0>>
  IN  [udp EXCEPT ![4] = udp_checksum(udp, data, src, dst)]

\* Version 4, five words of header; minimum delay; do not fragment; 64 hops; UDP.
create_ip_hr(src, dst, len) ==
  LET ip == <<69 + 256 * 16, htons_tos(20 + len), htons_tos(65261), htons_tos(16384),
              64 + 256 * 17, 0, src[1], src[2], dst[1], dst[2]>>
  IN  [ip EXCEPT ![6] = ip_checksum(ip)]

create_udp_packet(sp, dp, src, dst, data) ==
  [ip  |-> create_ip_hr(src, dst, Len(data) + 8),
   udp |-> create_udp_hr(sp, dp, data, src, dst),
   data |-> data]

is_ip_packet(pkt) == pkt.ip[1] % 16 >= 5 /\ pkt.ip[6] = ip_checksum(pkt.ip)

is_udp_packet(pkt) ==
  /\ is_ip_packet(pkt)
  /\ pkt.ip[5] \div 256 = 17
  /\ pkt.udp[4] # 0 =>
       pkt.udp[4] = udp_checksum(pkt.udp, pkt.data, <<pkt.ip[7], pkt.ip[8]>>,
                                  <<pkt.ip[9], pkt.ip[10]>>)

-------------------------------------------------------------------------------
PrInit ==
  /\ phase = "send"
  /\ datagram \in [sp : SrcPort, dp : DstPort, src : Address, dst : Address, data : Payload]
  /\ wire = << >>
  /\ result = FALSE

send_packet ==
  /\ phase = "send" /\ phase' = "wire"
  /\ wire' = create_udp_packet(datagram.sp, datagram.dp, datagram.src, datagram.dst, datagram.data)
  /\ UNCHANGED <<datagram, result>>

\* The bits of a byte and of a word.
Bits_of_byte == {1, 2, 4, 8, 16, 32, 64, 128}
Bits_of_word == Bits_of_byte \cup {256, 512, 1024, 2048, 4096, 8192, 16384, 32768}

Flipped(n, b) == IF (n \div b) % 2 = 0 THEN n + b ELSE n - b

(* A bit changes.  Not in the lengths of the headers, which say what is summed, *)
(* and of the data, so that the receiver sums what it got.                     *)
flip ==
  /\ phase = "wire" /\ phase' = "flipped"
  /\ \/ \E k \in 1 .. 10, b \in Bits_of_word :
          ~(k = 1 /\ b < 16) /\ wire' = [wire EXCEPT !.ip[k] = Flipped(@, b)]
     \/ \E k \in {1, 2, 4}, b \in Bits_of_word : wire' = [wire EXCEPT !.udp[k] = Flipped(@, b)]
     \/ \E k \in 1 .. Len(wire.data), b \in Bits_of_byte :
          wire' = [wire EXCEPT !.data[k] = Flipped(@, b)]
  /\ UNCHANGED <<datagram, result>>

receive_packet ==
  /\ phase \in {"wire", "flipped"}
  /\ phase' = IF phase = "wire" THEN "received" ELSE "received_flipped"
  /\ result' = is_udp_packet(wire)
  /\ UNCHANGED <<datagram, wire>>

PrNext == send_packet \/ flip \/ receive_packet
PrSpec == PrInit /\ [][PrNext]_pr_vars

-------------------------------------------------------------------------------
\* What this program sends it accepts, for odd and even lengths and when carries
\* run through the sums or the checksum comes out as zero.
OwnAccepted == phase = "received" => result

\* A changed bit in the headers and in the data is noticed, unless the checksum
\* came out as zero, which the receiver takes for none.
Intact ==
  LET made == create_udp_packet(datagram.sp, datagram.dp, datagram.src, datagram.dst, datagram.data)
  IN  /\ wire.ip = made.ip /\ wire.data = made.data
          /\ wire.udp[1] = made.udp[1] /\ wire.udp[2] = made.udp[2]

ChangeNoticed ==
  phase = "received_flipped" /\ result =>
    \/ Intact
    \/ create_udp_hr(datagram.sp, datagram.dp, datagram.data, datagram.src, datagram.dst)[4] = 0

\* The receiver accepts what udp.c and ip.c made, and notices a changed bit unless
\* the checksum came out as zero.
PacketsChecked == OwnAccepted /\ ChangeNoticed
===============================================================================
