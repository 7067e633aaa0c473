----------------------------------- MODULE Ne2k -----------------------------------
(* ne2k_driver.c: the notifier that serves the card's interrupts, and a       *)
(* process that uses the driver (the boot process and later the shell), with  *)
(* the card between them.  A step is the code between two accesses to the     *)
(* card or to a shared variable that another process or the card could tell   *)
(* apart; frames take one page of the ring.  The station address, which the   *)
(* card has in registers of page 1, is not modelled: any frame may arrive.    *)
EXTENDS Arp, FiniteSets

CONSTANTS
  NULL,
  notifier,     \* ne2k_driver_notifier, priority 7
  user,         \* runs init_ne_driver, then the commands ne and sendudp
  Page,         \* pages of the receive ring, NE_RX_PAGE_START up to NE_RX_PAGE_STOP
  OwnIp,        \* the address that ne_setup configures
  MaxPackets,   \* bound: frames that arrive
  MaxCommands,  \* bound: commands of the user
  Commands,     \* which commands the user gives
  Kinds,        \* which frames arrive: "reply", "request" and "udp"
  Host          \* the addresses that are in them

ASSUME Ne2kAssumption ==
  /\ Page \in Nat \ {0} /\ OwnIp \in IpAddr /\ NULL \notin IpAddr
  /\ notifier # user /\ IpAddr \subseteq Mac /\ Host \subseteq IpAddr
  /\ Kinds \subseteq {"reply", "request", "udp"}
  /\ Commands \subseteq {"init", "ip", "sendudp"}

VARIABLES
  card,         \* what the registers and the memory of the card hold
  irr,          \* the interrupt controller has seen the line of the card go up
  ne,           \* struct ne: next_pkt and ip; and NE_INTIALIZED
  isr,          \* the local isr of ne_dpc
  p,            \* what the local p of ne_receive points to
  out,          \* process |-> the frame it is about to transmit
  pc,
  arrived,      \* frames that arrived so far
  commands,     \* how many commands were given so far
  given,        \* and which
  passed,       \* the frames handed to process_incoming_packet
  to_em,        \* the UDP packets handed to the event manager
  sent,         \* what the card was told to transmit, and where the user was then
  configured,   \* the address that the user asked for last
  cut           \* whether the notifier came in while the user set the card up, or
                \* had even selected page 1

mem == <<ne, isr, p, out>>
history == <<arrived, commands, given, passed, to_em, sent, configured, cut>>
ne_vars == <<card, irr, mem, pc, history, arp_vars>>

Process == {notifier, user}
Blocked == {"absent", "waiting", "sleep", "sleep_arp", "sleep_init"}

\* Where a process is after ne_reset and before the end of ne_setup: with the card
\* in loopback mode, and with page 1 selected.
Paged == {"curr", "par", "start"}
Looped == Paged \cup {"bounds", "page1", "clear", "mask", "unloop"}
InSetup == Looped \cup {"check", "prom", "loop"}

\* The value of the uninitialised local p, of a page never written, and of a
\* transmit buffer of which only a part was written.
garbage == [kind |-> "garbage", ip |-> ZeroIp, mac |-> ZeroMac, nr |-> 0]

NeInit ==
  /\ card = [on |-> FALSE, isr |-> {}, imr |-> {}, page |-> 0, dma |-> NULL,
             curr |-> 0, bnry |-> 0, bounds |-> FALSE,      \* PSTART and PSTOP are set
             tpsr |-> "other", loopback |-> FALSE,
             ring |-> [a \in 0 .. Page - 1 |-> garbage], tx |-> garbage]
  /\ irr = FALSE
  /\ ne = [next_pkt |-> 0, ip |-> ZeroIp, initialized |-> FALSE]
  /\ isr = {} /\ p = garbage
  /\ out = [q \in Process |-> garbage]
  /\ pc = [q \in Process |-> IF q = user THEN "program" ELSE "absent"]
  /\ arrived = 0 /\ commands = 0 /\ given = {}
  /\ passed = << >> /\ to_em = << >> /\ sent = << >>
  /\ configured = OwnIp /\ cut = {}
  /\ ArpInit

\* The notifier runs whenever it can; the user when the notifier is blocked.
At(q, a) == pc[q] = a /\ (q = user => pc[notifier] \in Blocked)
Goto(q, b) == pc' = [pc EXCEPT ![q] = b]

\* The card is accessed.  The controller is programmed for edges (ICW1 of
\* intr.c), so that it notices only that the line goes up.
Line(c) == c.isr \cap c.imr # {}
Card(c) ==
  /\ card' = c
  /\ irr' = (Line(c) /\ (irr \/ ~Line(card)))

Off == UNCHANGED <<card, irr>>

\* Process q at a makes c of the card, and goes on at b.
Touch(q, a, b, c) ==
  /\ At(q, a) /\ Card(c) /\ Goto(q, b)
  /\ UNCHANGED <<mem, history, arp_vars>>

\* The command register: page 0, no remote DMA, started or stopped.
Command(run) == [card EXCEPT !.page = 0, !.dma = NULL, !.on = run]

\* ne_reset: cards differ in whether it clears the interrupts and their mask.
ne_reset ==
  \E bits \in {card.isr, {}}, mask \in {card.imr, {}} :
    Card([Command(FALSE) EXCEPT !.isr = bits, !.imr = mask, !.loopback = FALSE])

\* A register of page 0 is written; page 1 has part of the station address there.
Written(c) == IF card.page = 0 THEN c ELSE card

\* The notifier goes on while the user may be setting the card up.
Comes_in ==
  cut' = cut \cup (IF pc[user] \in InSetup THEN {"setup"} ELSE {})
             \cup (IF pc[user] \in Paged THEN {"page"} ELSE {})

-------------------------------------------------------------------------------
(* The card and the wire.                                                     *)

Next_page(a) == (a + 1) % Page
Full == card.bounds /\ Next_page(card.curr) = card.bnry

\* A frame arrives; a card that is stopped or full drops it, and one in loopback
\* mode may.  Without its bounds the ring may go on anywhere in the card's memory.
arrive(kind, ip) ==
  /\ arrived < MaxPackets
  /\ arrived' = arrived + 1
  /\ LET f == [kind |-> kind, ip |-> ip, mac |-> ip, nr |-> arrived + 1] IN
     \/ /\ ~ card.on \/ Full \/ card.loopback \/ ~ card.bounds
        /\ Off
     \/ /\ card.on /\ ~ Full
        /\ \E a \in IF card.bounds THEN {Next_page(card.curr)} ELSE 0 .. Page - 1,
              t \in IF card.bounds THEN {card.tx} ELSE {card.tx, garbage} :
             Card([card EXCEPT !.ring[card.curr] = f, !.curr = a, !.tx = t,
                               !.isr = @ \cup {"PRX"}])
  /\ UNCHANGED <<mem, pc, arp_vars, commands, given, passed, to_em, sent, configured, cut>>

\* isr_ne2k_driver: an interrupt that nobody waits for is ignored.
isr_ne2k_driver ==
  /\ irr
  /\ irr' = FALSE
  /\ IF pc[notifier] = "waiting" THEN Goto(notifier, "woken") /\ Comes_in
     ELSE UNCHANGED <<pc, cut>>
  /\ UNCHANGED <<card, mem, arp_vars, arrived, commands, given, passed, to_em, sent,
                 configured>>

-------------------------------------------------------------------------------
(* ne2k_driver_notifier and ne_dpc.                                           *)

IMR == {"PRX", "PTX"}

\* ne2k_driver_process creates it when the boot process is interrupted or sleeps.
\* As long as ne_setup has not begun, nic_addr is not assigned: what the notifier
\* writes first does not reach the card.
create_notifier ==
  /\ pc[notifier] = "absent"
  /\ Goto(notifier, IF pc[user] = "program" THEN "wait" ELSE "enable")
  /\ Off /\ UNCHANGED <<mem, history, arp_vars>>

ne2k_driver_notifier ==
  \/ create_notifier
  \/ Touch(notifier, "enable", "wait", Written([card EXCEPT !.imr = IMR]))
  \/ Touch(notifier, "wait", "waiting", card)
  \/ Touch(notifier, "woken", "dpc", Written([card EXCEPT !.imr = {}]))

\* Variant: only a received frame is acknowledged.
Acknowledged_frame(bits) == bits \cap {"PRX"}

Acknowledged(bits) == bits

ne_dpc ==
  \/ /\ At(notifier, "dpc")
     /\ isr' = card.isr
     /\ Card(Command(TRUE))
     /\ Goto(notifier, IF card.isr = {} THEN "ack_all" ELSE "ack")
     /\ UNCHANGED <<ne, p, out, history, arp_vars>>
  \/ /\ At(notifier, "ack")
     /\ Card([card EXCEPT !.isr = @ \ Acknowledged(isr)])
     /\ Goto(notifier, IF "PRX" \in isr THEN "receive" ELSE "dpc")
     /\ p' = garbage
     /\ UNCHANGED <<ne, isr, out, history, arp_vars>>
  \/ Touch(notifier, "ack_all", "enable", [card EXCEPT !.isr = {}])

-------------------------------------------------------------------------------
(* ne_transmit, called by ne_send_ethernet: frames go through one buffer, by  *)
(* the remote DMA that ne_readmem uses too; what another process does         *)
(* meanwhile aborts it.                                                       *)

After(q, f) ==
  IF q = notifier THEN "dpc" ELSE IF f.kind = "request" THEN "sleep_arp" ELSE "idle"

ne_send_ethernet(q, f) ==
  /\ out' = [out EXCEPT ![q] = f]
  /\ Goto(q, IF ne.initialized THEN "transmit" ELSE After(q, f))

\* Variant: of the chain of buffers only the first is copied.
copy_step_header(q) ==
  Touch(q, "copy", "sleep", IF card.dma = q THEN [card EXCEPT !.tx = garbage] ELSE card)

copy_step(q) ==
  \/ Touch(q, "copy", "copy_rest", IF card.dma = q THEN [card EXCEPT !.tx = garbage] ELSE card)
  \/ Touch(q, "copy_rest", "sleep",
           IF card.dma = q
           THEN [card EXCEPT !.tx = out[q], !.dma = NULL, !.isr = @ \cup {"RDC"}]
           ELSE card)

ne_transmit(q) ==
  \/ Touch(q, "transmit", "copy", [Command(TRUE) EXCEPT !.isr = @ \ {"RDC"}, !.dma = q])
  \/ copy_step(q)
  \/ /\ pc[q] = "sleep"
     /\ Goto(q, "tpsr")
     /\ IF q = notifier THEN Comes_in ELSE UNCHANGED cut
     /\ Off /\ UNCHANGED <<mem, arp_vars, arrived, commands, given, passed, to_em, sent,
                          configured>>
  \/ Touch(q, "tpsr", "send", Written([card EXCEPT !.tpsr = "buffer"]))
  \/ /\ At(q, "send")
     /\ Card([Command(TRUE) EXCEPT !.isr = @ \cup {"PTX"}])
     /\ sent' = Append(sent, [by |-> q, asked |-> out[q], during |-> pc[user],
                              frame |-> IF card.tpsr = "buffer" THEN card.tx ELSE garbage,
                              left |-> ~ card.loopback])
     /\ Goto(q, After(q, out[q]))
     /\ UNCHANGED <<mem, arp_vars, arrived, commands, given, passed, to_em, configured, cut>>

-------------------------------------------------------------------------------
(* ne_receive: reads the frame at next_pkt, if there is one, sets the card up *)
(* again, and hands on what p points to.                                      *)

ne_receive ==
  \/ /\ At(notifier, "receive")
     /\ IF ne.next_pkt # card.curr
        THEN /\ Card([Command(TRUE) EXCEPT !.page = 1, !.bnry = Next_page(ne.next_pkt),
                                           !.isr = @ \cup {"RDC"}])   \* ne_readmem
             /\ p' = card.ring[ne.next_pkt]
             /\ ne' = [ne EXCEPT !.next_pkt = Next_page(@)]
        ELSE Card([Command(TRUE) EXCEPT !.page = 1]) /\ UNCHANGED <<ne, p>>
     /\ Goto(notifier, "program")
     /\ UNCHANGED <<isr, out, history, arp_vars>>
  \/ /\ At(notifier, "process")
     /\ passed' = Append(passed, p)
     /\ Off /\ UNCHANGED <<ne, isr, p, arrived, commands, given, sent, configured, cut>>
     /\ \/ /\ p.kind = "reply"                      \* process_incoming_packet
           /\ arp_add_cache(p.ip, p.mac)
           /\ Goto(notifier, "dpc")
           /\ UNCHANGED <<out, to_em>>
        \/ /\ p.kind = "request"
           /\ ne_send_ethernet(notifier, [kind |-> "reply", ip |-> ne.ip, mac |-> p.mac,
                                          nr |-> p.nr])
           /\ UNCHANGED <<to_em, arp_vars>>
        \/ /\ p.kind = "udp"
           /\ to_em' = IF p.ip = ne.ip THEN Append(to_em, p) ELSE to_em
           /\ Goto(notifier, "dpc")
           /\ UNCHANGED <<out, arp_vars>>
        \/ /\ p.kind = "garbage"
           /\ Goto(notifier, "dpc")
           /\ UNCHANGED <<out, to_em, arp_vars>>

-------------------------------------------------------------------------------
(* ne_setup, called by ne_receive and by ne_init.                             *)

\* ne_receive does not look at what it returns.
Setup_returns(q, result) ==
  IF q = notifier THEN Goto(q, "process") /\ UNCHANGED ne
  ELSE Goto(q, "sleep_init") /\ ne' = [ne EXCEPT !.initialized = result]

program_step(q) ==
  /\ At(q, "program")
  /\ ne_reset
  /\ ne' = [ne EXCEPT !.next_pkt = 0, !.ip = OwnIp]
  /\ Goto(q, "check")
  /\ UNCHANGED <<isr, p, out, history, arp_vars>>

\* ne_probe fails if somebody has started the card meanwhile.
check_step(q) ==
  /\ At(q, "check")
  /\ IF card.on THEN Setup_returns(q, FALSE) ELSE Goto(q, "prom") /\ UNCHANGED ne
  /\ Off /\ UNCHANGED <<isr, p, out, history, arp_vars>>

\* The station address is read; this starts the card.
prom_step(q) == Touch(q, "prom", "loop", [Command(TRUE) EXCEPT !.isr = @ \cup {"RDC"}])

loop_step(q) ==
  \/ Touch(q, "loop", "bounds", [card EXCEPT !.tpsr = "other", !.loopback = TRUE])
  \/ Touch(q, "bounds", "page1", [card EXCEPT !.bounds = TRUE, !.bnry = 0])

\* CURR and the station address are in page 1.  Written to page 0, CURR acknowledges
\* interrupts, and the address goes to PSTART up to TBCR1, or to those of them that
\* are still to come.
page_step(q) ==
  \/ Touch(q, "page1", "curr", [Command(FALSE) EXCEPT !.page = 1])
  \/ Touch(q, "curr", "par", IF card.page = 1 THEN [card EXCEPT !.curr = ne.next_pkt]
                             ELSE [card EXCEPT !.isr = @ \ {"PTX", "RDC"}])
  \/ \E kept \in {card.bounds, FALSE} :
       Touch(q, "par", "start",
             Written([card EXCEPT !.bounds = kept, !.tpsr = "other"]))
  \/ Touch(q, "start", "clear", Command(TRUE))

\* Variant: the interrupts that came before are left.
clear_step_not(q) == Touch(q, "clear", "mask", card)

clear_step(q) == Touch(q, "clear", "mask", [card EXCEPT !.isr = {}])

unloop_step(q) ==
  /\ At(q, "unloop")
  /\ Card([card EXCEPT !.loopback = FALSE])
  /\ Setup_returns(q, TRUE)
  /\ UNCHANGED <<isr, p, out, history, arp_vars>>

ne_setup(q) ==
  \/ program_step(q) \/ check_step(q) \/ prom_step(q) \/ loop_step(q) \/ page_step(q)
  \/ clear_step(q)
  \/ Touch(q, "mask", "unloop", [card EXCEPT !.imr = IMR])
  \/ unloop_step(q)

-------------------------------------------------------------------------------
(* The user of the driver: ne_init, then commands.                            *)

ne_init ==
  \/ /\ pc[user] = "sleep_init" /\ pc[notifier] # "absent"
     /\ Goto(user, "probe")
     /\ Off /\ UNCHANGED <<mem, history, arp_vars>>
  \/ /\ At(user, "probe")
     /\ ne_reset
     /\ Goto(user, "restart")
     /\ UNCHANGED <<mem, history, arp_vars>>
  \/ Touch(user, "restart", "idle", Command(TRUE))

\* ne_do_send_udp: with the address that the table gives, or by asking for it
\* and waiting, once.
Udp(ip) == [kind |-> "udp", ip |-> ip, mac |-> arp_ip_to_mac(ip), nr |-> commands]
Arp_request(ip) == [kind |-> "request", ip |-> ip, mac |-> NULL, nr |-> commands]

ne_do_send_udp(ip) ==
  ne_send_ethernet(user, IF arp_ip_to_mac_found(ip) THEN Udp(ip) ELSE Arp_request(ip))

wait_for_mac_address ==
  \/ /\ pc[user] = "sleep_arp"
     /\ Goto(user, "again")
     /\ Off /\ UNCHANGED <<mem, history, arp_vars>>
  \/ /\ At(user, "again")
     /\ IF arp_ip_to_mac_found(out[user].ip)
        THEN ne_send_ethernet(user, Udp(out[user].ip))
        ELSE Goto(user, "idle") /\ UNCHANGED out
     /\ Off /\ UNCHANGED <<ne, isr, p, history, arp_vars>>

command(c, ip) ==
  /\ At(user, "idle")
  /\ commands < MaxCommands
  /\ commands' = commands + 1
  /\ given' = given \cup {c}
  /\ Off /\ UNCHANGED <<isr, p, arrived, passed, to_em, sent, cut, arp_vars>>
  /\ \/ c = "init" /\ Goto(user, "program") /\ UNCHANGED <<ne, out, configured>>
     \/ /\ c = "ip" /\ ne.initialized                            \* ne_config_ip
        /\ ne' = [ne EXCEPT !.ip = ip] /\ configured' = ip
        /\ UNCHANGED <<pc, out>>
     \/ c = "sendudp" /\ ne_do_send_udp(ip) /\ UNCHANGED <<ne, configured>>

NotifierSteps ==
  ne2k_driver_notifier \/ ne_dpc \/ ne_receive \/ ne_setup(notifier) \/ ne_transmit(notifier)
UserSteps ==
  ne_setup(user) \/ ne_init \/ wait_for_mac_address \/ ne_transmit(user)

NeNext ==
  \/ NotifierSteps \/ UserSteps
  \/ isr_ne2k_driver
  \/ \E k \in Kinds, ip \in Host : arrive(k, ip)
  \/ \E c \in Commands, ip \in IpAddr : command(c, ip)

NeSpec == NeInit /\ [][NeNext]_ne_vars

-------------------------------------------------------------------------------
(* Properties.                                                                *)

\* What ne_receive hands on is a frame that it has read: p is never used
\* uninitialised.
PacketThere == \A k \in 1 .. Len(passed) : passed[k].kind # "garbage"

\* No frame is handed on twice, and none after a later one.
InOrder == \A j, k \in 1 .. Len(passed) : j < k => passed[j].nr < passed[k].nr

\* As long as the notifier does not come in while the user sets the card up,
\* ne_receive never hands on what it did not read, although it sets the card up
\* again after each frame, and no frame twice or after a later one, also when the
\* user has set the card up in between.
FramesInOrder == cut = {} => PacketThere /\ InOrder

\* As long as the user sends nothing, each answer to an ARP request is transmitted as
\* it was made, also if the user has set the card up while the notifier slept, unless
\* the notifier has come in while page 1 was selected; and each of them leaves the
\* card, except for those that are transmitted while the user has it in loopback mode.
OwnAnswersIntact ==
  "sendudp" \notin given /\ "page" \notin cut =>
    \A k \in 1 .. Len(sent) :
      /\ sent[k].frame = sent[k].asked
      /\ sent[k].left \/ sent[k].during \in Looped
===============================================================================
