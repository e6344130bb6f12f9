-------------------------------- MODULE E1000 --------------------------------
(***************************************************************************)
(* The driver of the e1000 network cards (device/network/e1000): the set   *)
(* up, the receive ring that is polled from the interrupt handler, the     *)
(* buffer between the handler and the InterruptManager's thread, and the   *)
(* transmit ring.  The drivers of the two cards differ in how they read    *)
(* the EEPROM.                                                             *)
(*                                                                         *)
(* The card works concurrently with the driver, with its interrupt handler *)
(* too.  It owns the descriptors from its head register up to its tail     *)
(* register, and none if the two are equal.  Packets are numbered in the   *)
(* order in which the card stores them.                                    *)
(***************************************************************************)
EXTENDS Integers, SequencesExt, FiniteSetsExt

CONSTANTS
  Card,          \* "82540EM" or "82541IP"
  Descriptors,   \* number of descriptors of a ring, 1024
  Capacity,      \* of interruptBuffer, 1024
  MaxPackets,    \* bound: packets that the card receives
  MaxSends       \* bound: packets that are sent

VARIABLES
  phase,         \* place in E1000::initialize()
  mac,           \* the words of the MAC address
  rdh, rdt,      \* head and tail register of the receive ring
  rxTail,        \* HrDefault::tail of the receive ring
  rxIndex,       \* Descriptors::index of the receive ring
  desc,          \* the receive descriptors and their packet buffers
  stored,        \* packets that the card has stored
  full,          \* history: the card has run out of descriptors with packets to poll
  cause,         \* the interrupt cause register
  interrupts,    \* IcBufferedDefault::interrupts, the causes the handler has read
  isr, current,  \* place in trigger() and the descriptor of receivePoll()
  ring,          \* interruptBuffer: [buffer, read, write, size]
  accepted,      \* history: the packets that were pushed into interruptBuffer
  published,     \* history: the packets of the ReceiveEvents
  tdh, tdt, txTail, txIndex,
  txDone,        \* per transmit descriptor: its done bit
  sender,        \* place in sendPacket()
  sends, sent    \* packets that sendPacket() was called with, that the card has sent

rxVars == <<rdh, rdt, rxTail, rxIndex, desc, stored, full>>
irqVars == <<cause, interrupts, isr, current>>
busVars == <<ring, accepted, published>>
txVars == <<tdh, tdt, txTail, txIndex, txDone, sender, sends, sent>>
vars == <<phase, mac, rxVars, irqVars, busVars, txVars>>

Slots == 0 .. Descriptors - 1
After(i) == (i + 1) % Descriptors

Init ==
  /\ phase = "rings" /\ mac = << >>
  /\ rdh = 0 /\ rdt = 0 /\ rxTail = 0 /\ rxIndex = 0
  /\ desc = [i \in Slots |-> [done |-> FALSE, drop |-> FALSE, packet |-> 0]]
  /\ stored = 0 /\ full = FALSE
  /\ cause = {} /\ interrupts = {} /\ isr = "idle" /\ current = 0
  /\ ring = [buffer |-> [i \in 0 .. Capacity - 1 |-> 0], read |-> 0, write |-> 0, size |-> 0]
  /\ accepted = << >> /\ published = << >>
  /\ tdh = 0 /\ tdt = 0 /\ txTail = 0 /\ txIndex = 0
  /\ txDone = [i \in Slots |-> FALSE]
  /\ sender = "idle" /\ sends = 0 /\ sent = 0

-----------------------------------------------------------------------------
(* A register is the set of its bits.  decide() and set() collect the bits  *)
(* to clear and to set, applyTo() combines them with the old value.         *)
BitsOf(n, shift) == {i \in shift .. shift + 7 : (n \div 2^(i - shift)) % 2 = 1}
Set(values, mask) == [on |-> values \intersect mask, off |-> mask]
ApplyTo(target, m) == (target \ m.off) \union m.on

(* setAddress() shifts the address by two for both cards, and masks bits    *)
(* 8 to 15 for one and 2 to 9 for the other.                                *)
AddressField == IF Card = "82540EM" THEN 8 .. 15 ELSE 2 .. 9
setAddress(address) == Set(BitsOf(address, 2), AddressField)

(* The word that the card reads: its number is in the address field.        *)
readData(address) ==
  LET eerd == ApplyTo({}, setAddress(address)) \intersect AddressField
  IN  MapThenSumSet(LAMBDA i : 2^(i - Min(AddressField)), eerd)

loadMac == [i \in 1 .. 3 |-> readData(i - 1)]

(* E1000::initialize(): the rings, the controls, which enable the receiver, *)
(* the MAC address and the interrupt.  Causes from before are cleared.      *)
InitRings ==
  /\ phase = "rings"
  /\ rdt' = Descriptors - 1
  /\ phase' = "controls"
  /\ UNCHANGED <<mac, rdh, rxTail, rxIndex, desc, stored, full, irqVars, busVars, txVars>>

SetControls ==
  /\ phase = "controls"
  /\ phase' = "mac"
  /\ UNCHANGED <<mac, rxVars, irqVars, busVars, txVars>>

LoadMac ==
  /\ phase = "mac"
  /\ mac' = loadMac
  /\ phase' = "plugin"
  /\ UNCHANGED <<rxVars, irqVars, busVars, txVars>>

Plugin ==
  /\ phase = "plugin"
  /\ phase' = "clear"
  /\ UNCHANGED <<mac, rxVars, irqVars, busVars, txVars>>

ClearCauses ==
  /\ phase = "clear" /\ isr = "idle"
  /\ interrupts' = cause /\ cause' = {}
  /\ phase' = "ready"
  /\ UNCHANGED <<mac, rxVars, isr, current, busVars, txVars>>

-----------------------------------------------------------------------------
(* The card stores a packet, or drops it for want of a descriptor.  drop    *)
(* says that the packet is short, in error or not complete.                 *)
StorePacket(drop) ==
  /\ phase \in {"mac", "plugin", "clear", "ready"}
  /\ stored < MaxPackets
  /\ rdh # rdt
  /\ desc' = [desc EXCEPT ![rdh] = [done |-> TRUE, drop |-> drop, packet |-> stored + 1]]
  /\ stored' = stored + 1
  /\ rdh' = After(rdh)
  /\ full' = (full \/ rdh' = rdt)
  /\ cause' = cause \union {"timer"}
       \union (IF (rdt - rdh') % Descriptors = Descriptors \div 2 THEN {"threshold"} ELSE {})
  /\ UNCHANGED <<phase, mac, rdt, rxTail, rxIndex, interrupts, isr, current, busVars, txVars>>

Overrun ==
  /\ phase \in {"mac", "plugin", "clear", "ready"}
  /\ rdh = rdt
  /\ cause' = cause \union {"overrun"}
  /\ UNCHANGED <<phase, mac, rxVars, interrupts, isr, current, busVars, txVars>>

-----------------------------------------------------------------------------
(* trigger(): read the causes, poll for one cause, for the other, clear.    *)
Trigger ==
  /\ phase \in {"clear", "ready"} /\ isr = "idle" /\ cause # {}
  /\ interrupts' = cause /\ cause' = {}
  /\ isr' = "threshold"
  /\ UNCHANGED <<phase, mac, rxVars, current, busVars, txVars>>

NextCause == [threshold |-> "timer", timer |-> "clear"]

ReceivePoll ==
  /\ isr \in {"threshold", "timer"}
  /\ IF isr \in interrupts
       THEN isr' = isr \o "Poll" /\ current' = rxIndex /\ interrupts' = interrupts \ {isr}
       ELSE isr' = NextCause[isr] /\ UNCHANGED <<current, interrupts>>
  /\ UNCHANGED <<phase, mac, rxVars, cause, busVars, txVars>>

(* RingBuffer::push(), which does not test whether there is room.           *)
push(i) ==
  [buffer |-> [ring.buffer EXCEPT ![ring.write] = i],
   read |-> ring.read, write |-> (ring.write + 1) % Capacity, size |-> ring.size + 1]

(* HrDefault::updateTail()                                                  *)
updateTail(tail) == After(tail)

PollEnd ==
  /\ ~desc[current].done
  /\ isr' = IF isr = "thresholdPoll" THEN "timer" ELSE "clear"
  /\ UNCHANGED <<rdt, rxTail, rxIndex, desc, ring, accepted>>

(* Variant: the descriptor is given back without going on to the next.      *)
PollDescriptorStay ==
  /\ desc[current].done
  /\ IF desc[current].drop
       THEN UNCHANGED <<ring, accepted>>
       ELSE ring' = push(current) /\ accepted' = Append(accepted, desc[current].packet)
  /\ desc' = [desc EXCEPT ![current].done = FALSE]
  /\ rxTail' = updateTail(rxTail) /\ rdt' = rxTail'
  /\ UNCHANGED <<isr, rxIndex>>

PollDescriptor ==
  /\ desc[current].done
  /\ IF desc[current].drop
       THEN UNCHANGED <<ring, accepted>>
       ELSE ring' = push(current) /\ accepted' = Append(accepted, desc[current].packet)
  /\ desc' = [desc EXCEPT ![current].done = FALSE]
  /\ rxIndex' = After(rxIndex)
  /\ rxTail' = updateTail(rxTail) /\ rdt' = rxTail'
  /\ UNCHANGED isr

(* One turn of the loop of receivePoll().  The loop looks at the descriptor *)
(* that was the current one when it began.                                  *)
PollStep ==
  /\ isr \in {"thresholdPoll", "timerPoll"}
  /\ PollEnd \/ PollDescriptor
  /\ UNCHANGED <<phase, mac, rdh, stored, full, cause, interrupts, current, published, txVars>>

TriggerEnd ==
  /\ isr = "clear"
  /\ interrupts' = cause /\ cause' = {}
  /\ isr' = "idle"
  /\ UNCHANGED <<phase, mac, rxVars, current, busVars, txVars>>

(* In the InterruptManager's thread: the packet is copied into an event.    *)
ParseInterruptData ==
  /\ isr = "idle" /\ ring.size > 0
  /\ ring' = [ring EXCEPT !.read = (@ + 1) % Capacity, !.size = @ - 1]
  /\ published' = Append(published, desc[ring.buffer[ring.read]].packet)
  /\ UNCHANGED <<phase, mac, rxVars, irqVars, accepted, txVars>>

-----------------------------------------------------------------------------
(* sendPacket(): fill the descriptor and move the tail, wait for the done   *)
(* bit, which nothing clears, go on to the next descriptor.                 *)
SendPacket ==
  /\ phase = "ready" /\ isr = "idle" /\ sender = "idle" /\ sends < MaxSends
  /\ sends' = sends + 1
  /\ txTail' = updateTail(txTail) /\ tdt' = txTail'
  /\ sender' = "wait"
  /\ UNCHANGED <<phase, mac, rxVars, irqVars, busVars, tdh, txIndex, txDone, sent>>

Transmit ==
  /\ tdh # tdt
  /\ txDone' = [txDone EXCEPT ![tdh] = TRUE]
  /\ tdh' = After(tdh) /\ sent' = sent + 1
  /\ UNCHANGED <<phase, mac, rxVars, irqVars, busVars, tdt, txTail, txIndex, sender, sends>>

SendReturns ==
  /\ isr = "idle" /\ sender = "wait" /\ txDone[txIndex]
  /\ txIndex' = After(txIndex)
  /\ sender' = "idle"
  /\ UNCHANGED <<phase, mac, rxVars, irqVars, busVars, tdh, tdt, txTail, txDone, sends, sent>>

-----------------------------------------------------------------------------
Next ==
  \/ InitRings \/ SetControls \/ LoadMac \/ Plugin \/ ClearCauses
  \/ \E drop \in BOOLEAN : StorePacket(drop)
  \/ Overrun
  \/ Trigger \/ ReceivePoll \/ PollStep \/ TriggerEnd
  \/ ParseInterruptData
  \/ SendPacket \/ Transmit \/ SendReturns

Spec == Init /\ [][Next]_vars

-----------------------------------------------------------------------------
(* The driver's index follows the card's head: the descriptors that are     *)
(* done are the ones from the index up to the head, with their packets in   *)
(* the order of arrival, so none is polled twice, skipped or overwritten.   *)
(* This ends when the card has used up its descriptors: it can then fill    *)
(* the one that receivePoll() has just given back and still looks at.  Until*)
(* then the events are the packets that were accepted, in their order, even *)
(* though their descriptors were given back before they are copied.         *)
PacketsInOrder ==
  LET taken == Cardinality({i \in Slots : desc[i].done}) IN
  ~full =>
    /\ rxIndex = (stored - taken) % Descriptors
    /\ \A k \in 1 .. taken : desc[(rxIndex + k - 1) % Descriptors].packet = stored - taken + k
    /\ stored <= Descriptors => IsPrefix(published, accepted)

(* sendPacket() returns when the card has sent the packet.  The done bits   *)
(* are never cleared, so that from the second round of the ring on it       *)
(* returns at once.                                                         *)
SentOnReturn ==
  sender = "idle" => sent = sends \/ sends > Descriptors
=============================================================================
