----------------------- MODULE InterruptManagerProofs -----------------------
(***************************************************************************)
(* The bytes of a device are parsed in the order of their arrival, for any *)
(* number of devices, any capacity of the ring buffers and any number of   *)
(* bytes.  The inductive invariant says which bytes a ring buffer holds,   *)
(* and where, at every point of pop(): the interrupt handler pushes into   *)
(* the places that pop() does not read, and the store of "size--", which   *)
(* may undo the handler's "size++", only ever makes the size too small.    *)
(***************************************************************************)
EXTENDS InterruptManager, TLAPS

(* The provers get time enough for a slow machine.                          *)
USE SMTT(60)

(* The manager thread has popped a byte of the device and not yet parsed it.*)
InHand(d) == mpc = "parse" /\ handlers[mi] = d

(* The place of the oldest byte that is not parsed, and how many there are. *)
Base(d) == IF InHand(d) THEN (readIndex[d] + Capacity - 1) % Capacity ELSE readIndex[d]

Unparsed(d) == arrived[d] - (IF full[d] THEN 1 ELSE 0) - Len(delivered[d])

(* A ring buffer of the given content: what w, the write index, b, the      *)
(* place of the oldest entry, and n, the number of entries, have to do with *)
(* each other; the entries are numbered from first on.                      *)
Wrap(i) == IF i < Capacity THEN i ELSE i - Capacity

Ring(buf, b, w, n, first) ==
  /\ w = Wrap(b + n)
  /\ \A k \in 0 .. n - 1 : buf[Wrap(b + k)] = first + k

Places == 0 .. Capacity - 1

TypeOK ==
  /\ handlers \in Seq(Devices)
  /\ full \in [Devices -> BOOLEAN] /\ byte \in [Devices -> Nat] /\ arrived \in [Devices -> Nat]
  /\ buffer \in [Devices -> [Places -> Nat]]
  /\ readIndex \in [Devices -> Places] /\ writeIndex \in [Devices -> Places]
  /\ size \in [Devices -> Nat]
  /\ delivered \in [Devices -> Seq(Nat)]
  /\ mpc \in {"yield", "scan", "pop", "parse"} /\ mi \in Nat \ {0} /\ msize \in Nat

(* The status bit announces the byte that arrived last, and the backlog     *)
(* fits into the buffer.                                                    *)
Backlog(d) ==
  /\ full[d] => byte[d] = arrived[d]
  /\ Unparsed(d) \in Nat
  /\ arrived[d] - Len(delivered[d]) <= Capacity

(* The size may be too small, never too large: what is popped is there.     *)
Sizes ==
  /\ \A d \in Devices : size[d] <= Unparsed(d)
  /\ mpc \in {"pop", "parse"} => mi \in 1 .. Len(handlers)
  /\ mpc = "pop" => size[handlers[mi]] >= 1
  /\ mpc = "parse" => msize >= 1 /\ msize <= Unparsed(handlers[mi])

Holds(d) ==
  /\ Ring(buffer[d], Base(d), writeIndex[d], Unparsed(d), Len(delivered[d]) + 1)
  /\ delivered[d] = [i \in 1 .. Len(delivered[d]) |-> i]

Quiet ==
  /\ tpc = "out" /\ TypeOK /\ Sizes
  /\ \A d \in Devices : Backlog(d) /\ Holds(d)

(* As long as no thread calls the handlers.                                 *)
BufferInv == enables \in Nat /\ (enables = 0 => Quiet)

---------------------------------------------------------------------------
(* An index that is wrapped around is a place of the ring buffer.           *)
LEMMA WrapFacts ==
  ASSUME NEW i \in 0 .. 2 * Capacity - 1
  PROVE  i % Capacity = Wrap(i) /\ Wrap(i) \in Places
  <1>0. Capacity \in Nat \ {0}
    BY BufferAssumption
  <1>1. ASSUME NEW q \in Int, NEW r \in 0 .. Capacity - 1
        PROVE  (Capacity * q + r) % Capacity = r
    BY <1>0
  <1>2. CASE i < Capacity
    <2>1. i \in 0 .. Capacity - 1 /\ Capacity * 0 + i = i
      BY <1>0, <1>2
    <2>2. QED
      BY <1>1, <1>2, <2>1 DEF Wrap, Places
  <1>3. CASE ~(i < Capacity)
    <2>1. i - Capacity \in 0 .. Capacity - 1 /\ Capacity * 1 + (i - Capacity) = i
      BY <1>0, <1>3
    <2>2. QED
      BY <1>1, <1>3, <2>1 DEF Wrap, Places
  <1>4. QED
    BY <1>2, <1>3

(* The index that (i + 1) % Capacity leads to, and back.                    *)
LEMMA IndexFacts ==
  ASSUME NEW b \in Places
  PROVE  /\ (b + 1) % Capacity = Wrap(b + 1)
         /\ Wrap(b + 1) \in Places
         /\ (Wrap(b + 1) + Capacity - 1) % Capacity = b
         /\ (b + Capacity - 1) % Capacity \in Places
         /\ Wrap(((b + Capacity - 1) % Capacity) + 1) = b
  <1>0. Capacity \in Nat \ {0} /\ b \in 0 .. Capacity - 1
    BY BufferAssumption DEF Places
  <1>1. b + 1 \in 0 .. 2 * Capacity - 1 /\ b + Capacity - 1 \in 0 .. 2 * Capacity - 1
    BY <1>0
  <1>2. Wrap(b + 1) = IF b + 1 < Capacity THEN b + 1 ELSE 0
    BY <1>0 DEF Wrap
  <1>3. (b + 1) % Capacity = Wrap(b + 1) /\ Wrap(b + 1) \in Places
    BY <1>1, WrapFacts
  <1>4. Wrap(b + 1) + Capacity - 1 \in 0 .. 2 * Capacity - 1
    BY <1>0, <1>2
  <1>5. (Wrap(b + 1) + Capacity - 1) % Capacity = Wrap(Wrap(b + 1) + Capacity - 1)
    BY <1>4, WrapFacts
  <1>6. Wrap(Wrap(b + 1) + Capacity - 1) = b
    BY <1>0, <1>2 DEF Wrap
  <1>7. (b + Capacity - 1) % Capacity = Wrap(b + Capacity - 1) /\ Wrap(b + Capacity - 1) \in Places
    BY <1>1, WrapFacts
  <1>8. Wrap(Wrap(b + Capacity - 1) + 1) = b
    BY <1>0 DEF Wrap
  <1>9. QED
    BY <1>3, <1>5, <1>6, <1>7, <1>8

(* push() into a ring buffer that is not full.                              *)
LEMMA RingPush ==
  ASSUME NEW buf \in [Places -> Nat], NEW b \in Places, NEW w \in Places,
         NEW n \in 0 .. Capacity - 1, NEW first \in Nat, Ring(buf, b, w, n, first)
  PROVE  Ring([buf EXCEPT ![w] = first + n], b, (w + 1) % Capacity, n + 1, first)
  <1>0. Capacity \in Nat \ {0} /\ b \in 0 .. Capacity - 1 /\ w \in 0 .. Capacity - 1
    BY BufferAssumption DEF Places
  <1>1. w = Wrap(b + n) /\ \A k \in 0 .. n - 1 : buf[Wrap(b + k)] = first + k
    BY DEF Ring
  <1>2. (w + 1) % Capacity = Wrap(w + 1)
    BY IndexFacts
  <1>3. Wrap(w + 1) = Wrap(b + (n + 1))
    BY <1>0, <1>1 DEF Wrap
  <1>4. ASSUME NEW k \in 0 .. n - 1
        PROVE  Wrap(b + k) # w
    BY <1>0, <1>1 DEF Wrap
  <1>5. ASSUME NEW k \in 0 .. n
        PROVE  [buf EXCEPT ![w] = first + n][Wrap(b + k)] = first + k
    <2>1. CASE k = n
      BY <1>1, <2>1
    <2>2. CASE k # n
      <3>1. k \in 0 .. n - 1
        BY <2>2
      <3>2. Wrap(b + k) \in Places
        BY <1>0 DEF Wrap, Places
      <3>3. Wrap(b + k) # w
        BY <1>4, <3>1
      <3>4. QED
        BY <1>1, <3>1, <3>2, <3>3
    <2>3. QED
      BY <2>1, <2>2
  <1>6. 0 .. (n + 1) - 1 = 0 .. n
    OBVIOUS
  <1>7. QED
    BY <1>2, <1>3, <1>5, <1>6 DEF Ring

(* What pop() takes out of one that is not empty, and what it leaves.       *)
LEMMA RingPop ==
  ASSUME NEW buf, NEW b \in Places, NEW w \in Places,
         NEW n \in 1 .. Capacity, NEW first \in Nat, Ring(buf, b, w, n, first)
  PROVE  /\ buf[b] = first
         /\ Ring(buf, Wrap(b + 1), w, n - 1, first + 1)
  <1>0. Capacity \in Nat \ {0} /\ b \in 0 .. Capacity - 1
    BY BufferAssumption DEF Places
  <1>1. w = Wrap(b + n) /\ \A k \in 0 .. n - 1 : buf[Wrap(b + k)] = first + k
    BY DEF Ring
  <1>2. Wrap(b + 0) = b /\ 0 \in 0 .. n - 1
    BY <1>0 DEF Wrap
  <1>3. buf[b] = first
    BY <1>1, <1>2
  <1>4. w = Wrap(Wrap(b + 1) + (n - 1))
    BY <1>0, <1>1 DEF Wrap
  <1>5. ASSUME NEW k \in 0 .. (n - 1) - 1
        PROVE  buf[Wrap(Wrap(b + 1) + k)] = (first + 1) + k
    <2>1. k + 1 \in 0 .. n - 1 /\ first + (k + 1) = (first + 1) + k
      OBVIOUS
    <2>2. Wrap(Wrap(b + 1) + k) = Wrap(b + (k + 1))
      BY <1>0, <2>1 DEF Wrap
    <2>3. QED
      BY <1>1, <2>1, <2>2
  <1>6. QED
    BY <1>3, <1>4, <1>5 DEF Ring

---------------------------------------------------------------------------
(* A device that a step has nothing to do with.                             *)
LEMMA DeviceKept ==
  ASSUME NEW e \in Devices, Backlog(e), Holds(e),
         arrived'[e] = arrived[e], full'[e] = full[e], byte'[e] = byte[e],
         delivered'[e] = delivered[e], buffer'[e] = buffer[e],
         readIndex'[e] = readIndex[e], writeIndex'[e] = writeIndex[e],
         InHand(e)' <=> InHand(e)
  PROVE  Backlog(e)' /\ Holds(e)' /\ Unparsed(e)' = Unparsed(e)
  <1>1. Unparsed(e)' = Unparsed(e)
    BY DEF Unparsed
  <1>2. Base(e)' = Base(e)
    BY ZenonT(60) DEF Base
  <1>3. Backlog(e)'
    BY <1>1 DEF Backlog
  <1>4. Holds(e)'
    BY <1>1, <1>2 DEF Holds, Ring
  <1>5. QED
    BY <1>1, <1>3, <1>4

(* a bytes have arrived, l are parsed, u are in a buffer of c places.       *)
LEMMA Counting ==
  ASSUME NEW a \in Nat, NEW l \in Nat, NEW u \in Nat, NEW c \in Nat, a - l <= c
  PROVE  /\ u = a - 1 - l => /\ u \in 0 .. c - 1 /\ u <= c - 1 /\ u <= c /\ u + 1 \in Nat
                             /\ a = l + u + 1 /\ a = (l + 1) + u /\ a - 0 - l = u + 1
         /\ u = a - 0 - l => u <= c /\ a = l + u
  OBVIOUS

(* What the invariant says of the counters of one device.                   *)
LEMMA CountFacts ==
  ASSUME Quiet, NEW d \in Devices
  PROVE  /\ arrived[d] \in Nat /\ full[d] \in BOOLEAN /\ byte[d] \in Nat /\ size[d] \in Nat
         /\ delivered[d] \in Seq(Nat) /\ Len(delivered[d]) \in Nat
         /\ buffer[d] \in [Places -> Nat] /\ readIndex[d] \in Places /\ writeIndex[d] \in Places
         /\ Base(d) \in Places
         /\ Unparsed(d) \in Nat /\ Unparsed(d) <= Capacity
         /\ full[d] => Unparsed(d) <= Capacity - 1 /\ arrived[d] = Len(delivered[d]) + Unparsed(d) + 1
         /\ ~full[d] => arrived[d] = Len(delivered[d]) + Unparsed(d)
         /\ size[d] <= Unparsed(d)
  <1>1. /\ arrived[d] \in Nat /\ full[d] \in BOOLEAN /\ byte[d] \in Nat /\ size[d] \in Nat
        /\ delivered[d] \in Seq(Nat) /\ buffer[d] \in [Places -> Nat]
        /\ readIndex[d] \in Places /\ writeIndex[d] \in Places
    BY DEF Quiet, TypeOK
  <1>2. Len(delivered[d]) \in Nat
    BY <1>1
  <1>3. Base(d) \in Places
    BY <1>1, IndexFacts DEF Base
  <1>4. /\ Unparsed(d) \in Nat /\ arrived[d] - Len(delivered[d]) <= Capacity
        /\ size[d] <= Unparsed(d)
    BY DEF Quiet, Backlog, Sizes
  <1>5. Unparsed(d) = arrived[d] - (IF full[d] THEN 1 ELSE 0) - Len(delivered[d])
    BY DEF Unparsed
  <1>6. Capacity \in Nat
    BY BufferAssumption
  <1>7. ASSUME full[d]
        PROVE  /\ Unparsed(d) <= Capacity - 1 /\ Unparsed(d) <= Capacity
               /\ arrived[d] = Len(delivered[d]) + Unparsed(d) + 1
    <2>1. Unparsed(d) = arrived[d] - 1 - Len(delivered[d])
      BY <1>5, <1>7, ZenonT(60)
    <2>2. arrived[d] \in Nat
      BY <1>1
    <2> DEFINE a == arrived[d]
               l == Len(delivered[d])
               u == Unparsed(d)
    <2>3. a \in Nat /\ l \in Nat /\ u \in Nat /\ a - l <= Capacity
      BY <1>2, <1>4, <2>2, ZenonT(60)
    <2>4. u = a - 1 - l
      BY <2>1
    <2> HIDE DEF a, l, u
    <2>5. u <= Capacity - 1 /\ u <= Capacity /\ a = l + u + 1
      BY <1>6, <2>3, <2>4, Counting
    <2>6. QED
      BY <2>5, ZenonT(60) DEF a, l, u
  <1>8. ASSUME ~full[d]
        PROVE  /\ Unparsed(d) <= Capacity
               /\ arrived[d] = Len(delivered[d]) + Unparsed(d)
    <2>1. Unparsed(d) = arrived[d] - 0 - Len(delivered[d])
      BY <1>5, <1>8, ZenonT(60)
    <2>2. arrived[d] \in Nat
      BY <1>1
    <2> DEFINE a == arrived[d]
               l == Len(delivered[d])
               u == Unparsed(d)
    <2>3. a \in Nat /\ l \in Nat /\ u \in Nat /\ a - l <= Capacity
      BY <1>2, <1>4, <2>2, ZenonT(60)
    <2>4. u = a - 0 - l
      BY <2>1
    <2> HIDE DEF a, l, u
    <2>5. u <= Capacity /\ a = l + u
      BY <1>6, <2>3, <2>4, Counting
    <2>6. QED
      BY <2>5, ZenonT(60) DEF a, l, u
  <1>9. QED
    BY <1>1, <1>2, <1>3, <1>4, <1>7, <1>8, ZenonT(60)

(* registerInterruptHandler() preserves the invariant.                      *)
LEMMA RegisterKeeps ==
  ASSUME Quiet, NEW d \in Devices, RegisterInterruptHandler(d)
  PROVE  Quiet'
  <1>0. tpc = "out" /\ TypeOK /\ Sizes /\ \A e \in Devices : Backlog(e) /\ Holds(e)
    BY DEF Quiet
  <1>1. /\ handlers' = Append(handlers, d)
        /\ UNCHANGED <<full, byte, arrived, buffer, readIndex, writeIndex, size, delivered,
                       mpc, mi, msize, tpc>>
    BY DEF RegisterInterruptHandler, deviceVars, ringVars, managerVars, threadVars
  <1>2. /\ handlers' \in Seq(Devices) /\ Len(handlers') = Len(handlers) + 1
        /\ \A i \in 1 .. Len(handlers) : handlers'[i] = handlers[i]
    BY <1>0, <1>1 DEF TypeOK
  <1>3. mpc \in {"pop", "parse"} =>
          mi \in 1 .. Len(handlers) /\ mi \in 1 .. Len(handlers') /\ handlers'[mi] = handlers[mi]
    <2>1. ASSUME mpc \in {"pop", "parse"} PROVE mi \in 1 .. Len(handlers)
      BY <1>0, <2>1, ZenonT(60) DEF Sizes
    <2>2. Len(handlers) \in Nat
      BY <1>0 DEF TypeOK
    <2>3. ASSUME mi \in 1 .. Len(handlers) PROVE mi \in 1 .. Len(handlers')
      BY <1>2, <2>2, <2>3
    <2>4. QED
      BY <1>2, <2>1, <2>3, ZenonT(60)
  <1>4. ASSUME NEW e \in Devices
        PROVE  Backlog(e)' /\ Holds(e)' /\ Unparsed(e)' = Unparsed(e)
    <2>1. InHand(e)' <=> InHand(e)
      BY <1>1, <1>3 DEF InHand
    <2>2. QED
      BY <1>0, <1>1, <2>1, DeviceKept, ZenonT(60)
  <1>5. TypeOK'
    BY <1>0, <1>1, <1>2 DEF TypeOK
  <1>6. mpc = "parse" => Unparsed(handlers[mi])' = Unparsed(handlers[mi])
    BY <1>1, <1>3 DEF Unparsed
  <1>7. Sizes'
    BY <1>0, <1>1, <1>3, <1>4, <1>6 DEF Sizes
  <1>8. QED
    BY <1>0, <1>1, <1>4, <1>5, <1>7 DEF Quiet

(* A byte that arrives at the device preserves the invariant.               *)
LEMMA ArriveKeeps ==
  ASSUME Quiet, NEW d \in Devices, Arrive(d)
  PROVE  Quiet'
  <1>0. tpc = "out" /\ TypeOK /\ Sizes /\ \A e \in Devices : Backlog(e) /\ Holds(e)
    BY DEF Quiet
  <1>1. /\ ~full[d] /\ arrived[d] - Len(delivered[d]) < Capacity
        /\ arrived' = [arrived EXCEPT ![d] = @ + 1] /\ full' = [full EXCEPT ![d] = TRUE]
        /\ byte' = [byte EXCEPT ![d] = arrived[d] + 1]
        /\ UNCHANGED <<handlers, buffer, readIndex, writeIndex, size, delivered, mpc, mi, msize, tpc>>
    BY DEF Arrive, ringVars, managerVars, threadVars
  <1>2. \A e \in Devices :
          /\ arrived'[e] = IF e = d THEN arrived[d] + 1 ELSE arrived[e]
          /\ full'[e] = IF e = d THEN TRUE ELSE full[e]
          /\ byte'[e] = IF e = d THEN arrived[d] + 1 ELSE byte[e]
    BY <1>0, <1>1 DEF TypeOK
  <1>3. \A e \in Devices : InHand(e)' <=> InHand(e)
    BY <1>1 DEF InHand
  <1>4. /\ arrived[d] \in Nat /\ Len(delivered[d]) \in Nat /\ Capacity \in Nat
        /\ Unparsed(d) = arrived[d] - Len(delivered[d]) /\ Unparsed(d) \in Nat
    BY <1>1, CountFacts, BufferAssumption DEF Unparsed
  <1>5. Unparsed(d)' = Unparsed(d)
    <2>1. Unparsed(d)' = (arrived[d] + 1) - 1 - Len(delivered[d])
      BY <1>1, <1>2, ZenonT(60) DEF Unparsed
    <2>2. QED
      BY <1>4, <2>1
  <1>6. Backlog(d)'
    <2>1. arrived'[d] = arrived[d] + 1 /\ byte'[d] = arrived[d] + 1 /\ delivered' = delivered
      BY <1>1, <1>2, ZenonT(60)
    <2>2. (arrived[d] + 1) - Len(delivered[d]) <= Capacity
      BY <1>1, <1>4
    <2>3. QED
      BY <1>4, <1>5, <2>1, <2>2, ZenonT(60) DEF Backlog
  <1>7. Base(d)' = Base(d)
    BY <1>1, <1>3, ZenonT(60) DEF Base
  <1>8. Holds(d)'
    BY <1>0, <1>1, <1>5, <1>7 DEF Holds, Ring
  <1>9. ASSUME NEW e \in Devices
        PROVE  Backlog(e)' /\ Holds(e)' /\ Unparsed(e)' = Unparsed(e)
    <2>1. CASE e = d
      BY <1>5, <1>6, <1>8, <2>1, ZenonT(60)
    <2>2. CASE e # d
      BY <1>0, <1>1, <1>2, <1>3, <2>2, DeviceKept, ZenonT(60)
    <2>3. QED
      BY <2>1, <2>2
  <1>10. TypeOK'
    BY <1>0, <1>1, <1>4 DEF TypeOK
  <1>11. mpc = "parse" => handlers[mi] \in Devices
    BY <1>0 DEF TypeOK, Sizes
  <1>12. mpc = "parse" => Unparsed(handlers[mi])' = Unparsed(handlers[mi])
    <2>1. handlers' = handlers /\ mi' = mi
      BY <1>1
    <2>2. QED
      BY <1>9, <1>11, <2>1
  <1>13. Sizes'
    BY <1>0, <1>1, <1>9, <1>12 DEF Sizes
  <1>14. QED
    BY <1>0, <1>1, <1>9, <1>10, <1>13 DEF Quiet

(* The handler: push() is atomic for the manager thread.                    *)
LEMMA TriggerKeeps ==
  ASSUME Quiet, NEW d \in Devices, Trigger(d)
  PROVE  Quiet'
  <1>0. tpc = "out" /\ TypeOK /\ Sizes /\ \A e \in Devices : Backlog(e) /\ Holds(e)
    BY DEF Quiet
  <1>1. UNCHANGED <<handlers, byte, arrived, delivered, mpc, mi, msize, tpc>>
    BY DEF Trigger, managerVars, threadVars
  <1>2. \A e \in Devices : InHand(e)' <=> InHand(e)
    BY <1>1 DEF InHand
  <1>3. CASE ~full[d]
    <2>1. UNCHANGED <<buffer, readIndex, writeIndex, size, full>>
      BY <1>3, ZenonT(60) DEF Trigger, ringVars
    <2>2. \A e \in Devices : Backlog(e)' /\ Holds(e)' /\ Unparsed(e)' = Unparsed(e)
      BY <1>0, <1>1, <1>2, <2>1, DeviceKept, ZenonT(60)
    <2>3. TypeOK'
      BY <1>0, <1>1, <2>1 DEF TypeOK
    <2>4. Sizes'
      BY <1>0, <1>1, <2>1 DEF Sizes, Unparsed
    <2>5. QED
      BY <1>0, <1>1, <2>2, <2>3, <2>4 DEF Quiet
  <1>4. CASE full[d]
    <2> DEFINE w == writeIndex[d]
               n == Unparsed(d)
               first == Len(delivered[d]) + 1
    <2>1. /\ buffer' = [buffer EXCEPT ![d][w] = byte[d]]
          /\ writeIndex' = [writeIndex EXCEPT ![d] = (w + 1) % Capacity]
          /\ size' = [size EXCEPT ![d] = size[d] + 1]
          /\ full' = [full EXCEPT ![d] = FALSE] /\ readIndex' = readIndex
      BY <1>4, ZenonT(60) DEF Trigger, Push
    <2>2. \A e \in Devices :
            /\ buffer'[e] = IF e = d THEN [buffer[d] EXCEPT ![w] = byte[d]] ELSE buffer[e]
            /\ writeIndex'[e] = IF e = d THEN (w + 1) % Capacity ELSE writeIndex[e]
            /\ size'[e] = IF e = d THEN size[d] + 1 ELSE size[e]
            /\ full'[e] = IF e = d THEN FALSE ELSE full[e]
      BY <1>0, <2>1 DEF TypeOK
    <2>3. /\ n \in 0 .. Capacity - 1 /\ first \in Nat /\ byte[d] = first + n /\ w \in Places
          /\ Base(d) \in Places /\ buffer[d] \in [Places -> Nat] /\ size[d] \in Nat
          /\ Capacity \in Nat /\ size[d] <= n /\ Len(delivered[d]) \in Nat
          /\ arrived[d] - 0 - Len(delivered[d]) = n + 1 /\ n + 1 \in Nat
      <3>1. /\ n \in Nat /\ n <= Capacity - 1 /\ arrived[d] = Len(delivered[d]) + n + 1
            /\ Len(delivered[d]) \in Nat /\ w \in Places /\ Base(d) \in Places
            /\ buffer[d] \in [Places -> Nat] /\ size[d] \in Nat /\ size[d] <= n
        BY <1>4, CountFacts
      <3>2. byte[d] = arrived[d]
        BY <1>0, <1>4 DEF Backlog
      <3>3. Capacity \in Nat
        BY BufferAssumption
      <3>4. ASSUME NEW l \in Nat, NEW m \in Nat, NEW c \in Nat, m <= c - 1
            PROVE  /\ m \in 0 .. c - 1 /\ l + 1 \in Nat /\ l + m + 1 = (l + 1) + m
                   /\ (l + m + 1) - 0 - l = m + 1 /\ m + 1 \in Nat
        BY <3>4
      <3>5. /\ n \in 0 .. Capacity - 1 /\ first \in Nat /\ Len(delivered[d]) + n + 1 = first + n
            /\ (Len(delivered[d]) + n + 1) - 0 - Len(delivered[d]) = n + 1 /\ n + 1 \in Nat
        BY <3>1, <3>3, <3>4, ZenonT(60)
      <3>6. QED
        BY <3>1, <3>2, <3>3, <3>5, ZenonT(60)
    <2> HIDE DEF n, first, w
    <2>4. Unparsed(d)' = n + 1
      <3>1. Unparsed(d)' = arrived[d] - 0 - Len(delivered[d])
        BY <1>1, <2>2, ZenonT(60) DEF Unparsed
      <3>2. QED
        BY <2>3, <3>1, ZenonT(60)
    <2>5. Base(d)' = Base(d)
      BY <1>2, <2>1, ZenonT(60) DEF Base
    <2>6. Backlog(d)'
      <3>1. Backlog(d) /\ ~full'[d] /\ n + 1 \in Nat
        BY <1>0, <2>2, <2>3, ZenonT(60)
      <3>2. QED
        BY <1>1, <2>4, <3>1, ZenonT(60) DEF Backlog
    <2>7. Holds(d)'
      <3>1. Ring(buffer[d], Base(d), w, n, first) /\ delivered[d] = [i \in 1 .. Len(delivered[d]) |-> i]
        BY <1>0, ZenonT(60) DEF Holds, n, w, first
      <3>2. Ring([buffer[d] EXCEPT ![w] = first + n], Base(d), (w + 1) % Capacity, n + 1, first)
        BY <2>3, <3>1, RingPush, ZenonT(60)
      <3>3. buffer'[d] = [buffer[d] EXCEPT ![w] = first + n] /\ writeIndex'[d] = (w + 1) % Capacity
        BY <2>2, <2>3, ZenonT(60)
      <3>4. QED
        BY <1>1, <2>4, <2>5, <3>1, <3>2, <3>3, ZenonT(60) DEF Holds, first
    <2>8. ASSUME NEW e \in Devices, e # d
          PROVE  Backlog(e)' /\ Holds(e)' /\ Unparsed(e)' = Unparsed(e)
      BY <1>0, <1>1, <1>2, <2>1, <2>2, <2>8, DeviceKept, ZenonT(60)
    <2>9. TypeOK'
      <3>1. buffer' \in [Devices -> [Places -> Nat]]
        <4>1. byte[d] \in Nat /\ buffer \in [Devices -> [Places -> Nat]]
          BY <1>0 DEF TypeOK
        <4>2. QED
          BY <2>1, <2>3, <4>1
      <3>2. writeIndex' \in [Devices -> Places]
        BY <1>0, <2>1, <2>3, IndexFacts DEF TypeOK
      <3>3. size' \in [Devices -> Nat] /\ full' \in [Devices -> BOOLEAN]
        BY <1>0, <2>1, <2>3 DEF TypeOK
      <3>4. QED
        BY <1>0, <1>1, <2>1, <3>1, <3>2, <3>3 DEF TypeOK
    <2>10. Sizes'
      <3>1. \A e \in Devices : size'[e] <= Unparsed(e)' /\ size[e] <= size'[e]
                               /\ Unparsed(e) <= Unparsed(e)' /\ Unparsed(e)' \in Nat
        <4>1. ASSUME NEW e \in Devices, e = d
              PROVE  size'[e] <= Unparsed(e)' /\ size[e] <= size'[e]
                     /\ Unparsed(e) <= Unparsed(e)' /\ Unparsed(e)' \in Nat
          <5>1. size'[d] = size[d] + 1 /\ Unparsed(d) = n
            BY <2>2, ZenonT(60) DEF n
          <5>2. size[d] \in Nat /\ n \in Nat /\ size[d] <= n
            BY <2>3
          <5>3. size[d] + 1 <= n + 1 /\ size[d] <= size[d] + 1 /\ n <= n + 1 /\ n + 1 \in Nat
            BY <5>2
          <5>4. QED
            BY <2>4, <4>1, <5>1, <5>3, ZenonT(60)
        <4>2. ASSUME NEW e \in Devices, e # d
              PROVE  size'[e] <= Unparsed(e)' /\ size[e] <= size'[e]
                     /\ Unparsed(e) <= Unparsed(e)' /\ Unparsed(e)' \in Nat
          <5>1. size'[e] = size[e] /\ Unparsed(e)' = Unparsed(e)
            BY <2>2, <2>8, <4>2, ZenonT(60)
          <5>2. size[e] \in Nat /\ Unparsed(e) \in Nat /\ size[e] <= Unparsed(e)
            BY CountFacts
          <5>3. QED
            BY <5>1, <5>2
        <4>3. QED
          BY <4>1, <4>2
      <3>2. mpc \in {"pop", "parse"} => mi \in 1 .. Len(handlers) /\ handlers[mi] \in Devices
        BY <1>0 DEF Sizes, TypeOK
      <3>3. mpc = "pop" => size'[handlers[mi]] >= 1
        <4>1. SUFFICES ASSUME mpc = "pop" PROVE size'[handlers[mi]] >= 1
          OBVIOUS
        <4>2. size[handlers[mi]] >= 1 /\ size[handlers[mi]] <= size'[handlers[mi]]
          BY <1>0, <3>1, <3>2, <4>1 DEF Sizes
        <4>3. size[handlers[mi]] \in Nat /\ size'[handlers[mi]] \in Nat
          BY <1>0, <2>9, <3>2, <4>1 DEF TypeOK
        <4>4. QED
          BY <4>2, <4>3
      <3>4. mpc = "parse" => msize >= 1 /\ msize <= Unparsed(handlers[mi])'
        <4>1. SUFFICES ASSUME mpc = "parse" PROVE msize >= 1 /\ msize <= Unparsed(handlers[mi])'
          OBVIOUS
        <4> DEFINE e == handlers[mi]
        <4>2. e \in Devices /\ e' = e /\ msize >= 1 /\ msize <= Unparsed(e) /\ msize \in Nat
          BY <1>0, <1>1, <3>2, <4>1 DEF Sizes, TypeOK
        <4>3. Unparsed(e)' = arrived'[e] - (IF full'[e] THEN 1 ELSE 0) - Len(delivered'[e])
          BY <4>2 DEF Unparsed
        <4> HIDE DEF e
        <4>4. ASSUME NEW f \in Devices, f = e
              PROVE  Unparsed(f) <= Unparsed(f)' /\ Unparsed(f)' \in Nat /\ Unparsed(f) \in Nat
          BY <3>1, CountFacts
        <4>5. QED
          BY <4>2, <4>3, <4>4 DEF Unparsed, e
      <3>5. QED
        BY <1>1, <3>1, <3>2, <3>3, <3>4 DEF Sizes
    <2>11. QED
      BY <1>0, <1>1, <2>6, <2>7, <2>8, <2>9, <2>10 DEF Quiet
  <1>5. QED
    BY <1>3, <1>4

(* The manager thread goes on to the next handler, or starts again.         *)
LEMMA ScanKeeps ==
  ASSUME Quiet, Acquire \/ Scan
  PROVE  Quiet'
  <1>0. tpc = "out" /\ TypeOK /\ Sizes /\ \A e \in Devices : Backlog(e) /\ Holds(e)
    BY DEF Quiet
  <1>1. /\ UNCHANGED <<handlers, full, byte, arrived, buffer, readIndex, writeIndex, size,
                       delivered, msize, tpc>>
        /\ mpc \in {"yield", "scan"}
    BY DEF Acquire, Scan, deviceVars, ringVars, threadVars
  <1>2. /\ mpc' \in {"yield", "scan", "pop"} /\ mi' \in Nat \ {0}
        /\ mpc' = "pop" => mi' \in 1 .. Len(handlers) /\ size[handlers[mi']] # 0
    <2>1. CASE Acquire
      BY <2>1 DEF Acquire
    <2>2. CASE Scan /\ mi > Len(handlers)
      BY <1>0, <2>2, ZenonT(60) DEF Scan, TypeOK
    <2>3. CASE Scan /\ ~(mi > Len(handlers))
      <3>1. /\ mpc' = IF size[handlers[mi]] # 0 THEN "pop" ELSE "scan"
            /\ mi' = IF size[handlers[mi]] # 0 THEN mi ELSE mi + 1
        BY <2>3, ZenonT(60) DEF Scan
      <3>2. mi \in Nat \ {0} /\ Len(handlers) \in Nat
        BY <1>0 DEF TypeOK
      <3>3. mi \in 1 .. Len(handlers) /\ mi + 1 \in Nat \ {0}
        BY <2>3, <3>2
      <3>4. QED
        BY <3>1, <3>2, <3>3
    <2>4. QED
      BY <2>1, <2>2, <2>3
  <1>3. \A e \in Devices : InHand(e)' <=> InHand(e)
    BY <1>1, <1>2 DEF InHand
  <1>4. ASSUME NEW e \in Devices
        PROVE  Backlog(e)' /\ Holds(e)' /\ Unparsed(e)' = Unparsed(e)
    BY <1>0, <1>1, <1>3, DeviceKept, ZenonT(60)
  <1>5. TypeOK'
    BY <1>0, <1>1, <1>2 DEF TypeOK
  <1>6. mpc' = "pop" => size[handlers[mi']] >= 1
    BY <1>0, <1>2 DEF TypeOK
  <1>7. Sizes'
    BY <1>0, <1>1, <1>2, <1>4, <1>6, ZenonT(60) DEF Sizes
  <1>8. QED
    BY <1>0, <1>1, <1>4, <1>5, <1>7 DEF Quiet

(* pop() moves the read index; the byte is still where it was.              *)
LEMMA PopKeeps ==
  ASSUME Quiet, Pop
  PROVE  Quiet'
  <1> DEFINE d == handlers[mi]
  <1>0. tpc = "out" /\ TypeOK /\ Sizes /\ \A e \in Devices : Backlog(e) /\ Holds(e)
    BY DEF Quiet
  <1>1. /\ mpc = "pop" /\ mpc' = "parse" /\ msize' = size[d]
        /\ readIndex' = [readIndex EXCEPT ![d] = (readIndex[d] + 1) % Capacity]
        /\ UNCHANGED <<handlers, full, byte, arrived, buffer, writeIndex, size, delivered, mi, tpc>>
    BY DEF Pop, deviceVars, threadVars
  <1>2. mi \in 1 .. Len(handlers) /\ d \in Devices /\ size[d] >= 1
    BY <1>0, <1>1 DEF Sizes, TypeOK
  <1>3. /\ readIndex[d] \in Places /\ size[d] \in Nat /\ size[d] <= Unparsed(d)
        /\ Unparsed(d) \in Nat
    BY <1>2, CountFacts
  <1>4. d' = d
    BY <1>1, ZenonT(60)
  <1> HIDE DEF d
  <1>5. \A e \in Devices :
          readIndex'[e] = IF e = d THEN (readIndex[d] + 1) % Capacity ELSE readIndex[e]
    BY <1>0, <1>1 DEF TypeOK
  <1>6. \A e \in Devices : (InHand(e)' <=> e = d) /\ ~InHand(e)
    BY <1>1, <1>4 DEF InHand, d
  <1>7. Base(d) = readIndex[d] /\ Base(d)' = readIndex[d]
    <2>1. Base(d) = readIndex[d]
      BY <1>2, <1>6, ZenonT(60) DEF Base
    <2>2. ASSUME NEW e \in Devices, e = d
          PROVE  Base(e)' = (((readIndex[d] + 1) % Capacity) + Capacity - 1) % Capacity
      BY <1>5, <1>6, <2>2, ZenonT(60) DEF Base
    <2>3. (((readIndex[d] + 1) % Capacity) + Capacity - 1) % Capacity = readIndex[d]
      BY <1>3, IndexFacts
    <2>4. \A e \in Devices : e = d => Base(e)' = readIndex[d]
      BY <2>2, <2>3, ZenonT(60)
    <2>5. QED
      BY <1>2, <1>4, <2>1, <2>4
  <1>8. Unparsed(d)' = Unparsed(d)
    BY <1>1, <1>4 DEF Unparsed
  <1>9. Backlog(d)'
    BY <1>0, <1>1, <1>2, <1>4, <1>8 DEF Backlog
  <1>10. Holds(d)'
    <2>1. Holds(d) /\ Base(d)' = Base(d) /\ Unparsed(d)' = Unparsed(d)
      BY <1>0, <1>2, <1>7, <1>8
    <2>2. /\ (buffer[d])' = buffer[d] /\ (writeIndex[d])' = writeIndex[d]
          /\ (delivered[d])' = delivered[d]
      BY <1>1, <1>4
    <2>3. QED
      BY <2>1, <2>2, ZenonT(60) DEF Holds
  <1>11. ASSUME NEW e \in Devices
         PROVE  Backlog(e)' /\ Holds(e)' /\ Unparsed(e)' = Unparsed(e)
    <2>1. CASE e = d
      BY <1>4, <1>8, <1>9, <1>10, <2>1
    <2>2. CASE e # d
      BY <1>0, <1>1, <1>5, <1>6, <2>2, DeviceKept, ZenonT(60)
    <2>3. QED
      BY <2>1, <2>2
  <1>12. TypeOK'
    <2>1. readIndex' \in [Devices -> Places]
      BY <1>0, <1>1, <1>2, <1>3, IndexFacts DEF TypeOK
    <2>2. QED
      BY <1>0, <1>1, <1>3, <2>1 DEF TypeOK
  <1>13. Sizes'
    <2>1. \A e \in Devices : size'[e] <= Unparsed(e)'
      BY <1>0, <1>1, <1>11 DEF Sizes
    <2>2. msize' >= 1 /\ msize' <= Unparsed(d)'
      BY <1>1, <1>2, <1>3, <1>8
    <2>3. QED
      BY <1>1, <1>2, <2>1, <2>2, ZenonT(60) DEF Sizes, d
  <1>14. QED
    BY <1>0, <1>1, <1>11, <1>12, <1>13 DEF Quiet

(* The byte that was popped is the one that is due.                         *)
LEMMA ParseKeeps ==
  ASSUME Quiet, Parse
  PROVE  Quiet'
  <1> DEFINE d == handlers[mi]
             n == Unparsed(d)
             r == readIndex[d]
             b == (r + Capacity - 1) % Capacity
             l == Len(delivered[d])
  <1>0. tpc = "out" /\ TypeOK /\ Sizes /\ \A e \in Devices : Backlog(e) /\ Holds(e)
    BY DEF Quiet
  <1>1. /\ mpc = "parse" /\ mpc' = "scan" /\ msize' = 0 /\ mi' = mi + 1
        /\ size' = [size EXCEPT ![d] = msize - 1]
        /\ delivered' = [delivered EXCEPT ![d] = Append(delivered[d], buffer[d][b])]
        /\ UNCHANGED <<handlers, full, byte, arrived, buffer, readIndex, writeIndex, tpc>>
    BY DEF Parse, deviceVars, threadVars
  <1>2. /\ mi \in 1 .. Len(handlers) /\ d \in Devices /\ msize >= 1 /\ msize <= n
        /\ msize \in Nat /\ mi \in Nat
    BY <1>0, <1>1 DEF Sizes, TypeOK
  <1>3. /\ r \in Places /\ writeIndex[d] \in Places /\ n \in Nat /\ n <= Capacity
        /\ l \in Nat /\ delivered[d] \in Seq(Nat) /\ arrived[d] \in Nat
        /\ full[d] => arrived[d] = l + n + 1
        /\ ~full[d] => arrived[d] = l + n
        /\ full[d] \in BOOLEAN
    BY <1>2, CountFacts, ZenonT(60)
  <1>4. Base(d) = b /\ b \in Places /\ Wrap(b + 1) = r
    BY <1>1, <1>3, IndexFacts, ZenonT(60) DEF Base, InHand
  <1>5. /\ Ring(buffer[d], b, writeIndex[d], n, l + 1)
        /\ delivered[d] = [i \in 1 .. l |-> i]
    BY <1>0, <1>2, <1>4, ZenonT(60) DEF Holds
  <1>6. n \in 1 .. Capacity /\ l + 1 \in Nat /\ n - 1 \in Nat /\ msize - 1 \in Nat /\ msize - 1 <= n - 1
    BY <1>2, <1>3, BufferAssumption
  <1>7. \A e \in Devices : (e = d <=> InHand(e)) /\ ~InHand(e)'
    BY <1>1 DEF InHand
  <1> HIDE DEF d, n, r, b, l
  <1>8. buffer[d][b] = l + 1 /\ Ring(buffer[d], r, writeIndex[d], n - 1, (l + 1) + 1)
    <2>1. /\ b \in Places /\ writeIndex[d] \in Places /\ n \in 1 .. Capacity /\ l + 1 \in Nat
          /\ Ring(buffer[d], b, writeIndex[d], n, l + 1)
      BY <1>3, <1>4, <1>5, <1>6, ZenonT(60)
    <2>2. /\ buffer[d][b] = l + 1
          /\ Ring(buffer[d], Wrap(b + 1), writeIndex[d], n - 1, (l + 1) + 1)
      BY <2>1, RingPop, ZenonT(60)
    <2>3. QED
      BY <1>4, <2>2, ZenonT(60)
  <1>9. \A e \in Devices :
          /\ delivered'[e] = IF e = d THEN Append(delivered[d], l + 1) ELSE delivered[e]
          /\ size'[e] = IF e = d THEN msize - 1 ELSE size[e]
    BY <1>0, <1>1, <1>8 DEF TypeOK
  <1>10. /\ Append(delivered[d], l + 1) \in Seq(Nat) /\ Len(Append(delivered[d], l + 1)) = l + 1
         /\ Append(delivered[d], l + 1) = [i \in 1 .. l + 1 |-> i]
    BY <1>3, <1>5, <1>6 DEF l
  <1>11. ASSUME NEW e \in Devices, e = d
         PROVE  /\ Unparsed(e)' = n - 1 /\ Backlog(e)' /\ Holds(e)'
    <2>1. delivered'[e] = Append(delivered[d], l + 1) /\ Len(delivered'[e]) = l + 1
      BY <1>9, <1>10, <1>11, ZenonT(60)
    <2>2. Unparsed(e)' = n - 1
      <3>1. CASE full[d]
        <4>1. Unparsed(e)' = arrived[d] - 1 - (l + 1)
          BY <1>1, <1>11, <2>1, <3>1, ZenonT(60) DEF Unparsed
        <4>2. arrived[d] = l + n + 1
          BY <1>3, <3>1, ZenonT(60)
        <4>3. (l + n + 1) - 1 - (l + 1) = n - 1
          BY <1>3
        <4>4. QED
          BY <4>1, <4>2, <4>3, ZenonT(60)
      <3>2. CASE ~full[d]
        <4>1. Unparsed(e)' = arrived[d] - 0 - (l + 1)
          BY <1>1, <1>11, <2>1, <3>2, ZenonT(60) DEF Unparsed
        <4>2. arrived[d] = l + n
          BY <1>3, <3>2, ZenonT(60)
        <4>3. (l + n) - 0 - (l + 1) = n - 1
          BY <1>3
        <4>4. QED
          BY <4>1, <4>2, <4>3, ZenonT(60)
      <3>3. QED
        BY <3>1, <3>2
    <2>3. Base(e)' = r
      BY <1>1, <1>7, <1>11, ZenonT(60) DEF Base, r
    <2>4. Holds(e)'
      BY <1>1, <1>8, <1>10, <1>11, <2>1, <2>2, <2>3, ZenonT(60) DEF Holds
    <2>5. arrived[d] - (l + 1) <= Capacity
      <3>1. arrived[d] - l <= Capacity
        BY <1>0, <1>2, ZenonT(60) DEF Backlog, l
      <3>2. QED
        BY <1>3, <3>1, BufferAssumption
    <2>6. full[d] => byte[d] = arrived[d]
      BY <1>0, <1>2, ZenonT(60) DEF Backlog
    <2>7. Backlog(e)'
      BY <1>1, <1>6, <1>11, <2>1, <2>2, <2>5, <2>6, ZenonT(60) DEF Backlog
    <2>8. QED
      BY <2>2, <2>4, <2>7
  <1>12. ASSUME NEW e \in Devices, e # d
         PROVE  Backlog(e)' /\ Holds(e)' /\ Unparsed(e)' = Unparsed(e)
    BY <1>0, <1>1, <1>7, <1>9, <1>12, DeviceKept, ZenonT(60)
  <1>13. TypeOK'
    <2>1. delivered' \in [Devices -> Seq(Nat)]
      BY <1>0, <1>1, <1>8, <1>10, ZenonT(60) DEF TypeOK
    <2>2. size' \in [Devices -> Nat]
      BY <1>0, <1>1, <1>6, ZenonT(60) DEF TypeOK
    <2>3. mi' \in Nat \ {0} /\ msize' \in Nat
      BY <1>1, <1>2
    <2>4. QED
      BY <1>0, <1>1, <2>1, <2>2, <2>3, ZenonT(60) DEF TypeOK
  <1>14. Sizes'
    <2>1. ASSUME NEW e \in Devices PROVE size'[e] <= Unparsed(e)'
      <3>1. CASE e = d
        BY <1>6, <1>9, <1>11, <3>1, ZenonT(60)
      <3>2. CASE e # d
        <4>1. size'[e] = size[e] /\ Unparsed(e)' = Unparsed(e)
          BY <1>9, <1>12, <3>2, ZenonT(60)
        <4>2. QED
          BY <1>0, <4>1, ZenonT(60) DEF Sizes
      <3>3. QED
        BY <3>1, <3>2
    <2>2. QED
      BY <1>1, <2>1 DEF Sizes
  <1>15. \A e \in Devices : Backlog(e)' /\ Holds(e)'
    BY <1>11, <1>12, ZenonT(60)
  <1>16. QED
    BY <1>0, <1>1, <1>13, <1>14, <1>15 DEF Quiet

---------------------------------------------------------------------------
(* The invariant holds before the first handler is registered.              *)
LEMMA InvInit == Init => BufferInv
  <1> SUFFICES ASSUME Init PROVE Quiet
    <2>1. Init => enables = 0
      BY DEF Init
    <2>2. QED
      BY <2>1 DEF BufferInv
  <1>0. Capacity \in Nat \ {0}
    BY BufferAssumption
  <1>1. TypeOK
    BY <1>0 DEF Init, TypeOK, Places
  <1>2. ASSUME NEW d \in Devices
        PROVE  /\ arrived[d] = 0 /\ ~full[d] /\ delivered[d] = << >> /\ Len(delivered[d]) = 0
               /\ readIndex[d] = 0 /\ writeIndex[d] = 0 /\ size[d] = 0 /\ Unparsed(d) = 0 /\ Base(d) = 0
    <2>1. /\ arrived[d] = 0 /\ ~full[d] /\ delivered[d] = << >> /\ Len(delivered[d]) = 0
          /\ readIndex[d] = 0 /\ writeIndex[d] = 0 /\ size[d] = 0
      BY DEF Init
    <2>2. Unparsed(d) = 0
      <3>1. Unparsed(d) = 0 - 0 - 0
        BY <2>1, ZenonT(60) DEF Unparsed
      <3>2. QED
        BY <3>1
    <2>3. Base(d) = 0
      BY <2>1 DEF Base, InHand, Init
    <2>4. QED
      BY <2>1, <2>2, <2>3
  <1>3. Sizes
    BY <1>2 DEF Sizes, Init
  <1>4. ASSUME NEW d \in Devices PROVE Backlog(d) /\ Holds(d)
    <2>1. Backlog(d)
      BY <1>0, <1>2 DEF Backlog
    <2>2. << >> = [i \in 1 .. 0 |-> i]
      OBVIOUS
    <2>3. Ring(buffer[d], 0, 0, 0, 0 + 1)
      BY <1>0 DEF Ring, Wrap
    <2>4. Holds(d)
      BY <1>2, <2>2, <2>3, ZenonT(60) DEF Holds
    <2>5. QED
      BY <2>1, <2>4
  <1>5. QED
    BY <1>1, <1>3, <1>4 DEF Quiet, Init

(* Every step of the devices, the handler and the parser preserves it.      *)
LEMMA InvNext == BufferInv /\ [Next]_vars => BufferInv'
  <1> SUFFICES ASSUME BufferInv, [Next]_vars PROVE BufferInv'
    OBVIOUS
  <1>1. ASSUME enables' = enables, Quiet => Quiet' PROVE BufferInv'
    BY <1>1 DEF BufferInv
  <1>2. ASSUME NEW d \in Devices, RegisterInterruptHandler(d) \/ Arrive(d) \/ Trigger(d)
        PROVE  BufferInv'
    <2>1. enables' = enables
      BY <1>2 DEF RegisterInterruptHandler, Arrive, Trigger, threadVars
    <2>2. QED
      BY <1>1, <1>2, <2>1, RegisterKeeps, ArriveKeeps, TriggerKeeps
  <1>3. CASE Manager
    <2>1. enables' = enables
      BY <1>3, ZenonT(60) DEF Manager, Acquire, Scan, Pop, Parse, threadVars
    <2>2. QED
      BY <1>1, <1>3, <2>1, ScanKeeps, PopKeeps, ParseKeeps DEF Manager
  <1>4. CASE EnableInterrupts
    BY <1>4 DEF EnableInterrupts, BufferInv
  <1>5. CASE Other
    <2>1. tpc # "out" /\ enables' = enables
      BY <1>5, ZenonT(60) DEF Other, ReadStatus, ReadData, WriteBuffer, AdvanceIndex, StoreSize
    <2>2. QED
      BY <1>1, <2>1 DEF Quiet
  <1>6. CASE UNCHANGED vars
    <2>1. Quiet => Quiet'
      BY <1>6, ZenonT(60) DEF vars, deviceVars, ringVars, managerVars, threadVars, Quiet, TypeOK, Sizes,
                  Backlog, Holds, Unparsed, Base, InHand
    <2>2. enables' = enables
      BY <1>6 DEF vars, threadVars
    <2>3. QED
      BY <1>1, <2>1, <2>2
  <1>7. QED
    BY <1>2, <1>3, <1>4, <1>5, <1>6 DEF Next

(* For any devices, capacity and number of bytes: a driver parses the bytes *)
(* of its device in the order of their arrival and each of them once,       *)
(* wherever the handler interrupts pop(), until a thread calls the handlers *)
(* as handleDisabledInterrupts() does.                                      *)
THEOREM BytesParsedInOrder == Spec => []ParsedInOrder
  <1>1. BufferInv => ParsedInOrder
    BY ZenonT(60) DEF BufferInv, Quiet, Holds, ParsedInOrder
  <1>2. QED
    BY <1>1, InvInit, InvNext, PTL DEF Spec
=============================================================================
