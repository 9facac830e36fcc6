------------------------ MODULE SerialTransport_proof ------------------------
(***************************************************************************)
(* Proofs about SerialTransport.  For both builds: every packet is taken   *)
(* once and in order, the pool keeps its buffers, every variable has its   *)
(* type.  For USB and a host that sends an update: the slots, the pool and *)
(* the main loop move in step, so that packets are handled in order and    *)
(* SLIP always has a buffer that nobody else uses.                         *)
(***************************************************************************)
EXTENDS SerialTransport, HciPool_proof, SequenceTheorems, FiniteSetTheorems

-----------------------------------------------------------------------------
(* What holds of both builds. *)

\* Where the main loop is: an event under way is still counted, an element
\* being freed is still in use, and closing never goes back.
LoopInv ==
  /\ pc.at \in {"while", "scan", "load", "store", "clear"} /\ ~pc.closing => sched > 0
  /\ pc.at \in {"load", "store", "clear"} => pc.index \in InUse
  /\ pc.closing => pc.at \notin {"sched", "while", "task"}
  /\ \A i \in InUse : slots[i].buffer \in Buffer

\* What is on the wire.  The host's packet may follow its predecessor; once it
\* is accepted nothing else is under way.  Acknowledgements, in the output and
\* on the line, ask for the host's packet and then for the next one, which
\* nobody asks for before it was accepted.
Frames(s, c, a) ==
  /\ \A i \in 1 .. Len(s) : s[i] \in {c - 1, c}
  /\ \A i, j \in 1 .. Len(s) : i < j => s[i] <= s[j]
  /\ a = c => \A i \in 1 .. Len(s) : s[i] = c

Acks(s, c, a) ==
  /\ \A i \in 1 .. Len(s) : s[i] \in {SeqNr(c), SeqNr(c + 1)}
  /\ \A i, j \in 1 .. Len(s) : i < j /\ s[i] = SeqNr(c + 1) => s[j] = SeqNr(c + 1)
  /\ a # c => \A i \in 1 .. Len(s) : s[i] = SeqNr(c)

WireInv ==
  AcceptedOnce /\ Frames(toDevice, cur, accepted) /\ Acks(toHost \o tx, cur, accepted)

IInv == TypeOK /\ PoolConserved /\ LoopInv /\ WireInv

-----------------------------------------------------------------------------
(* Sequence numbers, for every modulus. *)

LEMMA Modulus == SeqModulus \in Nat /\ SeqModulus > 1
BY SerialAssumption DEF SerialAssumption

LEMMA Quotient ==
  ASSUME NEW n \in Nat
  PROVE  n = SeqModulus * (n \div SeqModulus) + SeqNr(n) /\ n \div SeqModulus \in Nat
BY Modulus DEF SeqNr

LEMMA SeqNrType == \A n \in Nat : SeqNr(n) \in 0 .. SeqModulus - 1
BY Modulus DEF SeqNr

LEMMA Multiples ==
  ASSUME NEW p \in Nat, NEW q \in Nat, p < q
  PROVE  SeqModulus * p + SeqModulus <= SeqModulus * q
<1>1. PICK d \in Nat : q = p + 1 + d
  <2> WITNESS q - (p + 1) \in Nat
  <2> QED
    OBVIOUS
<1>2. SeqModulus * q = SeqModulus * p + SeqModulus + SeqModulus * d
  BY <1>1, Modulus
<1>3. SeqModulus * d \in Nat /\ SeqModulus * p \in Nat
  BY Modulus
<1> QED
  BY <1>2, <1>3, Modulus

LEMMA OneRemainder ==
  ASSUME NEW p \in Nat, NEW q \in Nat,
         NEW r \in 0 .. SeqModulus - 1, NEW s \in 0 .. SeqModulus - 1,
         SeqModulus * p + r = SeqModulus * q + s
  PROVE  r = s
<1>1. ~(p < q)
  BY Multiples, Modulus
<1>2. ~(q < p)
  BY Multiples, Modulus
<1> QED
  BY <1>1, <1>2, Modulus

LEMMA SeqNrWraps ==
  ASSUME NEW n \in Nat
  PROVE  SeqNr(n + 1) = IF SeqNr(n) = SeqModulus - 1 THEN 0 ELSE SeqNr(n) + 1
<1> DEFINE p == n \div SeqModulus
           q == (n + 1) \div SeqModulus
           r == SeqNr(n)
           s == SeqNr(n + 1)
<1>1. /\ n = SeqModulus * p + r /\ n + 1 = SeqModulus * q + s /\ p \in Nat /\ q \in Nat
      /\ r \in 0 .. SeqModulus - 1 /\ s \in 0 .. SeqModulus - 1
  BY Quotient, SeqNrType, n + 1 \in Nat
<1> HIDE DEF p, q, r, s
<1>2. CASE r = SeqModulus - 1
  <2>1. SeqModulus * (p + 1) + 0 = SeqModulus * q + s
    BY <1>1, <1>2, Modulus
  <2>2. 0 \in 0 .. SeqModulus - 1 /\ p + 1 \in Nat
    BY <1>1, Modulus
  <2>3. s = 0
    BY <1>1, <2>1, <2>2, OneRemainder
  <2> QED
    BY <1>2, <2>3 DEF r, s
<1>3. CASE r # SeqModulus - 1
  <2>1. SeqModulus * p + (r + 1) = SeqModulus * q + s
    BY <1>1, Modulus
  <2>2. r + 1 \in 0 .. SeqModulus - 1
    BY <1>1, <1>3, Modulus
  <2>3. s = r + 1
    BY <1>1, <2>1, <2>2, OneRemainder
  <2> QED
    BY <1>3, <2>3 DEF r, s
<1> QED
  BY <1>2, <1>3

LEMMA SeqNrSmall ==
  ASSUME NEW n \in 0 .. SeqModulus - 1
  PROVE  SeqNr(n) = n
<1> DEFINE p == n \div SeqModulus
           r == SeqNr(n)
<1>1. n \in Nat
  BY Modulus
<1>2. n = SeqModulus * p + r /\ p \in Nat /\ r \in 0 .. SeqModulus - 1
  BY <1>1, Quotient, SeqNrType
<1>3. n = SeqModulus * 0 + n
  BY <1>1, Modulus
<1> HIDE DEF p, r
<1>4. r = n
  BY <1>2, <1>3, OneRemainder
<1> QED
  BY <1>4 DEF r

\* One number differs from the next, and the device, which counts numbers, and
\* the host, which counts packets, agree on the next one.
LEMMA SeqNrNext ==
  \A n \in Nat : SeqNr(n) # SeqNr(n + 1) /\ SeqNr(SeqNr(n) + 1) = SeqNr(n + 1)
<1> SUFFICES ASSUME NEW n \in Nat
             PROVE  SeqNr(n) # SeqNr(n + 1) /\ SeqNr(SeqNr(n) + 1) = SeqNr(n + 1)
  OBVIOUS
<1>1. SeqNr(n) \in 0 .. SeqModulus - 1
  BY SeqNrType
<1>2. SeqNr(n + 1) = IF SeqNr(n) = SeqModulus - 1 THEN 0 ELSE SeqNr(n) + 1
  BY SeqNrWraps
<1>3. SeqNr(n) # SeqNr(n + 1)
  BY <1>1, <1>2, Modulus
<1>4. CASE SeqNr(n) = SeqModulus - 1
  <2>1. SeqNr(n) + 1 = (SeqModulus - 1) + 1 /\ SeqModulus - 1 \in Nat
    BY <1>4, Modulus
  <2>2. SeqNr(SeqModulus - 1) = SeqModulus - 1
    BY Modulus, SeqNrSmall
  <2>3. SeqNr((SeqModulus - 1) + 1) = 0
    BY <2>1, <2>2, SeqNrWraps
  <2> QED
    BY <1>2, <1>3, <1>4, <2>1, <2>3
<1>5. CASE SeqNr(n) # SeqModulus - 1
  <2>1. SeqNr(n) + 1 \in 0 .. SeqModulus - 1
    BY <1>1, <1>5, Modulus
  <2> QED
    BY <1>2, <1>3, <1>5, <2>1, SeqNrSmall
<1> QED
  BY <1>4, <1>5

-----------------------------------------------------------------------------
(* The pool, whatever buffer is given back. *)

Conserved(p) ==
  /\ p \in Pool
  /\ p.free_window_count + p.free_available_count + p.read_available_count = PoolSize

LEMMA ExtractedBuffers == \A p \in Pool : \A b : ConsumeOk(p, b) => b \in Buffer
<1> SUFFICES ASSUME NEW p \in Pool, NEW k \in 1 .. p.free_available_count
             PROVE  Back(p.read_index, k) \in Buffer
  BY DEF ConsumeOk, Extracted
<1>1. p.read_index \in Buffer /\ p.free_available_count \in 0 .. PoolSize
  BY DEF Pool
<1>2. k \in 0 .. PoolSize
  BY <1>1, PoolSizeAssumption
<1> QED
  BY <1>1, <1>2, BackFacts

LEMMA ProduceKeeps ==
  ASSUME NEW p, Conserved(p), CanProduce(p)
  PROVE  Conserved(rx_produce(p))
<1>1. p \in Pool /\ PoolSize \in Nat
      /\ p.free_window_count \in Nat /\ p.free_available_count \in Nat
      /\ p.read_available_count \in Nat /\ p.free_window_count # 0
      /\ p.free_window_count + p.free_available_count + p.read_available_count = PoolSize
  BY PoolSizeAssumption DEF Conserved, CanProduce, Pool
<1>2. p.read_available_count < PoolSize
  BY <1>1
<1>3. LET q == rx_produce(p) IN
        /\ q \in Pool
        /\ q.free_window_count = p.free_window_count - 1
        /\ q.free_available_count = p.free_available_count
        /\ q.read_available_count = p.read_available_count + 1
  BY <1>1, <1>2, Produced
<1> QED
  BY <1>1, <1>3 DEF Conserved

LEMMA ExtractKeeps ==
  ASSUME NEW p, Conserved(p), CanExtract(p)
  PROVE  Conserved(rx_extract(p))
<1>1. p \in Pool /\ PoolSize \in Nat
      /\ p.free_window_count \in Nat /\ p.free_available_count \in Nat
      /\ p.read_available_count \in Nat /\ p.read_available_count # 0
      /\ p.free_window_count + p.free_available_count + p.read_available_count = PoolSize
  BY PoolSizeAssumption DEF Conserved, CanExtract, Pool
<1>2. p.free_available_count < PoolSize
  BY <1>1
<1>3. LET q == rx_extract(p) IN
        /\ q \in Pool
        /\ q.free_window_count = p.free_window_count
        /\ q.free_available_count = p.free_available_count + 1
        /\ q.read_available_count = p.read_available_count - 1
  BY <1>1, <1>2, WasExtracted
<1> QED
  BY <1>1, <1>3 DEF Conserved

LEMMA ConsumeKeeps ==
  ASSUME NEW p, Conserved(p), NEW b
  PROVE  Conserved(rx_consume(p, b))
<1>1. p \in Pool /\ PoolSize \in Nat
      /\ p.free_window_count \in Nat /\ p.free_available_count \in Nat
      /\ p.read_available_count \in Nat
      /\ p.free_window_count + p.free_available_count + p.read_available_count = PoolSize
  BY PoolSizeAssumption DEF Conserved, Pool
<1> DEFINE found == ConsumeOk(p, b)
           last  == IF found THEN b ELSE p.read_index
           bits  == IF ~found THEN p.free_index
                    ELSE IF b \in p.free_index THEN p.free_index \ {b}
                    ELSE p.free_index \cup {b}
           given == IF p.free_available_count = 0 \/ Oldest(p) \in bits THEN 0
                    ELSE IF Succ(last) \in bits THEN 1
                    ELSE p.free_available_count
<1>2. rx_consume(p, b) = [p EXCEPT !.free_index = bits,
                                   !.free_available_count = @ - given,
                                   !.free_window_count = @ + given]
  BY DEF rx_consume
<1>3. bits \in SUBSET Buffer
  BY <1>1, ExtractedBuffers DEF Pool
<1>4. given \in 0 .. p.free_available_count
  <2> HIDE DEF bits, last
  <2> QED
    BY <1>1
<1> HIDE DEF bits, given
<1>5. /\ p.free_available_count - given \in 0 .. PoolSize
      /\ p.free_window_count + given \in 0 .. PoolSize
      /\ (p.free_window_count + given) + (p.free_available_count - given)
           + p.read_available_count = PoolSize
  BY <1>1, <1>4
<1> QED
  BY <1>1, <1>2, <1>3, <1>5 DEF Conserved, Pool

-----------------------------------------------------------------------------
(* Types.  The sets of records are opaque where they are not needed. *)

HciSet   == [expected : 0 .. SeqModulus - 1, used : Buffer \cup {NoBuffer},
             registered : {"pool", "ack", "none"}]
SlotsSet == [Slot -> [type : PacketType, buffer : Buffer \cup {NoBuffer}]]
PlaceSet == {"sched", "while", "scan", "load", "store", "clear", "task", "closed", "reset"}
PcSet    == [at : PlaceSet, index : 0 .. MAX_BUFFERS, reg : 0 .. 255, closing : BOOLEAN]
StateSet == {"IDLE", "RDY", "RX_DATA_PKT", "WAIT_4_ACTIVATE"}
DfuSet   == [state : StateSet, image : Seq(0 .. Packets), complete : BOOLEAN]

Typed ==
  /\ build \in Builds /\ script \in Scripts
  /\ cur \in 1 .. Packets + 1
  /\ toDevice \in Seq(1 .. Packets)
  /\ toHost \in Seq(0 .. SeqModulus - 1) /\ tx \in Seq(0 .. SeqModulus - 1)
  /\ hci \in HciSet
  /\ pool \in Pool
  /\ rx_buffer \in [Buffer -> 0 .. Packets]
  /\ slots \in SlotsSet
  /\ count \in 0 .. 255
  /\ sched \in 0 .. SchedSize
  /\ pc \in PcSet
  /\ dfu \in DfuSet
  /\ handled \in Seq(0 .. Packets)
  /\ accepted \in 0 .. Packets

LEMMA TypedMeans == (TypeOK <=> Typed) /\ (TypeOK' <=> Typed')
BY DEF TypeOK, Typed, HciSet, SlotsSet, PlaceSet, PcSet, StateSet, DfuSet, Packets

LEMMA PcTypes ==
  ASSUME NEW p \in PcSet
  PROVE  /\ p.at \in PlaceSet /\ p.index \in 0 .. MAX_BUFFERS /\ p.reg \in 0 .. 255
         /\ p.closing \in BOOLEAN
         /\ \A a \in PlaceSet : [p EXCEPT !.at = a] \in PcSet
         /\ \A i \in 0 .. MAX_BUFFERS : [p EXCEPT !.index = i] \in PcSet
BY DEF PcSet

LEMMA Rescans ==
  ASSUME NEW p \in PcSet, NEW a \in PlaceSet
  PROVE  [p EXCEPT !.at = a] \in PcSet /\ [p EXCEPT !.at = a, !.index = 0] \in PcSet
<1>1. 0 \in 0 .. MAX_BUFFERS
  BY DEF MAX_BUFFERS
<1>2. PICK q : q = [p EXCEPT !.at = a]
  OBVIOUS
<1>3. q \in PcSet
  BY <1>2, PcTypes
<1>4. [q EXCEPT !.index = 0] \in PcSet
  BY <1>1, <1>3, PcTypes
<1>5. [q EXCEPT !.index = 0] = [p EXCEPT !.at = a, !.index = 0]
  BY <1>2
<1> QED
  BY <1>2, <1>3, <1>4, <1>5

LEMMA HciTypes ==
  \A h \in HciSet :
    /\ h.expected \in 0 .. SeqModulus - 1 /\ h.used \in Buffer \cup {NoBuffer}
    /\ \A r \in {"pool", "ack", "none"} :
         /\ [h EXCEPT !.registered = r] \in HciSet
         /\ \A u \in Buffer \cup {NoBuffer} :
              [h EXCEPT !.registered = r, !.used = u] \in HciSet
BY DEF HciSet

LEMMA DfuTypes ==
  \A d \in DfuSet :
    /\ d.state \in StateSet /\ d.image \in Seq(0 .. Packets) /\ d.complete \in BOOLEAN
    /\ \A s \in StateSet : /\ [d EXCEPT !.state = s] \in DfuSet
                           /\ \A c \in BOOLEAN : [d EXCEPT !.state = s, !.complete = c] \in DfuSet
    /\ \A m \in Seq(0 .. Packets) : [d EXCEPT !.image = m] \in DfuSet
BY DEF DfuSet

LEMMA ScriptTypes ==
  Typed => /\ Packets \in Nat
           /\ \A n \in 1 .. Packets : Type(n) \in PacketType
BY SerialAssumption DEF SerialAssumption, Typed, Packets, Type

\* What the callback of the transport does to the slots and the main loop: it
\* takes a free slot or none, and adds an event or none.
LEMMA CallbackEffect ==
  ASSUME Typed, NEW n \in 1 .. Packets, NEW b \in Buffer, NEW p, Conserved(p),
         rpc_transport_event_handler(n, b, p)
  PROVE  /\ slots' \in SlotsSet /\ count' \in 0 .. 255 /\ sched' \in 0 .. SchedSize
         /\ Conserved(pool') /\ pc' \in {pc, [pc EXCEPT !.at = "reset"]}
         /\ sched' >= sched
         /\ \A i \in InUse : i \in InUse' /\ slots'[i] = slots[i]
         /\ \A i \in InUse' \ InUse : slots'[i].buffer = b
<1> DEFINE alloc == /\ Type(n) # "INVALID" /\ ~DATA_QUEUE_FULL /\ FreeSlots # {}
           slot  == CHOOSE i \in FreeSlots : \A j \in FreeSlots : i <= j
           put   == alloc /\ sched < SchedSize
<1>1. /\ slots' = IF alloc THEN [slots EXCEPT ![slot] = [type |-> Type(n), buffer |-> b]]
                           ELSE slots
      /\ count' = IF alloc THEN (count + 1) % 256 ELSE count
      /\ sched' = IF put THEN sched + 1 ELSE sched
      /\ pool' = IF put THEN p ELSE rx_consume(p, b)
      /\ pc' = IF put \/ ConsumeOk(p, b) THEN pc ELSE [pc EXCEPT !.at = "reset"]
  BY DEF rpc_transport_event_handler
<1>2. FreeSlots # {} => slot \in FreeSlots
  <2> SUFFICES ASSUME FreeSlots # {}
               PROVE  \E i \in FreeSlots : \A j \in FreeSlots : i <= j
    OBVIOUS
  <2>1. FreeSlots \subseteq {0, 1, 2, 3}
    BY DEF FreeSlots, Slot, MAX_BUFFERS
  <2>2. CASE 0 \in FreeSlots
    BY <2>1, <2>2
  <2>3. CASE 0 \notin FreeSlots /\ 1 \in FreeSlots
    BY <2>1, <2>3
  <2>4. CASE 0 \notin FreeSlots /\ 1 \notin FreeSlots /\ 2 \in FreeSlots
    BY <2>1, <2>4
  <2>5. CASE FreeSlots = {3}
    BY <2>5
  <2> QED
    BY <2>1, <2>2, <2>3, <2>4, <2>5
<1> HIDE DEF slot
<1>3. Type(n) \in PacketType /\ SchedSize \in Nat
      /\ slots \in SlotsSet /\ count \in 0 .. 255 /\ sched \in 0 .. SchedSize
  BY ScriptTypes, SerialAssumption DEF SerialAssumption, Typed
<1>4. slots' \in SlotsSet
  BY <1>1, <1>2, <1>3 DEF SlotsSet, FreeSlots
<1>5. count' \in 0 .. 255
  <2>1. (count + 1) % 256 \in 0 .. 255
    BY <1>3
  <2> QED
    BY <1>1, <1>3, <2>1
<1>6. sched' \in 0 .. SchedSize /\ sched' >= sched
  <2>1. put => sched + 1 \in 0 .. SchedSize /\ sched + 1 >= sched
    BY <1>3
  <2> HIDE DEF put
  <2> QED
    BY <1>1, <1>3, <2>1
<1>7. Conserved(pool') /\ pc' \in {pc, [pc EXCEPT !.at = "reset"]}
  BY <1>1, ConsumeKeeps
<1>8. \A i \in InUse : i \in InUse' /\ slots'[i] = slots[i]
  BY <1>1, <1>2, <1>3 DEF FreeSlots, InUse, SlotsSet
<1>9. \A i \in InUse' \ InUse : slots'[i].buffer = b
  BY <1>1, <1>2, <1>3 DEF FreeSlots, InUse, SlotsSet
<1> QED
  BY <1>4, <1>5, <1>6, <1>7, <1>8, <1>9

\* What reception leaves behind, whatever arrived.
RxKeeps ==
  /\ hci' \in HciSet /\ rx_buffer' \in [Buffer -> 0 .. Packets] /\ Conserved(pool')
  /\ slots' \in SlotsSet /\ count' \in 0 .. 255 /\ sched' \in 0 .. SchedSize
  /\ pc' \in {pc, [pc EXCEPT !.at = "reset"]}
  /\ sched' >= sched
  /\ \A i \in InUse : i \in InUse' /\ slots'[i] = slots[i]
  /\ \A i \in InUse' \ InUse : slots'[i].buffer \in Buffer

RxTakes  == /\ accepted' = accepted + 1
            /\ hci'.expected = SeqNr(hci.expected + 1)
            /\ ack_transmit(SeqNr(hci.expected + 1))
RxLeaves == /\ accepted' = accepted
            /\ hci'.expected = hci.expected
            /\ tx' = tx \/ ack_transmit(hci.expected)

LEMMA NewPacketKeeps ==
  ASSUME Typed, PoolConserved, NEW n \in 1 .. Packets, NewPacket(n)
  PROVE  RxKeeps /\ RxTakes
<1>1. /\ Conserved(pool) /\ pool.write_index \in Buffer /\ hci \in HciSet
      /\ rx_buffer \in [Buffer -> 0 .. Packets] /\ Packets \in Nat
      /\ slots \in SlotsSet /\ count \in 0 .. 255 /\ sched \in 0 .. SchedSize
  BY ScriptTypes DEF Typed, PoolConserved, Conserved, Pool
<1>2. PICK p : p = IF CanProduce(pool) THEN rx_produce(pool) ELSE pool
  OBVIOUS
<1>3. Conserved(p)
  BY <1>1, <1>2, ProduceKeeps
<1>4. rx_buffer' \in [Buffer -> 0 .. Packets]
  <2>1. rx_buffer' = [rx_buffer EXCEPT ![hci.used] = n] /\ n \in 0 .. Packets
    BY <1>1 DEF NewPacket
  <2> QED
    BY <1>1, <2>1
<1>5. hci' \in HciSet /\ RxTakes
  <2>1. hci' = [expected   |-> SeqNr(hci.expected + 1),
                used       |-> IF CanProduce(pool) THEN pool.write_index ELSE NoBuffer,
                registered |-> IF CanProduce(pool) THEN "pool" ELSE "ack"]
    BY DEF NewPacket
  <2>2. hci.expected + 1 \in Nat
    <3>1. hci.expected \in 0 .. SeqModulus - 1
      BY <1>1, HciTypes
    <3> QED
      BY <3>1, Modulus
  <2>3. SeqNr(hci.expected + 1) \in 0 .. SeqModulus - 1
    BY <2>2, SeqNrType
  <2> QED
    BY <1>1, <2>1, <2>3 DEF NewPacket, RxTakes, HciSet
<1>6. CASE CanExtract(p)
  <2>1. rpc_transport_event_handler(n, p.read_index, rx_extract(p))
    BY <1>2, <1>6 DEF NewPacket
  <2>2. Conserved(rx_extract(p)) /\ p.read_index \in Buffer
    BY <1>3, <1>6, ExtractKeeps DEF Conserved, Pool
  <2> QED
    BY <1>4, <1>5, <2>1, <2>2, CallbackEffect DEF RxKeeps
<1>7. CASE ~CanExtract(p)
  <2>1. pool' = p /\ UNCHANGED <<slots, count, sched, pc>>
    BY <1>2, <1>7 DEF NewPacket
  <2>2. InUse' = InUse /\ sched' >= sched
    BY <1>1, <2>1 DEF InUse
  <2> QED
    BY <1>1, <1>3, <1>4, <1>5, <2>1, <2>2 DEF RxKeeps
<1> QED
  BY <1>6, <1>7

LEMMA OtherKeeps ==
  ASSUME Typed, PoolConserved, NEW n \in 1 .. Packets,
         OldPacket(n) \/ BadPacket \/ Overflow \/ ShortFrame
  PROVE  RxKeeps /\ RxLeaves
<1>1. /\ Conserved(pool) /\ pool.write_index \in Buffer /\ hci \in HciSet
      /\ rx_buffer \in [Buffer -> 0 .. Packets] /\ Packets \in Nat
      /\ slots \in SlotsSet /\ count \in 0 .. 255 /\ sched \in 0 .. SchedSize
  BY ScriptTypes DEF Typed, PoolConserved, Conserved, Pool
<1>2. UNCHANGED <<slots, count, sched, pc, accepted>> /\ (tx' = tx \/ ack_transmit(hci.expected))
  BY DEF OldPacket, BadPacket, Overflow, ShortFrame
<1>3. InUse' = InUse /\ sched' >= sched
  BY <1>1, <1>2 DEF InUse
<1>4. rx_buffer' \in [Buffer -> 0 .. Packets]
  BY <1>1 DEF OldPacket, BadPacket, Overflow, ShortFrame
<1>5. Conserved(pool')
  BY <1>1, ProduceKeeps DEF OldPacket, BadPacket, Overflow, ShortFrame
<1>6. hci' \in HciSet /\ hci'.expected = hci.expected
  <2>1. \/ \E r \in {"pool", "ack", "none"} : hci' = [hci EXCEPT !.registered = r]
        \/ hci' = [hci EXCEPT !.registered = "pool", !.used = pool.write_index]
    BY DEF OldPacket, BadPacket, Overflow, ShortFrame, Registered
  <2>2. hci' \in HciSet
    <3>1. CASE \E r \in {"pool", "ack", "none"} : hci' = [hci EXCEPT !.registered = r]
      BY <1>1, <3>1, HciTypes
    <3>2. CASE hci' = [hci EXCEPT !.registered = "pool", !.used = pool.write_index]
      <4>1. \A u \in Buffer : [hci EXCEPT !.registered = "pool", !.used = u] \in HciSet
        BY <1>1, HciTypes
      <4> QED
        BY <1>1, <3>2, <4>1
    <3> QED
      BY <2>1, <3>1, <3>2
  <2>3. hci'.expected = hci.expected
    BY <1>1, <2>1 DEF HciSet
  <2> QED
    BY <2>2, <2>3
<1> QED
  BY <1>1, <1>2, <1>3, <1>4, <1>5, <1>6 DEF RxKeeps, RxLeaves

LEMMA HeadAndTail ==
  ASSUME NEW S, NEW s \in Seq(S), s # << >>
  PROVE  /\ Head(s) \in S /\ Head(s) = s[1] /\ 1 \in 1 .. Len(s)
         /\ Tail(s) \in Seq(S)
         /\ \A i \in 1 .. Len(Tail(s)) : Tail(s)[i] = s[i + 1] /\ i + 1 \in 1 .. Len(s)
<1>1. Len(s) \in Nat /\ Len(s) # 0 /\ Head(s) = s[1]
  OBVIOUS
<1>2. /\ Head(s) \in S /\ Tail(s) \in Seq(S) /\ Len(Tail(s)) = Len(s) - 1
      /\ \A i \in 1 .. Len(Tail(s)) : Tail(s)[i] = s[i + 1]
  BY HeadTailProperties
<1>3. \A i \in 1 .. Len(Tail(s)) : i + 1 \in 1 .. Len(s)
  BY <1>1, <1>2
<1> QED
  BY <1>1, <1>2, <1>3

LEMMA DeviceHead ==
  ASSUME Typed, toDevice # << >>
  PROVE  1 \in 1 .. Len(toDevice) /\ Head(toDevice) = toDevice[1]
         /\ Head(toDevice) \in 1 .. Packets
<1>1. PICK S : S = 1 .. Packets
  OBVIOUS
<1>2. toDevice \in Seq(S)
  BY <1>1 DEF Typed
<1> QED
  BY <1>1, <1>2, HeadAndTail

\* A packet with the number expected is the host's packet.
LEMMA ExpectedIsNext ==
  ASSUME Typed, WireInv, toDevice # << >>, Expects(Head(toDevice))
  PROVE  Head(toDevice) = cur /\ accepted = cur - 1 /\ cur \in 1 .. Packets
<1>1. /\ cur \in Nat \ {0} /\ accepted \in Nat /\ toDevice \in Seq(1 .. Packets)
      /\ accepted \in {cur - 1, cur} /\ hci.expected = SeqNr(accepted + 1)
  BY ScriptTypes DEF Typed, WireInv, AcceptedOnce
<1>2. 1 \in 1 .. Len(toDevice) /\ Head(toDevice) = toDevice[1] /\ Head(toDevice) \in 1 .. Packets
  BY DeviceHead
<1>3. SeqNr(Head(toDevice)) = SeqNr(accepted + 1)
  BY <1>1 DEF Expects
<1>4. accepted # cur
  <2> SUFFICES ASSUME accepted = cur PROVE FALSE
    OBVIOUS
  <2>1. Head(toDevice) = cur
    BY <1>2 DEF WireInv, Frames
  <2> QED
    BY <1>1, <1>3, <2>1, SeqNrNext
<1>5. accepted + 1 = cur /\ accepted = cur - 1
  BY <1>1, <1>4
<1>6. Head(toDevice) # cur - 1
  BY <1>1, <1>3, <1>5, SeqNrNext
<1>7. Head(toDevice) = cur
  BY <1>2, <1>6 DEF WireInv, Frames
<1> QED
  BY <1>2, <1>5, <1>7

\* The outcomes of a frame.
LEMMA RxEffect ==
  ASSUME Typed, PoolConserved, WireInv, RxPacket \/ RxDamaged
  PROVE  /\ RxKeeps
         /\ toDevice # << >> /\ toDevice' = Tail(toDevice)
         /\ UNCHANGED <<hostVars, toHost, dfu, handled>>
         /\ RxLeaves \/ (RxTakes /\ Head(toDevice) = cur /\ accepted = cur - 1
                                 /\ cur \in 1 .. Packets)
<1>1. /\ toDevice # << >> /\ toDevice' = Tail(toDevice)
      /\ UNCHANGED <<hostVars, toHost, dfu, handled>>
  BY DEF RxPacket, RxDamaged, CanReceive, RxDone
<1>2. Head(toDevice) \in 1 .. Packets
  BY <1>1, DeviceHead
<1>3. CASE RxPacket
  <2>1. CASE hci.registered = "pool" /\ Expects(Head(toDevice))
    <3>1. NewPacket(Head(toDevice))
      BY <1>3, <2>1 DEF RxPacket
    <3> QED
      BY <1>1, <1>2, <2>1, <3>1, NewPacketKeeps, ExpectedIsNext
  <2>2. CASE ~(hci.registered = "pool" /\ Expects(Head(toDevice)))
    <3>1. OldPacket(Head(toDevice)) \/ Overflow
      BY <1>3, <2>2 DEF RxPacket
    <3> QED
      BY <1>1, <1>2, <3>1, OtherKeeps
  <2> QED
    BY <2>1, <2>2
<1>4. CASE RxDamaged
  <2>1. BadPacket \/ Overflow \/ ShortFrame
    BY <1>4 DEF RxDamaged
  <2> QED
    BY <1>1, <1>2, <2>1, OtherKeeps
<1> QED
  BY <1>3, <1>4

LEMMA ConcatType ==
  ASSUME NEW S, NEW s \in Seq(S), NEW t \in Seq(S)
  PROVE  s \o t \in Seq(S)
BY ConcatProperties

\* Every variable keeps its type, and the pool its buffers.
LEMMA TypeStep == IInv /\ [Next]_vars => TypeOK' /\ PoolConserved'
<1> SUFFICES ASSUME IInv, [Next]_vars PROVE TypeOK' /\ PoolConserved'
  OBVIOUS
<1> USE DEF hostVars, linkVars, bufferVars
<1>I. Typed /\ PoolConserved /\ LoopInv /\ WireInv /\ Conserved(pool)
  BY TypedMeans DEF IInv, PoolConserved, Conserved, Typed
<1> SUFFICES Typed' /\ Conserved(pool')
  BY TypedMeans DEF Conserved, PoolConserved
<1>1. PICK D, A, H : D = 1 .. Packets /\ A = 0 .. SeqModulus - 1 /\ H = 0 .. Packets
  OBVIOUS
<1>T. /\ toDevice \in Seq(D) /\ toHost \in Seq(A) /\ tx \in Seq(A) /\ handled \in Seq(H)
      /\ pc \in PcSet /\ dfu \in DfuSet /\ cur \in 1 .. Packets + 1 /\ Packets \in Nat
      /\ hci \in HciSet /\ accepted \in H /\ sched \in 0 .. SchedSize /\ count \in 0 .. 255
      /\ slots \in SlotsSet /\ rx_buffer \in [Buffer -> H] /\ SchedSize \in Nat
  BY <1>I, <1>1, ScriptTypes, SerialAssumption DEF SerialAssumption, Typed
<1>P. /\ pc.index \in 0 .. MAX_BUFFERS /\ pc.reg \in 0 .. 255 /\ 0 \in 0 .. MAX_BUFFERS
      /\ \A a \in PlaceSet : [pc EXCEPT !.at = a] \in PcSet
      /\ \A i \in 0 .. MAX_BUFFERS : [pc EXCEPT !.index = i] \in PcSet
  <2>1. pc \in PcSet /\ 0 \in 0 .. MAX_BUFFERS
    BY <1>T DEF MAX_BUFFERS
  <2> QED
    BY <2>1, PcTypes
<1>C. pc \in PcSet /\ count \in 0 .. 255 /\ 0 \in 0 .. 255 /\ TRUE \in BOOLEAN
  BY <1>T
<1>Q. script' = script => Packets' = Packets /\ DfuSet' = DfuSet
  BY DEF Packets, DfuSet
<1>W. /\ "sched" \in PlaceSet /\ "while" \in PlaceSet /\ "scan" \in PlaceSet
      /\ "load" \in PlaceSet /\ "store" \in PlaceSet /\ "clear" \in PlaceSet
      /\ "task" \in PlaceSet /\ "closed" \in PlaceSet /\ "reset" \in PlaceSet
  BY DEF PlaceSet
<1>2. CASE HostSends
  <2>1. Append(toDevice, cur) \in Seq(D)
    <3>1. cur \in D
      BY <1>1, <1>2, <1>T DEF HostSends
    <3> QED
      BY <1>T, <3>1
  <2> QED
    BY <1>Q, <1>1, <1>2, <1>I, <2>1 DEF HostSends, Typed
<1>3. CASE HostReads
  <2>1. Tail(toHost) \in Seq(A)
    BY <1>3, <1>T, HeadAndTail DEF HostReads
  <2>2. cur' \in 1 .. Packets + 1
    BY <1>3, <1>T DEF HostReads
  <2> QED
    BY <1>Q, <1>1, <1>3, <1>I, <2>1, <2>2 DEF HostReads, Typed
<1>4. CASE AckLost
  <2>1. Tail(toHost) \in Seq(A)
    BY <1>4, <1>T, HeadAndTail DEF AckLost
  <2> QED
    BY <1>Q, <1>1, <1>4, <1>I, <2>1 DEF AckLost, Typed
<1>5. CASE RxPacket \/ RxDamaged
  <2>1. /\ RxKeeps /\ UNCHANGED <<hostVars, toHost, dfu, handled>>
        /\ toDevice # << >> /\ toDevice' = Tail(toDevice)
        /\ RxLeaves \/ (RxTakes /\ Head(toDevice) = cur /\ accepted = cur - 1
                                 /\ cur \in 1 .. Packets)
    BY <1>5, <1>I, RxEffect
  <2>2. Tail(toDevice) \in Seq(D)
    BY <2>1, <1>T, HeadAndTail
  <2>3. tx' \in Seq(A)
    <3>1. hci.expected \in A /\ SeqNr(hci.expected + 1) \in A
      <4>1. hci.expected \in A
        BY <1>1, <1>T, HciTypes
      <4>2. hci.expected + 1 \in Nat
        BY <1>1, <4>1, Modulus
      <4> QED
        BY <1>1, <4>1, <4>2, SeqNrType
    <3>2. \A nr \in A : Append(tx, nr) \in Seq(A)
      BY <1>T
    <3> QED
      BY <2>1, <1>T, <3>1, <3>2 DEF RxLeaves, RxTakes, ack_transmit
  <2>4. accepted' \in H
    <3>1. CASE accepted' = accepted
      BY <3>1, <1>T
    <3>2. CASE accepted' = accepted + 1 /\ accepted = cur - 1 /\ cur \in 1 .. Packets
      BY <3>2, <1>1, <1>T
    <3> QED
      BY <2>1, <3>1, <3>2 DEF RxLeaves, RxTakes
  <2>5. pc' \in PcSet
    BY <2>1, <1>T, <1>P, <1>W DEF RxKeeps
  <2> QED
    BY <1>Q, <1>1, <1>I, <2>1, <2>2, <2>3, <2>4, <2>5 DEF RxKeeps, Conserved, Typed
<1>6. CASE TxDone
  <2>1. toHost \o tx \in Seq(A) /\ << >> \in Seq(A)
    BY <1>T, ConcatType
  <2> QED
    BY <1>Q, <1>1, <1>6, <1>I, <2>1 DEF TxDone, Typed
<1>7. ASSUME UNCHANGED <<hostVars, linkVars, bufferVars, count, dfu, handled, accepted>>,
             sched' \in 0 .. SchedSize, pc' \in PcSet
      PROVE  Typed' /\ Conserved(pool')
  BY <1>Q, <1>7, <1>I DEF Typed
<1>8. CASE SchedTakes \/ SchedEmpty
  <2>1. pc' \in PcSet
    BY <1>8, <1>T, <1>P, <1>W DEF SchedTakes, SchedEmpty, Goto
  <2> QED
    BY <1>7, <1>8, <1>T, <2>1 DEF SchedTakes, SchedEmpty
<1>9. CASE WhileNotEmpty
  <2>1. sched > 0
    BY <1>9, <1>I DEF WhileNotEmpty, LoopInv
  <2>2. sched' \in 0 .. SchedSize
    BY <1>9, <1>T, <2>1 DEF WhileNotEmpty, EventDone
  <2>3. pc' \in PcSet
    <3>1. \A a \in PlaceSet : [pc EXCEPT !.at = a] \in PcSet
                              /\ [pc EXCEPT !.at = a, !.index = 0] \in PcSet
      BY <1>T, Rescans
    <3> QED
      BY <1>9, <1>W, <3>1 DEF WhileNotEmpty, EventDone, Goto
  <2> QED
    BY <1>7, <1>9, <2>2, <2>3 DEF WhileNotEmpty
<1>10. CASE SkipSlot
  <2>1. CASE pc.index \in Slot \ InUse /\ pc' = [pc EXCEPT !.index = pc.index + 1]
    <3>1. pc.index + 1 \in 0 .. MAX_BUFFERS
      BY <2>1 DEF Slot, MAX_BUFFERS
    <3>2. pc' \in PcSet
      BY <2>1, <3>1, <1>T, <1>P
    <3> QED
      BY <1>7, <1>10, <1>T, <3>2 DEF SkipSlot
  <2>2. CASE Goto(IF pc.closing THEN "closed" ELSE "while")
    <3>1. pc' \in PcSet
      BY <2>2, <1>T, <1>P, <1>W DEF Goto
    <3> QED
      BY <1>7, <1>10, <1>T, <3>1 DEF SkipSlot
  <2> QED
    BY <1>10, <2>1, <2>2 DEF SkipSlot
<1>11. CASE HandlePacket
  <2> DEFINE v == rx_buffer[slots[pc.index].buffer]
  <2>1. /\ UNCHANGED <<hostVars, linkVars, bufferVars, count, accepted>>
        /\ handled' = Append(handled, v) /\ pc.at = "scan" /\ ~pc.closing /\ pc.index \in InUse
    BY <1>11 DEF HandlePacket
  <2>2. v \in H
    BY <2>1, <1>I, <1>T DEF LoopInv
  <2>3. sched > 0
    BY <2>1, <1>I DEF LoopInv
  <2>4. sched' \in 0 .. SchedSize
    BY <1>11, <1>T, <2>3 DEF HandlePacket, EventDone
  <2>5. pc' \in PcSet
    <3>1. \E a \in PlaceSet : pc' = [pc EXCEPT !.at = a]
      BY <1>11, <1>W DEF HandlePacket, EventDone, Goto
    <3> QED
      BY <3>1, <1>T, <1>P
  <2>6. dfu' \in DfuSet
    <3>1. \/ dfu' = dfu
          \/ \E s \in StateSet : dfu' = [dfu EXCEPT !.state = s]
          \/ dfu' = [dfu EXCEPT !.image = Append(dfu.image, v)]
          \/ \E s \in StateSet, c \in BOOLEAN : dfu' = [dfu EXCEPT !.state = s, !.complete = c]
      <4>1. dfu.state \in StateSet /\ dfu.complete \in BOOLEAN
            /\ {"RDY", "RX_DATA_PKT", "WAIT_4_ACTIVATE"} \subseteq StateSet
        BY <1>T, DfuTypes DEF StateSet
      <4>2. CASE slots[pc.index].type = "START"
        BY <1>11, <4>1, <4>2 DEF HandlePacket
      <4>3. CASE slots[pc.index].type = "INIT"
        BY <1>11, <4>1, <4>3 DEF HandlePacket
      <4>4. CASE slots[pc.index].type = "DATA"
        BY <1>11, <4>4 DEF HandlePacket
      <4>5. CASE slots[pc.index].type = "STOP_DATA"
        <5>1. /\ (IF Activates THEN "WAIT_4_ACTIVATE" ELSE dfu.state) \in StateSet
              /\ (Activates \/ dfu.complete) \in BOOLEAN
          BY <4>1
        <5>2. dfu' = [dfu EXCEPT !.state = IF Activates THEN "WAIT_4_ACTIVATE" ELSE dfu.state,
                                 !.complete = Activates \/ dfu.complete]
          BY <1>11, <4>5 DEF HandlePacket
        <5> QED
          BY <5>1, <5>2
      <4>6. CASE slots[pc.index].type = "OTHER"
        BY <1>11, <4>6 DEF HandlePacket
      <4> QED
        BY <1>11, <4>2, <4>3, <4>4, <4>5, <4>6 DEF HandlePacket
    <3>2. Append(dfu.image, v) \in Seq(H)
      <4>1. dfu.image \in Seq(H)
        BY <1>1, <1>T, DfuTypes
      <4> QED
        BY <2>2, <4>1
    <3>3. /\ \A s \in StateSet : [dfu EXCEPT !.state = s] \in DfuSet
          /\ \A s \in StateSet : \A c \in BOOLEAN :
               [dfu EXCEPT !.state = s, !.complete = c] \in DfuSet
          /\ \A m \in Seq(H) : [dfu EXCEPT !.image = m] \in DfuSet
      BY <1>1, <1>T, DfuTypes
    <3> HIDE DEF v
    <3> QED
      BY <1>T, <3>1, <3>2, <3>3
  <2>7. handled' \in Seq(H)
    BY <2>1, <2>2, <1>T
  <2> QED
    BY <1>Q, <1>1, <1>I, <2>1, <2>4, <2>5, <2>6, <2>7 DEF Typed
<1>12. CASE FlushSlot
  <2>1. pc' \in PcSet
    BY <1>12, <1>T, <1>P, <1>W DEF FlushSlot, Goto
  <2> QED
    BY <1>7, <1>12, <1>T, <2>1 DEF FlushSlot
<1>13. CASE FreeLoad
  <2>1. pc' \in PcSet
    <3>1. pc' = [pc EXCEPT !.at = "store", !.reg = count]
      BY <1>13 DEF FreeLoad
    <3> QED
      BY <1>C, <1>W, <3>1 DEF PcSet
  <2> QED
    BY <1>7, <1>13, <1>T, <2>1 DEF FreeLoad
<1>14. CASE FreeStore
  <2>1. pc' \in PcSet
    <3>1. pc' = [pc EXCEPT !.at = "clear", !.reg = 0]
      BY <1>14 DEF FreeStore
    <3> QED
      BY <1>C, <1>W, <3>1 DEF PcSet
  <2>2. (pc.reg + 255) % 256 \in 0 .. 255
    BY <1>P
  <2> QED
    BY <1>Q, <1>14, <1>I, <2>1, <2>2 DEF FreeStore, Typed
<1>15. CASE FreeClear
  <2>1. pc.index \in Slot
    BY <1>15, <1>I DEF FreeClear, LoopInv, InUse
  <2>2. pc.index + 1 \in 0 .. MAX_BUFFERS
    BY <2>1 DEF Slot, MAX_BUFFERS
  <2>3. pc' \in PcSet
    <3>1. PICK i \in 0 .. MAX_BUFFERS : i = pc.index + 1
      BY <2>2
    <3>2. PICK a \in PlaceSet : pc' = [pc EXCEPT !.at = a, !.index = i]
      BY <1>15, <1>W, <3>1 DEF FreeClear
    <3> QED
      BY <3>2, <1>C DEF PcSet
  <2>4. Conserved(pool')
    BY <1>15, <1>I, ConsumeKeeps DEF FreeClear
  <2>5. slots' \in SlotsSet
    BY <1>15, <1>T, <2>1 DEF FreeClear, FREE, SlotsSet, PacketType
  <2> QED
    BY <1>Q, <1>15, <1>I, <2>3, <2>4, <2>5 DEF FreeClear, Conserved, Typed
<1>16. CASE TaskDone
  <2>1. toHost \o tx \in Seq(A) /\ << >> \in Seq(A)
    BY <1>T, ConcatType
  <2>2. toHost' \in Seq(A) /\ tx' \in Seq(A)
    BY <1>16, <1>T, <2>1 DEF TaskDone
  <2>3. pc' \in PcSet
    <3>1. \A a \in PlaceSet : [pc EXCEPT !.at = a] \in PcSet
                              /\ [pc EXCEPT !.at = a, !.index = 0, !.closing = TRUE] \in PcSet
      BY <1>C, <1>P DEF PcSet
    <3> QED
      BY <1>16, <1>W, <3>1 DEF TaskDone
  <2> QED
    BY <1>Q, <1>1, <1>16, <1>I, <2>2, <2>3 DEF TaskDone, Typed
<1>17. CASE UNCHANGED vars
  BY <1>7, <1>17, <1>T DEF vars
<1> QED
  BY <1>2, <1>3, <1>4, <1>5, <1>6, <1>8, <1>9, <1>10, <1>11, <1>12, <1>13, <1>14, <1>15,
     <1>16, <1>17 DEF Next, MainStep

LEMMA LoopStep == IInv /\ [Next]_vars => LoopInv'
<1> SUFFICES ASSUME IInv, [Next]_vars PROVE LoopInv'
  OBVIOUS
<1> USE DEF hostVars, linkVars, bufferVars
<1>I. Typed /\ PoolConserved /\ LoopInv /\ WireInv
  BY TypedMeans DEF IInv
<1>T. pc \in PcSet /\ slots \in SlotsSet /\ sched \in Nat
  BY <1>I, SerialAssumption DEF SerialAssumption, Typed
<1>1. CASE UNCHANGED <<slots, sched, pc>>
  BY <1>1, <1>I DEF LoopInv, InUse
<1>2. CASE RxPacket \/ RxDamaged
  <2>1. RxKeeps
    BY <1>2, <1>I, RxEffect
  <2>2. \A i \in InUse' : slots'[i].buffer \in Buffer
    BY <2>1, <1>I DEF RxKeeps, LoopInv
  <2>3. pc'.index = pc.index /\ pc'.closing = pc.closing /\ pc'.at \in {pc.at, "reset"}
    BY <2>1, <1>T DEF RxKeeps, PcSet
  <2>4. sched > 0 => sched' > 0
    <3>1. sched' \in Nat /\ sched' >= sched
      BY <2>1, SerialAssumption DEF SerialAssumption, RxKeeps
    <3> QED
      BY <1>T, <3>1
  <2>5. pc.index \in InUse => pc'.index \in InUse'
    BY <2>1, <2>3 DEF RxKeeps
  <2> QED
    BY <2>2, <2>3, <2>4, <2>5, <1>I DEF LoopInv
<1>3. ASSUME slots' = slots,
             pc'.closing => pc'.at \notin {"sched", "while", "task"},
             pc'.at \in {"load", "store", "clear"} => pc'.index \in InUse,
             pc'.at \in {"while", "scan", "load", "store", "clear"} /\ ~pc'.closing => sched' > 0
      PROVE  LoopInv'
  BY <1>3, <1>I DEF LoopInv, InUse
<1>4. CASE SchedTakes \/ SchedEmpty
  <2>1. /\ slots' = slots /\ sched' = sched /\ pc'.closing = pc.closing /\ pc.at = "sched"
        /\ (pc'.at = "while" /\ sched > 0) \/ pc'.at = "task"
    BY <1>4, <1>T DEF SchedTakes, SchedEmpty, Goto, PcSet
  <2> QED
    BY <2>1, <1>3, <1>I DEF LoopInv
<1>5. CASE WhileNotEmpty
  <2>1. /\ slots' = slots /\ pc'.closing = pc.closing /\ pc.at = "while"
        /\ pc'.at = "sched" \/ (pc'.at = "scan" /\ sched' = sched)
    BY <1>5, <1>T DEF WhileNotEmpty, EventDone, Goto, PcSet
  <2> QED
    BY <2>1, <1>3, <1>I DEF LoopInv
<1>6. CASE SkipSlot
  <2>1. /\ slots' = slots /\ sched' = sched /\ pc'.closing = pc.closing /\ pc.at = "scan"
        /\ pc'.at \in {"scan", IF pc.closing THEN "closed" ELSE "while"}
    BY <1>6, <1>T DEF SkipSlot, Goto, PcSet
  <2> QED
    BY <2>1, <1>3, <1>I DEF LoopInv
<1>7. CASE HandlePacket
  <2>1. /\ slots' = slots /\ pc'.index = pc.index /\ pc'.closing = pc.closing
        /\ pc.at = "scan" /\ ~pc.closing /\ pc.index \in InUse
        /\ \/ pc'.at \in {"load", "reset"} /\ sched' = sched
           \/ pc'.at = "sched"
    BY <1>7, <1>T DEF HandlePacket, EventDone, Goto, PcSet
  <2> QED
    BY <2>1, <1>3, <1>I DEF LoopInv
<1>8. CASE FlushSlot \/ FreeLoad \/ FreeStore
  <2>1. /\ slots' = slots /\ sched' = sched /\ pc'.index = pc.index /\ pc'.closing = pc.closing
        /\ pc.at \in {"scan", "load", "store"} /\ pc'.at \in {"load", "store", "clear"}
        /\ pc.index \in InUse
    <3>1. CASE FlushSlot
      BY <3>1, <1>T DEF FlushSlot, Goto, PcSet
    <3>2. CASE FreeLoad
      BY <3>2, <1>T, <1>I DEF FreeLoad, PcSet, LoopInv
    <3>3. CASE FreeStore
      BY <3>3, <1>T, <1>I DEF FreeStore, PcSet, LoopInv
    <3> QED
      BY <1>8, <3>1, <3>2, <3>3
  <2> QED
    BY <2>1, <1>3, <1>I DEF LoopInv
<1>9. CASE FreeClear
  <2>1. /\ sched' = sched /\ pc'.closing = pc.closing /\ pc.at = "clear"
        /\ pc'.at \in {"scan", "reset"} /\ pc.index \in Slot
    BY <1>9, <1>T, <1>I DEF FreeClear, PcSet, LoopInv, InUse
  <2>2. \A i \in InUse' : i \in InUse /\ slots'[i] = slots[i]
    BY <1>9, <1>T, <2>1 DEF FreeClear, FREE, SlotsSet, InUse
  <2> QED
    BY <2>1, <2>2, <1>I DEF LoopInv
<1>10. CASE TaskDone
  <2>1. /\ slots' = slots /\ sched' = sched /\ pc.at = "task"
        /\ \/ pc'.at = "scan" /\ pc'.closing
           \/ pc'.at = "sched" /\ pc'.closing = pc.closing
    BY <1>10, <1>T DEF TaskDone, PcSet
  <2> QED
    BY <2>1, <1>3, <1>I DEF LoopInv
<1> QED
  BY <1>1, <1>2, <1>4, <1>5, <1>6, <1>7, <1>8, <1>9, <1>10
     DEF Next, MainStep, HostSends, HostReads, AckLost, TxDone, vars

-----------------------------------------------------------------------------
(* The wire. *)

LEMMA TailOfConcat ==
  ASSUME NEW S, NEW s \in Seq(S), NEW t \in Seq(S), s # << >>
  PROVE  /\ 1 \in 1 .. Len(s \o t) /\ (s \o t)[1] = Head(s)
         /\ \A i \in 1 .. Len(Tail(s) \o t) :
              (Tail(s) \o t)[i] = (s \o t)[i + 1] /\ i + 1 \in 1 .. Len(s \o t)
<1> DEFINE u == Tail(s)
<1>1. /\ u \in Seq(S) /\ Len(u) = Len(s) - 1 /\ Len(s) \in Nat /\ Len(t) \in Nat /\ Len(s) # 0
      /\ \A i \in 1 .. Len(u) : u[i] = s[i + 1]
      /\ Head(s) = s[1]
  BY HeadTailProperties, HeadAndTail
<1> HIDE DEF u
<1>2. /\ Len(s \o t) = Len(s) + Len(t) /\ Len(u \o t) = Len(u) + Len(t)
      /\ \A i \in 1 .. Len(s) + Len(t) :
           (s \o t)[i] = IF i <= Len(s) THEN s[i] ELSE t[i - Len(s)]
      /\ \A i \in 1 .. Len(u) + Len(t) :
           (u \o t)[i] = IF i <= Len(u) THEN u[i] ELSE t[i - Len(u)]
  BY <1>1, ConcatProperties
<1>3. 1 \in 1 .. Len(s \o t) /\ (s \o t)[1] = Head(s)
  BY <1>1, <1>2
<1>4. ASSUME NEW i \in 1 .. Len(u \o t)
      PROVE  (u \o t)[i] = (s \o t)[i + 1] /\ i + 1 \in 1 .. Len(s \o t)
  <2>1. i + 1 \in 1 .. Len(s) + Len(t) /\ i \in 1 .. Len(u) + Len(t)
    BY <1>1, <1>2
  <2>2. CASE i <= Len(u)
    BY <1>1, <1>2, <2>1, <2>2
  <2>3. CASE ~(i <= Len(u))
    <3>1. ~(i + 1 <= Len(s)) /\ i - Len(u) = (i + 1) - Len(s)
      BY <1>1, <2>1, <2>3
    <3> QED
      BY <1>2, <2>1, <2>3, <3>1
  <2> QED
    BY <2>2, <2>3
<1> QED
  BY <1>3, <1>4 DEF u

LEMMA AppendToConcat ==
  ASSUME NEW S, NEW s \in Seq(S), NEW t \in Seq(S), NEW x \in S
  PROVE  \A i \in 1 .. Len(s \o Append(t, x)) :
           \/ i \in 1 .. Len(s \o t) /\ (s \o Append(t, x))[i] = (s \o t)[i]
           \/ i = Len(s \o t) + 1 /\ (s \o Append(t, x))[i] = x
<1> DEFINE u == Append(t, x)
<1>1. /\ u \in Seq(S) /\ Len(u) = Len(t) + 1 /\ Len(s) \in Nat /\ Len(t) \in Nat
      /\ \A i \in 1 .. Len(t) : u[i] = t[i]
      /\ u[Len(t) + 1] = x
  BY AppendProperties
<1> HIDE DEF u
<1>2. /\ Len(s \o t) = Len(s) + Len(t) /\ Len(s \o u) = Len(s) + Len(u)
      /\ \A i \in 1 .. Len(s) + Len(t) :
           (s \o t)[i] = IF i <= Len(s) THEN s[i] ELSE t[i - Len(s)]
      /\ \A i \in 1 .. Len(s) + Len(u) :
           (s \o u)[i] = IF i <= Len(s) THEN s[i] ELSE u[i - Len(s)]
  BY <1>1, ConcatProperties
<1>3. ASSUME NEW i \in 1 .. Len(s \o u)
      PROVE  \/ i \in 1 .. Len(s \o t) /\ (s \o u)[i] = (s \o t)[i]
             \/ i = Len(s \o t) + 1 /\ (s \o u)[i] = x
  <2>1. i \in 1 .. Len(s) + Len(u)
    BY <1>2
  <2>2. CASE i <= Len(s)
    BY <1>1, <1>2, <2>1, <2>2
  <2>3. CASE i > Len(s) /\ i - Len(s) \in 1 .. Len(t)
    BY <1>1, <1>2, <2>1, <2>3
  <2>4. CASE i = Len(s) + Len(t) + 1
    <3>1. ~(i <= Len(s)) /\ i - Len(s) = Len(t) + 1
      BY <1>1, <2>4
    <3> QED
      BY <1>1, <1>2, <2>1, <2>4, <3>1
  <2> QED
    BY <1>1, <2>1, <2>2, <2>3, <2>4
<1> QED
  BY <1>3 DEF u

\* The lines, whatever is taken off and put on.
LEMMA FramesLose ==
  ASSUME NEW D, NEW s \in Seq(D), s # << >>, NEW c, NEW a, Frames(s, c, a)
  PROVE  Frames(Tail(s), c, a)
<1>1. /\ \A i \in 1 .. Len(Tail(s)) : Tail(s)[i] = s[i + 1] /\ i + 1 \in 1 .. Len(s)
      /\ \A i, j \in 1 .. Len(Tail(s)) : i < j => i + 1 < j + 1
  BY HeadAndTail
<1> QED
  BY <1>1 DEF Frames

LEMMA FramesGain ==
  ASSUME NEW D, NEW s \in Seq(D), NEW c \in Nat, NEW a, Frames(s, c, a)
  PROVE  Frames(Append(s, c), c, a)
<1>1. /\ Len(Append(s, c)) = Len(s) + 1 /\ Len(s) \in Nat
      /\ \A i \in 1 .. Len(s) : Append(s, c)[i] = s[i] /\ s[i] \in {c - 1, c}
      /\ Append(s, c)[Len(s) + 1] = c
  BY DEF Frames
<1>2. \A i \in 1 .. Len(s) + 1 : i \in 1 .. Len(s) \/ i = Len(s) + 1
  BY <1>1
<1>3. \A i \in 1 .. Len(s) : s[i] <= c
  BY <1>1
<1>4. c <= c /\ \A i \in 1 .. Len(s) + 1 : ~(Len(s) + 1 < i)
  BY <1>1
<1> HIDE DEF Frames
<1> QED
  BY <1>1, <1>2, <1>3, <1>4 DEF Frames

LEMMA AcksLose ==
  ASSUME NEW A, NEW s \in Seq(A), NEW t \in Seq(A), s # << >>, NEW c, NEW a,
         Acks(s \o t, c, a)
  PROVE  Acks(Tail(s) \o t, c, a)
<1>1. /\ \A i \in 1 .. Len(Tail(s) \o t) :
           (Tail(s) \o t)[i] = (s \o t)[i + 1] /\ i + 1 \in 1 .. Len(s \o t)
      /\ \A i, j \in 1 .. Len(Tail(s) \o t) : i < j => i + 1 < j + 1
  BY TailOfConcat
<1> QED
  BY <1>1 DEF Acks

LEMMA AcksGain ==
  ASSUME NEW A, NEW s \in Seq(A), NEW t \in Seq(A), NEW c, NEW a, Acks(s \o t, c, a),
         NEW x \in A, x = IF a = c THEN SeqNr(c + 1) ELSE SeqNr(c), SeqNr(c) # SeqNr(c + 1)
  PROVE  Acks(s \o Append(t, x), c, a)
<1> DEFINE u == s \o Append(t, x)
           v == s \o t
<1>1. /\ \A i \in 1 .. Len(u) : (i \in 1 .. Len(v) /\ u[i] = v[i]) \/ (i = Len(v) + 1 /\ u[i] = x)
      /\ Len(v) \in Nat
  BY AppendToConcat, ConcatProperties
<1>2. \A i \in 1 .. Len(v) : ~(Len(v) + 1 < i)
  BY <1>1
<1>3. ~(Len(v) + 1 < Len(v) + 1)
  BY <1>1
<1> HIDE DEF u, v
<1>4. Acks(v, c, a)
  BY DEF v
<1>5. \A i \in 1 .. Len(u) : u[i] \in {SeqNr(c), SeqNr(c + 1)}
  BY <1>1, <1>4 DEF Acks
<1>6. a # c => \A i \in 1 .. Len(u) : u[i] = SeqNr(c)
  BY <1>1, <1>4 DEF Acks
<1>7. ASSUME NEW i \in 1 .. Len(u), NEW j \in 1 .. Len(u), i < j, u[i] = SeqNr(c + 1)
      PROVE  u[j] = SeqNr(c + 1)
  <2>1. a = c
    BY <1>6, <1>7
  <2>2. CASE j = Len(v) + 1 /\ u[j] = x
    BY <2>1, <2>2
  <2>3. CASE j \in 1 .. Len(v) /\ u[j] = v[j]
    <3>1. i \in 1 .. Len(v) /\ u[i] = v[i]
      BY <1>1, <1>2, <1>7, <2>3
    <3> QED
      BY <1>4, <1>7, <2>3, <3>1 DEF Acks
  <2> QED
    BY <1>1, <2>2, <2>3
<1>8. Acks(u, c, a)
  BY <1>5, <1>6, <1>7 DEF Acks
<1> QED
  BY <1>8 DEF u

\* The host goes on to the next packet only when the device has taken this one,
\* and then every other acknowledgement says the same.
LEMMA HostGoesOn ==
  ASSUME NEW A, NEW s \in Seq(A), NEW t \in Seq(A), s # << >>, NEW c \in Nat, NEW a,
         Acks(s \o t, c, a), Head(s) = SeqNr(c + 1)
  PROVE  a = c /\ Acks(Tail(s) \o t, c + 1, a)
<1>1. SeqNr(c) # SeqNr(c + 1) /\ SeqNr(c + 1) # SeqNr(c + 1 + 1)
  BY SeqNrNext, c + 1 \in Nat
<1>2. /\ 1 \in 1 .. Len(s \o t) /\ (s \o t)[1] = Head(s)
      /\ \A i \in 1 .. Len(Tail(s) \o t) :
           (Tail(s) \o t)[i] = (s \o t)[i + 1] /\ i + 1 \in 1 .. Len(s \o t) /\ 1 < i + 1
  BY TailOfConcat
<1>3. a = c
  BY <1>1, <1>2 DEF Acks
<1>4. \A i \in 1 .. Len(Tail(s) \o t) : (Tail(s) \o t)[i] = SeqNr(c + 1)
  BY <1>2 DEF Acks
<1>5. Acks(Tail(s) \o t, c + 1, a)
  BY <1>1, <1>4 DEF Acks
<1> QED
  BY <1>3, <1>5

LEMMA WireStep == IInv /\ [Next]_vars => WireInv'
<1> SUFFICES ASSUME IInv, [Next]_vars PROVE WireInv'
  OBVIOUS
<1> USE DEF hostVars, linkVars, bufferVars
<1>I. Typed /\ PoolConserved /\ WireInv
  BY TypedMeans DEF IInv
<1>1. PICK D, A : D = 1 .. Packets /\ A = 0 .. SeqModulus - 1
  OBVIOUS
<1>T. /\ toDevice \in Seq(D) /\ toHost \in Seq(A) /\ tx \in Seq(A)
      /\ cur \in Nat /\ accepted \in Nat /\ accepted \in {cur - 1, cur}
      /\ hci.expected = SeqNr(accepted + 1) /\ SeqNr(cur) # SeqNr(cur + 1)
  BY <1>I, <1>1, ScriptTypes, SeqNrNext DEF Typed, WireInv, AcceptedOnce
<1>N. accepted # cur => accepted + 1 = cur
  BY <1>T
<1>W. Frames(toDevice, cur, accepted) /\ Acks(toHost \o tx, cur, accepted)
  BY <1>I DEF WireInv
<1>2. CASE UNCHANGED <<cur, toDevice, toHost, tx, accepted, hci>>
  BY <1>2, <1>I DEF WireInv, AcceptedOnce
<1>3. CASE HostSends
  BY <1>3, <1>I, <1>T, <1>W, FramesGain DEF HostSends, WireInv, AcceptedOnce
<1>4. CASE AckLost
  BY <1>4, <1>I, <1>T, <1>W, AcksLose DEF AckLost, WireInv, AcceptedOnce
<1>5. CASE HostReads
  <2>1. /\ toHost # << >> /\ toHost' = Tail(toHost)
        /\ UNCHANGED <<toDevice, tx, accepted, hci>>
    BY <1>5 DEF HostReads
  <2>2. CASE cur' = cur
    BY <1>I, <1>T, <1>W, <2>1, <2>2, AcksLose DEF WireInv, AcceptedOnce
  <2>3. CASE cur' = cur + 1 /\ Head(toHost) = SeqNr(cur + 1)
    <3>1. accepted = cur /\ Acks(Tail(toHost) \o tx, cur + 1, accepted)
      BY <1>T, <1>W, <2>1, <2>3, HostGoesOn
    <3>2. cur = (cur + 1) - 1 /\ accepted # cur + 1 /\ cur <= cur
      BY <1>T, <3>1
    <3>3. Frames(toDevice, cur + 1, accepted)
      BY <1>W, <3>1, <3>2 DEF Frames
    <3>4. AcceptedOnce'
      BY <1>T, <2>1, <2>3, <3>1, <3>2 DEF AcceptedOnce
    <3> QED
      BY <2>1, <2>3, <3>1, <3>3, <3>4 DEF WireInv
  <2> QED
    BY <1>5, <2>2, <2>3 DEF HostReads
<1>6. CASE RxPacket \/ RxDamaged
  <2>1. /\ toDevice # << >> /\ toDevice' = Tail(toDevice) /\ UNCHANGED <<cur, toHost>>
        /\ RxLeaves \/ (RxTakes /\ Head(toDevice) = cur /\ accepted = cur - 1)
    BY <1>6, <1>I, RxEffect
  <2>2. Frames(Tail(toDevice), cur, accepted)
    BY <1>T, <1>W, <2>1, FramesLose
  <2>3. CASE RxLeaves
    <3>1. tx' = tx \/ tx' = Append(tx, hci.expected)
      BY <2>3 DEF RxLeaves, ack_transmit
    <3>2. hci.expected \in A
      BY <1>1, <1>T, SeqNrType
    <3>3. hci.expected = IF accepted = cur THEN SeqNr(cur + 1) ELSE SeqNr(cur)
      BY <1>T, <1>N
    <3>4. Acks(toHost \o tx', cur, accepted)
      BY <1>T, <1>W, <3>1, <3>2, <3>3, AcksGain
    <3> QED
      BY <1>I, <2>1, <2>2, <2>3, <3>4 DEF RxLeaves, WireInv, AcceptedOnce
  <2>4. CASE RxTakes /\ Head(toDevice) = cur /\ accepted = cur - 1
    <3>1. accepted # cur /\ accepted + 1 = cur
      BY <1>T, <2>4
    <3>2. hci'.expected = SeqNr(cur + 1) /\ SeqNr(hci.expected + 1) = SeqNr(cur + 1)
          /\ accepted' = cur
      BY <1>T, <2>4, <3>1, SeqNrNext DEF RxTakes
    <3>3. Frames(Tail(toDevice), cur, cur)
      <4>1. Head(toDevice) = toDevice[1] /\ 1 \in 1 .. Len(toDevice)
            /\ \A i \in 1 .. Len(Tail(toDevice)) :
                 /\ Tail(toDevice)[i] = toDevice[i + 1] /\ i + 1 \in 1 .. Len(toDevice)
                 /\ 1 < i + 1
        BY <1>T, <2>1, HeadAndTail
      <4>2. ~(cur <= cur - 1)
        BY <1>T
      <4>3. \A i \in 1 .. Len(Tail(toDevice)) : Tail(toDevice)[i] = cur
        BY <1>W, <2>4, <4>1, <4>2 DEF Frames
      <4> QED
        BY <2>2, <4>3 DEF Frames
    <3>4. Acks(toHost \o tx, cur, cur)
      BY <1>T, <1>W, <3>1 DEF Acks
    <3>5. tx' = tx \/ tx' = Append(tx, SeqNr(cur + 1))
      BY <2>4, <3>2 DEF RxTakes, ack_transmit
    <3>6. SeqNr(cur + 1) \in A
      BY <1>1, <1>T, SeqNrType, cur + 1 \in Nat
    <3>7. Acks(toHost \o tx', cur, cur)
      BY <1>T, <3>4, <3>5, <3>6, AcksGain
    <3> QED
      BY <2>1, <3>2, <3>3, <3>7 DEF WireInv, AcceptedOnce
  <2> QED
    BY <2>1, <2>3, <2>4
<1>7. CASE TxDone \/ TaskDone
  <2>1. UNCHANGED <<cur, toDevice, accepted, hci>>
        /\ (UNCHANGED <<toHost, tx>> \/ (toHost' = toHost \o tx /\ tx' = << >>))
    BY <1>7 DEF TxDone, TaskDone
  <2>2. CASE UNCHANGED <<toHost, tx>>
    BY <1>I, <2>1, <2>2 DEF WireInv, AcceptedOnce
  <2>3. CASE toHost' = toHost \o tx /\ tx' = << >>
    <3>1. (toHost \o tx) \o << >> = toHost \o tx
      BY <1>T, ConcatType, ConcatEmptySeq
    <3> QED
      BY <1>I, <2>1, <2>3, <3>1 DEF WireInv, AcceptedOnce
  <2> QED
    BY <2>1, <2>2, <2>3
<1>8. CASE MainStep /\ ~TaskDone
  <2>1. UNCHANGED <<cur, toDevice, toHost, tx, accepted, hci>>
    BY <1>8 DEF MainStep, SchedTakes, SchedEmpty, WhileNotEmpty, SkipSlot, HandlePacket,
                FlushSlot, FreeLoad, FreeStore, FreeClear
  <2> QED
    BY <1>2, <2>1
<1>9. CASE UNCHANGED vars
  BY <1>2, <1>9 DEF vars
<1> QED
  BY <1>3, <1>4, <1>5, <1>6, <1>7, <1>8, <1>9 DEF Next

LEMMA InitInv == Init => IInv
<1> SUFFICES ASSUME Init PROVE IInv
  OBVIOUS
<1>1. /\ build \in Builds /\ script \in Scripts /\ cur = 1 /\ accepted = 0
      /\ toDevice = << >> /\ toHost = << >> /\ tx = << >> /\ handled = << >>
      /\ hci = [expected |-> SeqNr(1), used |-> 0, registered |-> "pool"]
      /\ rx_buffer = [b \in Buffer |-> 0] /\ slots = [i \in Slot |-> FREE]
      /\ count = 0 /\ sched = 0
      /\ pc = [at |-> "sched", index |-> 0, reg |-> 0, closing |-> FALSE]
      /\ dfu = [state |-> "IDLE", image |-> << >>, complete |-> FALSE]
      /\ pool = rx_produce(hci_mem_pool_open)
  BY DEF Init
<1>2. PoolSize \in Nat /\ PoolSize # 0 /\ SchedSize \in Nat /\ script \in Seq(PacketType)
  BY <1>1, PoolSizeAssumption, SerialAssumption DEF SerialAssumption
<1>3. Packets \in Nat /\ 0 \in 0 .. Packets /\ 0 \in 0 .. Packets /\ cur \in 1 .. Packets + 1
  BY <1>1, <1>2 DEF Packets
<1>4. Conserved(pool)
  <2>1. hci_mem_pool_open \in Pool
    BY <1>2 DEF hci_mem_pool_open, Pool, Buffer
  <2>2. Conserved(hci_mem_pool_open) /\ CanProduce(hci_mem_pool_open)
    BY <1>2, <2>1 DEF Conserved, hci_mem_pool_open, CanProduce
  <2> QED
    BY <1>1, <2>2, ProduceKeeps
<1>5. hci \in HciSet
  BY <1>1, <1>2, SeqNrType DEF HciSet, Buffer
<1>6. slots \in SlotsSet /\ InUse = {}
  BY <1>1 DEF SlotsSet, FREE, PacketType, InUse
<1>7. pc \in PcSet /\ dfu \in DfuSet /\ rx_buffer \in [Buffer -> 0 .. Packets]
  BY <1>1, <1>3 DEF PcSet, PlaceSet, MAX_BUFFERS, DfuSet, StateSet
<1>8. /\ << >> \in Seq(1 .. Packets) /\ << >> \in Seq(0 .. Packets)
      /\ << >> \in Seq(0 .. SeqModulus - 1)
  OBVIOUS
<1>9. Typed
  BY <1>1, <1>2, <1>3, <1>4, <1>5, <1>6, <1>7, <1>8 DEF Typed, Conserved
<1>10. LoopInv
  BY <1>1, <1>6 DEF LoopInv
<1>11. WireInv
  <2>1. Len(<< >> \o << >>) = 0 /\ Len(<< >>) = 0
    OBVIOUS
  <2>2. Frames(<< >>, 1, 0) /\ Acks(<< >> \o << >>, 1, 0)
    BY <2>1 DEF Frames, Acks
  <2>3. 0 = 1 - 1 /\ 0 + 1 = 1
    OBVIOUS
  <2>4. AcceptedOnce
    BY <1>1, <2>3 DEF AcceptedOnce
  <2> QED
    BY <1>1, <2>2, <2>4 DEF WireInv
<1> QED
  BY <1>4, <1>9, <1>10, <1>11, TypedMeans DEF IInv, PoolConserved, Conserved

THEOREM Invariance == Spec => []IInv
<1>1. IInv /\ [Next]_vars => IInv'
  BY TypeStep, LoopStep, WireStep DEF IInv
<1> QED
  BY InitInv, <1>1, PTL DEF Spec

\* Every variable keeps its type: counts of eight bits, slots that hold known
\* packets and buffers, the main loop at a known place.
THEOREM TypeCorrect == Spec => []TypeOK
BY Invariance, PTL DEF IInv

\* The sequence numbers do their work, for every script, pool, wire and modulus
\* above 1, with lost, damaged, merged and repeated frames: the device takes
\* each packet once and in order and is at most one ahead of the host.
THEOREM TakenOnce == Spec => []AcceptedOnce
BY Invariance, PTL DEF IInv, WireInv

\* The counts of hci_mem_pool add up to the size of the pool, whatever is
\* produced, extracted or given back, in or out of turn, once or twice.
THEOREM PoolKept == Spec => []PoolConserved
BY Invariance, PTL DEF IInv

-----------------------------------------------------------------------------
(* What holds of USB.  The pool is in one of five shapes, by the buffers that *)
(* are out: none; one, in slot 0 or 1; two, in slots 0 and 1; two of which    *)
(* the younger one was given back out of turn.                                *)

Used(sl)   == {i \in Slot : sl[i].type # "INVALID"}
Last(p, k) == Back(p.read_index, k)

Ready(h, p, k) ==
  /\ h.registered = "pool" /\ h.used = p.read_index
  /\ p.read_available_count = 1 /\ p.write_index = Succ(p.read_index)
  /\ p.free_available_count = k

NoSlot(h, p, sl) ==
  Ready(h, p, 0) /\ Used(sl) = {} /\ p.free_index = {p.read_index}
OneSlot(h, p, sl, i) ==
  /\ Ready(h, p, 1) /\ Used(sl) = {i} /\ sl[i].buffer = Last(p, 1)
  /\ p.free_index = {p.read_index, Last(p, 1)}
TwoSlots(h, p, sl) ==
  /\ Ready(h, p, 2) /\ Used(sl) = {0, 1}
  /\ sl[0].buffer = Last(p, 2) /\ sl[1].buffer = Last(p, 1)
  /\ p.free_index = {p.read_index, Last(p, 1), Last(p, 2)}
Skipped(h, p, sl) ==
  /\ Ready(h, p, 2) /\ Used(sl) = {0} /\ sl[0].buffer = Last(p, 2)
  /\ p.free_index = {p.read_index, Last(p, 2)}

\* How far the update code d is: it was given the packets hs of the script s,
\* everything up to packet h that has a type.
Has(s, t, h)  == \E n \in 1 .. h : s[n] = t
Upto(s, t, h) == {n \in 1 .. h : s[n] = t}
Known(s, h)   == {n \in 1 .. h : s[n] # "INVALID"}

Handled(s, d, hs, h) ==
  /\ h \in 0 .. Len(s)
  /\ Lists(hs, Known(s, h))
  /\ Lists(d.image, Upto(s, "DATA", h))
  /\ d.state = IF ~Has(s, "START", h) THEN "IDLE" ELSE IF ~Has(s, "INIT", h) THEN "RDY"
               ELSE IF ~Has(s, "STOP_DATA", h) THEN "RX_DATA_PKT" ELSE "WAIT_4_ACTIVATE"
  /\ d.complete <=> Has(s, "STOP_DATA", h)

\* The update code has all that was accepted, or all but the last packet, which
\* waits in slot i.
UpToDate == Handled(script, dfu, handled, accepted)
Behind   == accepted > 0 /\ Handled(script, dfu, handled, accepted - 1)
Waits(i) == /\ Behind
            /\ slots[i].type = script[accepted]
            /\ rx_buffer[slots[i].buffer] = accepted

\* Its acknowledgement is still in the output.
Unread == accepted = cur /\ \A i \in 1 .. Len(toHost) : toHost[i] = SeqNr(cur)

\* Nothing taken; a packet taken; the update complete, with the slot of the
\* STOP; the same with one packet more, of no type or of one; the slot handled
\* and being freed; the slot freed.
Quiet   == sched = 0 /\ count = 0 /\ NoSlot(hci, pool, slots) /\ UpToDate /\ ~dfu.complete
Pending == sched = 1 /\ count = 1 /\ OneSlot(hci, pool, slots, 0) /\ Waits(0) /\ ~dfu.complete
Ended   == sched = 0 /\ count = 1 /\ OneSlot(hci, pool, slots, 0) /\ UpToDate /\ dfu.complete
Late    == sched = 0 /\ count = 1 /\ Skipped(hci, pool, slots) /\ UpToDate /\ dfu.complete
Later   == sched = 1 /\ count = 2 /\ TwoSlots(hci, pool, slots) /\ Waits(1) /\ dfu.complete
Freeing == /\ sched = 1 /\ OneSlot(hci, pool, slots, 0) /\ UpToDate /\ ~dfu.complete
           /\ pc.index = 0 /\ count = (IF pc.at = "clear" THEN 0 ELSE 1)
           /\ pc.at = "store" => pc.reg = 1
Freed   == sched = 1 /\ count = 0 /\ NoSlot(hci, pool, slots) /\ UpToDate /\ ~dfu.complete

Loop ==
  \/ pc.at = "sched" /\ (Quiet \/ Pending \/ Ended)
  \/ pc.at = "task"  /\ (Quiet \/ Ended \/ (Unread /\ (Pending \/ Late \/ Later)))
  \/ pc.at = "while" /\ (Pending \/ Freed)
  \/ pc.at = "scan"  /\ ((pc.index = 0 /\ Pending) \/ (pc.index > 0 /\ Freed))
  \/ pc.at \in {"load", "store", "clear"} /\ Freeing

\* Closing: the slots are passed over once more, from slot 0 on.
Closing ==
  /\ dfu.complete
  /\ UpToDate \/ Behind
  /\ \/ /\ pc.at \in {"scan", "load", "store", "clear"} /\ pc.index = 0
        /\ \/ OneSlot(hci, pool, slots, 0)
           \/ TwoSlots(hci, pool, slots)
           \/ Skipped(hci, pool, slots)
     \/ /\ pc.at \in {"scan", "load", "store", "clear"} /\ pc.index = 1
        /\ OneSlot(hci, pool, slots, 1)
     \/ pc.at = "scan" /\ pc.index > 0 /\ NoSlot(hci, pool, slots)
     \/ pc.at = "closed" /\ NoSlot(hci, pool, slots)

UsbInv == build = "usb" /\ IsUpdate(script) => IF pc.closing THEN Closing ELSE Loop

\* The pool, when a packet arrives and when a buffer goes back.
Round(p) ==
  Conserved(p) /\ p.read_available_count = 1 /\ p.write_index = Succ(p.read_index)

LEMMA Neighbours ==
  ASSUME NEW b \in Buffer, PoolSize >= 3
  PROVE  /\ {Back(b, 1), Back(b, 2), Succ(b)} \subseteq Buffer
         /\ Back(Succ(b), 1) = b /\ Back(Succ(b), 2) = Back(b, 1)
         /\ Succ(Back(b, 1)) = b /\ Succ(Back(b, 2)) = Back(b, 1)
         /\ Back(b, 1) # b /\ Back(b, 2) # b /\ Back(b, 1) # Back(b, 2)
         /\ Succ(b) # b
BY PoolSizeAssumption DEF Buffer, Back, Succ

LEMMA PacketArrives ==
  ASSUME PoolSize >= 3, NEW p, Round(p), p.free_available_count \in {0, 1}
  PROVE  LET m == rx_produce(p)
             q == rx_extract(m)
         IN /\ CanProduce(p) /\ CanExtract(m) /\ m.read_index = p.read_index
            /\ p.read_index \in Buffer
            /\ Round(q) /\ q.read_index = p.write_index
            /\ q.free_available_count = p.free_available_count + 1
            /\ q.free_index = p.free_index \cup {p.write_index}
<1>1. /\ p \in Pool /\ PoolSize \in Nat /\ p.read_index \in Buffer
      /\ p.free_window_count \in Nat /\ p.free_available_count \in Nat
      /\ p.free_window_count + p.free_available_count + p.read_available_count = PoolSize
      /\ p.read_available_count = 1 /\ p.write_index = Succ(p.read_index)
  BY PoolSizeAssumption DEF Round, Conserved, Pool
<1>2. p.free_window_count # 0 /\ p.read_available_count < PoolSize
  BY <1>1
<1>3. CanProduce(p)
  BY <1>2 DEF CanProduce
<1>4. PICK m : m = rx_produce(p)
  OBVIOUS
<1>5. /\ Conserved(m) /\ m \in Pool /\ m.read_index = p.read_index
      /\ m.write_index = Succ(p.write_index) /\ m.free_index = p.free_index \cup {p.write_index}
      /\ m.read_available_count = 2 /\ m.free_available_count = p.free_available_count
  <2>1. Conserved(m)
    BY <1>3, <1>4, ProduceKeeps DEF Round
  <2> QED
    BY <1>1, <1>2, <1>3, <1>4, <2>1, Produced
<1>6. CanExtract(m)
  BY <1>5 DEF CanExtract
<1>7. m.free_available_count < PoolSize
  BY <1>1, <1>5
<1>8. PICK q : q = rx_extract(m)
  OBVIOUS
<1>9. /\ Conserved(q) /\ q.read_index = Succ(p.read_index)
      /\ q.write_index = Succ(p.write_index) /\ q.free_index = p.free_index \cup {p.write_index}
      /\ q.read_available_count = 1 /\ q.free_available_count = p.free_available_count + 1
  <2>1. Conserved(q)
    BY <1>5, <1>6, <1>8, ExtractKeeps
  <2> QED
    BY <1>5, <1>6, <1>7, <1>8, <2>1, WasExtracted
<1> QED
  BY <1>1, <1>3, <1>4, <1>5, <1>6, <1>8, <1>9 DEF Round

\* Buffers given back.  The one buffer out; the younger of two; the older of two
\* with the younger still in use, and with it given back already.
LEMMA GivesBack ==
  ASSUME PoolSize >= 3, NEW p, Round(p), NEW k \in {1, 2}, p.free_available_count \in {1, 2},
         k <= p.free_available_count
  PROVE  LET b == Last(p, k)
             q == rx_consume(p, b)
         IN /\ ConsumeOk(p, b) /\ b \in Buffer
            /\ Round(q) /\ q.read_index = p.read_index
            /\ b \in p.free_index => q.free_index = p.free_index \ {b}
            /\ q.free_available_count = p.free_available_count - GivenBack(p, b)
            /\ b \in p.free_index =>
                 GivenBack(p, b) = IF Last(p, p.free_available_count) \in p.free_index \ {b} THEN 0
                                   ELSE IF Last(p, k - 1) \in p.free_index \ {b} THEN 1
                                   ELSE p.free_available_count
<1>1. /\ p \in Pool /\ PoolSize \in Nat /\ p.read_index \in Buffer
      /\ p.free_window_count \in Nat /\ p.free_available_count \in Nat
      /\ p.free_window_count + p.free_available_count + p.read_available_count = PoolSize
      /\ p.read_available_count = 1 /\ p.write_index = Succ(p.read_index)
  BY PoolSizeAssumption DEF Round, Conserved, Pool
<1>2. k \in 1 .. p.free_available_count /\ k \in 1 .. PoolSize /\ k \in 0 .. PoolSize
      /\ p.free_window_count + p.free_available_count <= PoolSize
  BY <1>1
<1>3. PICK b : b = Last(p, k)
  OBVIOUS
<1>4. b \in Buffer /\ Succ(b) = Last(p, k - 1)
  BY <1>1, <1>2, <1>3, BackFacts DEF Last
<1>5. ConsumeOk(p, b)
  BY <1>2, <1>3 DEF ConsumeOk, Extracted, Last
<1>6. PICK q : q = rx_consume(p, b)
  OBVIOUS
<1>7. /\ Conserved(q) /\ q.read_index = p.read_index /\ q.write_index = p.write_index
      /\ q.read_available_count = p.read_available_count
      /\ q.free_available_count = p.free_available_count - GivenBack(p, b)
      /\ q.free_index = Toggled(p, b)
  <2>1. Conserved(q)
    BY <1>6, ConsumeKeeps DEF Round
  <2> QED
    BY <1>1, <1>2, <1>4, <1>5, <1>6, <2>1, WasConsumed
<1>8. Round(q)
  BY <1>1, <1>7 DEF Round
<1>9. b \in p.free_index =>
        /\ Toggled(p, b) = p.free_index \ {b}
        /\ GivenBack(p, b) = IF Last(p, p.free_available_count) \in p.free_index \ {b} THEN 0
                             ELSE IF Last(p, k - 1) \in p.free_index \ {b} THEN 1
                             ELSE p.free_available_count
  BY <1>4 DEF Toggled, GivenBack, Oldest, Last
<1> QED
  BY <1>3, <1>4, <1>5, <1>6, <1>7, <1>8, <1>9

\* The update code, one packet further.
LEMMA ListsGrow ==
  ASSUME NEW T, NEW s \in Seq(T), NEW S \in SUBSET Nat, Lists(s, S), NEW x \in T,
         \A y \in S : y < x
  PROVE  Lists(Append(s, x), S \cup {x})
<1>1. /\ Len(Append(s, x)) = Len(s) + 1 /\ Len(s) \in Nat
      /\ \A i \in 1 .. Len(s) : Append(s, x)[i] = s[i] /\ s[i] \in S
      /\ Append(s, x)[Len(s) + 1] = x
  BY DEF Lists
<1>2. /\ \A i \in 1 .. Len(s) + 1 : i \in 1 .. Len(s) \/ i = Len(s) + 1
      /\ \A i \in 1 .. Len(s) : i \in 1 .. Len(s) + 1
      /\ Len(s) + 1 \in 1 .. Len(s) + 1
  BY <1>1
<1>3. \A i, j \in 1 .. Len(s) + 1 : i < j => Append(s, x)[i] < Append(s, x)[j]
  <2> SUFFICES ASSUME NEW i \in 1 .. Len(s) + 1, NEW j \in 1 .. Len(s) + 1, i < j
               PROVE  Append(s, x)[i] < Append(s, x)[j]
    OBVIOUS
  <2>1. i \in 1 .. Len(s)
    BY <1>1
  <2>2. CASE j = Len(s) + 1
    BY <1>1, <2>1, <2>2
  <2>3. CASE j \in 1 .. Len(s)
    BY <1>1, <2>1, <2>3 DEF Lists
  <2> QED
    BY <1>2, <2>2, <2>3
<1>4. S \cup {x} = {Append(s, x)[i] : i \in 1 .. Len(s) + 1}
  <2>1. S = {s[i] : i \in 1 .. Len(s)}
    BY DEF Lists
  <2> QED
    BY <1>1, <1>2, <2>1
<1> QED
  BY <1>1, <1>3, <1>4 DEF Lists

LEMMA OneMore ==
  ASSUME NEW s, NEW h \in Nat, NEW t
  PROVE  /\ Has(s, t, h + 1) <=> Has(s, t, h) \/ s[h + 1] = t
         /\ s[h + 1] = t => Upto(s, t, h + 1) = Upto(s, t, h) \cup {h + 1}
         /\ s[h + 1] # t => Upto(s, t, h + 1) = Upto(s, t, h)
         /\ s[h + 1] # "INVALID" => Known(s, h + 1) = Known(s, h) \cup {h + 1}
         /\ s[h + 1] = "INVALID" => Known(s, h + 1) = Known(s, h)
         /\ Upto(s, t, h) \in SUBSET Nat /\ Known(s, h) \in SUBSET Nat
         /\ \A y \in Upto(s, t, h) \cup Known(s, h) : y < h + 1
<1>1. \A n : n \in 1 .. h + 1 <=> n \in 1 .. h \/ n = h + 1
  OBVIOUS
<1>2. \A n \in 1 .. h : n \in Nat /\ n < h + 1
  OBVIOUS
<1> QED
  BY <1>1, <1>2 DEF Has, Upto, Known

\* A packet without a type is no packet to the update code.
LEMMA NothingHandled ==
  ASSUME NEW s, NEW d, NEW hs, NEW h \in Nat, Handled(s, d, hs, h), h + 1 \in 0 .. Len(s),
         s[h + 1] = "INVALID"
  PROVE  Handled(s, d, hs, h + 1)
<1>1. /\ Upto(s, "DATA", h + 1) = Upto(s, "DATA", h) /\ Known(s, h + 1) = Known(s, h)
      /\ \A t \in {"START", "INIT", "STOP_DATA"} : Has(s, t, h + 1) <=> Has(s, t, h)
  BY OneMore
<1> QED
  BY <1>1 DEF Handled

\* What a host that sends an update has sent by a packet.
LEMMA InOrder ==
  ASSUME NEW s \in Seq(PacketType), IsUpdate(s), NEW h \in Nat, h + 1 \in 1 .. Len(s)
  PROVE  /\ s[h + 1] = "START" => ~Has(s, "START", h) /\ ~Has(s, "INIT", h)
                                  /\ ~Has(s, "STOP_DATA", h)
         /\ s[h + 1] = "INIT" => Has(s, "START", h) /\ ~Has(s, "INIT", h)
                                 /\ ~Has(s, "STOP_DATA", h)
         /\ s[h + 1] \in {"DATA", "STOP_DATA"} =>
              Has(s, "START", h) /\ Has(s, "INIT", h) /\ ~Has(s, "STOP_DATA", h)
         /\ s[h + 1] = "STOP_DATA" => Upto(s, "DATA", Len(s)) = Upto(s, "DATA", h)
<1>1. PICK a \in 1 .. Len(s), b \in 1 .. Len(s), c \in 1 .. Len(s) :
        /\ a < b /\ b < c
        /\ s[a] = "START" /\ s[b] = "INIT" /\ s[c] = "STOP_DATA"
        /\ \A n \in 1 .. Len(s) :
             /\ s[n] = "START" => n = a
             /\ s[n] = "INIT" => n = b
             /\ s[n] = "STOP_DATA" => n = c
             /\ s[n] = "DATA" => b < n /\ n < c
  BY DEF IsUpdate
<1>2. Len(s) \in Nat /\ a \in Nat /\ b \in Nat /\ c \in Nat
  BY <1>1
<1>3. \A n \in 1 .. h : n \in 1 .. Len(s)
  BY <1>2
<1>4. /\ Has(s, "START", h) <=> a \in 1 .. h
      /\ Has(s, "INIT", h) <=> b \in 1 .. h
      /\ Has(s, "STOP_DATA", h) <=> c \in 1 .. h
  BY <1>1, <1>3 DEF Has
<1>5. CASE s[h + 1] = "START"
  <2>1. h + 1 = a
    BY <1>1, <1>5
  <2>2. a \notin 1 .. h /\ b \notin 1 .. h /\ c \notin 1 .. h
    BY <1>1, <1>2, <2>1
  <2> QED
    BY <1>4, <1>5, <2>2
<1>6. CASE s[h + 1] = "INIT"
  <2>1. h + 1 = b
    BY <1>1, <1>6
  <2>2. a \in 1 .. h /\ b \notin 1 .. h /\ c \notin 1 .. h
    BY <1>1, <1>2, <2>1
  <2> QED
    BY <1>4, <1>6, <2>2
<1>7. CASE s[h + 1] = "DATA"
  <2>1. b < h + 1 /\ h + 1 < c
    BY <1>1, <1>7
  <2>2. a \in 1 .. h /\ b \in 1 .. h /\ c \notin 1 .. h
    BY <1>1, <1>2, <2>1
  <2> QED
    BY <1>4, <1>7, <2>2
<1>8. CASE s[h + 1] = "STOP_DATA"
  <2>1. h + 1 = c
    BY <1>1, <1>8
  <2>2. a \in 1 .. h /\ b \in 1 .. h /\ c \notin 1 .. h
    BY <1>1, <1>2, <2>1
  <2>3. \A n \in 1 .. Len(s) : s[n] = "DATA" => n \in 1 .. h
    <3> SUFFICES ASSUME NEW n \in 1 .. Len(s), s[n] = "DATA" PROVE n \in 1 .. h
      OBVIOUS
    <3>1. n < h + 1
      BY <1>1, <2>1
    <3> QED
      BY <1>2, <3>1
  <2>4. Upto(s, "DATA", Len(s)) = Upto(s, "DATA", h)
    BY <1>3, <2>3 DEF Upto
  <2> QED
    BY <1>4, <1>8, <2>2, <2>4
<1> QED
  BY <1>5, <1>6, <1>7, <1>8

\* The packet behind those handled finds the update code in the state for it.
LEMMA NextHandled ==
  ASSUME NEW s \in Seq(PacketType), IsUpdate(s), NEW h \in Nat, h + 1 \in 1 .. Len(s),
         NEW d, d.image \in Seq(0 .. Len(s)), NEW hs \in Seq(0 .. Len(s)),
         Handled(s, d, hs, h), s[h + 1] # "INVALID"
  PROVE  /\ s[h + 1] = "START" =>
              /\ d.state = "IDLE"
              /\ \A e : e.state = "RDY" /\ e.image = d.image /\ e.complete = d.complete =>
                   Handled(s, e, Append(hs, h + 1), h + 1)
         /\ s[h + 1] = "INIT" =>
              /\ d.state = "RDY"
              /\ \A e : e.state = "RX_DATA_PKT" /\ e.image = d.image /\ e.complete = d.complete =>
                   Handled(s, e, Append(hs, h + 1), h + 1)
         /\ s[h + 1] = "DATA" =>
              /\ d.state = "RX_DATA_PKT"
              /\ \A e : e.state = d.state /\ e.image = Append(d.image, h + 1)
                        /\ e.complete = d.complete =>
                   Handled(s, e, Append(hs, h + 1), h + 1)
         /\ s[h + 1] = "STOP_DATA" =>
              /\ d.state = "RX_DATA_PKT"
              /\ Lists(d.image, Upto(s, "DATA", Len(s)))
              /\ \A e : e.state = "WAIT_4_ACTIVATE" /\ e.image = d.image /\ e.complete = TRUE =>
                   Handled(s, e, Append(hs, h + 1), h + 1)
         /\ s[h + 1] = "OTHER" => Handled(s, d, Append(hs, h + 1), h + 1)
<1>1. /\ h + 1 \in 0 .. Len(s) /\ Lists(hs, Known(s, h)) /\ Lists(d.image, Upto(s, "DATA", h))
      /\ d.state = IF ~Has(s, "START", h) THEN "IDLE" ELSE IF ~Has(s, "INIT", h) THEN "RDY"
                   ELSE IF ~Has(s, "STOP_DATA", h) THEN "RX_DATA_PKT" ELSE "WAIT_4_ACTIVATE"
      /\ d.complete <=> Has(s, "STOP_DATA", h)
  BY DEF Handled
<1>2. PICK T : T = 0 .. Len(s)
  OBVIOUS
<1>3. Lists(Append(hs, h + 1), Known(s, h + 1))
  <2>1. Known(s, h + 1) = Known(s, h) \cup {h + 1} /\ Known(s, h) \in SUBSET Nat
        /\ \A y \in Known(s, h) : y < h + 1
    BY OneMore
  <2>2. hs \in Seq(T) /\ h + 1 \in T /\ Lists(hs, Known(s, h))
    BY <1>1, <1>2
  <2>3. PICK S : S = Known(s, h)
    OBVIOUS
  <2>4. Lists(Append(hs, h + 1), S \cup {h + 1})
    BY <2>1, <2>2, <2>3, ListsGrow
  <2> QED
    BY <2>1, <2>3, <2>4
<1>4. s[h + 1] = "DATA" => Lists(Append(d.image, h + 1), Upto(s, "DATA", h + 1))
  <2> SUFFICES ASSUME s[h + 1] = "DATA"
               PROVE  Lists(Append(d.image, h + 1), Upto(s, "DATA", h + 1))
    OBVIOUS
  <2>1. Upto(s, "DATA", h + 1) = Upto(s, "DATA", h) \cup {h + 1}
        /\ Upto(s, "DATA", h) \in SUBSET Nat /\ \A y \in Upto(s, "DATA", h) : y < h + 1
    BY OneMore
  <2>2. d.image \in Seq(T) /\ h + 1 \in T /\ Lists(d.image, Upto(s, "DATA", h))
    BY <1>1, <1>2
  <2>3. PICK m, S : m = d.image /\ S = Upto(s, "DATA", h)
    OBVIOUS
  <2>4. Lists(Append(m, h + 1), S \cup {h + 1})
    BY <2>1, <2>2, <2>3, ListsGrow
  <2> QED
    BY <2>1, <2>3, <2>4
<1>5. s[h + 1] # "DATA" => Upto(s, "DATA", h + 1) = Upto(s, "DATA", h)
  BY OneMore
<1>6. \A t \in {"START", "INIT", "STOP_DATA"} : Has(s, t, h + 1) <=> Has(s, t, h) \/ s[h + 1] = t
  BY OneMore
<1>7. CASE s[h + 1] = "START"
  BY <1>1, <1>3, <1>5, <1>6, <1>7, InOrder DEF Handled
<1>8. CASE s[h + 1] = "INIT"
  BY <1>1, <1>3, <1>5, <1>6, <1>8, InOrder DEF Handled
<1>9. CASE s[h + 1] = "DATA"
  BY <1>1, <1>3, <1>4, <1>6, <1>9, InOrder DEF Handled
<1>10. CASE s[h + 1] = "STOP_DATA"
  BY <1>1, <1>3, <1>5, <1>6, <1>10, InOrder DEF Handled
<1>11. CASE s[h + 1] = "OTHER"
  BY <1>1, <1>3, <1>5, <1>6, <1>11, InOrder DEF Handled
<1> QED
  BY <1>7, <1>8, <1>9, <1>10, <1>11

\* Reception over USB, while the main loop is in tud_task.
LEMMA CallbackUsb ==
  ASSUME Typed, NEW n \in 1 .. Packets, NEW b, NEW p, ConsumeOk(p, b),
         rpc_transport_event_handler(n, b, p), sched = 0, count \in {0, 1},
         NEW i \in {0, 1}, Used(slots) = {j \in {0, 1} : j < i}
  PROVE  IF Type(n) = "INVALID"
         THEN UNCHANGED <<slots, count, sched, pc>> /\ pool' = rx_consume(p, b)
         ELSE /\ slots' = [slots EXCEPT ![i] = [type |-> Type(n), buffer |-> b]]
              /\ count' = count + 1 /\ sched' = 1 /\ pool' = p /\ pc' = pc
<1>1. CASE Type(n) = "INVALID"
  BY <1>1 DEF rpc_transport_event_handler
<1>2. CASE Type(n) # "INVALID"
  <2>1. FreeSlots = {j \in Slot : ~(j < i)} /\ i \in FreeSlots
    <3>1. FreeSlots = Slot \ Used(slots)
      BY DEF FreeSlots, Used, InUse
    <3> QED
      BY <3>1 DEF Slot, MAX_BUFFERS
  <2>2. (CHOOSE k \in FreeSlots : \A j \in FreeSlots : k <= j) = i
    <3>1. \A j \in FreeSlots : i <= j
      BY <2>1 DEF Slot, MAX_BUFFERS
    <3>2. \A k \in FreeSlots : (\A j \in FreeSlots : k <= j) => k = i
      <4>1. \A k \in FreeSlots : k <= i => k = i
        BY <2>1 DEF Slot, MAX_BUFFERS
      <4> QED
        BY <2>1, <4>1
    <3> QED
      BY <2>1, <3>1, <3>2
  <2>3. ~DATA_QUEUE_FULL /\ (count + 1) % 256 = count + 1 /\ sched < SchedSize
    BY SerialAssumption DEF SerialAssumption, DATA_QUEUE_FULL, MAX_BUFFERS
  <2>4. PICK slot : slot = CHOOSE k \in FreeSlots : \A j \in FreeSlots : k <= j
    OBVIOUS
  <2>5. PICK alloc : alloc = (Type(n) # "INVALID" /\ ~DATA_QUEUE_FULL /\ FreeSlots # {})
    OBVIOUS
  <2>6. alloc = TRUE /\ slot = i
    BY <1>2, <2>1, <2>2, <2>3, <2>4, <2>5
  <2>7. /\ slots' = IF alloc THEN [slots EXCEPT ![slot] = [type |-> Type(n), buffer |-> b]]
                              ELSE slots
        /\ count' = IF alloc THEN (count + 1) % 256 ELSE count
        /\ sched' = IF alloc /\ sched < SchedSize THEN sched + 1 ELSE sched
        /\ pool' = IF alloc /\ sched < SchedSize THEN p ELSE rx_consume(p, b)
        /\ pc' = IF (alloc /\ sched < SchedSize) \/ ConsumeOk(p, b) THEN pc
                                                    ELSE [pc EXCEPT !.at = "reset"]
    BY <2>4, <2>5 DEF rpc_transport_event_handler
  <2>8. 0 + 1 = 1
    OBVIOUS
  <2> QED
    BY <1>2, <2>3, <2>6, <2>7, <2>8
<1> QED
  BY <1>1, <1>2

LEMMA ConcatFirst ==
  ASSUME NEW S, NEW s \in Seq(S), NEW t \in Seq(S)
  PROVE  \A i \in 1 .. Len(s) : i \in 1 .. Len(s \o t) /\ (s \o t)[i] = s[i]
<1>1. /\ Len(s \o t) = Len(s) + Len(t) /\ Len(s) \in Nat /\ Len(t) \in Nat
      /\ \A i \in 1 .. Len(s) + Len(t) : (s \o t)[i] = IF i <= Len(s) THEN s[i] ELSE t[i - Len(s)]
  BY ConcatProperties
<1> QED
  BY <1>1

LEMMA NewPacketUsb ==
  ASSUME Typed, PoolConserved, WireInv, PoolSize >= 3, NewPacket(cur), cur \in 1 .. Packets,
         accepted = cur - 1, UNCHANGED <<script, cur, toHost, dfu, handled>>, Quiet \/ Ended
  PROVE  /\ pc' = pc
         /\ Quiet' \/ (Unread' /\ (Pending' \/ Late' \/ Later'))
<1> DEFINE u == pool.read_index
           m == rx_produce(pool)
           q == rx_extract(m)
           k == pool.free_available_count
<1>1. /\ Round(pool) /\ pool \in Pool /\ u \in Buffer /\ k \in {0, 1} /\ hci.used = u
      /\ sched = 0 /\ count = k /\ count \in {0, 1} /\ slots \in SlotsSet /\ cur \in Nat
      /\ rx_buffer \in [Buffer -> 0 .. Packets] /\ pool.write_index = Succ(u)
      /\ UpToDate
  BY DEF Typed, PoolConserved, Quiet, Ended, NoSlot, OneSlot, Ready, Round, Conserved, Pool
<1>2. /\ CanProduce(pool) /\ CanExtract(m) /\ m.read_index = u
      /\ Round(q) /\ q.read_index = Succ(u) /\ q.free_available_count = k + 1
      /\ q.free_index = pool.free_index \cup {Succ(u)}
  BY <1>1, PacketArrives
<1>3. /\ hci'.used = Succ(u) /\ hci'.registered = "pool"
      /\ rx_buffer' = [rx_buffer EXCEPT ![u] = cur] /\ accepted' = accepted + 1
      /\ rpc_transport_event_handler(cur, u, q)
  BY <1>1, <1>2 DEF NewPacket
<1>4. /\ {Back(u, 1), Back(u, 2), Succ(u)} \subseteq Buffer
      /\ Back(Succ(u), 1) = u /\ Back(Succ(u), 2) = Back(u, 1) /\ Back(Succ(u), 0) = Succ(u)
      /\ Back(u, 1) # u /\ Back(u, 1) # Succ(u) /\ Succ(u) # u
  <2>1. Succ(u) \in Buffer
    BY <1>1, Neighbours
  <2>2. 0 \in 0 .. PoolSize
    BY PoolSizeAssumption
  <2>3. Back(Succ(u), 1) # Back(Succ(u), 2) /\ Back(Succ(u), 2) # Succ(u)
    BY <2>1, Neighbours
  <2> QED
    BY <1>1, <2>1, <2>2, <2>3, Neighbours, BackFacts
<1>5. /\ ConsumeOk(q, u) /\ u = Last(q, 1)
      /\ LET r == rx_consume(q, u) IN
           /\ Round(r) /\ r.read_index = Succ(u)
           /\ u \in q.free_index => r.free_index = q.free_index \ {u}
           /\ r.free_available_count = q.free_available_count - GivenBack(q, u)
           /\ u \in q.free_index =>
                GivenBack(q, u) = IF Last(q, k + 1) \in q.free_index \ {u} THEN 0
                                  ELSE IF Succ(u) \in q.free_index \ {u} THEN 1
                                  ELSE q.free_available_count
  <2>1. u = Last(q, 1) /\ Succ(u) = Last(q, 1 - 1)
    BY <1>2, <1>4 DEF Last
  <2>2. q.free_available_count \in {1, 2} /\ 1 <= q.free_available_count
    BY <1>1, <1>2
  <2> HIDE DEF q, m, k
  <2>3. q.free_available_count = k + 1
    BY <1>2
  <2> QED
    BY <1>2, <2>1, <2>2, <2>3, GivesBack
<1>6. Used(slots) = {j \in {0, 1} : j < k}
  BY <1>1 DEF Quiet, Ended, NoSlot, OneSlot, Ready
<1>7. IF Type(cur) = "INVALID"
      THEN UNCHANGED <<slots, count, sched, pc>> /\ pool' = rx_consume(q, u)
      ELSE /\ slots' = [slots EXCEPT ![k] = [type |-> Type(cur), buffer |-> u]]
           /\ count' = count + 1 /\ sched' = 1 /\ pool' = q /\ pc' = pc
  <2> HIDE DEF q, k, u
  <2> QED
    BY <1>1, <1>3, <1>5, <1>6, CallbackUsb
<1>8. accepted' = cur /\ accepted + 1 = cur /\ accepted' - 1 = accepted /\ accepted' > 0
      /\ Type(cur) = script[cur]
  BY <1>1, <1>3 DEF Type
<1>9. Unread'
  <2>1. PICK A : A = 0 .. SeqModulus - 1
    OBVIOUS
  <2>2. toHost \in Seq(A) /\ tx \in Seq(A)
    BY <2>1 DEF Typed
  <2>3. accepted # cur
    BY <1>1
  <2>4. \A i \in 1 .. Len(toHost) : toHost[i] = SeqNr(cur)
    BY <2>2, <2>3, ConcatFirst DEF WireInv, Acks
  <2> QED
    BY <1>8, <2>4 DEF Unread
<1>10. Behind'
  BY <1>1, <1>8 DEF Behind, UpToDate
<1>11. script[cur] = "INVALID" => UpToDate'
  <2>1. accepted \in Nat /\ accepted + 1 \in 0 .. Len(script)
    BY <1>1, <1>8, ScriptTypes DEF Typed, Packets
  <2> QED
    BY <1>1, <1>8, <2>1, NothingHandled DEF UpToDate
<1> HIDE DEF m, q
<1>12. CASE Quiet /\ script[cur] = "INVALID"
  <2>1. k = 0 /\ q.free_index = {u, Succ(u)} /\ Used(slots) = {} /\ ~dfu.complete
    BY <1>2, <1>12 DEF Quiet, NoSlot, Ready
  <2>2. pool' = rx_consume(q, u) /\ UNCHANGED <<slots, count, sched, pc>>
    BY <1>7, <1>8, <1>12
  <2>3. Last(q, k + 1) = u /\ q.free_index \ {u} = {Succ(u)}
    BY <1>4, <1>5, <2>1
  <2>4. /\ pool'.free_index = {pool'.read_index} /\ pool'.free_available_count = 0
        /\ pool'.read_index = Succ(u) /\ Round(pool')
    BY <1>2, <1>4, <1>5, <2>1, <2>2, <2>3
  <2>5. NoSlot(hci', pool', slots')
    BY <1>3, <2>1, <2>2, <2>4 DEF NoSlot, Ready, Round
  <2>6. Quiet'
    BY <1>1, <1>11, <1>12, <2>1, <2>2, <2>5 DEF Quiet
  <2> QED
    BY <2>2, <2>6
<1>13. CASE Ended /\ script[cur] = "INVALID"
  <2>1. /\ k = 1 /\ q.free_index = {u, Back(u, 1), Succ(u)} /\ Used(slots) = {0} /\ dfu.complete
        /\ slots[0].buffer = Back(u, 1)
    BY <1>2, <1>13 DEF Ended, OneSlot, Ready, Last
  <2>2. pool' = rx_consume(q, u) /\ UNCHANGED <<slots, count, sched, pc>>
    BY <1>7, <1>8, <1>13
  <2>3. Last(q, k + 1) = Back(u, 1) /\ q.free_index \ {u} = {Succ(u), Back(u, 1)}
    BY <1>2, <1>4, <2>1 DEF Last
  <2>4. /\ pool'.free_index = {Succ(u), Back(u, 1)} /\ pool'.free_available_count = 2
        /\ pool'.read_index = Succ(u) /\ Round(pool')
    BY <1>2, <1>4, <1>5, <2>1, <2>2, <2>3
  <2>5. Skipped(hci', pool', slots')
    BY <1>3, <1>4, <2>1, <2>2, <2>4 DEF Skipped, Ready, Round, Last
  <2>6. Late'
    BY <1>1, <1>11, <1>13, <2>1, <2>2, <2>5 DEF Late, Ended
  <2> QED
    BY <1>9, <2>2, <2>6
<1>14. CASE script[cur] # "INVALID"
  <2>1. /\ slots' = [slots EXCEPT ![k] = [type |-> script[cur], buffer |-> u]]
        /\ count' = k + 1 /\ sched' = 1 /\ pool' = q /\ pc' = pc
    BY <1>1, <1>7, <1>8, <1>14
  <2>2. rx_buffer'[u] = cur
    BY <1>1, <1>3
  <2>3. slots'[k].buffer = u /\ slots'[k].type = script[cur]
        /\ \A i \in Slot : i # k => slots'[i] = slots[i]
    BY <1>1, <2>1 DEF SlotsSet, Slot, MAX_BUFFERS
  <2>4. Used(slots') = Used(slots) \cup {k}
    BY <1>1, <1>14, <2>3 DEF Used, Slot, MAX_BUFFERS
  <2>P. /\ Ready(hci', pool', k + 1) /\ pool'.read_index = Succ(u)
        /\ Last(pool', 1) = u /\ Last(pool', 2) = Back(u, 1)
        /\ pool'.free_index = pool.free_index \cup {Succ(u)}
    <3>1. pool' = q
      BY <2>1
    <3>2. Ready(hci', q, k + 1)
      BY <1>2, <1>3 DEF Ready, Round
    <3>3. Last(q, 1) = u /\ Last(q, 2) = Back(u, 1)
      BY <1>2, <1>4 DEF Last
    <3> HIDE DEF k
    <3> QED
      BY <1>2, <3>1, <3>2, <3>3
  <2>5. CASE Quiet
    <3>1. k = 0 /\ q.free_index = {u, Succ(u)} /\ Used(slots) = {} /\ ~dfu.complete
      BY <1>2, <2>5 DEF Quiet, NoSlot, Ready
    <3>2. OneSlot(hci', pool', slots', 0)
      <4>1. pool.free_index = {u} /\ k + 1 = 1
        BY <2>5, <3>1 DEF Quiet, NoSlot
      <4>2. Ready(hci', pool', 1) /\ Used(slots') = {0} /\ slots'[0].buffer = u
        BY <2>3, <2>4, <2>P, <3>1, <4>1
      <4> QED
        BY <2>P, <4>1, <4>2 DEF OneSlot
    <3>3. Waits(0)'
      BY <1>8, <1>10, <2>2, <2>3, <3>1 DEF Waits
    <3>4. Pending'
      BY <2>1, <3>1, <3>2, <3>3 DEF Pending
    <3> QED
      BY <1>9, <2>1, <3>4
  <2>6. CASE Ended
    <3>1. /\ k = 1 /\ q.free_index = {u, Back(u, 1), Succ(u)} /\ Used(slots) = {0} /\ dfu.complete
          /\ slots[0].buffer = Back(u, 1)
      BY <1>2, <2>6 DEF Ended, OneSlot, Ready, Last
    <3>2. slots'[0].buffer = Back(u, 1) /\ Used(slots') = {0, 1}
      BY <2>3, <2>4, <3>1 DEF Slot, MAX_BUFFERS
    <3>3. TwoSlots(hci', pool', slots')
      <4>1. pool.free_index = {u, Back(u, 1)} /\ k + 1 = 2
        BY <2>6, <3>1 DEF Ended, OneSlot, Last
      <4>2. Ready(hci', pool', 2) /\ slots'[1].buffer = u
        BY <2>3, <2>P, <3>1, <4>1
      <4> QED
        BY <2>P, <3>2, <4>1, <4>2 DEF TwoSlots
    <3>4. Waits(1)'
      BY <1>8, <1>10, <2>2, <2>3, <3>1 DEF Waits
    <3>5. Later'
      BY <2>1, <3>1, <3>3, <3>4 DEF Later
    <3> QED
      BY <1>9, <2>1, <3>5
  <2> QED
    BY <2>5, <2>6
<1> QED
  BY <1>12, <1>13, <1>14

\* A repeated packet overwrites a buffer that no slot uses.
LEMMA OldPacketUsb ==
  ASSUME Typed, PoolConserved, PoolSize >= 3, NEW n, OldPacket(n),
         UNCHANGED <<script, cur, toHost, dfu, handled>>
  PROVE  /\ Quiet => Quiet'
         /\ Ended => Ended'
         /\ Unread /\ (Pending \/ Late \/ Later) => Unread' /\ (Pending' \/ Late' \/ Later')
<1>1. /\ hci \in HciSet /\ pool \in Pool /\ rx_buffer \in [Buffer -> 0 .. Packets]
      /\ pool.read_index \in Buffer
  BY DEF Typed, Pool
<1>2. /\ hci' = [hci EXCEPT !.registered = Registered(hci.used)]
      /\ rx_buffer' = [rx_buffer EXCEPT ![hci.used] = n]
      /\ UNCHANGED <<pool, slots, count, sched, accepted>>
  BY DEF OldPacket
<1>3. NoBuffer \notin Buffer
  BY PoolSizeAssumption DEF NoBuffer, Buffer
<1>4. hci.used \in Buffer => hci'.used = hci.used /\ hci'.registered = "pool"
  BY <1>1, <1>2, <1>3 DEF HciSet, Registered
<1>5. \A k : Ready(hci, pool, k) => Ready(hci', pool', k)
  BY <1>1, <1>2, <1>4 DEF Ready
<1>6. /\ NoSlot(hci, pool, slots) => NoSlot(hci', pool', slots')
      /\ OneSlot(hci, pool, slots, 0) => OneSlot(hci', pool', slots', 0)
      /\ TwoSlots(hci, pool, slots) => TwoSlots(hci', pool', slots')
      /\ Skipped(hci, pool, slots) => Skipped(hci', pool', slots')
  BY <1>2, <1>5 DEF NoSlot, OneSlot, TwoSlots, Skipped
<1>7. /\ UpToDate' <=> UpToDate
      /\ Behind' <=> Behind
      /\ Unread' <=> Unread
  BY <1>2 DEF UpToDate, Behind, Unread
<1>8. /\ OneSlot(hci, pool, slots, 0) /\ Waits(0) => Waits(0)'
      /\ TwoSlots(hci, pool, slots) /\ Waits(1) => Waits(1)'
  <2>1. Last(pool, 1) # pool.read_index
    BY <1>1, Neighbours DEF Last
  <2>2. \A b : b # hci.used => rx_buffer'[b] = rx_buffer[b]
    BY <1>1, <1>2
  <2>3. /\ OneSlot(hci, pool, slots, 0) => slots[0].buffer # hci.used
        /\ TwoSlots(hci, pool, slots) => slots[1].buffer # hci.used
    BY <2>1 DEF OneSlot, TwoSlots, Ready
  <2> QED
    BY <1>2, <1>7, <2>2, <2>3 DEF Waits
<1> QED
  BY <1>2, <1>6, <1>7, <1>8 DEF Quiet, Ended, Pending, Late, Later

LEMMA RxUsb ==
  ASSUME Typed, PoolConserved, WireInv, PoolSize >= 3, RxPacket, build = "usb",
         ~pc.closing, Loop
  PROVE  ~pc'.closing /\ Loop'
<1>1. /\ CanReceive /\ RxDone /\ toDevice # << >> /\ pc.at = "task"
      /\ UNCHANGED <<script, cur, toHost, dfu, handled>>
  BY DEF RxPacket, CanReceive, RxDone, hostVars
<1>2. Quiet \/ Ended \/ (Unread /\ (Pending \/ Late \/ Later))
  BY <1>1 DEF Loop
<1>3. hci.registered = "pool"
  BY <1>2 DEF Quiet, Ended, Pending, Late, Later, NoSlot, OneSlot, TwoSlots, Skipped, Ready
<1>4. CASE Expects(Head(toDevice))
  <2>1. Head(toDevice) = cur /\ accepted = cur - 1 /\ cur \in 1 .. Packets
    BY <1>1, <1>4, ExpectedIsNext
  <2>2. NewPacket(cur)
    BY <1>3, <1>4, <2>1 DEF RxPacket
  <2>3. ~Unread
    <3>1. cur \in Nat
      BY <2>1
    <3> QED
      BY <2>1, <3>1 DEF Unread
  <2>4. pc' = pc /\ (Quiet' \/ (Unread' /\ (Pending' \/ Late' \/ Later')))
    BY <1>1, <1>2, <2>1, <2>2, <2>3, NewPacketUsb
  <2>5. pc'.at = "task" /\ ~pc'.closing
    BY <1>1, <2>4
  <2> QED
    BY <2>4, <2>5 DEF Loop
<1>5. CASE ~Expects(Head(toDevice))
  <2>1. OldPacket(Head(toDevice))
    BY <1>3, <1>5 DEF RxPacket
  <2>2. pc' = pc
    BY <2>1 DEF OldPacket
  <2>3. Quiet' \/ Ended' \/ (Unread' /\ (Pending' \/ Late' \/ Later'))
    BY <1>1, <1>2, <2>1, OldPacketUsb
  <2>4. pc'.at = "task" /\ ~pc'.closing
    BY <1>1, <2>2
  <2> QED
    BY <2>3, <2>4 DEF Loop
<1> QED
  BY <1>4, <1>5

\* The update code is given the packet in slot 0.
LEMMA HandleUsb ==
  ASSUME Typed, IsUpdate(script), HandlePacket, Loop
  PROVE  ~pc'.closing /\ Loop'
<1>1. /\ pc \in PcSet /\ pc.at = "scan" /\ ~pc.closing /\ pc.index \in Used(slots)
      /\ handled' = Append(handled, rx_buffer[slots[pc.index].buffer])
      /\ UNCHANGED <<script, hci, pool, slots, rx_buffer, count, accepted>>
  BY DEF Typed, HandlePacket, InUse, Used, hostVars, bufferVars
<1>2. pc.index = 0 /\ Pending
  BY <1>1 DEF Loop, Freed, NoSlot
<1>3. /\ sched = 1 /\ count = 1 /\ OneSlot(hci, pool, slots, 0) /\ ~dfu.complete
      /\ accepted > 0 /\ Handled(script, dfu, handled, accepted - 1)
      /\ slots[0].type = script[accepted] /\ rx_buffer[slots[0].buffer] = accepted
  BY <1>2 DEF Pending, Waits, Behind
<1>4. PICK h \in Nat : accepted = h + 1 /\ h + 1 \in 1 .. Len(script)
  <2>1. accepted \in 0 .. Len(script) /\ Len(script) \in Nat
    BY ScriptTypes DEF Typed, Packets
  <2> WITNESS accepted - 1 \in Nat
  <2> QED
    BY <1>3, <2>1
<1>5. /\ Handled(script, dfu, handled, h) /\ script \in Seq(PacketType)
      /\ dfu \in DfuSet /\ handled \in Seq(0 .. Len(script))
      /\ dfu.image \in Seq(0 .. Len(script))
  <2>1. accepted - 1 = h
    BY <1>4
  <2>2. dfu \in DfuSet /\ handled \in Seq(0 .. Packets) /\ script \in Seq(PacketType)
    BY SerialAssumption DEF SerialAssumption, Typed
  <2>3. dfu.image \in Seq(0 .. Packets)
    BY <2>2, DfuTypes
  <2> QED
    BY <1>3, <2>1, <2>2, <2>3 DEF Packets
<1>6. slots[0].type = script[h + 1] /\ script[h + 1] # "INVALID"
      /\ handled' = Append(handled, h + 1)
  BY <1>1, <1>2, <1>3, <1>4 DEF Used
<1>7. /\ OneSlot(hci', pool', slots', 0) /\ count' = 1
      /\ UpToDate' = Handled(script, dfu', Append(handled, h + 1), h + 1)
  BY <1>1, <1>3, <1>4, <1>6 DEF UpToDate
<1>8. ASSUME UpToDate', dfu'.complete = dfu.complete, pc' = [pc EXCEPT !.at = "load"],
             sched' = sched
      PROVE  ~pc'.closing /\ Loop'
  <2>1. pc'.at = "load" /\ pc'.index = 0 /\ ~pc'.closing
    BY <1>1, <1>2, <1>8 DEF PcSet
  <2>2. Freeing'
    BY <1>3, <1>7, <1>8, <2>1 DEF Freeing
  <2> QED
    BY <2>1, <2>2 DEF Loop
<1>9. \A st, im : LET e == [dfu EXCEPT !.state = st]
                      f == [dfu EXCEPT !.image = im]
                  IN /\ e.state = st /\ e.image = dfu.image /\ e.complete = dfu.complete
                     /\ f.state = dfu.state /\ f.image = im /\ f.complete = dfu.complete
  BY <1>5 DEF DfuSet
<1>10. CASE slots[0].type = "START"
  <2>1. dfu.state = "IDLE"
        /\ \A e : e.state = "RDY" /\ e.image = dfu.image /\ e.complete = dfu.complete =>
             Handled(script, e, Append(handled, h + 1), h + 1)
    BY <1>4, <1>5, <1>6, <1>10, NextHandled
  <2>2. /\ dfu' = [dfu EXCEPT !.state = "RDY"] /\ pc' = [pc EXCEPT !.at = "load"]
        /\ sched' = sched
    BY <1>2, <1>10, <2>1 DEF HandlePacket, Goto
  <2> QED
    BY <1>7, <1>8, <1>9, <2>1, <2>2
<1>11. CASE slots[0].type = "INIT"
  <2>1. dfu.state = "RDY"
        /\ \A e : e.state = "RX_DATA_PKT" /\ e.image = dfu.image /\ e.complete = dfu.complete =>
             Handled(script, e, Append(handled, h + 1), h + 1)
    BY <1>4, <1>5, <1>6, <1>11, NextHandled
  <2>2. /\ dfu' = [dfu EXCEPT !.state = "RX_DATA_PKT"] /\ pc' = [pc EXCEPT !.at = "load"]
        /\ sched' = sched
    BY <1>2, <1>11, <2>1 DEF HandlePacket, Goto
  <2> QED
    BY <1>7, <1>8, <1>9, <2>1, <2>2
<1>12. CASE slots[0].type = "DATA"
  <2>1. dfu.state = "RX_DATA_PKT"
        /\ \A e : e.state = dfu.state /\ e.image = Append(dfu.image, h + 1)
                  /\ e.complete = dfu.complete =>
             Handled(script, e, Append(handled, h + 1), h + 1)
    BY <1>4, <1>5, <1>6, <1>12, NextHandled
  <2>2. /\ dfu' = [dfu EXCEPT !.image = Append(dfu.image, h + 1)]
        /\ pc' = [pc EXCEPT !.at = "load"] /\ sched' = sched
    BY <1>2, <1>3, <1>4, <1>12, <2>1 DEF HandlePacket, Goto
  <2> QED
    BY <1>7, <1>8, <1>9, <2>1, <2>2
<1>13. CASE slots[0].type = "STOP_DATA"
  <2>1. /\ dfu.state = "RX_DATA_PKT" /\ Lists(dfu.image, Upto(script, "DATA", Len(script)))
        /\ \A e : e.state = "WAIT_4_ACTIVATE" /\ e.image = dfu.image /\ e.complete = TRUE =>
             Handled(script, e, Append(handled, h + 1), h + 1)
    BY <1>4, <1>5, <1>6, <1>13, NextHandled
  <2>2. Activates
    BY <2>1 DEF Activates, Validates, ImageData, Upto, Type, Packets
  <2>3. /\ dfu' = [dfu EXCEPT !.state = "WAIT_4_ACTIVATE", !.complete = TRUE]
        /\ pc' = [pc EXCEPT !.at = "sched"] /\ sched' = 0
    <3>1. /\ dfu' = [dfu EXCEPT !.state = IF Activates THEN "WAIT_4_ACTIVATE" ELSE dfu.state,
                                !.complete = Activates \/ dfu.complete]
          /\ pc' = [pc EXCEPT !.at = "sched"] /\ sched' = sched - 1
      BY <1>2, <1>13 DEF HandlePacket, EventDone, Goto
    <3>2. (Activates \/ dfu.complete) = TRUE /\ 1 - 1 = 0
      BY <2>2
    <3> QED
      BY <1>3, <2>2, <3>1, <3>2
  <2>4. /\ dfu'.state = "WAIT_4_ACTIVATE" /\ dfu'.image = dfu.image /\ dfu'.complete = TRUE
        /\ pc'.at = "sched" /\ ~pc'.closing
    BY <1>1, <1>5, <2>3 DEF DfuSet, PcSet
  <2>5. UpToDate'
    BY <1>7, <2>1, <2>4
  <2>6. Ended'
    BY <1>7, <2>3, <2>4, <2>5 DEF Ended
  <2> QED
    BY <2>4, <2>6 DEF Loop
<1>14. CASE slots[0].type = "OTHER"
  <2>1. Handled(script, dfu, Append(handled, h + 1), h + 1)
    BY <1>4, <1>5, <1>6, <1>14, NextHandled
  <2>2. dfu' = dfu /\ pc' = [pc EXCEPT !.at = "load"] /\ sched' = sched
    BY <1>2, <1>14 DEF HandlePacket, Goto
  <2> QED
    BY <1>7, <1>8, <2>1, <2>2
<1>15. slots[0].type \in {"START", "INIT", "DATA", "STOP_DATA", "OTHER"}
  BY <1>4, <1>5, <1>6 DEF PacketType
<1> QED
  BY <1>10, <1>11, <1>12, <1>13, <1>14, <1>15

\* A slot is freed and its buffer given back.
LEMMA ClearUsb ==
  ASSUME Typed, PoolConserved, PoolSize >= 3, NEW i \in {0, 1},
         pool' = rx_consume(pool, slots[i].buffer), slots' = [slots EXCEPT ![i] = FREE],
         hci' = hci
  PROVE  /\ OneSlot(hci, pool, slots, i) =>
              ConsumeOk(pool, slots[i].buffer) /\ NoSlot(hci', pool', slots')
         /\ i = 0 /\ TwoSlots(hci, pool, slots) =>
              ConsumeOk(pool, slots[i].buffer) /\ OneSlot(hci', pool', slots', 1)
         /\ i = 0 /\ Skipped(hci, pool, slots) =>
              ConsumeOk(pool, slots[i].buffer) /\ NoSlot(hci', pool', slots')
<1>1. /\ pool \in Pool /\ pool.read_index \in Buffer /\ slots \in SlotsSet /\ Conserved(pool)
  BY DEF Typed, PoolConserved, Conserved, Pool
<1>2. /\ Last(pool, 0) = pool.read_index /\ Last(pool, 1) # pool.read_index
      /\ Last(pool, 2) # pool.read_index /\ Last(pool, 1) # Last(pool, 2)
  <2>1. 0 \in 0 .. PoolSize
    BY PoolSizeAssumption
  <2> QED
    BY <1>1, <2>1, Neighbours, BackFacts DEF Last
<1>3. /\ \A j \in Slot : slots'[j] = IF j = i THEN FREE ELSE slots[j]
      /\ Used(slots') = Used(slots) \ {i}
  BY <1>1 DEF SlotsSet, Used, FREE, Slot, MAX_BUFFERS
<1>4. /\ 1 - 1 = 0 /\ 2 - 1 = 1 /\ 2 - 2 = 0 /\ 1 <= 1 /\ 2 <= 2 /\ 0 # 1
      /\ {1, 2} = {1} \cup {2}
  OBVIOUS
<1>5. ASSUME NEW k \in {0, 1, 2}, Ready(hci, pool, k)
      PROVE  Round(pool)
  BY <1>1, <1>5 DEF Ready, Round
<1>6. ASSUME OneSlot(hci, pool, slots, i)
      PROVE  ConsumeOk(pool, slots[i].buffer) /\ NoSlot(hci', pool', slots')
  <2>1. /\ Ready(hci, pool, 1) /\ pool.free_available_count = 1 /\ slots[i].buffer = Last(pool, 1)
        /\ pool.free_index = {pool.read_index, Last(pool, 1)} /\ Used(slots) = {i}
    BY <1>6 DEF OneSlot, Ready
  <2>2. Round(pool)
    BY <1>5, <2>1
  <2>3. /\ ConsumeOk(pool, Last(pool, 1)) /\ Round(pool') /\ pool'.read_index = pool.read_index
        /\ pool'.free_index = {pool.read_index}
        /\ pool'.free_available_count = 1 - GivenBack(pool, Last(pool, 1))
        /\ GivenBack(pool, Last(pool, 1)) = IF Last(pool, 1) \in {pool.read_index} THEN 0
                                            ELSE IF Last(pool, 0) \in {pool.read_index} THEN 1
                                            ELSE 1
    <3>1. pool.free_index \ {Last(pool, 1)} = {pool.read_index}
          /\ Last(pool, 1) \in pool.free_index
      BY <1>2, <2>1
    <3> QED
      BY <1>4, <2>1, <2>2, <3>1, GivesBack
  <2>4. NoSlot(hci', pool', slots')
    BY <1>2, <1>3, <1>4, <2>1, <2>3 DEF NoSlot, Ready, Round
  <2> QED
    BY <2>1, <2>3, <2>4
<1>7. ASSUME i = 0, TwoSlots(hci, pool, slots)
      PROVE  ConsumeOk(pool, slots[i].buffer) /\ OneSlot(hci', pool', slots', 1)
  <2>1. /\ Ready(hci, pool, 2) /\ pool.free_available_count = 2 /\ slots[i].buffer = Last(pool, 2)
        /\ pool.free_index = {pool.read_index, Last(pool, 1), Last(pool, 2)}
        /\ Used(slots) = {0, 1} /\ slots[1].buffer = Last(pool, 1)
    BY <1>7 DEF TwoSlots, Ready
  <2>2. Round(pool)
    BY <1>5, <2>1
  <2>3. /\ ConsumeOk(pool, Last(pool, 2)) /\ Round(pool') /\ pool'.read_index = pool.read_index
        /\ pool'.free_index = {pool.read_index, Last(pool, 1)}
        /\ pool'.free_available_count = 1
    <3>1. pool.free_index \ {Last(pool, 2)} = {pool.read_index, Last(pool, 1)}
          /\ Last(pool, 2) \in pool.free_index
      BY <1>2, <2>1
    <3>2. /\ ConsumeOk(pool, Last(pool, 2)) /\ Round(pool') /\ pool'.read_index = pool.read_index
          /\ pool'.free_index = {pool.read_index, Last(pool, 1)}
          /\ pool'.free_available_count = 2 - GivenBack(pool, Last(pool, 2))
          /\ GivenBack(pool, Last(pool, 2)) =
               IF Last(pool, 2) \in {pool.read_index, Last(pool, 1)} THEN 0
               ELSE IF Last(pool, 1) \in {pool.read_index, Last(pool, 1)} THEN 1
               ELSE 2
      BY <1>4, <2>1, <2>2, <3>1, GivesBack
    <3> QED
      BY <1>2, <1>4, <3>2
  <2>4. /\ slots'[1].buffer = Last(pool', 1) /\ Used(slots') = {1}
    <3>1. 1 \in Slot /\ {0, 1} \ {0} = {1}
      BY DEF Slot, MAX_BUFFERS
    <3>2. slots'[1] = slots[1] /\ Used(slots') = {1}
      BY <1>3, <1>4, <1>7, <2>1, <3>1
    <3>3. Last(pool', 1) = Last(pool, 1)
      BY <2>3 DEF Last
    <3> QED
      BY <2>1, <3>2, <3>3
  <2>5. pool'.free_index = {pool'.read_index, Last(pool', 1)}
    BY <2>3 DEF Last
  <2>6. OneSlot(hci', pool', slots', 1)
    BY <2>1, <2>3, <2>4, <2>5 DEF OneSlot, Ready, Round
  <2> QED
    BY <2>1, <2>3, <2>6
<1>8. ASSUME i = 0, Skipped(hci, pool, slots)
      PROVE  ConsumeOk(pool, slots[i].buffer) /\ NoSlot(hci', pool', slots')
  <2>1. /\ Ready(hci, pool, 2) /\ pool.free_available_count = 2 /\ slots[i].buffer = Last(pool, 2)
        /\ pool.free_index = {pool.read_index, Last(pool, 2)} /\ Used(slots) = {0}
    BY <1>8 DEF Skipped, Ready
  <2>2. Round(pool)
    BY <1>5, <2>1
  <2>3. /\ ConsumeOk(pool, Last(pool, 2)) /\ Round(pool') /\ pool'.read_index = pool.read_index
        /\ pool'.free_index = {pool.read_index}
        /\ pool'.free_available_count = 0
    <3>1. pool.free_index \ {Last(pool, 2)} = {pool.read_index}
          /\ Last(pool, 2) \in pool.free_index
      BY <1>2, <2>1
    <3>2. /\ ConsumeOk(pool, Last(pool, 2)) /\ Round(pool') /\ pool'.read_index = pool.read_index
          /\ pool'.free_index = {pool.read_index}
          /\ pool'.free_available_count = 2 - GivenBack(pool, Last(pool, 2))
          /\ GivenBack(pool, Last(pool, 2)) =
               IF Last(pool, 2) \in {pool.read_index} THEN 0
               ELSE IF Last(pool, 1) \in {pool.read_index} THEN 1
               ELSE 2
      BY <1>4, <2>1, <2>2, <3>1, GivesBack
    <3> QED
      BY <1>2, <1>4, <3>2
  <2>4. NoSlot(hci', pool', slots')
    BY <1>3, <1>8, <2>1, <2>3 DEF NoSlot, Ready, Round
  <2> QED
    BY <2>1, <2>3, <2>4
<1> QED
  BY <1>6, <1>7, <1>8

LEMMA NextIndex == \A p \in PcSet : p.index + 1 > 0
<1> SUFFICES ASSUME NEW p \in PcSet PROVE p.index + 1 > 0
  OBVIOUS
<1>1. p.index \in 0 .. MAX_BUFFERS
  BY PcTypes
<1>2. \A k \in 0 .. MAX_BUFFERS : k + 1 > 0
  BY DEF MAX_BUFFERS
<1> QED
  BY <1>1, <1>2

\* The main loop over USB, until it closes.
LEMMA LoopUsb ==
  ASSUME Typed, PoolConserved, PoolSize >= 3, build = "usb", IsUpdate(script),
         ~pc.closing, Loop, MainStep
  PROVE  IF pc'.closing THEN Closing' ELSE Loop'
<1>1. /\ pc \in PcSet /\ InUse = Used(slots)
  BY DEF Typed, InUse, Used
<1>2. ASSUME UNCHANGED <<script, hci, pool, slots, rx_buffer, dfu, handled, accepted>>
      PROVE  /\ NoSlot(hci', pool', slots') <=> NoSlot(hci, pool, slots)
             /\ \A i : OneSlot(hci', pool', slots', i) <=> OneSlot(hci, pool, slots, i)
             /\ TwoSlots(hci', pool', slots') <=> TwoSlots(hci, pool, slots)
             /\ Skipped(hci', pool', slots') <=> Skipped(hci, pool, slots)
             /\ UpToDate' <=> UpToDate
             /\ Behind' <=> Behind
             /\ Waits(0)' <=> Waits(0)
             /\ dfu'.complete <=> dfu.complete
  BY <1>2 DEF UpToDate, Behind, Waits
<1> USE DEF hostVars, linkVars, bufferVars
<1>3. CASE SchedTakes
  <2>1. pc.at = "sched" /\ pc'.at = "while" /\ ~pc'.closing /\ sched > 0
    BY <1>1, <1>3 DEF SchedTakes, Goto, PcSet
  <2>2. Pending
    BY <2>1 DEF Loop, Quiet, Ended
  <2>3. Pending'
    BY <1>2, <1>3, <2>2 DEF SchedTakes, Pending
  <2> QED
    BY <2>1, <2>3 DEF Loop
<1>4. CASE SchedEmpty
  <2>1. pc.at = "sched" /\ pc'.at = "task" /\ ~pc'.closing /\ sched = 0
    BY <1>1, <1>4 DEF SchedEmpty, Goto, PcSet
  <2>2. Quiet \/ Ended
    BY <2>1 DEF Loop, Pending
  <2>3. Quiet' \/ Ended'
    BY <1>2, <1>4, <2>2 DEF SchedEmpty, Quiet, Ended
  <2> QED
    BY <2>1, <2>3 DEF Loop
<1>5. CASE WhileNotEmpty
  <2>1. pc.at = "while" /\ ~pc'.closing
        /\ IF count = 0 THEN pc'.at = "sched" /\ sched' = sched - 1
                        ELSE pc'.at = "scan" /\ pc'.index = 0 /\ sched' = sched
    BY <1>1, <1>5 DEF WhileNotEmpty, EventDone, Goto, PcSet
  <2>2. Pending \/ Freed
    BY <2>1 DEF Loop
  <2>3. CASE Pending
    <3>1. Pending' /\ pc'.at = "scan" /\ pc'.index = 0
      BY <1>2, <1>5, <2>1, <2>3 DEF WhileNotEmpty, Pending
    <3> QED
      BY <2>1, <3>1 DEF Loop
  <2>4. CASE Freed
    <3>1. Quiet' /\ pc'.at = "sched"
      <4>1. 1 - 1 = 0
        OBVIOUS
      <4> QED
        BY <1>2, <1>5, <2>1, <2>4, <4>1 DEF WhileNotEmpty, Freed, Quiet
    <3> QED
      BY <2>1, <3>1 DEF Loop
  <2> QED
    BY <2>2, <2>3, <2>4
<1>6. CASE SkipSlot
  <2>1. /\ pc.at = "scan" /\ ~pc'.closing
        /\ \/ pc.index \notin Used(slots) /\ pc'.at = "scan" /\ pc'.index = pc.index + 1
           \/ pc.index = MAX_BUFFERS /\ pc'.at = "while"
    BY <1>1, <1>6 DEF SkipSlot, Goto, PcSet
  <2>2. pc.index > 0 /\ Freed
    BY <2>1 DEF Loop, Pending, OneSlot, MAX_BUFFERS
  <2>3. Freed'
    BY <1>2, <1>6, <2>2 DEF SkipSlot, Freed
  <2>4. pc.index + 1 > 0
    BY <1>1, <2>2, NextIndex
  <2> QED
    BY <2>1, <2>3, <2>4 DEF Loop
<1>7. CASE HandlePacket
  BY <1>7, HandleUsb
<1>8. CASE FlushSlot
  BY <1>8 DEF FlushSlot
<1>9. CASE FreeLoad
  <2>1. /\ pc.at = "load" /\ pc'.at = "store" /\ pc'.index = pc.index /\ pc'.reg = count
        /\ ~pc'.closing
    BY <1>1, <1>9 DEF FreeLoad, PcSet
  <2>2. Freeing /\ count = 1
    BY <2>1 DEF Loop, Freeing
  <2>3. Freeing'
    BY <1>2, <1>9, <2>1, <2>2 DEF FreeLoad, Freeing
  <2> QED
    BY <2>1, <2>3 DEF Loop
<1>10. CASE FreeStore
  <2>1. /\ pc.at = "store" /\ pc'.at = "clear" /\ pc'.index = pc.index /\ ~pc'.closing
    BY <1>1, <1>10 DEF FreeStore, PcSet
  <2>2. Freeing /\ pc.reg = 1
    BY <2>1 DEF Loop, Freeing
  <2>3. count' = 0
    <3>1. (1 + 255) % 256 = 0
      OBVIOUS
    <3> QED
      BY <1>10, <2>2, <3>1 DEF FreeStore
  <2>4. Freeing'
    BY <1>2, <1>10, <2>1, <2>2, <2>3 DEF FreeStore, Freeing
  <2> QED
    BY <2>1, <2>4 DEF Loop
<1>11. CASE FreeClear
  <2>1. pc.at = "clear" /\ Freeing /\ pc.index = 0
    BY <1>11 DEF FreeClear, Loop, Freeing
  <2>2. /\ pool' = rx_consume(pool, slots[0].buffer) /\ slots' = [slots EXCEPT ![0] = FREE]
        /\ pc' = [pc EXCEPT !.at = IF ConsumeOk(pool, slots[0].buffer) THEN "scan" ELSE "reset",
                            !.index = 0 + 1]
        /\ UNCHANGED <<script, hci, rx_buffer, count, sched, dfu, handled, accepted>>
    BY <1>11, <2>1 DEF FreeClear
  <2>3. ConsumeOk(pool, slots[0].buffer) /\ NoSlot(hci', pool', slots')
    BY <2>1, <2>2, ClearUsb DEF Freeing
  <2>4. pc'.at = "scan" /\ pc'.index > 0 /\ ~pc'.closing
    <3>1. 0 + 1 = 1 /\ 1 > 0
      OBVIOUS
    <3> QED
      BY <1>1, <2>2, <2>3, <3>1 DEF PcSet
  <2>5. Freed'
    BY <2>1, <2>2, <2>3 DEF Freeing, Freed, UpToDate
  <2> QED
    BY <2>4, <2>5 DEF Loop
<1>12. CASE TaskDone
  <2>1. /\ pc.at = "task"
        /\ UNCHANGED <<script, hci, pool, slots, rx_buffer, dfu, handled, accepted, count, sched>>
        /\ IF dfu.complete THEN pc'.at = "scan" /\ pc'.index = 0 /\ pc'.closing
                           ELSE pc'.at = "sched" /\ ~pc'.closing
    BY <1>1, <1>12 DEF TaskDone, PcSet
  <2>2. Quiet \/ Ended \/ Pending \/ Late \/ Later
    BY <2>1 DEF Loop
  <2>3. CASE Quiet \/ Pending
    <3>1. ~dfu.complete /\ (Quiet' \/ Pending')
      BY <1>2, <2>1, <2>3 DEF Quiet, Pending
    <3> QED
      BY <2>1, <3>1 DEF Loop
  <2>4. CASE Ended \/ Late \/ Later
    <3>1. /\ dfu.complete /\ (UpToDate \/ Behind)
          /\ \/ OneSlot(hci, pool, slots, 0)
             \/ TwoSlots(hci, pool, slots)
             \/ Skipped(hci, pool, slots)
      BY <2>4 DEF Ended, Late, Later, Waits
    <3>2. Closing'
      BY <1>2, <2>1, <3>1 DEF Closing
    <3> QED
      BY <2>1, <3>1, <3>2
  <2> QED
    BY <2>2, <2>3, <2>4
<1> QED
  BY <1>3, <1>4, <1>5, <1>6, <1>7, <1>8, <1>9, <1>10, <1>11, <1>12 DEF MainStep

\* Closing over USB.
LEMMA ClosingUsb ==
  ASSUME Typed, PoolConserved, PoolSize >= 3, pc.closing, Closing, MainStep
  PROVE  pc'.closing /\ Closing'
<1>1. /\ pc \in PcSet /\ InUse = Used(slots)
  BY DEF Typed, InUse, Used
<1> USE DEF hostVars, linkVars, bufferVars
<1>2. UNCHANGED <<script, hci, dfu, handled, accepted>> /\ pc'.closing
  BY <1>1 DEF MainStep, Closing, SchedTakes, SchedEmpty, WhileNotEmpty, SkipSlot, HandlePacket,
       FlushSlot, FreeLoad, FreeStore, FreeClear, TaskDone, Goto, PcSet
<1>3. dfu'.complete /\ (UpToDate' \/ Behind')
  BY <1>2 DEF Closing, UpToDate, Behind
<1>4. CASE UNCHANGED <<pool, slots>> /\ pc'.index = pc.index
           /\ {pc.at, pc'.at} \subseteq {"scan", "load", "store", "clear"}
           /\ pc.index \in Used(slots)
  <2>1. ~NoSlot(hci, pool, slots)
    BY <1>4 DEF NoSlot
  <2> QED
    BY <1>2, <1>3, <1>4, <2>1 DEF Closing
<1>5. CASE SkipSlot
  <2>1. /\ pc.at = "scan" /\ UNCHANGED <<pool, slots>>
        /\ \/ pc.index \notin Used(slots) /\ pc'.at = "scan" /\ pc'.index = pc.index + 1
           \/ pc.index = MAX_BUFFERS /\ pc'.at = "closed"
    BY <1>1, <1>5 DEF SkipSlot, Goto, PcSet
  <2>2. pc.index > 0 /\ NoSlot(hci, pool, slots)
    BY <2>1 DEF Closing, OneSlot, TwoSlots, Skipped, MAX_BUFFERS
  <2>3. pc.index + 1 > 0
    BY <1>1, NextIndex
  <2> QED
    BY <1>2, <1>3, <2>1, <2>2, <2>3 DEF Closing
<1>6. CASE FlushSlot
  <2>1. UNCHANGED <<pool, slots>> /\ pc'.index = pc.index /\ pc.at = "scan" /\ pc'.at = "load"
        /\ pc.index \in Used(slots)
    BY <1>1, <1>6 DEF FlushSlot, Goto, PcSet
  <2> QED
    BY <1>2, <1>4, <2>1
<1>7. ASSUME pc.at \in {"load", "store", "clear"}
      PROVE  /\ pc.index \in {0, 1} /\ pc.index \in Used(slots)
             /\ \/ OneSlot(hci, pool, slots, pc.index)
                \/ pc.index = 0 /\ TwoSlots(hci, pool, slots)
                \/ pc.index = 0 /\ Skipped(hci, pool, slots)
  BY <1>7 DEF Closing, OneSlot, TwoSlots, Skipped
<1>8. CASE FreeLoad \/ FreeStore
  <2>1. UNCHANGED <<pool, slots>> /\ pc'.index = pc.index
        /\ pc.at \in {"load", "store"} /\ pc'.at \in {"store", "clear"}
    <3>1. CASE FreeLoad
      BY <1>1, <3>1 DEF FreeLoad, PcSet
    <3>2. CASE FreeStore
      BY <1>1, <3>2 DEF FreeStore, PcSet
    <3> QED
      BY <1>8, <3>1, <3>2
  <2> QED
    BY <1>2, <1>4, <1>7, <2>1
<1>9. CASE FreeClear
  <2>1. PICK i \in {0, 1} : i = pc.index
    BY <1>7, <1>9 DEF FreeClear
  <2>2. /\ pool' = rx_consume(pool, slots[i].buffer) /\ slots' = [slots EXCEPT ![i] = FREE]
        /\ pc' = [pc EXCEPT !.at = IF ConsumeOk(pool, slots[i].buffer) THEN "scan" ELSE "reset",
                            !.index = i + 1]
        /\ pc.at = "clear"
    BY <1>9, <2>1 DEF FreeClear
  <2>3. pc'.at = (IF ConsumeOk(pool, slots[i].buffer) THEN "scan" ELSE "reset")
        /\ pc'.index = i + 1 /\ i + 1 > 0
    BY <1>1, <2>2 DEF PcSet
  <2>4. CASE OneSlot(hci, pool, slots, i) \/ (i = 0 /\ Skipped(hci, pool, slots))
    <3>1. ConsumeOk(pool, slots[i].buffer) /\ NoSlot(hci', pool', slots')
      BY <1>2, <2>2, <2>4, ClearUsb
    <3> QED
      BY <1>2, <1>3, <2>3, <3>1 DEF Closing
  <2>5. CASE i = 0 /\ TwoSlots(hci, pool, slots)
    <3>1. ConsumeOk(pool, slots[i].buffer) /\ OneSlot(hci', pool', slots', 1)
      BY <1>2, <2>2, <2>5, ClearUsb
    <3>2. i + 1 = 1
      BY <2>5
    <3> QED
      BY <1>2, <1>3, <2>3, <3>1, <3>2 DEF Closing
  <2> QED
    BY <1>7, <2>1, <2>2, <2>4, <2>5
<1>10. SkipSlot \/ FlushSlot \/ FreeLoad \/ FreeStore \/ FreeClear
  BY DEF MainStep, Closing, SchedTakes, SchedEmpty, WhileNotEmpty, HandlePacket, TaskDone
<1> QED
  BY <1>5, <1>6, <1>8, <1>9, <1>10

LEMMA InitUsb == PoolSize >= 3 /\ Init => UsbInv
<1> SUFFICES ASSUME PoolSize >= 3, Init, IsUpdate(script) PROVE ~pc.closing /\ Loop
  BY DEF UsbInv
<1>1. PoolSize \in Nat /\ 0 \in Buffer /\ Succ(0) = 1 /\ 1 \in Buffer
  BY PoolSizeAssumption DEF Buffer, Succ
<1>2. /\ hci = [expected |-> SeqNr(1), used |-> 0, registered |-> "pool"]
      /\ pool = rx_produce(hci_mem_pool_open) /\ slots = [i \in Slot |-> FREE]
      /\ count = 0 /\ sched = 0 /\ accepted = 0 /\ handled = << >>
      /\ pc = [at |-> "sched", index |-> 0, reg |-> 0, closing |-> FALSE]
      /\ dfu = [state |-> "IDLE", image |-> << >>, complete |-> FALSE]
  BY DEF Init
<1>3. NoSlot(hci, pool, slots)
  <2>1. /\ pool.read_index = 0 /\ pool.write_index = Succ(0) /\ pool.free_available_count = 0
        /\ pool.read_available_count = 1 /\ pool.free_index = {0}
    BY <1>2 DEF rx_produce, hci_mem_pool_open
  <2>2. Used(slots) = {}
    BY <1>2 DEF Used, FREE
  <2> QED
    BY <1>2, <2>1, <2>2 DEF NoSlot, Ready
<1>4. UpToDate /\ ~dfu.complete
  <2>1. 1 .. 0 = {}
    OBVIOUS
  <2>2. \A t : ~Has(script, t, 0) /\ Upto(script, t, 0) = {}
    BY <2>1 DEF Has, Upto
  <2>3. Known(script, 0) = {}
    BY <2>1 DEF Known
  <2>4. Lists(<< >>, {})
    <3>1. 1 .. Len(<< >>) = {}
      OBVIOUS
    <3> QED
      BY <3>1 DEF Lists
  <2>5. 0 \in 0 .. Len(script)
    BY SerialAssumption DEF SerialAssumption, Init
  <2> QED
    BY <1>2, <2>2, <2>3, <2>4, <2>5 DEF UpToDate, Handled
<1> QED
  BY <1>2, <1>3, <1>4 DEF Loop, Quiet

\* The steps of the host do not change what the update code was given; what
\* stays on the line asks for the same packet.
LEMMA HostUsb ==
  ASSUME Typed, WireInv, HostSends \/ HostReads, UsbInv
  PROVE  UsbInv'
<1> USE DEF hostVars, linkVars, bufferVars
<1>1. UNCHANGED <<build, script, hci, pool, rx_buffer, slots, count, sched, pc, dfu,
                  handled, accepted>>
  BY DEF HostSends, HostReads
<1>2. Unread => Unread'
  <2> SUFFICES ASSUME Unread PROVE Unread'
    OBVIOUS
  <2>1. CASE HostSends
    BY <2>1 DEF HostSends, Unread
  <2>2. CASE HostReads
    <3>1. PICK A : A = 0 .. SeqModulus - 1
      OBVIOUS
    <3>2. /\ toHost \in Seq(A) /\ toHost # << >> /\ toHost' = Tail(toHost)
          /\ cur \in Nat
      BY <2>2, <3>1, ScriptTypes DEF HostReads, Typed
    <3>3. /\ Head(toHost) = SeqNr(cur)
          /\ \A i \in 1 .. Len(Tail(toHost)) : Tail(toHost)[i] = SeqNr(cur)
      BY <3>2, HeadAndTail DEF Unread
    <3>4. SeqNr(cur) # SeqNr(cur + 1)
      BY <3>2, SeqNrNext
    <3>5. cur' = cur
      BY <2>2, <3>3, <3>4 DEF HostReads
    <3> QED
      BY <1>1, <3>2, <3>3, <3>5 DEF Unread
  <2> QED
    BY <2>1, <2>2
<1>3. /\ UpToDate' <=> UpToDate
      /\ Behind' <=> Behind
      /\ Waits(0)' <=> Waits(0)
      /\ Waits(1)' <=> Waits(1)
  BY <1>1 DEF UpToDate, Behind, Waits
<1>4. /\ Quiet' <=> Quiet
      /\ Pending' <=> Pending
      /\ Ended' <=> Ended
      /\ Late' <=> Late
      /\ Later' <=> Later
      /\ Freeing' <=> Freeing
      /\ Freed' <=> Freed
  BY <1>1, <1>3 DEF Quiet, Pending, Ended, Late, Later, Freeing, Freed
<1>5. Loop => Loop'
  BY <1>1, <1>2, <1>4 DEF Loop
<1>6. Closing => Closing'
  BY <1>1, <1>3 DEF Closing
<1> QED
  BY <1>1, <1>5, <1>6 DEF UsbInv

LEMMA UsbStep == PoolSize >= 3 /\ IInv /\ UsbInv /\ [Next]_vars => UsbInv'
<1> SUFFICES ASSUME PoolSize >= 3, IInv, UsbInv, [Next]_vars PROVE UsbInv'
  OBVIOUS
<1>1. Typed /\ PoolConserved /\ WireInv /\ LoopInv
  BY TypedMeans DEF IInv
<1>2. UNCHANGED <<build, script>>
  BY DEF Next, vars, hostVars, linkVars, bufferVars, HostSends, HostReads, AckLost, RxPacket,
         RxDamaged, RxDone, TxDone, MainStep, SchedTakes, SchedEmpty, WhileNotEmpty, SkipSlot,
         HandlePacket, FlushSlot, FreeLoad, FreeStore, FreeClear, TaskDone
<1> SUFFICES ASSUME build = "usb", IsUpdate(script)
             PROVE  IF pc'.closing THEN Closing' ELSE Loop'
  BY <1>2 DEF UsbInv
<1>3. IF pc.closing THEN Closing ELSE Loop
  BY DEF UsbInv
<1>4. CASE HostSends \/ HostReads
  <2>1. UsbInv'
    BY <1>1, <1>4, HostUsb
  <2>2. build' = "usb" /\ IsUpdate(script)'
    BY <1>2
  <2> QED
    BY <2>1, <2>2 DEF UsbInv
<1>5. CASE AckLost \/ RxDamaged \/ TxDone
  BY <1>5 DEF AckLost, RxDamaged, TxDone
<1>6. CASE RxPacket
  <2>1. ~pc.closing
    BY <1>6, <1>1 DEF RxPacket, CanReceive, LoopInv
  <2> QED
    BY <1>1, <1>3, <1>6, <2>1, RxUsb
<1>7. CASE MainStep
  <2>1. CASE pc.closing
    BY <1>1, <1>3, <1>7, <2>1, ClosingUsb
  <2>2. CASE ~pc.closing
    BY <1>1, <1>3, <1>7, <2>2, LoopUsb
  <2> QED
    BY <2>1, <2>2
<1>8. CASE UNCHANGED vars
  <2>1. UsbInv'
    <3> USE DEF vars, hostVars, linkVars, bufferVars
    <3>1. /\ UpToDate' <=> UpToDate
          /\ Behind' <=> Behind
          /\ Waits(0)' <=> Waits(0)
          /\ Waits(1)' <=> Waits(1)
          /\ Unread' <=> Unread
      BY <1>8 DEF UpToDate, Behind, Waits, Unread
    <3>2. /\ Quiet' <=> Quiet
          /\ Pending' <=> Pending
          /\ Ended' <=> Ended
          /\ Late' <=> Late
          /\ Later' <=> Later
          /\ Freeing' <=> Freeing
          /\ Freed' <=> Freed
      BY <1>8, <3>1 DEF Quiet, Pending, Ended, Late, Later, Freeing, Freed
    <3>3. (Loop' <=> Loop) /\ (Closing' <=> Closing)
      BY <1>8, <3>1, <3>2 DEF Loop, Closing
    <3> QED
      BY <1>8, <3>3 DEF UsbInv
  <2>2. build' = "usb" /\ IsUpdate(script)'
    BY <1>2
  <2> QED
    BY <2>1, <2>2 DEF UsbInv
<1> QED
  BY <1>4, <1>5, <1>6, <1>7, <1>8 DEF Next

\* What the invariant says of the two properties.
LEMMA HandledUsb == UsbInv => UsbHandledInOrder
<1> SUFFICES ASSUME UsbInv, build = "usb", IsUpdate(script)
             PROVE  /\ pc.at # "reset"
                    /\ \/ Lists(handled, Worth(accepted))
                       \/ accepted > 0 /\ Lists(handled, Worth(accepted - 1))
  BY DEF UsbHandledInOrder
<1>1. IF pc.closing THEN Closing ELSE Loop
  BY DEF UsbInv
<1>2. pc.at # "reset"
  BY <1>1 DEF Loop, Closing
<1>3. UpToDate \/ Behind
  BY <1>1 DEF Loop, Closing, Quiet, Pending, Ended, Late, Later, Freeing, Freed, Waits
<1>4. \A n : Known(script, n) = Worth(n)
  BY DEF Known, Worth, Type
<1> QED
  BY <1>2, <1>3, <1>4 DEF UpToDate, Behind, Handled

LEMMA ApartUsb == PoolSize >= 3 /\ IInv /\ UsbInv => UsbBuffersApart
<1> SUFFICES ASSUME PoolSize >= 3, IInv, UsbInv, build = "usb", IsUpdate(script),
                    pc.at = "task"
             PROVE  /\ hci.registered = "pool"
                    /\ \A i \in InUse : slots[i].buffer # hci.used
                    /\ pool.read_available_count = 1
                    /\ ~dfu.complete => pool.free_available_count = Cardinality(InUse)
  BY DEF UsbBuffersApart
<1>1. Typed /\ LoopInv /\ ~pc.closing /\ Loop
  BY TypedMeans DEF IInv, LoopInv, UsbInv
<1>2. Quiet \/ Ended \/ Pending \/ Late \/ Later
  BY <1>1 DEF Loop
<1>3. pool.read_index \in Buffer
  BY <1>1 DEF Typed, Pool
<1>4. Last(pool, 1) # pool.read_index /\ Last(pool, 2) # pool.read_index
  BY <1>3, Neighbours DEF Last
<1>5. InUse = Used(slots)
  BY DEF InUse, Used
<1>6. \/ NoSlot(hci, pool, slots)
      \/ OneSlot(hci, pool, slots, 0)
      \/ (TwoSlots(hci, pool, slots) \/ Skipped(hci, pool, slots)) /\ dfu.complete
  BY <1>2 DEF Quiet, Ended, Pending, Late, Later
<1>7. CASE NoSlot(hci, pool, slots)
  <2>1. Cardinality({}) = 0
    BY FS_EmptySet
  <2> QED
    BY <1>5, <1>7, <2>1 DEF NoSlot, Ready
<1>8. CASE OneSlot(hci, pool, slots, 0)
  <2>1. Cardinality({0}) = 1
    BY FS_Singleton
  <2> QED
    BY <1>4, <1>5, <1>8, <2>1 DEF OneSlot, Ready
<1>9. CASE (TwoSlots(hci, pool, slots) \/ Skipped(hci, pool, slots)) /\ dfu.complete
  BY <1>4, <1>5, <1>9 DEF TwoSlots, Skipped, Ready
<1> QED
  BY <1>6, <1>7, <1>8, <1>9

THEOREM UsbInvariance ==
  ASSUME PoolSize >= 3
  PROVE  Spec => [](IInv /\ UsbInv)
<1>1. Init => IInv /\ UsbInv
  BY InitInv, InitUsb
<1>2. IInv /\ UsbInv /\ [Next]_vars => (IInv /\ UsbInv)'
  BY UsbStep, TypeStep, LoopStep, WireStep DEF IInv
<1> QED
  BY <1>1, <1>2, PTL DEF Spec

\* With USB, a pool of at least three buffers and a host that sends an update,
\* the update code is given every accepted packet once and in order, the last
\* one before the next is accepted, and no error resets the device.
THEOREM UsbInOrder ==
  ASSUME PoolSize >= 3
  PROVE  Spec => []UsbHandledInOrder
BY UsbInvariance, HandledUsb, PTL

\* With USB, a pool of at least three buffers and a host that sends an update,
\* SLIP has a buffer that no slot uses whenever frames can arrive, and the pool
\* has all others back until the update is complete.
THEOREM UsbApart ==
  ASSUME PoolSize >= 3
  PROVE  Spec => []UsbBuffersApart
BY UsbInvariance, ApartUsb, PTL

=============================================================================
