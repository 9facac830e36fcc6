---------------------------- MODULE HciPool_proof ----------------------------
(***************************************************************************)
(* What the steps of a buffer's life do to the receive pool, for every     *)
(* pool size: the facts that the proofs about both transports stand on.    *)
(***************************************************************************)
EXTENDS HciPool, Integers, TLAPS

\* Steps back and one step on, round the ring.
LEMMA BackFacts ==
  ASSUME NEW i \in Buffer, NEW k \in 0 .. PoolSize
  PROVE  /\ Back(i, k) \in Buffer
         /\ Succ(i) \in Buffer
         /\ Back(i, 0) = i
         /\ k \in 1 .. PoolSize => Succ(Back(i, k)) = Back(i, k - 1)
         /\ k < PoolSize => Back(Succ(i), k + 1) = Back(i, k)
BY PoolSizeAssumption DEF Buffer, Back, Succ

LEMMA BackApart ==
  ASSUME NEW i \in Buffer, NEW j \in 0 .. PoolSize, NEW k \in 0 .. PoolSize,
         Back(i, j) = Back(i, k), j # k
  PROVE  (j = 0 /\ k = PoolSize) \/ (j = PoolSize /\ k = 0)
BY PoolSizeAssumption DEF Buffer, Back

\* What produce, extract and consume do to the fields of the pool.
LEMMA Produced ==
  ASSUME NEW p \in Pool, CanProduce(p), p.read_available_count < PoolSize
  PROVE  LET q == rx_produce(p) IN
           /\ q \in Pool
           /\ q.free_window_count = p.free_window_count - 1
           /\ q.free_available_count = p.free_available_count
           /\ q.read_available_count = p.read_available_count + 1
           /\ q.write_index = Succ(p.write_index)
           /\ q.read_index = p.read_index
           /\ q.free_index = p.free_index \cup {p.write_index}
<1>1. /\ p.free_window_count - 1 \in 0 .. PoolSize
      /\ p.read_available_count + 1 \in 0 .. PoolSize
      /\ p.free_index \cup {p.write_index} \in SUBSET Buffer
  BY PoolSizeAssumption DEF Pool, CanProduce
<1>2. Succ(p.write_index) \in Buffer
  BY PoolSizeAssumption DEF Pool, Succ, Buffer
<1>3. rx_produce(p) \in Pool
  BY <1>1, <1>2 DEF rx_produce, Pool
<1> QED
  BY <1>3 DEF rx_produce, Pool

LEMMA WasExtracted ==
  ASSUME NEW p \in Pool, CanExtract(p), p.free_available_count < PoolSize
  PROVE  LET q == rx_extract(p) IN
           /\ q \in Pool
           /\ q.free_window_count = p.free_window_count
           /\ q.free_available_count = p.free_available_count + 1
           /\ q.read_available_count = p.read_available_count - 1
           /\ q.write_index = p.write_index
           /\ q.read_index = Succ(p.read_index)
           /\ q.free_index = p.free_index
<1>1. /\ p.read_available_count - 1 \in 0 .. PoolSize
      /\ p.free_available_count + 1 \in 0 .. PoolSize
  BY PoolSizeAssumption DEF Pool, CanExtract
<1>2. Succ(p.read_index) \in Buffer
  BY PoolSizeAssumption DEF Pool, Succ, Buffer
<1>3. rx_extract(p) \in Pool
  BY <1>1, <1>2 DEF rx_extract, Pool
<1> QED
  BY <1>3 DEF rx_extract, Pool

\* The bit of a consumed buffer is toggled; then one, all or none go back.
Toggled(p, b)   == IF b \in p.free_index THEN p.free_index \ {b}
                                         ELSE p.free_index \cup {b}
GivenBack(p, b) == IF Oldest(p) \in Toggled(p, b) THEN 0
                   ELSE IF Succ(b) \in Toggled(p, b) THEN 1
                   ELSE p.free_available_count

LEMMA WasConsumed ==
  ASSUME NEW p \in Pool, NEW b \in Buffer, ConsumeOk(p, b),
         p.free_window_count + p.free_available_count <= PoolSize
  PROVE  LET q == rx_consume(p, b) IN
           /\ q \in Pool
           /\ p.free_available_count > 0
           /\ q.free_window_count = p.free_window_count + GivenBack(p, b)
           /\ q.free_available_count = p.free_available_count - GivenBack(p, b)
           /\ q.read_available_count = p.read_available_count
           /\ q.write_index = p.write_index
           /\ q.read_index = p.read_index
           /\ q.free_index = Toggled(p, b)
<1>1. /\ p.free_available_count \in 1 .. PoolSize /\ p.free_window_count \in 0 .. PoolSize
      /\ p.free_index \in SUBSET Buffer
  BY PoolSizeAssumption DEF Pool, ConsumeOk, Extracted
<1>2. /\ Toggled(p, b) \in SUBSET Buffer
      /\ GivenBack(p, b) \in 0 .. p.free_available_count
  BY <1>1 DEF Toggled, GivenBack
<1> DEFINE q(bits, given) == [p EXCEPT !.free_index = bits,
                                       !.free_available_count = @ - given,
                                       !.free_window_count = @ + given]
<1>3. rx_consume(p, b) = q(Toggled(p, b), GivenBack(p, b))
  <2> DEFINE found == ConsumeOk(p, b)
             last  == IF found THEN b ELSE p.read_index
             bits  == IF ~found THEN p.free_index
                      ELSE IF b \in p.free_index THEN p.free_index \ {b}
                      ELSE p.free_index \cup {b}
             given == IF p.free_available_count = 0 \/ Oldest(p) \in bits THEN 0
                      ELSE IF Succ(last) \in bits THEN 1
                      ELSE p.free_available_count
  <2>1. bits = Toggled(p, b)
    BY DEF Toggled
  <2>2. given = GivenBack(p, b)
    <3>1. p.free_available_count # 0 /\ last = b
      BY <1>1
    <3> HIDE DEF bits, last
    <3> QED
      BY <2>1, <3>1 DEF GivenBack
  <2>3. rx_consume(p, b) = q(bits, given)
    BY DEF rx_consume
  <2> QED
    BY <2>1, <2>2, <2>3
<1>4. ASSUME NEW bits \in SUBSET Buffer, NEW given \in 0 .. p.free_available_count
      PROVE  /\ q(bits, given) \in Pool
             /\ q(bits, given).free_window_count = p.free_window_count + given
             /\ q(bits, given).free_available_count = p.free_available_count - given
             /\ q(bits, given).read_available_count = p.read_available_count
             /\ q(bits, given).write_index = p.write_index
             /\ q(bits, given).read_index = p.read_index
             /\ q(bits, given).free_index = bits
  <2>1. /\ p.free_available_count - given \in 0 .. PoolSize
        /\ p.free_window_count + given \in 0 .. PoolSize
    BY <1>1, PoolSizeAssumption
  <2> QED
    BY <2>1 DEF Pool
<1> HIDE DEF q
<1> QED
  BY <1>1, <1>2, <1>3, <1>4
=============================================================================
