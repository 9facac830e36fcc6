------------------------------- MODULE HciPool -------------------------------
(***************************************************************************)
(* The receive pool of hci_mem_pool.c: a ring of buffers through which one *)
(* position passes per step of a buffer's life.  write_index hands buffers *)
(* to SLIP (produce), read_index hands received ones to the application    *)
(* (extract), and consume gives back, from the oldest on, those whose bit  *)
(* in free_index is clear again.                                           *)
(***************************************************************************)
EXTENDS Naturals

CONSTANT PoolSize   \* HCI_RX_BUF_QUEUE_SIZE

ASSUME PoolSizeAssumption == PoolSize \in Nat \ {0}

Buffer   == 0 .. PoolSize - 1
NoBuffer == PoolSize                \* the NULL that a failed produce leaves

\* The masks with HCI_RX_BUF_QUEUE_SIZE - 1, for one step on and k steps back.
Succ(i)    == IF i = PoolSize - 1 THEN 0 ELSE i + 1
Back(i, k) == IF k <= i THEN i - k ELSE i + PoolSize - k

\* free_index is a bit mask in the code and the set of its 1 bits here.
Pool == [free_window_count : 0 .. PoolSize, free_available_count : 0 .. PoolSize,
         read_available_count : 0 .. PoolSize, write_index : Buffer,
         read_index : Buffer, free_index : SUBSET Buffer]

hci_mem_pool_open ==
  [free_window_count |-> PoolSize, free_available_count |-> 0,
   read_available_count |-> 0, write_index |-> 0, read_index |-> 0,
   free_index |-> {}]

\* produce takes the buffer at write_index; extract the one at read_index.
CanProduce(p) == p.free_window_count # 0

rx_produce(p) ==
  [p EXCEPT !.free_window_count = @ - 1, !.read_available_count = @ + 1,
            !.free_index = @ \cup {p.write_index}, !.write_index = Succ(@)]

CanExtract(p) == p.read_available_count # 0

rx_extractUncounted(p) ==
  [p EXCEPT !.free_available_count = @ + 1, !.read_index = Succ(@)]

rx_extract(p) ==
  [p EXCEPT !.read_available_count = @ - 1, !.free_available_count = @ + 1,
            !.read_index = Succ(@)]

\* The buffers that consume searches: the free_available_count last extracted.
Oldest(p)      == Back(p.read_index, p.free_available_count)
Extracted(p)   == {Back(p.read_index, k) : k \in 1 .. p.free_available_count}
ConsumeOk(p, b) == b \in Extracted(p)

\* Consuming toggles the buffer's bit and then gives back clear buffers.  Only
\* the first test looks at the oldest one: every later one looks again at the
\* buffer after the consumed one (after none found: at the one after
\* read_index), so once that is clear the loop runs until nothing is left.
rx_consumeKept(p, b) == p

rx_consume(p, b) ==
  LET found  == ConsumeOk(p, b)
      last   == IF found THEN b ELSE p.read_index
      bits   == IF ~found THEN p.free_index
                ELSE IF b \in p.free_index THEN p.free_index \ {b}
                ELSE p.free_index \cup {b}
      given  == IF p.free_available_count = 0 \/ Oldest(p) \in bits THEN 0
                ELSE IF Succ(last) \in bits THEN 1
                ELSE p.free_available_count
  IN [p EXCEPT !.free_index = bits,
               !.free_available_count = @ - given,
               !.free_window_count = @ + given]
=============================================================================
