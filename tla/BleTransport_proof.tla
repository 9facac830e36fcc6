------------------------- MODULE BleTransport_proof -------------------------
(***************************************************************************)
(* BleTransport for every pool, image, receipt interval and number of lost *)
(* links: what the host is told is in flash or queued for it, no buffer is *)
(* used again before its store, the flash queue has room, the device stays *)
(* there for a host, and packets are taken in order until one is refused.  *)
(***************************************************************************)
EXTENDS BleTransport, HciPool_proof, SequenceTheorems

-----------------------------------------------------------------------------
(* The inductive invariant. *)

\* The events of links that are not handled yet, seen from the radio.
NoLink(s)      == \A i \in 1 .. Len(s) : s[i].op \notin LinkOp
OneLink(s, op) == \E i \in 1 .. Len(s) :
  /\ s[i].op = op
  /\ \A j \in 1 .. Len(s) : s[j].op \in LinkOp => j = i
BothLinks(s) == \E i, j \in 1 .. Len(s) :
  /\ i < j /\ s[i].op = "connected" /\ s[j].op = "disconnected"
  /\ \A k \in 1 .. Len(s) : s[k].op \in LinkOp => k \in {i, j}

Link(s, radio, handle, advertising, tears) ==
  \/ radio = "adv" /\ NoLink(s) /\ ~handle /\ advertising
  \/ radio = "up" /\ OneLink(s, "connected") /\ ~handle /\ advertising
  \/ radio = "up" /\ NoLink(s) /\ handle /\ ~advertising
  \/ radio = "closing" /\ NoLink(s) /\ handle /\ ~advertising /\ tears
  \/ radio = "down" /\ BothLinks(s) /\ ~handle /\ advertising
  \/ radio = "down" /\ OneLink(s, "disconnected") /\ handle /\ ~advertising
  \/ radio = "down" /\ NoLink(s) /\ ~handle /\ ~advertising /\ tears

LinkInv == Link(events, air, m_conn_handle, m_is_advertising, m_tear_down_in_progress)

EventsInv ==
  \A i \in 1 .. Len(events) : events[i].op \in Packet => events[i].n <= Total

\* What was counted, and where a session is with it.
Receiving == bank.state = "RX_DATA_PKT"
CountInv ==
  /\ m_num_of_firmware_bytes_rcvd = Len(taken)
  /\ bank.received = Len(taken) \/ (bank.received = Overrun /\ Len(taken) = Total)
  /\ bank.state \in {"IDLE", "PREPARING", "RDY", "RX_INIT_PKT"} => Len(taken) = 0
  /\ bank.state \in {"VALIDATE", "WAIT_4_ACTIVATE"} => Len(taken) = Total

\* The queue: at most the two commands of a save, then k stores, of the last k
\* packets taken, and after the activation anything but stores.
IsStore(i) == queue[i].op = "store"
QueueInv(lo, k) ==
  /\ lo + k <= Len(queue)
  /\ k <= Len(taken)
  /\ \A i \in 1 .. Len(queue) : IsStore(i) <=> i \in lo + 1 .. lo + k
  /\ \A i \in 1 .. Len(queue) : IsStore(i) =>
       /\ queue[i].at = Len(taken) - (lo + k) + (i - 1)
       /\ queue[i].n = taken[queue[i].at + 1]
  /\ bank.state # "WAIT_4_ACTIVATE" \/ m_update_status = "UPDATING"
       => lo + k = Len(queue)
  /\ bank.state = "IDLE" => queue = << >>
  /\ IF bank.state = "PREPARING" THEN Len(queue) = 1 /\ queue[1].op = "clear"
     ELSE \A i \in 1 .. Len(queue) : queue[i].op # "clear"
  /\ done => queue # << >>

\* What the host has been told holds, and goes on to hold.
NoStores == \A i \in 1 .. Len(queue) : ~IsStore(i)
NotesInv ==
  \A i \in 1 .. Len(notes) :
    /\ notes[i].n <= Len(taken)
    /\ notes[i] = Response("RECEIVE", TRUE) => Len(taken) = Total /\ NoStores
    /\ notes[i] = Response("VALIDATE", TRUE) => bank.state = "WAIT_4_ACTIVATE"

\* The pool: the free_available_count last buffers, of which the last r were
\* refused and are clear; before them are those of the queued stores, each with
\* its packet.  Outside the data phase callbacks give nothing back.
Spans(p, r) ==
  /\ p.read_available_count = 0
  /\ p.write_index = p.read_index
  /\ p.free_window_count + p.free_available_count = PoolSize
  /\ r < p.free_available_count \/ (r = 0 /\ p.free_available_count = 0)
  /\ p.free_index = {Back(p.read_index, j) : j \in r + 1 .. p.free_available_count}

PoolInv(lo, k, r) ==
  /\ Spans(pool, r)
  /\ k + r <= pool.free_available_count
  /\ Receiving => k + r = pool.free_available_count
  /\ Len(taken) = 0 => pool.free_available_count = 0
  /\ Receiving /\ Len(taken) < Total /\ ~bank.timedOut => r = 0
  /\ \A i \in 1 .. Len(queue) : IsStore(i) =>
       queue[i].buf = Back(pool.read_index, lo + k + 1 - i + r)
  /\ \A i \in 1 .. Len(queue) : IsStore(i) /\ ~(i = 1 /\ done) =>
       rx_buffer[queue[i].buf] = queue[i].n
  /\ Len(taken) = Total /\ k > 0 => mp_final_packet = Back(pool.read_index, 1 + r)
  /\ Len(taken) < Total => mp_final_packet = NoBuffer

\* The flash: the packets taken but for those whose store has not been carried
\* out, and nothing else since the bank was cleared.
Undone(lo, k) == IF lo = 0 /\ k > 0 /\ done THEN k - 1 ELSE k
FlashInv(lo, k) ==
  /\ bank.state \notin {"IDLE", "PREPARING"} =>
       \A u \in Unit : flash[u] = IF u < Len(taken) - Undone(lo, k)
                                  THEN taken[u + 1] ELSE Blank
  /\ bank.state = "PREPARING" /\ done => \A u \in Unit : flash[u] = Blank
  /\ bank.state = "WAIT_4_ACTIVATE" => Whole

DataInv == \E lo \in 0 .. 2, k, r \in 0 .. PoolSize :
             QueueInv(lo, k) /\ PoolInv(lo, k, r) /\ FlashInv(lo, k)

IInv == TypeOK /\ LinkInv /\ EventsInv /\ CountInv /\ NotesInv /\ DataInv

-----------------------------------------------------------------------------
(* The pool. *)

\* A buffer is produced and extracted: the newest of those extracted.
LEMMA PoolTakes ==
  ASSUME NEW p \in Pool, NEW r \in 0 .. PoolSize, Spans(p, r), CanProduce(p)
  PROVE  LET q == rx_extract(rx_produce(p)) IN
           /\ rx_produce(p).read_index = p.read_index
           /\ q \in Pool
           /\ q.read_available_count = 0 /\ q.write_index = q.read_index
           /\ q.free_window_count = p.free_window_count - 1
           /\ q.free_available_count = p.free_available_count + 1
           /\ q.free_available_count <= PoolSize
           /\ q.read_index = Succ(p.read_index)
           /\ p.read_index = Back(q.read_index, 1)
           /\ p.read_index \notin p.free_index
           /\ q.free_index = p.free_index \cup {p.read_index}
           /\ p.free_index = {Back(q.read_index, j) : j \in r + 2 .. q.free_available_count}
<1> USE PoolSizeAssumption
<1> DEFINE m == rx_produce(p)
           q == rx_extract(m)
           f == p.free_available_count
           s == p.read_index
<1>1. /\ f \in 0 .. PoolSize - 1 /\ s \in Buffer /\ p.free_index \subseteq Buffer
      /\ p.free_window_count \in 1 .. PoolSize /\ p.free_window_count + f = PoolSize
  BY DEF Pool, Spans, CanProduce
<1>2. Succ(s) \in Buffer /\ s = Back(Succ(s), 1)
  BY <1>1, BackFacts DEF Buffer, Back, Succ
<1>3. /\ m \in Pool /\ m.free_window_count = p.free_window_count - 1
      /\ m.free_available_count = f /\ m.read_available_count = 1
      /\ m.write_index = Succ(s) /\ m.read_index = s
      /\ m.free_index = p.free_index \cup {s}
  BY Produced DEF Spans
<1>4. /\ q \in Pool /\ q.free_window_count = p.free_window_count - 1
      /\ q.free_available_count = f + 1 /\ q.read_available_count = 0
      /\ q.write_index = Succ(s) /\ q.read_index = Succ(s)
      /\ q.free_index = p.free_index \cup {s}
  <2> HIDE DEF m
  <2> QED
    BY <1>1, <1>3, WasExtracted DEF CanExtract
<1>5. s \notin p.free_index
  <2> SUFFICES ASSUME NEW j \in r + 1 .. f, s = Back(s, j) PROVE FALSE
    BY DEF Spans
  <2>1. Back(s, 0) = Back(s, j) /\ j \in 1 .. PoolSize - 1
    BY <1>1, BackFacts
  <2> QED
    BY <2>1, <1>1, BackApart, 0 \in 0 .. PoolSize, j \in 0 .. PoolSize
<1>6. p.free_index = {Back(Succ(s), j) : j \in r + 2 .. f + 1}
  <2>1. \A j \in r + 1 .. f : Back(Succ(s), j + 1) = Back(s, j)
    BY <1>1, BackFacts
  <2>2. \A j \in r + 2 .. f + 1 : j - 1 \in r + 1 .. f /\ Back(Succ(s), j) = Back(s, j - 1)
    <3> TAKE j \in r + 2 .. f + 1
    <3>1. j - 1 \in r + 1 .. f /\ (j - 1) + 1 = j
      BY <1>1
    <3> QED
      BY <3>1, <2>1
  <2>3. p.free_index = {Back(s, j) : j \in r + 1 .. f}
    BY DEF Spans
  <2>4. \A j \in r + 1 .. f : j + 1 \in r + 2 .. f + 1
    BY <1>1
  <2> QED
    BY <2>1, <2>2, <2>3, <2>4
<1> HIDE DEF m, q
<1> QED
  BY <1>1, <1>2, <1>3, <1>4, <1>5, <1>6 DEF m, q

\* The newest of those extracted goes back: alone in the pool it is free again,
\* else it is one more clear buffer behind the others.
LEMMA PoolRefuses ==
  ASSUME NEW p \in Pool, NEW r \in 0 .. PoolSize, Spans(p, r), CanProduce(p)
  PROVE  LET t == rx_extract(rx_produce(p))
             q == rx_consume(t, p.read_index)
         IN /\ ConsumeOk(t, p.read_index)
            /\ q \in Pool
            /\ q.read_index = Succ(p.read_index)
            /\ q.free_available_count = IF p.free_available_count = 0 THEN 0
                                        ELSE p.free_available_count + 1
            /\ Spans(q, IF p.free_available_count = 0 THEN 0 ELSE r + 1)
<1> USE PoolSizeAssumption
<1> DEFINE t == rx_extract(rx_produce(p))
           f == p.free_available_count
           s == p.read_index
           q == rx_consume(t, s)
<1>1. /\ t \in Pool /\ t.read_available_count = 0 /\ t.write_index = t.read_index
      /\ t.free_window_count = p.free_window_count - 1
      /\ t.free_available_count = f + 1 /\ f + 1 <= PoolSize
      /\ t.read_index = Succ(s) /\ s = Back(Succ(s), 1) /\ s \notin p.free_index
      /\ t.free_index = p.free_index \cup {s}
      /\ p.free_index = {Back(Succ(s), j) : j \in r + 2 .. f + 1}
  BY PoolTakes
<1>2. /\ f \in 0 .. PoolSize - 1 /\ s \in Buffer /\ p.free_window_count \in 0 .. PoolSize
      /\ p.free_window_count + f = PoolSize /\ (r < f \/ (r = 0 /\ f = 0))
  BY <1>1 DEF Pool, Spans
<1> HIDE DEF t
<1>3. ConsumeOk(t, s)
  BY <1>1, <1>2 DEF ConsumeOk, Extracted
<1>4. Toggled(t, s) = p.free_index
  BY <1>1 DEF Toggled
<1>5. GivenBack(t, s) = IF f = 0 THEN 1 ELSE 0
  <2>1. CASE f = 0
    <3>1. p.free_index = {}
      BY <1>1, <1>2, <2>1
    <3> QED
      BY <3>1, <1>1, <1>4, <2>1 DEF GivenBack
  <2>2. CASE f # 0
    <3>1. f + 1 \in r + 2 .. f + 1
      BY <1>2, <2>2
    <3>2. Oldest(t) \in p.free_index
      BY <3>1, <1>1 DEF Oldest
    <3> QED
      BY <3>2, <1>4, <2>2 DEF GivenBack
  <2> QED
    BY <2>1, <2>2
<1>6. /\ q \in Pool
      /\ q.free_window_count = t.free_window_count + GivenBack(t, s)
      /\ q.free_available_count = t.free_available_count - GivenBack(t, s)
      /\ q.read_available_count = 0 /\ q.write_index = Succ(s) /\ q.read_index = Succ(s)
      /\ q.free_index = p.free_index
  BY <1>1, <1>2, <1>3, <1>4, WasConsumed
<1> HIDE DEF q
<1>7. Spans(q, IF f = 0 THEN 0 ELSE r + 1)
  <2>1. CASE f = 0
    <3>1. q.free_index = {} /\ q.free_available_count = 0 /\ q.free_window_count = PoolSize
      <4>1. r + 2 .. f + 1 = {}
        BY <1>2, <2>1
      <4>2. q.free_index = {}
        BY <4>1, <1>1, <1>6
      <4> QED
        BY <4>2, <1>1, <1>2, <1>5, <1>6, <2>1
    <3>2. {Back(q.read_index, j) : j \in 0 + 1 .. 0} = {}
      OBVIOUS
    <3> QED
      BY <3>1, <3>2, <1>6, <2>1 DEF Spans
  <2>2. CASE f # 0
    <3>1. q.free_available_count = f + 1 /\ q.free_window_count + (f + 1) = PoolSize
      BY <1>1, <1>2, <1>5, <1>6, <2>2
    <3>2. (r + 1) + 1 = r + 2 /\ r + 1 < f + 1
      BY <1>2, <2>2
    <3> QED
      BY <3>1, <3>2, <1>1, <1>6, <2>2 DEF Spans
  <2> QED
    BY <2>1, <2>2
<1> QED
  BY <1>1, <1>2, <1>3, <1>5, <1>6, <1>7 DEF t, q

\* The oldest goes back: one, or all when only clear buffers are behind it.
LEMMA PoolGivesBack ==
  ASSUME NEW p \in Pool, NEW r \in 0 .. PoolSize, Spans(p, r),
         p.free_available_count > 0
  PROVE  LET b == Back(p.read_index, p.free_available_count)
             q == rx_consume(p, b)
             alone == p.free_available_count = r + 1
         IN /\ ConsumeOk(p, b)
            /\ q \in Pool
            /\ q.read_index = p.read_index
            /\ q.free_available_count = IF alone THEN 0 ELSE p.free_available_count - 1
            /\ Spans(q, IF alone THEN 0 ELSE r)
<1> USE PoolSizeAssumption
<1> DEFINE f == p.free_available_count
           s == p.read_index
           b == Back(s, f)
           q == rx_consume(p, b)
           alone == f = r + 1
<1>1. /\ f \in 1 .. PoolSize /\ r \in 0 .. f - 1 /\ s \in Buffer
      /\ p.free_window_count \in 0 .. PoolSize /\ p.free_window_count + f = PoolSize
      /\ p.read_available_count = 0 /\ p.write_index = s
      /\ p.free_index = {Back(s, j) : j \in r + 1 .. f}
  BY DEF Pool, Spans
<1>2. b \in Buffer /\ Succ(b) = Back(s, f - 1)
  BY <1>1, BackFacts
<1>3. ConsumeOk(p, b) /\ Oldest(p) = b /\ b \in p.free_index
  BY <1>1 DEF ConsumeOk, Extracted, Oldest
<1>4. \A j \in 1 .. f - 1 : Back(s, j) # b
  <2> TAKE j \in 1 .. f - 1
  <2>1. j \in 0 .. PoolSize /\ f \in 0 .. PoolSize /\ j # f /\ j # 0 /\ f # 0
    BY <1>1
  <2> QED
    BY <1>1, <2>1, BackApart
<1>5. Toggled(p, b) = {Back(s, j) : j \in r + 1 .. f - 1}
  <2>1. Toggled(p, b) = p.free_index \ {b}
    BY <1>3 DEF Toggled
  <2>2. \A j \in r + 1 .. f : j = f \/ j \in r + 1 .. f - 1
    BY <1>1
  <2>3. \A j \in r + 1 .. f - 1 : j \in r + 1 .. f /\ j \in 1 .. f - 1
    BY <1>1
  <2> QED
    BY <2>1, <2>2, <2>3, <1>1, <1>4
<1>6. GivenBack(p, b) = IF alone THEN f ELSE 1
  <2>1. b \notin Toggled(p, b)
    BY <1>3 DEF Toggled
  <2>2. CASE alone
    <3>1. Toggled(p, b) = {}
      BY <1>1, <1>5, <2>2
    <3> QED
      BY <3>1, <2>2 DEF GivenBack
  <2>3. CASE ~alone
    <3>1. f - 1 \in r + 1 .. f - 1
      BY <1>1, <2>3
    <3>2. Succ(b) \in Toggled(p, b)
      BY <3>1, <1>2, <1>5
    <3> QED
      BY <3>2, <2>1, <2>3, <1>3 DEF GivenBack
  <2> QED
    BY <2>2, <2>3
<1> HIDE DEF b
<1>7. /\ q \in Pool
      /\ q.free_window_count = p.free_window_count + GivenBack(p, b)
      /\ q.free_available_count = f - GivenBack(p, b)
      /\ q.read_available_count = 0 /\ q.write_index = s /\ q.read_index = s
      /\ q.free_index = Toggled(p, b)
  BY <1>1, <1>2, <1>3, WasConsumed
<1> HIDE DEF q
<1>8. Spans(q, IF alone THEN 0 ELSE r)
  <2>1. CASE alone
    <3>1. q.free_index = {} /\ q.free_available_count = 0 /\ q.free_window_count = PoolSize
      BY <1>1, <1>5, <1>6, <1>7, <2>1
    <3>2. {Back(q.read_index, j) : j \in 0 + 1 .. 0} = {}
      OBVIOUS
    <3> QED
      BY <3>1, <3>2, <1>7, <2>1 DEF Spans
  <2>2. CASE ~alone
    <3>1. q.free_available_count = f - 1 /\ q.free_window_count + (f - 1) = PoolSize
          /\ r < f - 1
      BY <1>1, <1>6, <1>7, <2>2
    <3> QED
      BY <3>1, <1>5, <1>7, <2>2 DEF Spans
  <2> QED
    BY <2>1, <2>2
<1> QED
  BY <1>1, <1>3, <1>6, <1>7, <1>8 DEF b, q

-----------------------------------------------------------------------------
(* Types. *)

AwaitSet   == {"none", "link", "report", "receipt", "START", "INIT", "RECEIVE", "VALIDATE"}
HostSet    == [at : 1 .. GaveUp, awaits : AwaitSet, interval : Intervals,
               losses : 0 .. MaxLosses, strays : 0 .. MaxStrays]
EventSet   == [op : Control \cup Packet \cup LinkOp, n : Nat]
NoteSet    == [type : {"START", "INIT", "RECEIVE", "VALIDATE", "receipt", "report"},
               ok : BOOLEAN, n : 0 .. Total]
NotifSet   == [enabled : BOOLEAN, target : Intervals \cup {0}, cnt : Nat]
BankSet    == [state : {"IDLE", "PREPARING", "RDY", "RX_INIT_PKT", "RX_DATA_PKT",
                        "VALIDATE", "WAIT_4_ACTIVATE"},
               received : 0 .. Overrun, timedOut : BOOLEAN]
StatusSet  == {"UPDATING", "SETTINGS_SAVING", "COMPLETE", "TIMEOUT", "SYS_RESET",
               "FAULT", "OVER"}
CommandSet == [op : {"clear", "store", "erase", "save"},
               buf : Buffer \cup {NoBuffer}, at : Unit, n : 0 .. Old]

\* TypeOK with its sets by name, for the steps that need not look into them.
Typed ==
  /\ host \in HostSet
  /\ air \in {"adv", "up", "closing", "down"}
  /\ cccd \in BOOLEAN /\ done \in BOOLEAN
  /\ m_conn_handle \in BOOLEAN /\ m_is_advertising \in BOOLEAN
  /\ m_tear_down_in_progress \in BOOLEAN
  /\ events \in Seq(EventSet)
  /\ notes \in Seq(NoteSet)
  /\ m_pkt_type \in {"INVALID", "START", "INIT", "FW"}
  /\ m_pkt_notif \in NotifSet
  /\ m_pkt_notif.enabled => m_pkt_notif.cnt \in 1 .. m_pkt_notif.target
  /\ m_num_of_firmware_bytes_rcvd \in 0 .. Total
  /\ mp_final_packet \in Buffer \cup {NoBuffer}
  /\ pool \in Pool
  /\ rx_buffer \in [Buffer -> 0 .. Old]
  /\ bank \in BankSet
  /\ m_update_status \in StatusSet
  /\ queue \in Seq(CommandSet)
  /\ flash \in [Unit -> 0 .. Old]
  /\ turn \in {"ble", "soc"}
  /\ taken \in Seq(0 .. Total) /\ refused \in BOOLEAN

LEMMA TypedMeans == (TypeOK <=> Typed) /\ (TypeOK' <=> Typed')
BY DEF TypeOK, Typed, AwaitSet, HostSet, EventSet, NoteSet, NotifSet, BankSet, StatusSet,
       CommandSet

\* The records that steps change in one field.
LEMMA RecordTypes ==
  /\ \A h \in HostSet : /\ \A a \in AwaitSet : [h EXCEPT !.awaits = a] \in HostSet
                        /\ \A x \in 1 .. GaveUp : [h EXCEPT !.at = x] \in HostSet
                        /\ \A l \in 0 .. MaxLosses : [h EXCEPT !.losses = l] \in HostSet
                        /\ \A l \in 0 .. MaxStrays : [h EXCEPT !.strays = l] \in HostSet
                        /\ \A a \in AwaitSet, x \in 1 .. GaveUp :
                             [h EXCEPT !.at = x, !.awaits = a] \in HostSet
                        /\ \A a \in AwaitSet, x \in 1 .. GaveUp :
                             [h EXCEPT !.awaits = a, !.at = x] \in HostSet
                        /\ \A a \in AwaitSet, l \in 0 .. MaxLosses :
                             [h EXCEPT !.awaits = a, !.losses = l] \in HostSet
                        /\ h.at \in 1 .. GaveUp /\ h.awaits \in AwaitSet
                        /\ h.interval \in Intervals /\ h.losses \in 0 .. MaxLosses
                        /\ h.strays \in 0 .. MaxStrays
  /\ \A b \in BankSet :
       /\ \A s \in {"PREPARING", "RDY", "RX_INIT_PKT", "RX_DATA_PKT", "VALIDATE",
                    "WAIT_4_ACTIVATE"} : [b EXCEPT !.state = s] \in BankSet
       /\ \A n \in 0 .. Overrun : [b EXCEPT !.received = n] \in BankSet
       /\ [b EXCEPT !.timedOut = TRUE] \in BankSet
       /\ b.received \in 0 .. Overrun /\ b.timedOut \in BOOLEAN
BY DEF HostSet, BankSet

\* The host's script, write by write.
LEMMA ScriptIs ==
  ASSUME NEW i \in Intervals, NEW at \in 1 .. Ends - 1
  PROVE  /\ at = 1 => Script(i)[at] = Write("PRN", i)
         /\ at = 2 => Script(i)[at] = Write("START", 0)
         /\ at = 3 => Script(i)[at] = Write("sizes", 0)
         /\ at = 4 => Script(i)[at] = Write("INIT", 0)
         /\ at = 5 => Script(i)[at] = Write("init", 0)
         /\ at = 6 => Script(i)[at] = Write("INIT_COMPLETE", 0)
         /\ at = 7 => Script(i)[at] = Write("FW", 0)
         /\ at \in FirstData .. LastData => Script(i)[at] = Write("data", at - 7)
         /\ at = LastData + 1 => Script(i)[at] = Write("VALIDATE", 0)
         /\ at = LastData + 2 => Script(i)[at] = Write("ACTIVATE", 0)
<1> USE BleAssumption DEF BleAssumption
<1> DEFINE S == [op : Control \cup Packet, n : Nat]
           s1 == << Write("PRN", i), Write("START", 0), Write("sizes", 0),
                    Write("INIT", 0), Write("init", 0), Write("INIT_COMPLETE", 0),
                    Write("FW", 0) >>
           s2 == [k \in 1 .. Total |-> Write("data", k)]
           s3 == << Write("VALIDATE", 0), Write("ACTIVATE", 0) >>
<1>1. /\ Len(s1) = 7 /\ s1 \in Seq(S)
      /\ s1[1] = Write("PRN", i) /\ s1[2] = Write("START", 0) /\ s1[3] = Write("sizes", 0)
      /\ s1[4] = Write("INIT", 0) /\ s1[5] = Write("init", 0)
      /\ s1[6] = Write("INIT_COMPLETE", 0) /\ s1[7] = Write("FW", 0)
  BY DEF Write, Control, Packet
<1>2. Len(s2) = Total /\ s2 \in Seq(S) /\ \A j \in 1 .. Total : s2[j] = Write("data", j)
  <2>1. \A k \in 1 .. Total : Write("data", k) \in S
    BY DEF Write, Control, Packet
  <2> QED
    BY <2>1
<1>3. /\ Len(s3) = 2 /\ s3 \in Seq(S)
      /\ s3[1] = Write("VALIDATE", 0) /\ s3[2] = Write("ACTIVATE", 0)
  BY DEF Write, Control, Packet
<1> HIDE DEF s1, s2, s3, S
<1>4. /\ s1 \o s2 \in Seq(S) /\ Len(s1 \o s2) = 7 + Total
      /\ \A j \in 1 .. 7 + Total : (s1 \o s2)[j] = IF j <= 7 THEN s1[j] ELSE s2[j - 7]
  <2>1. \A j \in 1 .. Len(s1) + Len(s2) : (s1 \o s2)[j] =
          IF j <= Len(s1) THEN s1[j] ELSE s2[j - Len(s1)]
    BY <1>1, <1>2, ConcatProperties
  <2>2. s1 \o s2 \in Seq(S) /\ Len(s1 \o s2) = Len(s1) + Len(s2)
    BY <1>1, <1>2, ConcatProperties
  <2> QED
    BY <2>1, <2>2, <1>1, <1>2
<1>5. \A j \in 1 .. 9 + Total : ((s1 \o s2) \o s3)[j] =
         IF j <= 7 + Total THEN (s1 \o s2)[j] ELSE s3[j - (7 + Total)]
  <2> DEFINE s12 == s1 \o s2
  <2> HIDE DEF s12
  <2>1. s12 \in Seq(S) /\ Len(s12) = 7 + Total
    BY <1>4 DEF s12
  <2>2. \A j \in 1 .. Len(s12) + Len(s3) : (s12 \o s3)[j] =
          IF j <= Len(s12) THEN s12[j] ELSE s3[j - Len(s12)]
    BY <2>1, <1>3, ConcatProperties
  <2>3. Len(s12) + Len(s3) = 9 + Total
    BY <2>1, <1>3
  <2> QED
    BY <2>1, <2>2, <2>3 DEF s12
<1> DEFINE s == (s1 \o s2) \o s3
<1>6. /\ \A j \in 1 .. 7 : s[j] = s1[j]
      /\ \A j \in 8 .. 7 + Total : s[j] = s2[j - 7] /\ j - 7 \in 1 .. Total
      /\ s[8 + Total] = s3[1] /\ s[9 + Total] = s3[2]
  <2> DEFINE s12 == s1 \o s2
  <2>1. /\ \A j \in 1 .. 7 + Total : s12[j] = IF j <= 7 THEN s1[j] ELSE s2[j - 7]
        /\ \A j \in 1 .. 9 + Total : s[j] = IF j <= 7 + Total THEN s12[j]
                                            ELSE s3[j - (7 + Total)]
    BY <1>4, <1>5
  <2> HIDE DEF s, s12
  <2>2. \A j \in 1 .. 7 + Total : s[j] = IF j <= 7 THEN s1[j] ELSE s2[j - 7]
    BY <2>1
  <2>3. /\ 8 + Total \in 1 .. 9 + Total /\ ~(8 + Total <= 7 + Total)
        /\ (8 + Total) - (7 + Total) = 1
        /\ 9 + Total \in 1 .. 9 + Total /\ ~(9 + Total <= 7 + Total)
        /\ (9 + Total) - (7 + Total) = 2
    OBVIOUS
  <2>4. s[8 + Total] = s3[1] /\ s[9 + Total] = s3[2]
    BY <2>1, <2>3
  <2> QED
    BY <2>2, <2>4
<1>7. Script(i) = s
  BY DEF Script, s1, s2, s3
<1> HIDE DEF s
<1>8. \A j \in 8 .. 7 + Total : s[j] = Write("data", j - 7)
  BY <1>2, <1>6
<1> HIDE DEF BleAssumption
<1>9. /\ s[1] = Write("PRN", i) /\ s[2] = Write("START", 0) /\ s[3] = Write("sizes", 0)
      /\ s[4] = Write("INIT", 0) /\ s[5] = Write("init", 0)
      /\ s[6] = Write("INIT_COMPLETE", 0) /\ s[7] = Write("FW", 0)
  <2>1. \A j \in 1 .. 7 : s[j] = s1[j]
    BY <1>6
  <2>2. /\ s[1] = s1[1] /\ s[2] = s1[2] /\ s[3] = s1[3] /\ s[4] = s1[4]
        /\ s[5] = s1[5] /\ s[6] = s1[6] /\ s[7] = s1[7]
    BY <2>1
  <2> QED
    BY <2>2, <1>1
<1>10. s[8 + Total] = Write("VALIDATE", 0) /\ s[9 + Total] = Write("ACTIVATE", 0)
  BY <1>3, <1>6
<1>11. /\ FirstData = 8 /\ LastData = 7 + Total
       /\ LastData + 1 = 8 + Total /\ LastData + 2 = 9 + Total
  BY BleAssumption DEF BleAssumption, FirstData, LastData
<1>12. at \in FirstData .. LastData => s[at] = Write("data", at - 7)
  BY <1>8, <1>11
<1>13. /\ at = LastData + 1 => s[at] = Write("VALIDATE", 0)
       /\ at = LastData + 2 => s[at] = Write("ACTIVATE", 0)
  BY <1>10, <1>11
<1>14. /\ at = 1 => s[at] = Write("PRN", i)
       /\ at = 2 => s[at] = Write("START", 0)
       /\ at = 3 => s[at] = Write("sizes", 0)
       /\ at = 4 => s[at] = Write("INIT", 0)
       /\ at = 5 => s[at] = Write("init", 0)
       /\ at = 6 => s[at] = Write("INIT_COMPLETE", 0)
       /\ at = 7 => s[at] = Write("FW", 0)
  BY <1>9
<1> QED
  BY <1>7, <1>12, <1>13, <1>14

\* What a host writes is a packet or a control point operation, and its data
\* are packets of the image.
LEMMA ScriptTypes ==
  ASSUME NEW i \in Intervals, NEW at \in 1 .. Ends - 1
  PROVE  /\ Script(i)[at] \in [op : Control \cup Packet, n : Nat]
         /\ Script(i)[at].op \in Packet => Script(i)[at].n <= Total
<1> DEFINE e == Script(i)[at]
<1>1. \/ at \in {1, 2, 3, 4, 5, 6, 7} \/ at \in FirstData .. LastData
      \/ at \in {LastData + 1, LastData + 2}
  BY BleAssumption DEF BleAssumption, FirstData, LastData, Ends
<1>2. /\ at = 1 => e = Write("PRN", i)
      /\ at = 2 => e = Write("START", 0)
      /\ at = 3 => e = Write("sizes", 0)
      /\ at = 4 => e = Write("INIT", 0)
      /\ at = 5 => e = Write("init", 0)
      /\ at = 6 => e = Write("INIT_COMPLETE", 0)
      /\ at = 7 => e = Write("FW", 0)
      /\ at \in FirstData .. LastData => e = Write("data", at - 7)
      /\ at = LastData + 1 => e = Write("VALIDATE", 0)
      /\ at = LastData + 2 => e = Write("ACTIVATE", 0)
  BY ScriptIs
<1> HIDE DEF e
<1>3. CASE at \in FirstData .. LastData
  <2>1. e = Write("data", at - 7)
    BY <1>2, <1>3
  <2>2. at - 7 \in Nat /\ at - 7 <= Total
    BY <1>3, BleAssumption DEF BleAssumption, FirstData, LastData
  <2> QED
    BY <2>1, <2>2 DEF e, Write, Control, Packet
<1>4. CASE at \notin FirstData .. LastData
  <2>1. \/ e = Write("PRN", i) \/ e = Write("START", 0) \/ e = Write("sizes", 0)
        \/ e = Write("INIT", 0) \/ e = Write("init", 0)
        \/ e = Write("INIT_COMPLETE", 0) \/ e = Write("FW", 0)
        \/ e = Write("VALIDATE", 0) \/ e = Write("ACTIVATE", 0)
    BY <1>1, <1>2, <1>4
  <2>2. i \in Nat /\ 0 <= Total
    BY BleAssumption DEF BleAssumption
  <2>3. e \in [op : Control \cup Packet, n : Nat]
    BY <2>1, <2>2 DEF Write, Control, Packet
  <2>4. e.op \in Packet => e.n <= Total
    BY <2>1, <2>2 DEF Write, Control, Packet
  <2> QED
    BY <2>3, <2>4 DEF e
<1> QED
  BY <1>3, <1>4

\* What may come to the host in a step: what was under way, and one note more.
NotesPlus(note) ==
  \A i \in 1 .. Len(notes') :
    \/ notes'[i] = note
    \/ \E j \in 1 .. Len(notes) : notes'[i] = notes[j]

LEMMA NotifyEffect ==
  ASSUME TypeOK, NEW note \in NoteSet, NEW status \in StatusSet, NotifyThen(note, status)
  PROVE  /\ notes' \in Seq(NoteSet)
         /\ NotesPlus(note)
         /\ m_update_status' \in {status, "FAULT"}
<1>1. notes \in Seq(NoteSet)
  BY DEF TypeOK, NoteSet
<1>2. CASE notes' = notes
  BY <1>1, <1>2 DEF NotesPlus, NotifyThen
<1>3. CASE notes' = Append(notes, note) /\ m_update_status' = status
  BY <1>1, <1>3 DEF NotesPlus
<1> QED
  BY <1>2, <1>3 DEF NotifyThen

LEMMA CloseEffect ==
  ASSUME TypeOK, NEW status \in StatusSet, Close(status)
  PROVE  /\ air' \in {"adv", "up", "closing", "down"}
         /\ m_is_advertising' \in BOOLEAN
         /\ m_tear_down_in_progress' = TRUE
         /\ m_update_status' \in {status, "FAULT"}
         /\ UNCHANGED <<m_conn_handle, cccd, notes>>
BY DEF Close, TypeOK, Stale

LEMMA TakesEffect ==
  ASSUME TypeOK, NEW op, Takes(op)
  PROVE  /\ events' \in Seq(EventSet)
         /\ events # << >> /\ Head(events) \in EventSet /\ Head(events) = events[1]
         /\ Len(events') = Len(events) - 1
         /\ \A i \in 1 .. Len(events') : events'[i] = events[i + 1]
         /\ UNCHANGED <<host, turn>>
<1>1. events \in Seq(EventSet)
  BY DEF TypeOK, EventSet
<1> QED
  BY <1>1, HeadTailProperties DEF Takes

\* A command at the head of the queue.
LEMMA QueueHead ==
  ASSUME TypeOK, queue # << >>
  PROVE  /\ Head(queue) \in CommandSet /\ Head(queue) = queue[1]
         /\ Tail(queue) \in Seq(CommandSet) /\ Len(Tail(queue)) = Len(queue) - 1
         /\ \A i \in 1 .. Len(queue) - 1 : Tail(queue)[i] = queue[i + 1]
<1>1. queue \in Seq(CommandSet)
  BY TypedMeans DEF Typed
<1> QED
  BY <1>1, HeadTailProperties

LEMMA SaveTypes ==
  /\ Save \in Seq(CommandSet) /\ Len(Save) = 2
  /\ Save[1].op = "erase" /\ Save[2].op = "save"
BY BleAssumption DEF BleAssumption, Save, Command, CommandSet, Unit, Old

\* Every step keeps the types.  That the count of packets stays in the image and
\* a buffer can be produced and extracted takes the rest of the invariant.
LEMMA TypeStep == IInv /\ [Next]_vars => TypeOK'
<1> SUFFICES ASSUME IInv, [Next]_vars PROVE TypeOK'
  OBVIOUS
<1> USE DEF deviceVars, stackVars, linkVars, dataVars, history, poolVars, flashVars
<1> TypeOK /\ Typed
  BY TypedMeans DEF IInv
<1> SUFFICES Typed'
  BY TypedMeans
<1>A. Total \in Nat \ {0} /\ Intervals \subseteq Nat /\ MaxLosses \in Nat /\ MaxStrays \in Nat
      /\ PoolSize \in Nat \ {0}
  BY BleAssumption, PoolSizeAssumption DEF BleAssumption
<1>T. /\ events \in Seq(EventSet) /\ notes \in Seq(NoteSet) /\ queue \in Seq(CommandSet)
      /\ m_update_status \in StatusSet /\ host \in HostSet /\ bank \in BankSet
  BY DEF Typed
<1>H. /\ host.at \in 1 .. GaveUp /\ host.interval \in Intervals /\ GaveUp = 11 + Total
      /\ host.losses \in 0 .. MaxLosses /\ host.strays \in 0 .. MaxStrays
  BY <1>T, RecordTypes DEF GaveUp
<1>B. {"none", "link", "report"} \subseteq AwaitSet
  BY DEF AwaitSet
<1>S. {"FAULT", "OVER", "COMPLETE"} \subseteq StatusSet
  BY DEF StatusSet
<1>R. \A p \in {"START", "INIT", "RECEIVE", "VALIDATE"}, ok \in BOOLEAN : Response(p, ok) \in NoteSet
  BY <1>A DEF Response, NoteSet
<1>N. \A n \in 0 .. Total : Receipt(n) \in NoteSet /\ Report(n) \in NoteSet
  BY DEF Receipt, Report, NoteSet
<1>1. CASE Connect
  <2>1. Append(events, Write("connected", 0)) \in Seq(EventSet)
    BY <1>T DEF EventSet, Write, LinkOp
  <2> QED
    BY <1>1, <2>1 DEF Connect, Typed
<1>2. CASE Subscribe
  <2>1. Append(events, Write("SIZE", 0)) \in Seq(EventSet)
    BY <1>T DEF EventSet, Write, Control
  <2>2. host' \in HostSet
    <3>1. CASE host' = [host EXCEPT !.awaits = "report"]
      BY <3>1, <1>B, <1>T, RecordTypes
    <3>2. CASE host' = [host EXCEPT !.awaits = "none",
                                    !.at = IF host.at = GaveUp THEN host.at ELSE 1]
      <4>1. (IF host.at = GaveUp THEN host.at ELSE 1) \in 1 .. GaveUp
        BY <1>A, <1>H
      <4> QED
        BY <3>2, <4>1, <1>B, <1>T, RecordTypes
    <3> QED
      BY <1>2, <3>1, <3>2 DEF Subscribe
  <2>B. cccd' \in BOOLEAN
    BY <1>2 DEF Subscribe
  <2>3. events' \in Seq(EventSet) /\ UNCHANGED <<air, notes, deviceVars>>
    BY <1>2, <2>1, <1>T DEF Subscribe
  <2> QED
    BY <2>B, <2>2, <2>3 DEF Typed
<1>3. CASE HostWrites
  <2>1. host.at \in 1 .. Ends - 1 /\ host.interval \in Intervals
    BY <1>3, <1>A, <1>H DEF HostWrites, Ends
  <2>2. Script(host.interval)[host.at] \in EventSet
    BY <2>1, ScriptTypes DEF EventSet
  <2>3. WaitsFor(host.at) \in AwaitSet
    BY DEF WaitsFor, AwaitSet
  <2>4. host' \in HostSet
    <3>1. host.at + 1 \in 1 .. GaveUp
      BY <1>A, <1>H, <2>1 DEF Ends
    <3>2. host' = [host EXCEPT !.at = host.at + 1, !.awaits = WaitsFor(host.at)]
      BY <1>3 DEF HostWrites
    <3> HIDE DEF WaitsFor
    <3> QED
      BY <3>1, <3>2, <2>3, <1>T, RecordTypes
  <2> QED
    BY <1>3, <1>T, <2>2, <2>4 DEF HostWrites, Typed
<1>4. CASE HostStrays
  <2>1. \A op \in Control \cup {"sizes", "odd"} : Append(events, Write(op, 0)) \in Seq(EventSet)
    BY <1>T DEF EventSet, Write, Packet
  <2>2. events' \in Seq(EventSet)
    BY <1>4, <2>1 DEF HostStrays
  <2>3. host' \in HostSet
    <3>1. host.strays + 1 \in 0 .. MaxStrays
      <4>1. host.strays < MaxStrays
        BY <1>4 DEF HostStrays
      <4> QED
        BY <4>1, <1>A, <1>H
    <3>2. host' = [host EXCEPT !.strays = host.strays + 1]
      BY <1>4 DEF HostStrays
    <3> QED
      BY <3>1, <3>2, <1>T, RecordTypes
  <2> QED
    BY <1>4, <2>2, <2>3 DEF HostStrays, Typed
<1>5. CASE HostResets
  <2>1. Append(events, Write("SYS_RESET", 0)) \in Seq(EventSet)
    BY <1>T DEF EventSet, Write, Control
  <2>2. host' \in HostSet
    <3>1. Ends \in 1 .. GaveUp
      BY <1>A DEF Ends, GaveUp
    <3> QED
      BY <1>5, <3>1, <1>T, RecordTypes DEF HostResets
  <2> QED
    BY <1>5, <2>1, <2>2 DEF HostResets, Typed
<1>6. CASE HostReads
  <2>1. Head(notes) \in NoteSet /\ Tail(notes) \in Seq(NoteSet)
    BY <1>6, <1>T, HeadTailProperties DEF HostReads
  <2>2. Heard(Head(notes)) \in HostSet
    <3> DEFINE note == Head(notes)
    <3>1. After("START") \in 1 .. GaveUp /\ After("INIT") \in 1 .. GaveUp
          /\ After("RECEIVE") \in 1 .. GaveUp /\ After("VALIDATE") \in 1 .. GaveUp
      BY <1>A DEF After, GaveUp, LastData
    <3>2. note.type \notin {"receipt", "report"} => After(note.type) \in 1 .. GaveUp
      BY <2>1, <3>1 DEF NoteSet
    <3>3. FirstData + note.n \in 1 .. GaveUp /\ GaveUp \in 1 .. GaveUp
      BY <2>1, <1>A DEF NoteSet, FirstData, GaveUp
    <3> HIDE DEF note
    <3>4. \A x \in 1 .. GaveUp : /\ [host EXCEPT !.at = x, !.awaits = "none"] \in HostSet
                                 /\ [host EXCEPT !.awaits = "none", !.at = x] \in HostSet
      BY <1>B, <1>T, RecordTypes
    <3>5. [host EXCEPT !.awaits = "none"] \in HostSet
      BY <1>B, <1>T, RecordTypes
    <3>6. Heard(note) \in HostSet
      BY <3>2, <3>3, <3>4, <3>5, <1>T DEF Heard
    <3> QED
      BY <3>6 DEF note
  <2> QED
    BY <1>6, <2>1, <2>2 DEF HostReads, Typed
<1>7. ASSUME LinkDown,
             host' \in HostSet
      PROVE  Typed'
  <2>1. Append(events, Write("disconnected", 0)) \in Seq(EventSet)
    BY <1>T DEF EventSet, Write, LinkOp
  <2>2. << >> \in Seq(NoteSet)
    OBVIOUS
  <2>B. cccd' \in BOOLEAN
    BY <1>7 DEF LinkDown
  <2> QED
    BY <1>7, <2>B, <2>1, <2>2 DEF LinkDown, Typed
<1>8. CASE LinkLost
  <2>1. host.losses + 1 \in 0 .. MaxLosses
    BY <1>8, <1>A, <1>H DEF LinkLost
  <2>2. host' = [host EXCEPT !.awaits = "link", !.losses = host.losses + 1]
    BY <1>8 DEF LinkLost
  <2>3. host' \in HostSet
    BY <2>1, <2>2, <1>B, <1>T, RecordTypes
  <2> QED
    BY <1>7, <1>8, <2>3 DEF LinkLost
<1>9. CASE LinkClosed
  <2>1. host' \in HostSet
    BY <1>9, <1>B, <1>T, RecordTypes DEF LinkClosed
  <2> QED
    BY <1>7, <1>9, <2>1 DEF LinkClosed
<1>10. CASE NoBleEvent
  BY <1>10 DEF NoBleEvent, Typed
<1>11. CASE OnConnected
  <2>1. events' \in Seq(EventSet) /\ UNCHANGED <<host, turn>>
    BY <1>11, TakesEffect DEF OnConnected
  <2>2. m_conn_handle' \in BOOLEAN /\ m_is_advertising' \in BOOLEAN
    BY <1>11 DEF OnConnected, NotAdvertising
  <2>3. m_update_status' \in StatusSet
    BY <1>11, <1>S, <1>T DEF OnConnected
  <2> QED
    BY <1>11, <2>1, <2>2, <2>3 DEF OnConnected, Typed
<1>12. CASE OnDisconnected
  <2>1. events' \in Seq(EventSet) /\ UNCHANGED <<host, turn>>
    BY <1>12, TakesEffect DEF OnDisconnected
  <2>2. m_conn_handle' \in BOOLEAN /\ m_is_advertising' \in BOOLEAN
        /\ air' \in {"adv", "up", "closing", "down"}
    BY <1>12 DEF OnDisconnected, Typed
  <2> QED
    BY <1>12, <2>1, <2>2 DEF OnDisconnected, Typed
<1>13. CASE ControlRefused
  <2>1. events' \in Seq(EventSet) /\ UNCHANGED <<host, turn>>
    BY <1>13, TakesEffect DEF ControlRefused
  <2> QED
    BY <1>13, <2>1, <1>S DEF ControlRefused, Typed
<1>14. CASE OnPktRcptNotif
  <2>1. PICK n \in Intervals : /\ TakesControl("PRN") /\ Head(events).n = n
           /\ m_pkt_notif' = IF n = 0
                        THEN [m_pkt_notif EXCEPT !.enabled = FALSE, !.target = 0]
                        ELSE [enabled |-> TRUE, target |-> n, cnt |-> n]
    BY <1>14 DEF OnPktRcptNotif
  <2>2. /\ m_pkt_notif' \in NotifSet
        /\ m_pkt_notif'.enabled => m_pkt_notif'.cnt \in 1 .. m_pkt_notif'.target
    <3>1. m_pkt_notif \in NotifSet
      BY DEF Typed
    <3>2. CASE n = 0
      BY <2>1, <3>1, <3>2 DEF NotifSet
    <3>3. CASE n # 0
      <4>1. n \in Nat \ {0}
        BY <1>A, <3>3
      <4>2. m_pkt_notif' = [enabled |-> TRUE, target |-> n, cnt |-> n]
        BY <2>1, <3>3
      <4> QED
        BY <4>1, <4>2 DEF NotifSet
    <3> QED
      BY <3>2, <3>3
  <2>3. events' \in Seq(EventSet) /\ UNCHANGED <<host, turn>>
    BY <2>1, TakesEffect DEF TakesControl
  <2> QED
    BY <1>14, <2>2, <2>3 DEF OnPktRcptNotif, Quiet, Typed
<1>15. CASE OnStart
  BY <1>15, TakesEffect DEF OnStart, TakesControl, Expects, Quiet, Typed
<1>16. CASE OnInit
  BY <1>16, TakesEffect DEF OnInit, TakesControl, Expects, Quiet, Typed
<1>17. CASE OnReceiveFw
  BY <1>17, TakesEffect DEF OnReceiveFw, TakesControl, Expects, Quiet, Typed
<1>18. CASE OnInitComplete
  <2>1. PICK verdict \in BOOLEAN :
          LET ok == verdict /\ bank.state = "RX_INIT_PKT"
          IN /\ bank' = IF ok THEN [bank EXCEPT !.state = "RX_DATA_PKT"] ELSE bank
             /\ NotifyThen(Response("INIT", ok), m_update_status)
    BY <1>18 DEF OnInitComplete, Notify
  <2>2. notes' \in Seq(NoteSet) /\ m_update_status' \in StatusSet
    <3>1. Response("INIT", verdict /\ bank.state = "RX_INIT_PKT") \in NoteSet
      BY <1>R
    <3> QED
      BY <2>1, <3>1, <1>T, NotifyEffect DEF StatusSet
  <2>3. events' \in Seq(EventSet) /\ UNCHANGED <<host, turn>>
    BY <1>18, TakesEffect DEF OnInitComplete, TakesControl
  <2>4. bank' \in BankSet
    BY <2>1, <1>T, RecordTypes
  <2> QED
    BY <1>18, <2>2, <2>3, <2>4 DEF OnInitComplete, Expects, Typed
<1>19. CASE OnValidate
  <2> DEFINE begins == bank.state = "RX_DATA_PKT" /\ bank.received = Total
             ok     == begins /\ ~bank.timedOut /\ Whole
  <2>1. /\ bank' = IF ok THEN [bank EXCEPT !.state = "WAIT_4_ACTIVATE"]
                   ELSE IF begins THEN [bank EXCEPT !.state = "VALIDATE"] ELSE bank
        /\ NotifyThen(Response("VALIDATE", ok), m_update_status)
    BY <1>19 DEF OnValidate, Notify
  <2>2. notes' \in Seq(NoteSet) /\ m_update_status' \in StatusSet
    <3>1. Response("VALIDATE", ok) \in NoteSet
      BY <1>R
    <3> QED
      BY <2>1, <3>1, <1>T, NotifyEffect DEF StatusSet
  <2>3. events' \in Seq(EventSet) /\ UNCHANGED <<host, turn>>
    BY <1>19, TakesEffect DEF OnValidate, TakesControl
  <2>4. bank' \in BankSet
    BY <2>1, <1>T, RecordTypes
  <2> QED
    BY <1>19, <2>2, <2>3, <2>4 DEF OnValidate, Typed
<1>20. CASE OnActivate
  <2>1. \E status \in {"SETTINGS_SAVING", "SYS_RESET"} : Close(status)
    BY <1>20 DEF OnActivate
  <2>2. /\ air' \in {"adv", "up", "closing", "down"} /\ m_is_advertising' \in BOOLEAN
        /\ m_tear_down_in_progress' = TRUE /\ m_update_status' \in StatusSet
        /\ UNCHANGED <<m_conn_handle, cccd, notes>>
    BY <2>1, CloseEffect DEF StatusSet
  <2>3. events' \in Seq(EventSet) /\ UNCHANGED <<host, turn>>
    BY <1>20, TakesEffect DEF OnActivate, TakesControl
  <2>4. queue' \in Seq(CommandSet)
    BY <1>20, <1>T, SaveTypes, ConcatProperties DEF OnActivate
  <2> QED
    BY <1>20, <2>2, <2>3, <2>4 DEF OnActivate, Typed
<1>21. CASE OnSysReset
  <2>1. /\ air' \in {"adv", "up", "closing", "down"} /\ m_is_advertising' \in BOOLEAN
        /\ m_tear_down_in_progress' = TRUE /\ m_update_status' \in StatusSet
        /\ UNCHANGED <<m_conn_handle, cccd, notes>>
    BY <1>21, CloseEffect DEF OnSysReset, StatusSet
  <2>2. events' \in Seq(EventSet) /\ UNCHANGED <<host, turn>>
    BY <1>21, TakesEffect DEF OnSysReset, TakesControl
  <2> QED
    BY <1>21, <2>1, <2>2 DEF OnSysReset, Typed
<1>22. CASE OnImageSizeReq
  <2>1. notes' \in Seq(NoteSet) /\ m_update_status' \in StatusSet
    <3>1. Report(m_num_of_firmware_bytes_rcvd) \in NoteSet
      BY <1>N DEF Typed
    <3>2. NotifyThen(Report(m_num_of_firmware_bytes_rcvd), m_update_status)
      BY <1>22 DEF OnImageSizeReq, Notify
    <3> QED
      BY <3>1, <3>2, <1>T, NotifyEffect DEF StatusSet
  <2>2. events' \in Seq(EventSet) /\ UNCHANGED <<host, turn>>
    BY <1>22, TakesEffect DEF OnImageSizeReq, TakesControl
  <2> QED
    BY <1>22, <2>1, <2>2 DEF OnImageSizeReq, Typed
<1>23. CASE PacketIgnored
  BY <1>23, TakesEffect DEF PacketIgnored, TakesPacket, Quiet, Typed
<1>24. CASE StartData
  <2>1. events' \in Seq(EventSet) /\ UNCHANGED <<host, turn>>
    BY <1>24, TakesEffect DEF StartData, TakesPacket
  <2>2. notes' \in Seq(NoteSet) /\ m_update_status' \in StatusSet
    BY <1>24, <1>T, <1>R, NotifyEffect DEF StartData, Notify, Quiet, StatusSet
  <2>3. queue' \in Seq(CommandSet)
    <3>1. Command("clear", NoBuffer, 0, 0) \in CommandSet
      BY <1>A DEF Command, CommandSet, Unit, Old
    <3> QED
      <4>1. queue' = queue \/ queue' = Append(queue, Command("clear", NoBuffer, 0, 0))
        BY <1>24 DEF StartData
      <4> QED
        BY <3>1, <4>1, <1>T
  <2>4. bank' \in BankSet
    BY <1>24, <1>T, RecordTypes DEF StartData
  <2> QED
    BY <1>24, <2>1, <2>2, <2>3, <2>4 DEF StartData, Typed
<1>25. CASE InitData
  <2>1. events' \in Seq(EventSet) /\ UNCHANGED <<host, turn>>
    BY <1>25, TakesEffect DEF InitData, TakesPacket
  <2>2. notes' \in Seq(NoteSet) /\ m_update_status' \in StatusSet
    BY <1>25, <1>T, <1>R, NotifyEffect DEF InitData, Notify, Quiet, StatusSet
  <2>4. bank' \in BankSet
    BY <1>25, <1>T, RecordTypes DEF InitData
  <2> QED
    BY <1>25, <2>1, <2>2, <2>4 DEF InitData, Typed
<1>26. CASE AppData
  <2>1. /\ events' \in Seq(EventSet) /\ UNCHANGED <<host, turn>>
        /\ Head(events).n \in 0 .. Total
    <3>1. PICK op \in Packet : Takes(op)
      BY <1>26 DEF AppData, TakesPacket
    <3>2. Head(events) = events[1] /\ events # << >> /\ Head(events) \in EventSet
          /\ Head(events).op \in Packet
      BY <3>1, TakesEffect DEF Takes
    <3> QED
      BY <3>1, <3>2, <1>T, TakesEffect DEF IInv, EventsInv, EventSet
  <2>2. PICK r \in 0 .. PoolSize : Spans(pool, r)
    BY DEF IInv, DataInv, PoolInv
  <2>3. CASE Head(events).op = "odd" \/ ~CanProduce(pool)
    <3>1. /\ NotifyThen(Response("RECEIVE", FALSE), m_update_status)
          /\ UNCHANGED m_num_of_firmware_bytes_rcvd /\ refused' = TRUE
          /\ UNCHANGED <<m_pkt_type, m_pkt_notif, mp_final_packet, taken, pool, rx_buffer,
                         bank, queue, air, cccd, linkVars, done, flash>>
      BY <1>26, <2>3 DEF AppData, Notify, CountWithout
    <3>2. notes' \in Seq(NoteSet) /\ m_update_status' \in StatusSet
      BY <3>1, <1>T, <1>R, NotifyEffect DEF StatusSet
    <3> QED
      BY <2>1, <3>1, <3>2 DEF Typed
  <2>4. CASE Head(events).op # "odd" /\ CanProduce(pool)
    <3> DEFINE p == rx_extract(rx_produce(pool))
               b == pool.read_index
    <3>1. /\ rx_produce(pool).read_index = b /\ b \in Buffer /\ pool.write_index = b
          /\ pool \in Pool
      BY <2>2, <2>4, PoolTakes DEF Spans, Typed, Pool
    <3>2. /\ rx_buffer' = [rx_buffer EXCEPT ![b] = Head(events).n]
          /\ IF bank.state = "RX_DATA_PKT" /\ bank.received < Total /\ ~bank.timedOut
               THEN DataAccepted(p, b) ELSE DataRefused(p, b)
          /\ UNCHANGED <<air, cccd, linkVars, done, flash>>
      BY <1>26, <2>4, <3>1 DEF AppData
    <3>3. rx_buffer' \in [Buffer -> 0 .. Old]
      BY <3>1, <3>2, <2>1, <1>A DEF Typed, Old
    <3>4. CASE bank.state = "RX_DATA_PKT" /\ bank.received < Total /\ ~bank.timedOut
      <4>1. DataAccepted(p, b)
        BY <3>2, <3>4
      <4>2. /\ m_num_of_firmware_bytes_rcvd = bank.received
            /\ bank.received \in 0 .. Total - 1
        BY <3>4, <1>A DEF IInv, CountInv, Overrun, Typed
      <4>3. queue' \in Seq(CommandSet)
        <5>1. Command("store", b, bank.received, Head(events).n) \in CommandSet
          BY <3>1, <2>1, <4>2, <1>A DEF Command, CommandSet, Unit, Old
        <5> QED
          BY <5>1, <4>1, <1>T DEF DataAccepted
      <4>4. pool' \in Pool
        BY <4>1, <2>2, <2>4, <3>1, PoolTakes DEF DataAccepted, PoolAfterStore
      <4>5. bank' \in BankSet
        <5>1. bank.received + 1 \in 0 .. Overrun
          BY <4>2, <1>A DEF Overrun
        <5> QED
          BY <5>1, <4>1, <1>T, RecordTypes DEF DataAccepted
      <4>6. /\ m_num_of_firmware_bytes_rcvd' = m_num_of_firmware_bytes_rcvd + 1
            /\ m_num_of_firmware_bytes_rcvd' \in 0 .. Total
        BY <4>1, <4>2, <1>A DEF DataAccepted, Counted
      <4>7. mp_final_packet' \in Buffer \cup {NoBuffer}
        BY <4>1, <3>1 DEF DataAccepted, Typed
      <4>8. /\ m_pkt_notif' \in NotifSet
            /\ m_pkt_notif'.enabled => m_pkt_notif'.cnt \in 1 .. m_pkt_notif'.target
        <5>1. CASE UNCHANGED m_pkt_notif
          BY <5>1 DEF Typed
        <5>2. CASE m_pkt_notif.enabled /\ m_pkt_notif' = [m_pkt_notif EXCEPT !.cnt = NextCnt(@)]
          <6>1. NextCnt(m_pkt_notif.cnt) \in 1 .. m_pkt_notif.target
                /\ NextCnt(m_pkt_notif.cnt) \in Nat
            <7>1. /\ m_pkt_notif.cnt \in 1 .. m_pkt_notif.target /\ m_pkt_notif.target \in Nat
                  /\ m_pkt_notif.cnt \in Nat
              BY <5>2, <1>A DEF Typed, NotifSet
            <7> QED
              BY <7>1 DEF NextCnt
          <6> QED
            BY <5>2, <6>1 DEF Typed, NotifSet
        <5> QED
          BY <5>1, <5>2, <4>1 DEF DataAccepted
      <4>9. notes' \in Seq(NoteSet) /\ m_update_status' \in StatusSet
        BY <4>1, <4>6, <1>T, <1>N, NotifyEffect DEF DataAccepted, Notify, Quiet, StatusSet
      <4>10. taken' \in Seq(0 .. Total) /\ refused' \in BOOLEAN /\ UNCHANGED m_pkt_type
        BY <4>1, <2>1 DEF DataAccepted, Typed
      <4> QED
        BY <2>1, <3>2, <3>3, <4>3, <4>4, <4>5, <4>6, <4>7, <4>8, <4>9, <4>10
           DEF Typed
    <3>5. CASE ~(bank.state = "RX_DATA_PKT" /\ bank.received < Total /\ ~bank.timedOut)
      <4>1. DataRefused(p, b)
        BY <3>2, <3>5
      <4>2. pool' \in Pool
        BY <4>1, <2>2, <2>4, <3>1, PoolRefuses DEF DataRefused
      <4>3. bank' \in BankSet
        <5>1. Overrun \in 0 .. Overrun
          BY <1>A DEF Overrun
        <5> QED
          BY <4>1, <5>1, <1>T, RecordTypes DEF DataRefused
      <4>4. notes' \in Seq(NoteSet) /\ m_update_status' \in StatusSet
        BY <4>1, <1>T, <1>R, NotifyEffect DEF DataRefused, Notify, StatusSet
      <4> QED
        BY <2>1, <3>2, <3>3, <4>1, <4>2, <4>3, <4>4
           DEF DataRefused, Typed
    <3> QED
      BY <3>4, <3>5
  <2> QED
    BY <2>3, <2>4
<1>27. CASE NoSocEvent
  BY <1>27 DEF NoSocEvent, Typed
<1>28. CASE BankCleared
  <2>1. /\ NotifyThen(Response("START", TRUE), m_update_status)
        /\ queue' = Tail(queue) \o Save /\ bank' = [bank EXCEPT !.state = "RDY"]
        /\ turn' = "ble" /\ done' = FALSE
    BY <1>28 DEF BankCleared, Finishes, Notify
  <2>2. notes' \in Seq(NoteSet) /\ m_update_status' \in StatusSet
    BY <2>1, <1>T, <1>R, NotifyEffect DEF StatusSet
  <2>3. queue # << >>
    BY <1>28 DEF BankCleared, Finishes, IInv, DataInv, QueueInv
  <2>4. queue' \in Seq(CommandSet)
    BY <2>1, <2>3, <1>T, SaveTypes, QueueHead, ConcatProperties
  <2>5. bank' \in BankSet
    BY <2>1, <1>T, RecordTypes
  <2>B. done' \in BOOLEAN
    BY <1>28 DEF BankCleared, Finishes
  <2> QED
    BY <1>28, <2>B, <2>1, <2>2, <2>4, <2>5
       DEF BankCleared, Finishes, Typed
<1>29. CASE PacketStored
  <2>1. queue # << >>
    BY <1>29 DEF PacketStored, Finishes, IInv, DataInv, QueueInv
  <2>2. queue' \in Seq(CommandSet) /\ Head(queue) \in CommandSet
    BY <1>29, <2>1, QueueHead DEF PacketStored
  <2>3. pool' \in Pool /\ notes' \in Seq(NoteSet) /\ m_update_status' \in StatusSet
    <3>1. CASE bank.state # "RX_DATA_PKT"
      BY <1>29, <3>1, <1>T DEF PacketStored, Quiet, Typed
    <3>2. CASE bank.state = "RX_DATA_PKT"
      <4>1. /\ notes' \in Seq(NoteSet) /\ m_update_status' \in StatusSet
        BY <1>29, <3>2, <1>T, <1>R, NotifyEffect DEF PacketStored, Notify, Quiet, StatusSet
      <4>2. pool' = rx_consume(pool, Head(queue).buf)
        BY <1>29, <3>2 DEF PacketStored
      <4>3. PICK lo \in 0 .. 2, k \in 0 .. PoolSize, r \in 0 .. PoolSize :
              QueueInv(lo, k) /\ PoolInv(lo, k, r)
        BY DEF IInv, DataInv
      <4>4. IsStore(1) /\ Len(queue) >= 1 /\ Head(queue) = queue[1]
        BY <1>29, <2>1, <1>T, QueueHead DEF PacketStored, Finishes, IsStore
      <4>5. lo = 0 /\ k >= 1
        BY <4>3, <4>4, <1>T DEF QueueInv
      <4>6. Head(queue).buf = Back(pool.read_index, k + r)
            /\ k + r = pool.free_available_count
        BY <4>3, <4>4, <4>5, <3>2, <1>T DEF PoolInv, Receiving
      <4> QED
        BY <4>1, <4>2, <4>3, <4>5, <4>6, PoolGivesBack DEF PoolInv, Typed
    <3> QED
      BY <3>1, <3>2
  <2>B. done' \in BOOLEAN
    BY <1>29 DEF PacketStored, Finishes
  <2> QED
    BY <1>29, <2>B, <2>2, <2>3 DEF PacketStored, Finishes, Typed
<1>30. CASE SettingsErased
  <2>1. queue # << >>
    BY <1>30 DEF SettingsErased, Finishes, IInv, DataInv, QueueInv
  <2>2. queue' \in Seq(CommandSet)
    BY <1>30, <2>1, QueueHead DEF SettingsErased
  <2>B. done' \in BOOLEAN
    BY <1>30 DEF SettingsErased, Finishes
  <2> QED
    BY <1>30, <2>B, <2>2 DEF SettingsErased, Finishes, Quiet, Typed
<1>31. CASE SettingsSaved
  <2>1. queue # << >>
    BY <1>31 DEF SettingsSaved, Finishes, IInv, DataInv, QueueInv
  <2>2. queue' \in Seq(CommandSet)
    BY <1>31, <2>1, QueueHead DEF SettingsSaved
  <2>3. m_update_status' \in StatusSet
    BY <1>31, <1>S, <1>T DEF SettingsSaved
  <2>B. done' \in BOOLEAN
    BY <1>31 DEF SettingsSaved, Finishes
  <2> QED
    BY <1>31, <2>B, <2>2, <2>3 DEF SettingsSaved, Finishes, Typed
<1>32. CASE FlashWorks
  <2>1. queue # << >> /\ Head(queue) \in CommandSet
    BY <1>32, QueueHead DEF FlashWorks
  <2>2. flash' \in [Unit -> 0 .. Old]
    <3>1. CASE Head(queue).op = "clear"
      BY <1>32, <3>1, <1>A DEF FlashWorks, Blank, Old
    <3>2. CASE Head(queue).op = "store"
      <4>1. rx_buffer[Head(queue).buf] \in 0 .. Old
        <5>1. Head(queue).buf \in Buffer
          <6>1. PICK lo \in 0 .. 2, k \in 0 .. PoolSize, r \in 0 .. PoolSize :
                  QueueInv(lo, k) /\ PoolInv(lo, k, r)
            BY DEF IInv, DataInv
          <6>2. IsStore(1) /\ Len(queue) >= 1 /\ Head(queue) = queue[1]
            BY <3>2, <2>1, <1>T, QueueHead DEF IsStore
          <6>3. lo = 0 /\ k >= 1 /\ queue[1].buf = Back(pool.read_index, k + r)
            <7>1. lo = 0 /\ k >= 1
              BY <6>1, <6>2, <1>T DEF QueueInv
            <7>2. queue[1].buf = Back(pool.read_index, lo + k + 1 - 1 + r)
              BY <6>1, <6>2, <1>T DEF PoolInv
            <7>3. lo + k + 1 - 1 + r = k + r
              BY <6>1, <7>1, <1>A
            <7> QED
              BY <7>1, <7>2, <7>3
          <6>4. k + r \in 0 .. PoolSize /\ pool.read_index \in Buffer
            BY <6>1, <6>3, <1>A DEF PoolInv, Spans, Typed, Pool
          <6> QED
            BY <6>2, <6>3, <6>4, BackFacts
        <5> QED
          BY <5>1 DEF Typed
      <4> QED
        BY <1>32, <3>2, <4>1, <2>1 DEF FlashWorks, Typed
    <3>3. CASE Head(queue).op \notin {"clear", "store"}
      BY <1>32, <3>3 DEF FlashWorks, Typed
    <3> QED
      BY <3>1, <3>2, <3>3
  <2> QED
    BY <1>32, <2>2 DEF FlashWorks, Typed
<1>33. CASE Timeout
  <2>1. /\ air' \in {"adv", "up", "closing", "down"} /\ m_is_advertising' \in BOOLEAN
        /\ m_tear_down_in_progress' = TRUE /\ m_update_status' \in StatusSet
        /\ UNCHANGED <<m_conn_handle, cccd, notes>>
    BY <1>33, CloseEffect DEF Timeout, StatusSet
  <2>2. bank' \in BankSet
    BY <1>33, <1>T, RecordTypes DEF Timeout
  <2> QED
    BY <1>33, <2>1, <2>2 DEF Timeout, Typed
<1>34. CASE Leave
  BY <1>34, <1>S DEF Leave, Typed
<1>35. CASE UNCHANGED vars
  BY <1>35 DEF vars, Typed
<1> QED
  BY <1>1, <1>2, <1>3, <1>4, <1>5, <1>6, <1>8, <1>9, <1>10, <1>11, <1>12, <1>13, <1>14,
     <1>15, <1>16, <1>17, <1>18, <1>19, <1>20, <1>21, <1>22, <1>23, <1>24, <1>25, <1>26,
     <1>27, <1>28, <1>29, <1>30, <1>31, <1>32, <1>33, <1>34, <1>35
     DEF Next, Host, OnBleEvent, OnSocEvent

-----------------------------------------------------------------------------
(* The link. *)

LEMMA LinkAppends ==
  ASSUME NEW s \in Seq(EventSet), NEW e \in EventSet
  PROVE  LET t == Append(s, e)
         IN /\ e.op \notin LinkOp =>
                 /\ NoLink(s) => NoLink(t)
                 /\ \A op \in LinkOp : OneLink(s, op) => OneLink(t, op)
                 /\ BothLinks(s) => BothLinks(t)
            /\ e.op \in LinkOp /\ NoLink(s) => OneLink(t, e.op)
            /\ e.op = "disconnected" /\ OneLink(s, "connected") => BothLinks(t)
<1> DEFINE t == Append(s, e)
           n == Len(s) + 1
<1>1. /\ Len(t) = n /\ t[n] = e /\ \A i \in 1 .. Len(s) : t[i] = s[i]
      /\ Len(s) \in Nat /\ \A i \in 1 .. n : i \in 1 .. Len(s) \/ i = n
      /\ n \in 1 .. n /\ \A i \in 1 .. Len(s) : i \in 1 .. n /\ i < n
  OBVIOUS
<1> HIDE DEF t, n
<1>2. ASSUME e.op \notin LinkOp
      PROVE  /\ NoLink(s) => NoLink(t)
             /\ \A op \in LinkOp : OneLink(s, op) => OneLink(t, op)
             /\ BothLinks(s) => BothLinks(t)
  <2>1. NoLink(s) => NoLink(t)
    BY <1>1, <1>2 DEF NoLink
  <2>2. \A op \in LinkOp : OneLink(s, op) => OneLink(t, op)
    BY <1>1, <1>2 DEF OneLink
  <2>3. BothLinks(s) => BothLinks(t)
    <3> SUFFICES ASSUME BothLinks(s) PROVE BothLinks(t)
      OBVIOUS
    <3>1. PICK i, j \in 1 .. Len(s) :
            /\ i < j /\ s[i].op = "connected" /\ s[j].op = "disconnected"
            /\ \A k \in 1 .. Len(s) : s[k].op \in LinkOp => k \in {i, j}
      BY DEF BothLinks
    <3>2. i \in 1 .. Len(t) /\ j \in 1 .. Len(t) /\ t[i] = s[i] /\ t[j] = s[j]
      BY <1>1
    <3>3. \A k \in 1 .. Len(t) : t[k].op \in LinkOp => k \in {i, j}
      BY <1>1, <1>2, <3>1
    <3> QED
      BY <3>1, <3>2, <3>3 DEF BothLinks
  <2> QED
    BY <2>1, <2>2, <2>3
<1>3. e.op \in LinkOp /\ NoLink(s) => OneLink(t, e.op)
  BY <1>1 DEF NoLink, OneLink
<1>4. e.op = "disconnected" /\ OneLink(s, "connected") => BothLinks(t)
  <2> SUFFICES ASSUME e.op = "disconnected", OneLink(s, "connected") PROVE BothLinks(t)
    OBVIOUS
  <2>1. PICK i \in 1 .. Len(s) :
          s[i].op = "connected" /\ \A j \in 1 .. Len(s) : s[j].op \in LinkOp => j = i
    BY DEF OneLink
  <2>2. i \in 1 .. Len(t) /\ n \in 1 .. Len(t) /\ i < n /\ t[i] = s[i] /\ t[n] = e
    BY <1>1
  <2>3. \A k \in 1 .. Len(t) : t[k].op \in LinkOp => k \in {i, n}
    BY <1>1, <2>1
  <2> QED
    BY <2>1, <2>2, <2>3 DEF BothLinks
<1> QED
  BY <1>2, <1>3, <1>4 DEF t

LEMMA LinkTails ==
  ASSUME NEW s \in Seq(EventSet), s # << >>
  PROVE  LET t == Tail(s)
         IN /\ s[1].op \notin LinkOp =>
                 /\ NoLink(s) => NoLink(t)
                 /\ \A op \in LinkOp : OneLink(s, op) => OneLink(t, op)
                 /\ BothLinks(s) => BothLinks(t)
            /\ s[1].op \in LinkOp =>
                 /\ ~NoLink(s)
                 /\ \A op \in LinkOp : OneLink(s, op) => s[1].op = op /\ NoLink(t)
                 /\ BothLinks(s) => s[1].op = "connected" /\ OneLink(t, "disconnected")
<1> DEFINE t == Tail(s)
<1>1. /\ Len(s) \in Nat \ {0} /\ Len(t) = Len(s) - 1
      /\ \A i \in 1 .. Len(t) : t[i] = s[i + 1] /\ i + 1 \in 1 .. Len(s) /\ i + 1 # 1
      /\ \A i \in 1 .. Len(s) : i = 1 \/ (i - 1 \in 1 .. Len(t) /\ t[i - 1] = s[i])
      /\ 1 \in 1 .. Len(s)
  BY HeadTailProperties
<1> HIDE DEF t
<1>2. NoLink(s) => NoLink(t)
  BY <1>1 DEF NoLink
<1>3. ASSUME s[1].op \notin LinkOp
      PROVE  /\ \A op \in LinkOp : OneLink(s, op) => OneLink(t, op)
             /\ BothLinks(s) => BothLinks(t)
  <2>1. ASSUME NEW op \in LinkOp, OneLink(s, op) PROVE OneLink(t, op)
    <3>1. PICK i \in 1 .. Len(s) :
            s[i].op = op /\ \A j \in 1 .. Len(s) : s[j].op \in LinkOp => j = i
      BY <2>1 DEF OneLink
    <3>2. i - 1 \in 1 .. Len(t) /\ t[i - 1].op = op
      BY <1>1, <1>3, <3>1
    <3>3. \A j \in 1 .. Len(t) : t[j].op \in LinkOp => j = i - 1
      BY <1>1, <3>1
    <3> QED
      BY <3>2, <3>3 DEF OneLink
  <2>2. ASSUME BothLinks(s) PROVE BothLinks(t)
    <3>1. PICK i, j \in 1 .. Len(s) :
            /\ i < j /\ s[i].op = "connected" /\ s[j].op = "disconnected"
            /\ \A k \in 1 .. Len(s) : s[k].op \in LinkOp => k \in {i, j}
      BY <2>2 DEF BothLinks
    <3>2. i # 1 /\ j # 1
      BY <1>3, <3>1 DEF LinkOp
    <3>3. /\ i - 1 \in 1 .. Len(t) /\ t[i - 1] = s[i]
          /\ j - 1 \in 1 .. Len(t) /\ t[j - 1] = s[j] /\ i - 1 < j - 1
      BY <1>1, <3>1, <3>2
    <3>4. \A k \in 1 .. Len(t) : t[k].op \in LinkOp => k \in {i - 1, j - 1}
      BY <1>1, <3>1
    <3> QED
      BY <3>1, <3>3, <3>4 DEF BothLinks
  <2> QED
    BY <2>1, <2>2
<1>4. ASSUME s[1].op \in LinkOp
      PROVE  /\ ~NoLink(s)
             /\ \A op \in LinkOp : OneLink(s, op) => s[1].op = op /\ NoLink(t)
             /\ BothLinks(s) => s[1].op = "connected" /\ OneLink(t, "disconnected")
  <2>1. ~NoLink(s)
    BY <1>1, <1>4 DEF NoLink
  <2>2. \A op \in LinkOp : OneLink(s, op) => s[1].op = op /\ NoLink(t)
    BY <1>1, <1>4 DEF NoLink, OneLink
  <2>3. ASSUME BothLinks(s) PROVE s[1].op = "connected" /\ OneLink(t, "disconnected")
    <3>1. PICK i, j \in 1 .. Len(s) :
            /\ i < j /\ s[i].op = "connected" /\ s[j].op = "disconnected"
            /\ \A k \in 1 .. Len(s) : s[k].op \in LinkOp => k \in {i, j}
      BY <2>3 DEF BothLinks
    <3>2. i = 1 /\ j # 1
      BY <1>1, <1>4, <3>1
    <3>3. j - 1 \in 1 .. Len(t) /\ t[j - 1] = s[j]
      BY <1>1, <3>2
    <3>4. \A k \in 1 .. Len(t) : t[k].op \in LinkOp => k = j - 1
      BY <1>1, <3>1, <3>2
    <3> QED
      BY <3>1, <3>2, <3>3, <3>4 DEF OneLink
  <2> QED
    BY <2>1, <2>2, <2>3
<1> QED
  BY <1>2, <1>3, <1>4 DEF t

\* dfu_transport_ble_close leaves them in agreement.
LEMMA LinkCloses ==
  ASSUME NEW s, NEW status, Close(status),
         Link(s, air, m_conn_handle, m_is_advertising, m_tear_down_in_progress)
  PROVE  Link(s, air', m_conn_handle', m_is_advertising', m_tear_down_in_progress')
<1>1. m_tear_down_in_progress' = TRUE /\ m_conn_handle' = m_conn_handle
  BY DEF Close
<1>2. CASE UNCHANGED <<air, m_is_advertising>>
  BY <1>1, <1>2 DEF Link
<1>3. CASE m_conn_handle /\ air = "up" /\ air' = "closing" /\ UNCHANGED m_is_advertising
  BY <1>1, <1>3 DEF Link
<1>4. CASE /\ ~m_conn_handle /\ m_is_advertising /\ air = "adv"
           /\ air' = "down" /\ m_is_advertising' = FALSE
  BY <1>1, <1>4 DEF Link
<1> QED
  BY <1>2, <1>3, <1>4 DEF Close

\* The oldest event, when it is none of a link, leaves the link as it is.
LEMMA LinkPasses ==
  ASSUME Typed, NEW op \in Control \cup Packet, Takes(op),
         NEW radio, NEW handle, NEW advertising, NEW tears,
         Link(events, radio, handle, advertising, tears)
  PROVE  Link(events', radio, handle, advertising, tears)
<1>1. /\ events \in Seq(EventSet) /\ events # << >> /\ events' = Tail(events)
      /\ events[1].op = op
  BY TypedMeans, TakesEffect DEF Takes, Typed
<1>2. op \notin LinkOp
  BY DEF Control, Packet, LinkOp
<1>3. {"connected", "disconnected"} = LinkOp
  BY DEF LinkOp
<1>4. /\ NoLink(events) => NoLink(events')
      /\ OneLink(events, "connected") => OneLink(events', "connected")
      /\ OneLink(events, "disconnected") => OneLink(events', "disconnected")
      /\ BothLinks(events) => BothLinks(events')
  BY <1>1, <1>2, <1>3, LinkTails
<1> QED
  BY <1>4 DEF Link

LEMMA LinkAdds ==
  ASSUME Typed, NEW e \in EventSet, e.op \in Control \cup Packet,
         events' = Append(events, e),
         NEW radio, NEW handle, NEW advertising, NEW tears,
         Link(events, radio, handle, advertising, tears)
  PROVE  Link(events', radio, handle, advertising, tears)
<1>1. events \in Seq(EventSet) /\ e.op \notin LinkOp /\ {"connected", "disconnected"} = LinkOp
  BY DEF Typed, Control, Packet, LinkOp
<1>2. /\ NoLink(events) => NoLink(events')
      /\ OneLink(events, "connected") => OneLink(events', "connected")
      /\ OneLink(events, "disconnected") => OneLink(events', "disconnected")
      /\ BothLinks(events) => BothLinks(events')
  BY <1>1, LinkAppends
<1> QED
  BY <1>2 DEF Link

\* What a step does to the events: nothing, one more, or the oldest is taken.
LEMMA EventMoves ==
  ASSUME Typed, [Next]_vars
  PROVE  \/ UNCHANGED events
         \/ \E e \in EventSet : /\ events' = Append(events, e)
                                /\ e.op \in Packet => e.n <= Total
         \/ events # << >> /\ events' = Tail(events)
<1>1. CASE Connect \/ LinkDown \/ HostResets \/ Subscribe
  <2>1. \A op \in LinkOp \cup Control : /\ Write(op, 0) \in EventSet
                                       /\ Write(op, 0).op \notin Packet
    BY DEF Write, EventSet, LinkOp, Control, Packet
  <2>2. {"connected", "disconnected", "SYS_RESET", "SIZE"} \subseteq LinkOp \cup Control
    BY DEF LinkOp, Control
  <2> QED
    BY <1>1, <2>1, <2>2 DEF Connect, LinkDown, HostResets, Subscribe
<1>2. CASE HostWrites
  <2>1. host.at \in 1 .. Ends - 1 /\ host.interval \in Intervals
    <3>1. host.at \in 1 .. GaveUp /\ host.interval \in Intervals
      BY RecordTypes DEF Typed
    <3> QED
      BY <1>2, <3>1, BleAssumption DEF HostWrites, Ends, GaveUp, BleAssumption
  <2>2. /\ Script(host.interval)[host.at] \in EventSet
        /\ Script(host.interval)[host.at].op \in Packet => Script(host.interval)[host.at].n <= Total
    BY <2>1, ScriptTypes DEF EventSet
  <2> QED
    BY <1>2, <2>2 DEF HostWrites
<1>3. CASE HostStrays
  <2>1. \A op \in Control \cup {"sizes", "odd"} : /\ Write(op, 0) \in EventSet
                                                /\ Write(op, 0).n <= Total
    BY BleAssumption DEF BleAssumption, Write, EventSet, Packet
  <2> QED
    BY <1>3, <2>1 DEF HostStrays
<1>4. CASE OnBleEvent
  <2>1. \E op \in Control \cup Packet \cup LinkOp : Takes(op)
    BY <1>4 DEF OnBleEvent, OnConnected, OnDisconnected, ControlRefused, OnPktRcptNotif,
         OnStart, OnInit, OnReceiveFw, OnInitComplete, OnValidate, OnActivate, OnSysReset,
         OnImageSizeReq, PacketIgnored, StartData, InitData, AppData, TakesControl,
         TakesPacket, Control, LinkOp
  <2> QED
    BY <2>1 DEF Takes
<1>5. CASE UNCHANGED events
  BY <1>5
<1> QED
  BY <1>1, <1>2, <1>3, <1>4, <1>5 DEF Next, vars, Host, HostReads, LinkLost, LinkClosed,
     NoBleEvent, OnSocEvent, NoSocEvent, BankCleared, PacketStored, SettingsErased,
     SettingsSaved, Finishes, FlashWorks, Timeout, Leave

LEMMA EventsStep == IInv /\ [Next]_vars => EventsInv'
<1> SUFFICES ASSUME IInv, [Next]_vars PROVE EventsInv'
  OBVIOUS
<1>1. Typed /\ EventsInv
  BY TypedMeans DEF IInv
<1>2. events \in Seq(EventSet)
  BY <1>1 DEF Typed
<1>3. CASE UNCHANGED events
  BY <1>1, <1>3 DEF EventsInv
<1>4. CASE \E e \in EventSet : events' = Append(events, e) /\ (e.op \in Packet => e.n <= Total)
  BY <1>1, <1>2, <1>4 DEF EventsInv
<1>5. CASE events # << >> /\ events' = Tail(events)
  BY <1>1, <1>2, <1>5, HeadTailProperties DEF EventsInv
<1> QED
  BY <1>1, <1>3, <1>4, <1>5, EventMoves

LEMMA LinkStep == IInv /\ [Next]_vars => LinkInv'
<1> SUFFICES ASSUME IInv, [Next]_vars PROVE LinkInv'
  OBVIOUS
<1> USE DEF deviceVars, stackVars, linkVars, dataVars, history, poolVars, flashVars
<1>1. Typed /\ LinkInv
  BY TypedMeans DEF IInv
<1>2. /\ events \in Seq(EventSet) /\ {"connected", "disconnected"} = LinkOp
      /\ Write("connected", 0) \in EventSet /\ Write("connected", 0).op = "connected"
      /\ Write("disconnected", 0) \in EventSet /\ Write("disconnected", 0).op = "disconnected"
  BY <1>1 DEF Typed, EventSet, LinkOp, Write
<1>3. CASE UNCHANGED <<events, air, linkVars>>
  BY <1>1, <1>3 DEF LinkInv
<1>4. CASE Connect
  <2>1. NoLink(events) => OneLink(events', "connected")
    BY <1>2, <1>4, LinkAppends DEF Connect
  <2> QED
    BY <1>1, <1>4, <2>1 DEF Connect, LinkInv, Link
<1>5. ASSUME UNCHANGED <<air, linkVars>>,
             NEW e \in EventSet, e.op \in Control \cup Packet, events' = Append(events, e)
      PROVE  LinkInv'
  BY <1>1, <1>5, LinkAdds DEF LinkInv
<1>6. CASE Subscribe \/ HostResets \/ HostStrays
  <2>1. \A op \in Control \cup Packet : /\ Write(op, 0) \in EventSet
                                       /\ Write(op, 0).op \in Control \cup Packet
    BY DEF Write, EventSet
  <2>2. {"SYS_RESET", "SIZE", "sizes", "odd"} \subseteq Control \cup Packet
    BY DEF Control, Packet
  <2>3. \/ UNCHANGED events
        \/ \E op \in Control \cup Packet : events' = Append(events, Write(op, 0))
    BY <1>6, <2>2 DEF Subscribe, HostResets, HostStrays
  <2>4. UNCHANGED <<air, linkVars>>
    BY <1>6 DEF Subscribe, HostResets, HostStrays
  <2> QED
    BY <1>3, <1>5, <2>1, <2>3, <2>4
<1>7. CASE HostWrites
  <2>1. host.at \in 1 .. Ends - 1 /\ host.interval \in Intervals
    <3>1. host.at \in 1 .. GaveUp /\ host.interval \in Intervals
      BY <1>1, RecordTypes DEF Typed
    <3> QED
      BY <1>7, <3>1, BleAssumption DEF HostWrites, Ends, GaveUp, BleAssumption
  <2>2. /\ Script(host.interval)[host.at] \in EventSet
        /\ Script(host.interval)[host.at].op \in Control \cup Packet
    BY <2>1, ScriptTypes DEF EventSet
  <2> QED
    BY <1>5, <1>7, <2>2 DEF HostWrites
<1>8. CASE LinkLost \/ LinkClosed
  <2>1. /\ air \in {"up", "closing"} /\ air' = "down" /\ UNCHANGED linkVars
        /\ events' = Append(events, Write("disconnected", 0))
    BY <1>8 DEF LinkLost, LinkClosed, LinkDown
  <2>2. /\ NoLink(events) => OneLink(events', "disconnected")
        /\ OneLink(events, "connected") => BothLinks(events')
    BY <1>2, <2>1, LinkAppends
  <2> QED
    BY <1>1, <2>1, <2>2 DEF LinkInv, Link
<1>9. ASSUME NEW op \in Control \cup Packet, Takes(op), UNCHANGED <<air, linkVars>>
      PROVE  LinkInv'
  BY <1>1, <1>9, LinkPasses DEF LinkInv
<1>10. ASSUME NEW op \in Control \cup Packet, Takes(op), NEW status, Close(status)
       PROVE  LinkInv'
  <2>1. Link(events', air, m_conn_handle, m_is_advertising, m_tear_down_in_progress)
    BY <1>1, <1>10, LinkPasses DEF LinkInv
  <2> QED
    BY <1>10, <2>1, LinkCloses DEF LinkInv
<1>11. CASE OnConnected
  <2>1. events # << >> /\ events' = Tail(events) /\ events[1].op = "connected"
    BY <1>1, <1>11, TypedMeans, TakesEffect DEF OnConnected, Takes
  <2>2. /\ ~NoLink(events) /\ ~OneLink(events, "disconnected")
        /\ OneLink(events, "connected") => NoLink(events')
        /\ BothLinks(events) => OneLink(events', "disconnected")
    BY <1>2, <2>1, LinkTails
  <2>3. m_conn_handle' = TRUE /\ m_is_advertising' = FALSE /\ air' = air
        /\ m_tear_down_in_progress' = m_tear_down_in_progress
    BY <1>11 DEF OnConnected, NotAdvertising
  <2> QED
    BY <1>1, <2>2, <2>3 DEF LinkInv, Link
<1>12. CASE OnDisconnected
  <2>1. events # << >> /\ events' = Tail(events) /\ events[1].op = "disconnected"
    BY <1>1, <1>12, TypedMeans, TakesEffect DEF OnDisconnected, Takes
  <2>2. /\ ~NoLink(events) /\ ~OneLink(events, "connected") /\ ~BothLinks(events)
        /\ OneLink(events, "disconnected") => NoLink(events')
    BY <1>2, <2>1, LinkTails
  <2>3. air = "down" /\ m_conn_handle /\ ~m_is_advertising /\ NoLink(events')
    BY <1>1, <2>2 DEF LinkInv, Link
  <2>4. /\ m_conn_handle' = FALSE /\ m_tear_down_in_progress' = m_tear_down_in_progress
        /\ IF m_tear_down_in_progress THEN air' = air /\ m_is_advertising' = m_is_advertising
           ELSE air' = "adv" /\ m_is_advertising' = TRUE
    BY <1>12, <2>3 DEF OnDisconnected
  <2> QED
    BY <2>3, <2>4 DEF LinkInv, Link
<1>13. CASE OnActivate \/ OnSysReset
  <2>1. \E op \in Control : Takes(op)
    BY <1>13 DEF OnActivate, OnSysReset, TakesControl, Control
  <2>2. \E status \in StatusSet : Close(status)
    BY <1>13 DEF OnActivate, OnSysReset, StatusSet
  <2> QED
    BY <1>10, <2>1, <2>2
<1>14. CASE OnBleEvent /\ ~(OnConnected \/ OnDisconnected \/ OnActivate \/ OnSysReset)
  <2>1. \E op \in Control \cup Packet : Takes(op)
    BY <1>14 DEF OnBleEvent, ControlRefused, OnPktRcptNotif, OnStart, OnInit, OnReceiveFw,
         OnInitComplete, OnValidate, OnImageSizeReq, PacketIgnored, StartData, InitData,
         AppData, TakesControl, TakesPacket, Control
  <2>2. UNCHANGED <<air, linkVars>>
    BY <1>14 DEF OnBleEvent, ControlRefused, OnPktRcptNotif, OnStart, OnInit, OnReceiveFw,
         OnInitComplete, OnValidate, OnImageSizeReq, PacketIgnored, StartData, InitData,
         AppData, Expects
  <2> QED
    BY <1>9, <2>1, <2>2
<1>15. CASE Timeout
  <2>1. Close("TIMEOUT") /\ UNCHANGED events
    BY <1>15 DEF Timeout
  <2> QED
    BY <1>1, <2>1, LinkCloses DEF LinkInv
<1>16. CASE HostReads \/ NoBleEvent \/ OnSocEvent \/ FlashWorks \/ Leave \/ UNCHANGED vars
  <2>1. UNCHANGED <<events, air, linkVars>>
    BY <1>16 DEF HostReads, NoBleEvent, OnSocEvent, NoSocEvent, BankCleared, PacketStored,
         SettingsErased, SettingsSaved, Finishes, FlashWorks, Leave, vars
  <2> QED
    BY <1>3, <2>1
<1> QED
  BY <1>4, <1>6, <1>7, <1>8, <1>11, <1>12, <1>13, <1>14, <1>15, <1>16
     DEF Next, Host, OnBleEvent
-----------------------------------------------------------------------------
(* The count. *)

\* What a step does to the count and to the bank.
LEMMA CountStep == IInv /\ [Next]_vars => CountInv'
<1> SUFFICES ASSUME IInv, [Next]_vars PROVE CountInv'
  OBVIOUS
<1> USE DEF deviceVars, stackVars, linkVars, dataVars, history, poolVars, flashVars
<1>1. /\ Total \in Nat \ {0} /\ taken \in Seq(0 .. Total) /\ Len(taken) \in Nat
      /\ bank \in BankSet /\ CountInv /\ m_num_of_firmware_bytes_rcvd \in 0 .. Total
  BY BleAssumption, TypedMeans DEF BleAssumption, IInv, Typed
<1>2. ASSUME UNCHANGED <<taken, m_num_of_firmware_bytes_rcvd>>,
             NEW s \in {"PREPARING", "RDY", "RX_INIT_PKT", "RX_DATA_PKT", "VALIDATE",
                        "WAIT_4_ACTIVATE"},
             bank' = [bank EXCEPT !.state = s],
             s \in {"PREPARING", "RDY", "RX_INIT_PKT"} => Len(taken) = 0,
             s \in {"VALIDATE", "WAIT_4_ACTIVATE"} => Len(taken) = Total
      PROVE  CountInv'
  <2>1. bank'.state = s /\ bank'.received = bank.received
    BY <1>1, <1>2 DEF BankSet
  <2> QED
    BY <1>1, <1>2, <2>1 DEF CountInv
<1>3. CASE UNCHANGED <<taken, m_num_of_firmware_bytes_rcvd>>
           /\ bank' \in {bank, [bank EXCEPT !.timedOut = TRUE]}
  <2>1. bank'.state = bank.state /\ bank'.received = bank.received
    BY <1>1, <1>3 DEF BankSet
  <2> QED
    BY <1>1, <1>3, <2>1 DEF CountInv
<1>4. CASE OnInitComplete
  <2>1. bank' = bank \/ bank' = [bank EXCEPT !.state = "RX_DATA_PKT"]
    BY <1>4 DEF OnInitComplete
  <2>2. UNCHANGED <<taken, m_num_of_firmware_bytes_rcvd>>
    BY <1>4 DEF OnInitComplete, Expects
  <2> QED
    BY <1>2, <1>3, <2>1, <2>2
<1>5. CASE OnValidate
  <2> DEFINE begins == bank.state = "RX_DATA_PKT" /\ bank.received = Total
  <2>1. \/ bank' = bank
        \/ begins /\ \E s \in {"VALIDATE", "WAIT_4_ACTIVATE"} : bank' = [bank EXCEPT !.state = s]
    BY <1>5 DEF OnValidate
  <2>2. UNCHANGED <<taken, m_num_of_firmware_bytes_rcvd>>
    BY <1>5 DEF OnValidate
  <2>3. begins => Len(taken) = Total
    BY <1>1 DEF CountInv, Overrun
  <2> QED
    BY <1>2, <1>3, <2>1, <2>2, <2>3
<1>6. CASE StartData
  <2>1. \/ bank' = bank
        \/ bank.state = "IDLE" /\ bank' = [bank EXCEPT !.state = "PREPARING"]
    BY <1>6 DEF StartData
  <2>2. UNCHANGED <<taken, m_num_of_firmware_bytes_rcvd>>
    BY <1>6 DEF StartData
  <2>3. bank.state = "IDLE" => Len(taken) = 0
    BY <1>1 DEF CountInv
  <2> QED
    BY <1>2, <1>3, <2>1, <2>2, <2>3
<1>7. CASE InitData
  <2>1. \/ bank' = bank
        \/ /\ bank.state \in {"RDY", "RX_INIT_PKT"}
           /\ bank' = [bank EXCEPT !.state = "RX_INIT_PKT"]
    BY <1>7 DEF InitData
  <2>2. UNCHANGED <<taken, m_num_of_firmware_bytes_rcvd>>
    BY <1>7 DEF InitData
  <2>3. bank.state \in {"RDY", "RX_INIT_PKT"} => Len(taken) = 0
    BY <1>1 DEF CountInv
  <2> QED
    BY <1>2, <1>3, <2>1, <2>2, <2>3
<1>8. CASE AppData
  <2>1. CASE \E p, b : DataAccepted(p, b) /\ bank.state = "RX_DATA_PKT" /\ bank.received < Total
    <3>1. /\ bank' = [bank EXCEPT !.received = bank.received + 1]
          /\ m_num_of_firmware_bytes_rcvd' = m_num_of_firmware_bytes_rcvd + 1
          /\ taken' = Append(taken, Head(events).n)
      BY <2>1 DEF DataAccepted, Counted
    <3>2. Len(taken') = Len(taken) + 1
      BY <1>1, <3>1
    <3>3. bank'.state = "RX_DATA_PKT" /\ bank'.received = bank.received + 1
      BY <1>1, <2>1, <3>1 DEF BankSet
    <3>4. bank.received = Len(taken)
      BY <1>1, <2>1 DEF CountInv, Overrun
    <3> QED
      BY <1>1, <3>1, <3>2, <3>3, <3>4 DEF CountInv
  <2>2. CASE \E p, b : DataRefused(p, b)
    <3>1. /\ UNCHANGED <<taken, m_num_of_firmware_bytes_rcvd>>
          /\ bank' = IF bank.state = "RX_DATA_PKT" /\ bank.received >= Total
                     THEN [bank EXCEPT !.received = Overrun] ELSE bank
      BY <2>2 DEF DataRefused
    <3>2. CASE bank' = bank
      BY <1>3, <3>1, <3>2
    <3>3. CASE /\ bank.state = "RX_DATA_PKT" /\ bank.received >= Total
               /\ bank' = [bank EXCEPT !.received = Overrun]
      <4>1. Len(taken) = Total
        BY <1>1, <3>3 DEF CountInv, Overrun
      <4>2. bank'.state = bank.state /\ bank'.received = Overrun
        BY <1>1, <3>3 DEF BankSet
      <4> QED
        BY <1>1, <3>1, <3>3, <4>1, <4>2 DEF CountInv
    <3> QED
      BY <3>1, <3>2, <3>3
  <2>3. CASE UNCHANGED <<taken, m_num_of_firmware_bytes_rcvd, bank>>
    BY <1>3, <2>3
  <2> QED
    BY <1>8, <2>1, <2>2, <2>3 DEF AppData, CountWithout
<1>9. CASE BankCleared
  <2>1. queue # << >> /\ Head(queue).op = "clear"
    BY <1>9 DEF BankCleared, Finishes, IInv, DataInv, QueueInv
  <2>2. queue[1].op = "clear" /\ 1 \in 1 .. Len(queue)
    BY <2>1, QueueHead, TypedMeans DEF IInv, Typed
  <2>3. bank.state = "PREPARING"
    BY <2>2 DEF IInv, DataInv, QueueInv
  <2>4. Len(taken) = 0
    BY <1>1, <2>3 DEF CountInv
  <2> QED
    BY <1>2, <1>9, <2>4 DEF BankCleared
<1>10. ASSUME ~(OnInitComplete \/ OnValidate \/ StartData \/ InitData \/ AppData \/ BankCleared)
       PROVE  /\ UNCHANGED <<taken, m_num_of_firmware_bytes_rcvd>>
              /\ bank' \in {bank, [bank EXCEPT !.timedOut = TRUE]}
  BY <1>10 DEF Next, vars, Host, Connect, Subscribe, HostWrites, HostStrays, HostResets,
     HostReads, LinkLost, LinkClosed, LinkDown, NoBleEvent, OnBleEvent, OnConnected,
     OnDisconnected, ControlRefused, OnPktRcptNotif, OnStart, OnInit, OnReceiveFw, Expects,
     OnActivate, OnSysReset, OnImageSizeReq, PacketIgnored, OnSocEvent, NoSocEvent,
     PacketStored, SettingsErased, SettingsSaved, Finishes, FlashWorks, Timeout, Leave
<1> QED
  BY <1>3, <1>4, <1>5, <1>6, <1>7, <1>8, <1>9, <1>10

-----------------------------------------------------------------------------
(* The queue, the pool and the flash. *)

\* Most steps leave all of them as they are.
LEMMA DataKept ==
  ASSUME Typed, NEW lo \in 0 .. 2, NEW k \in 0 .. PoolSize, NEW r \in 0 .. PoolSize,
         QueueInv(lo, k), PoolInv(lo, k, r), FlashInv(lo, k),
         UNCHANGED <<taken, mp_final_packet, poolVars, flashVars>>,
         \/ bank'.state = bank.state
         \/ {bank.state, bank'.state} \subseteq {"RDY", "RX_INIT_PKT"}
         \/ bank.state = "RX_INIT_PKT" /\ bank'.state = "RX_DATA_PKT" /\ Len(taken) = 0
         \/ bank.state = "RX_DATA_PKT" /\ bank'.state = "VALIDATE"
         \/ bank.state = "RX_DATA_PKT" /\ bank'.state = "WAIT_4_ACTIVATE" /\ Whole,
         bank.timedOut => bank'.timedOut,
         m_update_status' = "UPDATING" => m_update_status = "UPDATING"
  PROVE  DataInv'
<1> USE DEF poolVars, flashVars
<1>1. PoolSize \in Nat /\ pool.free_available_count \in Nat
  BY PoolSizeAssumption DEF Typed, Pool
<1>2. QueueInv(lo, k)'
  BY DEF QueueInv, IsStore
<1>3. PoolInv(lo, k, r)'
  <2>1. Receiving' => k + r = pool.free_available_count
    BY <1>1 DEF PoolInv, Receiving
  <2>2. Receiving' /\ Len(taken) < Total /\ ~bank'.timedOut => r = 0
    BY <1>1 DEF PoolInv, Receiving
  <2> QED
    BY <2>1, <2>2 DEF PoolInv, IsStore, Spans
<1>4. FlashInv(lo, k)'
  BY DEF FlashInv, Undone, Whole
<1> QED
  BY <1>2, <1>3, <1>4 DEF DataInv

\* A packet that was refused goes back: nothing queued moves.
LEMMA DataRefuses ==
  ASSUME Typed, CountInv, NEW lo \in 0 .. 2, NEW k \in 0 .. PoolSize, NEW r \in 0 .. PoolSize,
         QueueInv(lo, k), PoolInv(lo, k, r), FlashInv(lo, k),
         CanProduce(pool), NEW n,
         rx_buffer' = [rx_buffer EXCEPT ![pool.write_index] = n],
         DataRefused(rx_extract(rx_produce(pool)), pool.read_index),
         bank.state # "RX_DATA_PKT" \/ bank.received >= Total \/ bank.timedOut,
         UNCHANGED <<done, flash>>
  PROVE  DataInv'
<1> DEFINE f == pool.free_available_count
           s == pool.read_index
<1>0. PICK t : t = IF f = 0 THEN 0 ELSE r + 1
  OBVIOUS
<1>1. /\ pool \in Pool /\ s \in Buffer /\ f \in 0 .. PoolSize /\ Spans(pool, r)
      /\ pool.write_index = s /\ PoolSize \in Nat \ {0} /\ Total \in Nat \ {0}
      /\ k + r <= f /\ bank.received \in 0 .. Overrun /\ Overrun = Total + 1
      /\ taken \in Seq(0 .. Total) /\ Len(taken) \in Nat
      /\ rx_buffer \in [Buffer -> 0 .. Old] /\ bank \in BankSet
      /\ m_num_of_firmware_bytes_rcvd \in 0 .. Total
  <2>1. /\ pool \in Pool /\ PoolSize \in Nat \ {0} /\ Total \in Nat \ {0}
        /\ taken \in Seq(0 .. Total) /\ rx_buffer \in [Buffer -> 0 .. Old]
        /\ bank \in BankSet /\ m_num_of_firmware_bytes_rcvd \in 0 .. Total
        /\ Overrun = Total + 1 /\ Spans(pool, r) /\ k + r <= f
    BY PoolSizeAssumption, BleAssumption DEF BleAssumption, Typed, PoolInv, Overrun
  <2>2. s \in Buffer /\ f \in 0 .. PoolSize
    BY <2>1 DEF Pool
  <2>3. pool.write_index = s
    BY <2>1 DEF Spans
  <2>4. bank.received \in 0 .. Overrun
    BY <2>1, RecordTypes
  <2> QED
    BY <2>1, <2>2, <2>3, <2>4
<1>N. /\ f \in Nat /\ k \in Nat /\ r \in Nat /\ lo \in Nat /\ PoolSize \in Nat
      /\ k + r <= f /\ f <= PoolSize
  BY <1>1
<1>2. /\ pool' = rx_consume(rx_extract(rx_produce(pool)), s)
      /\ UNCHANGED <<mp_final_packet, taken, queue, done, flash>>
      /\ bank' = IF bank.state = "RX_DATA_PKT" /\ bank.received >= Total
                 THEN [bank EXCEPT !.received = Overrun] ELSE bank
      /\ m_update_status' \in {m_update_status, "FAULT"}
  BY DEF DataRefused, Notify, NotifyThen
<1>3. bank'.state = bank.state /\ bank'.timedOut = bank.timedOut
  BY <1>1, <1>2 DEF BankSet
<1>4. /\ pool'.read_index = Succ(s)
      /\ pool'.free_available_count = IF f = 0 THEN 0 ELSE f + 1
      /\ Spans(pool', t)
  BY <1>0, <1>1, <1>2, PoolRefuses
<1>5. s \notin pool.free_index
  BY <1>1, PoolTakes
<1>6. t \in 0 .. PoolSize /\ k + t <= pool'.free_available_count
      /\ (k + r = f => k + t = pool'.free_available_count)
  <2>1. f < PoolSize
    BY <1>1 DEF CanProduce, Spans, Pool
  <2>2. pool'.free_available_count = IF f = 0 THEN 0 ELSE f + 1
    BY <1>4
  <2> QED
    BY <1>0, <1>N, <2>1, <2>2
<1>7. QueueInv(lo, k)'
  <2>1. m_update_status' = "UPDATING" => m_update_status = "UPDATING"
    BY <1>2
  <2> QED
    BY <1>2, <1>3, <2>1 DEF QueueInv, IsStore
<1>8. \A i \in 1 .. Len(queue) : IsStore(i) =>
        /\ lo + k + 1 - i \in 1 .. k
        /\ queue[i].buf = Back(s, lo + k + 1 - i + r)
        /\ queue[i].buf = Back(Succ(s), lo + k + 1 - i + t)
        /\ queue[i].buf \in pool.free_index
  <2> SUFFICES ASSUME NEW i \in 1 .. Len(queue), IsStore(i)
               PROVE  /\ lo + k + 1 - i \in 1 .. k
                      /\ queue[i].buf = Back(s, lo + k + 1 - i + r)
                      /\ queue[i].buf = Back(Succ(s), lo + k + 1 - i + t)
                      /\ queue[i].buf \in pool.free_index
    OBVIOUS
  <2> DEFINE j == lo + k + 1 - i + r
  <2>1. i \in lo + 1 .. lo + k
    BY DEF QueueInv
  <2>2. lo + k + 1 - i \in 1 .. k /\ j \in r + 1 .. f /\ f # 0
    BY <1>N, <2>1
  <2>3. queue[i].buf = Back(s, j)
    BY DEF PoolInv
  <2>4. j \in 0 .. PoolSize - 1
    <3>1. f < PoolSize
      BY <1>1 DEF CanProduce, Spans, Pool
    <3> QED
      BY <1>N, <2>2, <3>1
  <2>5. Back(Succ(s), j + 1) = Back(s, j)
    <3>1. j \in 0 .. PoolSize /\ j < PoolSize
      BY <1>N, <2>4
    <3> HIDE DEF j
    <3> QED
      BY <1>1, <3>1, BackFacts
  <2>6. j + 1 = lo + k + 1 - i + t
    BY <1>0, <1>1, <2>1, <2>2
  <2>7. Back(s, j) \in pool.free_index
    BY <1>1, <2>2 DEF Spans
  <2> QED
    BY <2>2, <2>3, <2>5, <2>6, <2>7
<1>9. PoolInv(lo, k, t)'
  <2>1. \A i \in 1 .. Len(queue) : IsStore(i) => rx_buffer'[queue[i].buf] = rx_buffer[queue[i].buf]
    <3> SUFFICES ASSUME NEW i \in 1 .. Len(queue), IsStore(i)
                 PROVE  rx_buffer'[queue[i].buf] = rx_buffer[queue[i].buf]
      OBVIOUS
    <3>1. queue[i].buf # s /\ queue[i].buf \in Buffer
      BY <1>1, <1>5, <1>8 DEF Pool
    <3>2. rx_buffer' = [rx_buffer EXCEPT ![s] = n] /\ rx_buffer \in [Buffer -> 0 .. Old]
      BY <1>1
    <3> QED
      BY <3>1, <3>2
  <2>2. Receiving' /\ Len(taken) < Total /\ ~bank'.timedOut => t = 0
    <3>1. ~(Receiving /\ Len(taken) < Total /\ ~bank.timedOut)
      BY <1>1 DEF CountInv, Receiving
    <3> QED
      BY <3>1, <1>3 DEF Receiving
  <2>3. Len(taken) = Total /\ k > 0 => mp_final_packet = Back(Succ(s), 1 + t)
    <3> SUFFICES ASSUME Len(taken) = Total, k > 0 PROVE mp_final_packet = Back(Succ(s), 1 + t)
      OBVIOUS
    <3>1. mp_final_packet = Back(s, 1 + r)
      BY DEF PoolInv
    <3>2. f # 0 /\ t = r + 1 /\ 1 + r \in 0 .. PoolSize - 1
      BY <1>0, <1>1 DEF CanProduce, Spans, Pool
    <3>3. Back(Succ(s), (1 + r) + 1) = Back(s, 1 + r)
      <4>1. s \in Buffer /\ 1 + r \in 0 .. PoolSize /\ 1 + r < PoolSize
        BY <1>1, <3>2
      <4> QED
        BY <4>1, BackFacts
    <3>4. (1 + r) + 1 = 1 + t
      BY <3>2
    <3> QED
      BY <3>1, <3>3, <3>4
  <2>4. Receiving' => k + t = pool'.free_available_count
    BY <1>3, <1>6 DEF PoolInv, Receiving
  <2>5. Len(taken) = 0 => pool'.free_available_count = 0
    BY <1>4 DEF PoolInv
  <2>6. Len(taken) < Total => mp_final_packet = NoBuffer
    BY DEF PoolInv
  <2>7. \A i \in 1 .. Len(queue) : IsStore(i) /\ ~(i = 1 /\ done) =>
          rx_buffer'[queue[i].buf] = queue[i].n
    BY <2>1 DEF PoolInv
  <2>8. (\A i \in 1 .. Len(queue) : IsStore(i) =>
          queue[i].buf = Back(pool.read_index, lo + k + 1 - i + t))'
    BY <1>2, <1>4, <1>8 DEF IsStore
  <2>9. (\A i \in 1 .. Len(queue) : IsStore(i) /\ ~(i = 1 /\ done) =>
          rx_buffer[queue[i].buf] = queue[i].n)'
    BY <1>2, <2>7 DEF IsStore
  <2>10. Len(taken)' = Len(taken) /\ mp_final_packet' = mp_final_packet
         /\ pool'.read_index = Succ(s)
    BY <1>2, <1>4
  <2> HIDE DEF s, f
  <2> QED
    BY <1>4, <1>6, <2>2, <2>3, <2>4, <2>5, <2>6, <2>8, <2>9, <2>10 DEF PoolInv
<1>10. FlashInv(lo, k)'
  BY <1>2, <1>3 DEF FlashInv, Undone, Whole
<1> QED
  BY <1>6, <1>7, <1>9, <1>10 DEF DataInv

\* A packet that was accepted: its store is behind the others, its buffer before
\* theirs.
LEMMA DataAccepts ==
  ASSUME Typed, CountInv, NEW lo \in 0 .. 2, NEW k \in 0 .. PoolSize, NEW r \in 0 .. PoolSize,
         QueueInv(lo, k), PoolInv(lo, k, r), FlashInv(lo, k),
         CanProduce(pool), Head(events).n \in 0 .. Total,
         rx_buffer' = [rx_buffer EXCEPT ![pool.write_index] = Head(events).n],
         DataAccepted(rx_extract(rx_produce(pool)), pool.read_index),
         bank.state = "RX_DATA_PKT", bank.received < Total, ~bank.timedOut,
         UNCHANGED <<done, flash>>
  PROVE  DataInv'
<1> DEFINE f == pool.free_available_count
           s == pool.read_index
           n == Head(events).n
           c == Command("store", s, bank.received, n)
<1>1. /\ pool \in Pool /\ s \in Buffer /\ f \in 0 .. PoolSize /\ Spans(pool, r)
      /\ pool.write_index = s /\ PoolSize \in Nat \ {0} /\ Total \in Nat \ {0}
      /\ taken \in Seq(0 .. Total) /\ Len(taken) \in Nat /\ queue \in Seq(CommandSet)
      /\ rx_buffer \in [Buffer -> 0 .. Old] /\ bank \in BankSet
  <2>1. /\ pool \in Pool /\ PoolSize \in Nat \ {0} /\ Total \in Nat \ {0}
        /\ taken \in Seq(0 .. Total) /\ rx_buffer \in [Buffer -> 0 .. Old]
        /\ bank \in BankSet /\ Spans(pool, r) /\ queue \in Seq(CommandSet)
    BY PoolSizeAssumption, BleAssumption DEF BleAssumption, Typed, PoolInv
  <2>2. s \in Buffer /\ f \in 0 .. PoolSize
    BY <2>1 DEF Pool
  <2>3. pool.write_index = s
    BY <2>1 DEF Spans
  <2> QED
    BY <2>1, <2>2, <2>3
<1>2. /\ pool' = rx_extract(rx_produce(pool))
      /\ taken' = Append(taken, n) /\ queue' = Append(queue, c)
      /\ bank' = [bank EXCEPT !.received = bank.received + 1]
      /\ mp_final_packet' = IF bank.received + 1 = Total THEN s ELSE mp_final_packet
      /\ UNCHANGED <<done, flash>>
  BY DEF DataAccepted, PoolAfterStore, Completes
<1>3. /\ bank'.state = "RX_DATA_PKT" /\ ~bank'.timedOut
      /\ Len(taken) = bank.received /\ Len(taken) < Total
  BY <1>1, <1>2 DEF CountInv, Overrun, BankSet
<1>4. /\ r = 0 /\ k = f /\ lo + k = Len(queue) /\ f < PoolSize
  <2>1. Receiving /\ bank.state # "WAIT_4_ACTIVATE"
    BY DEF Receiving
  <2>2. r = 0 /\ k + r = f
    BY <1>3, <2>1 DEF PoolInv
  <2>3. lo + k = Len(queue)
    BY <2>1 DEF QueueInv
  <2>4. f < PoolSize
    BY <1>1 DEF CanProduce, Spans, Pool
  <2> QED
    BY <2>2, <2>3, <2>4
<1>N. /\ f \in Nat /\ k \in Nat /\ lo \in Nat /\ PoolSize \in Nat /\ Total \in Nat
      /\ Len(taken) \in Nat /\ Len(queue) \in Nat
      /\ r = 0 /\ k = f /\ lo + k = Len(queue) /\ f < PoolSize
  BY <1>1, <1>4
<1>5. /\ pool'.read_index = Succ(s) /\ s = Back(Succ(s), 1)
      /\ pool'.free_available_count = f + 1 /\ s \notin pool.free_index
      /\ Spans(pool', 0)
  <2>1. /\ pool'.read_available_count = 0 /\ pool'.write_index = pool'.read_index
        /\ pool'.free_window_count = pool.free_window_count - 1
        /\ pool'.free_available_count = f + 1
        /\ pool'.read_index = Succ(s) /\ s = Back(Succ(s), 1) /\ s \notin pool.free_index
        /\ pool'.free_index = pool.free_index \cup {s}
        /\ pool.free_index = {Back(Succ(s), j) : j \in r + 2 .. f + 1}
    <3> DEFINE q == rx_extract(rx_produce(pool))
    <3>1. /\ q.read_available_count = 0 /\ q.write_index = q.read_index
          /\ q.free_window_count = pool.free_window_count - 1
          /\ q.free_available_count = f + 1
          /\ q.read_index = Succ(s) /\ s = Back(q.read_index, 1) /\ s \notin pool.free_index
          /\ q.free_index = pool.free_index \cup {s}
          /\ pool.free_index = {Back(q.read_index, j) : j \in r + 2 .. q.free_available_count}
      BY <1>1, PoolTakes
    <3>2. pool' = q
      BY <1>2
    <3> HIDE DEF q, s, f
    <3>3. /\ pool'.read_available_count = 0 /\ pool'.write_index = pool'.read_index
          /\ pool'.free_window_count = pool.free_window_count - 1
          /\ pool'.free_available_count = f + 1
      BY <3>1, <3>2
    <3>4. /\ pool'.read_index = Succ(s) /\ s = Back(Succ(s), 1) /\ s \notin pool.free_index
          /\ pool'.free_index = pool.free_index \cup {s}
      BY <3>1, <3>2
    <3>5. pool.free_index = {Back(Succ(s), j) : j \in r + 2 .. f + 1}
      <4>1. q.read_index = Succ(s) /\ q.free_available_count = f + 1
        BY <3>1
      <4>2. pool.free_index = {Back(q.read_index, j) : j \in r + 2 .. q.free_available_count}
        BY <3>1
      <4> QED
        BY <4>1, <4>2
    <3> QED
      BY <3>3, <3>4, <3>5
  <2>2. pool'.free_window_count + pool'.free_available_count = PoolSize
    BY <1>1, <2>1 DEF Spans, Pool
  <2>3. \A j \in 0 + 1 .. f + 1 : j = 1 \/ j \in r + 2 .. f + 1
    BY <1>N
  <2>4. \A j \in r + 2 .. f + 1 : j \in 0 + 1 .. f + 1
    BY <1>N
  <2>5. 1 \in 0 + 1 .. f + 1
    BY <1>N
  <2>6. pool'.free_index = {Back(Succ(s), j) : j \in 0 + 1 .. f + 1}
    BY <2>1, <2>3, <2>4, <2>5
  <2>7. 0 < f + 1
    BY <1>N
  <2> QED
    BY <2>1, <2>2, <2>6, <2>7 DEF Spans
<1>6. /\ Len(queue') = Len(queue) + 1 /\ queue'[Len(queue) + 1] = c
      /\ \A i \in 1 .. Len(queue) : queue'[i] = queue[i]
      /\ \A i \in 1 .. Len(queue') : i \in 1 .. Len(queue) \/ i = Len(queue) + 1
      /\ Len(taken') = Len(taken) + 1 /\ taken'[Len(taken) + 1] = n
      /\ \A i \in 1 .. Len(taken) : taken'[i] = taken[i]
      /\ Len(queue) \in Nat /\ queue' # << >>
  <2>1. taken \in Seq(0 .. Total) /\ queue \in Seq(CommandSet)
        /\ taken' = Append(taken, n) /\ queue' = Append(queue, c)
    BY <1>1, <1>2
  <2> HIDE DEF c, n, s, f
  <2> QED
    BY <2>1
<1>7. c.op = "store" /\ c.buf = s /\ c.at = Len(taken) /\ c.n = n
  BY <1>3 DEF Command
<1> HIDE DEF c, n, s, f
<1>8. QueueInv(lo, k + 1)'
  <2>1. \A i \in 1 .. Len(queue') : queue'[i].op = "store" <=> i \in lo + 1 .. lo + (k + 1)
    <3> SUFFICES ASSUME NEW i \in 1 .. Len(queue')
                 PROVE  queue'[i].op = "store" <=> i \in lo + 1 .. lo + (k + 1)
      OBVIOUS
    <3>1. CASE i \in 1 .. Len(queue)
      <4>1. queue[i].op = "store" <=> i \in lo + 1 .. lo + k
        BY <3>1 DEF QueueInv, IsStore
      <4> QED
        BY <4>1, <3>1, <1>4, <1>6
    <3>2. CASE i = Len(queue) + 1
      BY <3>2, <1>4, <1>6, <1>7
    <3> QED
      BY <3>1, <3>2, <1>6
  <2>2. \A i \in 1 .. Len(queue') : queue'[i].op = "store" =>
          /\ queue'[i].at = Len(taken') - (lo + (k + 1)) + (i - 1)
          /\ queue'[i].n = taken'[queue'[i].at + 1]
    <3> SUFFICES ASSUME NEW i \in 1 .. Len(queue'), queue'[i].op = "store"
                 PROVE  /\ queue'[i].at = Len(taken') - (lo + (k + 1)) + (i - 1)
                        /\ queue'[i].n = taken'[queue'[i].at + 1]
      OBVIOUS
    <3>1. CASE i \in 1 .. Len(queue)
      <4>1. /\ queue[i].at = Len(taken) - (lo + k) + (i - 1)
            /\ queue[i].n = taken[queue[i].at + 1]
            /\ i \in lo + 1 .. lo + k /\ k <= Len(taken) /\ queue'[i] = queue[i]
        BY <3>1, <1>6 DEF QueueInv, IsStore
      <4>2. queue[i].at + 1 \in 1 .. Len(taken)
        <5>1. queue[i].at + 1 = Len(taken) - (lo + k) + i
          BY <4>1, <1>N
        <5>2. i >= lo + 1 /\ i <= lo + k /\ i \in Nat /\ k <= Len(taken)
          BY <4>1, <1>N
        <5> QED
          BY <5>1, <5>2, <1>N
      <4>3. queue[i].at = Len(taken') - (lo + (k + 1)) + (i - 1)
        <5>1. Len(taken') = Len(taken) + 1
          BY <1>6
        <5> QED
          BY <4>1, <3>1, <5>1, <1>N
      <4> QED
        BY <4>1, <4>2, <4>3, <1>6
    <3>2. CASE i = Len(queue) + 1
      <4>1. queue'[i] = c
        BY <3>2, <1>6
      <4>2. Len(taken) = Len(taken') - (lo + (k + 1)) + (i - 1)
        <5>1. Len(taken') = Len(taken) + 1 /\ lo + (k + 1) = i /\ i \in Nat
          BY <3>2, <1>6, <1>N
        <5>2. Len(taken') - (lo + (k + 1)) + (i - 1) = Len(taken) + 1 - i + (i - 1)
          BY <5>1
        <5>3. \A x, y \in Nat : x + 1 - y + (y - 1) = x
          OBVIOUS
        <5> QED
          BY <5>1, <5>2, <5>3, <1>N
      <4> QED
        BY <4>1, <4>2, <1>6, <1>7
    <3> QED
      BY <3>1, <3>2, <1>6
  <2>3. \A i \in 1 .. Len(queue') : queue'[i].op # "clear"
    BY <1>6, <1>7 DEF QueueInv
  <2>4. lo + (k + 1) <= Len(queue') /\ k + 1 <= Len(taken') /\ lo + (k + 1) = Len(queue')
    <3>1. Len(queue') = Len(queue) + 1 /\ Len(taken') = Len(taken) + 1
      BY <1>6
    <3>2. k <= Len(taken)
      BY DEF QueueInv
    <3> QED
      BY <3>1, <3>2, <1>N
  <2> QED
    BY <2>1, <2>2, <2>3, <2>4, <1>3, <1>6 DEF QueueInv, IsStore
<1>9. PoolInv(lo, k + 1, 0)'
  <2>1. \A i \in 1 .. Len(queue) : queue[i].op = "store" =>
          /\ queue[i].buf = Back(Succ(s), lo + (k + 1) + 1 - i + 0)
          /\ queue[i].buf \in pool.free_index
    <3> SUFFICES ASSUME NEW i \in 1 .. Len(queue), queue[i].op = "store"
                 PROVE  /\ queue[i].buf = Back(Succ(s), lo + (k + 1) + 1 - i + 0)
                        /\ queue[i].buf \in pool.free_index
      OBVIOUS
    <3> DEFINE j == lo + k + 1 - i + r
    <3>1. i \in lo + 1 .. lo + k
      BY DEF QueueInv, IsStore
    <3>2. j \in r + 1 .. f /\ j \in 0 .. PoolSize /\ j < PoolSize
      BY <3>1, <1>N
    <3>3. queue[i].buf = Back(s, j)
      BY DEF PoolInv, IsStore, s
    <3>4. Back(Succ(s), j + 1) = Back(s, j)
      <4> HIDE DEF j
      <4> QED
        BY <1>1, <3>2, BackFacts
    <3>5. j + 1 = lo + (k + 1) + 1 - i + 0
      BY <3>1, <1>N
    <3>6. Back(s, j) \in pool.free_index
      BY <3>2, <1>1 DEF Spans, s, f
    <3> QED
      BY <3>3, <3>4, <3>5, <3>6
  <2>2. \A i \in 1 .. Len(queue') : queue'[i].op = "store" =>
          queue'[i].buf = Back(Succ(s), lo + (k + 1) + 1 - i + 0)
    <3> SUFFICES ASSUME NEW i \in 1 .. Len(queue'), queue'[i].op = "store"
                 PROVE  queue'[i].buf = Back(Succ(s), lo + (k + 1) + 1 - i + 0)
      OBVIOUS
    <3>1. CASE i \in 1 .. Len(queue)
      BY <2>1, <3>1, <1>6
    <3>2. CASE i = Len(queue) + 1
      <4>1. lo + (k + 1) + 1 - i + 0 = 1
        BY <3>2, <1>N
      <4> QED
        BY <4>1, <3>2, <1>5, <1>6, <1>7
    <3> QED
      BY <3>1, <3>2, <1>6
  <2>3. \A i \in 1 .. Len(queue') : queue'[i].op = "store" /\ ~(i = 1 /\ done) =>
          rx_buffer'[queue'[i].buf] = queue'[i].n
    <3> SUFFICES ASSUME NEW i \in 1 .. Len(queue'), queue'[i].op = "store", ~(i = 1 /\ done)
                 PROVE  rx_buffer'[queue'[i].buf] = queue'[i].n
      OBVIOUS
    <3>0. rx_buffer' = [rx_buffer EXCEPT ![s] = n]
      BY <1>1 DEF n
    <3>1. CASE i \in 1 .. Len(queue)
      <4>1. queue'[i] = queue[i] /\ queue[i].buf # s /\ queue[i].buf \in Buffer
        BY <2>1, <3>1, <1>1, <1>5, <1>6 DEF Pool
      <4>2. rx_buffer[queue[i].buf] = queue[i].n
        BY <4>1, <3>1 DEF PoolInv, IsStore
      <4> QED
        BY <4>1, <4>2, <3>0, <1>1
    <3>2. CASE i = Len(queue) + 1
      BY <3>0, <3>2, <1>1, <1>6, <1>7
    <3> QED
      BY <3>1, <3>2, <1>6
  <2>4. Len(taken') = Total /\ k + 1 > 0 => mp_final_packet' = Back(Succ(s), 1 + 0)
    BY <1>1, <1>2, <1>3, <1>5, <1>6
  <2>5. Len(taken') < Total => mp_final_packet' = NoBuffer
    BY <1>1, <1>2, <1>3, <1>6 DEF PoolInv
  <2>6. (k + 1) + 0 = pool'.free_available_count
    BY <1>1, <1>4, <1>5
  <2>7. (k + 1) + 0 <= pool'.free_available_count
    BY <1>1, <2>6
  <2>8. Len(taken') # 0
    BY <1>1, <1>6
  <2>9. (\A i \in 1 .. Len(queue) : IsStore(i) =>
          queue[i].buf = Back(pool.read_index, lo + (k + 1) + 1 - i + 0))'
    BY <1>5, <2>2 DEF IsStore
  <2>10. (\A i \in 1 .. Len(queue) : IsStore(i) /\ ~(i = 1 /\ done) =>
          rx_buffer[queue[i].buf] = queue[i].n)'
    BY <2>3, <1>2 DEF IsStore
  <2>11. pool'.read_index = Succ(s) /\ Spans(pool', 0)
    BY <1>5
  <2> QED
    BY <2>4, <2>5, <2>6, <2>7, <2>8, <2>9, <2>10, <2>11 DEF PoolInv
<1>10. FlashInv(lo, k + 1)'
  <2>1. /\ Undone(lo, k + 1)' = Undone(lo, k) + 1 /\ Undone(lo, k) \in Nat
        /\ Undone(lo, k) <= Len(taken)
    <3>1. done => queue # << >>
      BY DEF QueueInv
    <3>2. lo = 0 /\ done => k > 0
      BY <3>1, <1>1, <1>N
    <3>3. k <= Len(taken)
      BY DEF QueueInv
    <3>4. Undone(lo, k) = IF lo = 0 /\ done THEN k - 1 ELSE k
      BY <3>2 DEF Undone
    <3>5. Undone(lo, k + 1)' = IF lo = 0 /\ done THEN (k + 1) - 1 ELSE k + 1
      <4>1. k + 1 > 0 /\ done' = done
        BY <1>2, <1>N
      <4> QED
        BY <4>1 DEF Undone
    <3> QED
      BY <3>2, <3>3, <3>4, <3>5, <1>N
  <2>2. \A u \in Unit : flash[u] = IF u < Len(taken) - Undone(lo, k) THEN taken[u + 1] ELSE Blank
    BY DEF FlashInv
  <2>3. Len(taken') - Undone(lo, k + 1)' = Len(taken) - Undone(lo, k)
    BY <2>1, <1>1, <1>6
  <2>4. \A u \in Unit : u < Len(taken) - Undone(lo, k) => taken'[u + 1] = taken[u + 1]
    <3> SUFFICES ASSUME NEW u \in 0 .. Total - 1, u < Len(taken) - Undone(lo, k)
                 PROVE  taken'[u + 1] = taken[u + 1]
      BY DEF Unit
    <3>1. u + 1 \in 1 .. Len(taken)
      BY <2>1, <1>1
    <3> QED
      BY <3>1, <1>6
  <2>5. \A u \in Unit : flash'[u] = IF u < Len(taken') - Undone(lo, k + 1)'
                                  THEN taken'[u + 1] ELSE Blank
    BY <2>2, <2>3, <2>4, <1>2
  <2> QED
    BY <2>5, <1>3 DEF FlashInv
<1>11. k + 1 \in 0 .. PoolSize /\ 0 \in 0 .. PoolSize
  BY <1>1, <1>4
<1> QED
  BY <1>8, <1>9, <1>10, <1>11 DEF DataInv

\* The flash carries out the oldest command.
LEMMA DataFlashed ==
  ASSUME Typed, CountInv, NEW lo \in 0 .. 2, NEW k \in 0 .. PoolSize, NEW r \in 0 .. PoolSize,
         QueueInv(lo, k), PoolInv(lo, k, r), FlashInv(lo, k),
         FlashWorks
  PROVE  DataInv'
<1> DEFINE c == Head(queue)
<1>1. /\ PoolSize \in Nat \ {0} /\ Total \in Nat \ {0} /\ flash \in [Unit -> 0 .. Old]
      /\ taken \in Seq(0 .. Total) /\ Len(taken) \in Nat /\ queue \in Seq(CommandSet)
  BY PoolSizeAssumption, BleAssumption DEF BleAssumption, Typed
<1>2. /\ queue # << >> /\ ~done /\ done' = TRUE
      /\ UNCHANGED <<bank, m_update_status, queue, poolVars, taken, mp_final_packet>>
      /\ flash' = CASE c.op = "clear" -> [u \in Unit |-> Blank]
                  [] c.op = "store" -> [flash EXCEPT ![c.at] = rx_buffer[c.buf]]
                  [] OTHER -> flash
  BY DEF FlashWorks, dataVars, history
<1>3. /\ c = queue[1] /\ 1 \in 1 .. Len(queue) /\ Len(queue) \in Nat \ {0}
      /\ c \in CommandSet
  BY <1>1, <1>2, TypedMeans, QueueHead
<1>4. QueueInv(lo, k)'
  BY <1>2 DEF QueueInv, IsStore
<1>5. PoolInv(lo, k, r)'
  BY <1>2 DEF PoolInv, IsStore, Receiving, poolVars
<1> HIDE DEF c
<1>6. FlashInv(lo, k)'
  <2>1. CASE c.op = "clear"
    <3>1. bank.state = "PREPARING"
      BY <1>3, <2>1 DEF QueueInv
    <3> QED
      BY <1>2, <2>1, <3>1 DEF FlashInv
  <2>2. CASE c.op = "store"
    <3>1. lo = 0 /\ k > 0
      BY <1>3, <2>2 DEF QueueInv, IsStore
    <3>2. bank.state \notin {"IDLE", "PREPARING"}
      BY <1>2, <1>3, <2>2 DEF QueueInv
    <3>3. Undone(lo, k) = k /\ Undone(lo, k)' = k - 1 /\ k <= Len(taken)
      BY <1>2, <3>1 DEF Undone, QueueInv
    <3>4. c.at = Len(taken) - k /\ rx_buffer[c.buf] = taken[c.at + 1]
      <4>1. c.at = Len(taken) - (lo + k) + (1 - 1) /\ c.n = taken[c.at + 1]
        BY <1>3, <2>2 DEF QueueInv, IsStore
      <4>2. rx_buffer[c.buf] = c.n
        BY <1>2, <1>3, <2>2 DEF PoolInv, IsStore
      <4> QED
        BY <4>1, <4>2, <3>1, <3>3, <1>1
    <3>5. flash' = [flash EXCEPT ![c.at] = taken[c.at + 1]]
      BY <1>2, <2>2, <3>4
    <3>6. \A u \in Unit : flash[u] = IF u < Len(taken) - k THEN taken[u + 1] ELSE Blank
      BY <3>2, <3>3 DEF FlashInv
    <3>7. \A u \in Unit : flash'[u] = IF u < Len(taken) - (k - 1) THEN taken[u + 1] ELSE Blank
      <4> SUFFICES ASSUME NEW u \in Unit
                   PROVE  flash'[u] = IF u < Len(taken) - (k - 1) THEN taken[u + 1] ELSE Blank
        OBVIOUS
      <4>1. CASE u = c.at
        <5>1. u < Len(taken) - (k - 1)
          BY <4>1, <3>3, <3>4, <1>1
        <5> QED
          BY <4>1, <5>1, <3>5, <1>1
      <4>2. CASE u # c.at
        <5>1. flash'[u] = flash[u]
          BY <4>2, <3>5, <1>1
        <5>2. u < Len(taken) - (k - 1) <=> u < Len(taken) - k
          <6>1. u \in Int /\ Len(taken) \in Int /\ k \in Int /\ u # Len(taken) - k
            BY <4>2, <3>4, <1>1 DEF Unit
          <6> QED
            BY <6>1
        <5> QED
          BY <5>1, <5>2, <3>6
      <4> QED
        BY <4>1, <4>2
    <3>8. bank.state # "WAIT_4_ACTIVATE"
      <4> SUFFICES ASSUME bank.state = "WAIT_4_ACTIVATE" PROVE FALSE
        OBVIOUS
      <4>1. Len(taken) = Total /\ Whole
        BY DEF CountInv, FlashInv
      <4>2. Total - 1 \in Unit /\ ~(Total - 1 < Len(taken) - k)
        BY <4>1, <3>1, <1>1 DEF Unit
      <4>3. flash[Total - 1] = 0 /\ flash[Total - 1] = (Total - 1) + 1
        BY <4>1, <4>2, <3>6 DEF Whole, Blank
      <4> QED
        BY <4>3, <1>1
    <3> QED
      BY <1>2, <3>2, <3>3, <3>7, <3>8 DEF FlashInv
  <2>3. CASE c.op \notin {"clear", "store"}
    <3>1. flash' = flash
      BY <1>2, <2>3
    <3>2. ~(lo = 0 /\ k > 0)
      BY <1>3, <2>3 DEF QueueInv, IsStore
    <3>3. Undone(lo, k)' = Undone(lo, k)
      BY <1>2, <3>2 DEF Undone
    <3>4. bank.state # "PREPARING"
      BY <1>3, <2>3 DEF QueueInv
    <3> QED
      BY <1>2, <3>1, <3>3, <3>4 DEF FlashInv, Whole
  <2> QED
    BY <2>1, <2>2, <2>3
<1> QED
  BY <1>4, <1>5, <1>6 DEF DataInv

\* The buffers of the queued stores, counted back from s, and what they hold.
StoresFrom(s, lo, k, r) ==
  \A i \in 1 .. Len(queue) : IsStore(i) =>
    /\ lo + k + 1 - i \in 1 .. k
    /\ queue[i].buf = Back(s, lo + k + 1 - i + r)
    /\ rx_buffer[queue[i].buf] = queue[i].n

\* The queue without its oldest command, of which l commands before the stores
\* and m stores are left.
LEMMA QueueShifts ==
  ASSUME Typed, NEW lo \in 0 .. 2, NEW k \in 0 .. PoolSize, NEW r \in 0 .. PoolSize,
         QueueInv(lo, k), PoolInv(lo, k, r), FlashInv(lo, k),
         queue # << >>, queue' = Tail(queue), bank.state # "PREPARING",
         UNCHANGED <<bank, taken, flash, rx_buffer>>, done' = FALSE,
         m_update_status' = "UPDATING" => m_update_status = "UPDATING",
         done \/ queue[1].op # "store",
         NEW s, s = pool.read_index, NEW l \in 0 .. 2, NEW m \in 0 .. PoolSize,
         IF queue[1].op = "store" THEN l = lo /\ m = k - 1
                                  ELSE l = (IF lo = 0 THEN 0 ELSE lo - 1) /\ m = k
  PROVE  /\ QueueInv(l, m)' /\ FlashInv(l, m)' /\ StoresFrom(s, l, m, r)'
         /\ queue[1].op = "store" => lo = 0 /\ k > 0
<1>1. /\ PoolSize \in Nat \ {0} /\ Len(taken) \in Nat /\ queue \in Seq(CommandSet)
      /\ taken \in Seq(0 .. Total) /\ done \in BOOLEAN
  BY PoolSizeAssumption DEF Typed
<1>2. /\ Len(queue) \in Nat \ {0} /\ Len(queue') = Len(queue) - 1
      /\ \A i \in 1 .. Len(queue') : /\ queue'[i] = queue[i + 1]
                                     /\ i + 1 \in 1 .. Len(queue) /\ i + 1 # 1
      /\ 1 \in 1 .. Len(queue)
  BY <1>1, TypedMeans, QueueHead
<1>3. /\ queue[1].op = "store" => lo = 0 /\ k > 0 /\ l = 0 /\ m = k - 1
      /\ queue[1].op # "store" => ~(lo = 0 /\ k > 0) /\ m = k
  <2>1. queue[1].op = "store" <=> 1 \in lo + 1 .. lo + k
    BY <1>2 DEF QueueInv, IsStore
  <2> QED
    BY <2>1, <1>1
<1>4. k > 0 => l + m = lo + k - 1
  <2>1. CASE queue[1].op = "store"
    BY <2>1, <1>3
  <2>2. CASE queue[1].op # "store"
    BY <2>2, <1>3
  <2> QED
    BY <2>1, <2>2
<1>6. \A i \in 1 .. Len(queue') : queue'[i].op = "store" <=> i \in l + 1 .. l + m
  <2> SUFFICES ASSUME NEW i \in 1 .. Len(queue')
               PROVE  queue'[i].op = "store" <=> i \in l + 1 .. l + m
    OBVIOUS
  <2>1. queue'[i].op = "store" <=> i + 1 \in lo + 1 .. lo + k
    BY <1>2 DEF QueueInv, IsStore
  <2>2. CASE queue[1].op = "store"
    BY <2>1, <2>2, <1>2, <1>3
  <2>3. CASE queue[1].op # "store" /\ lo > 0
    BY <2>1, <2>3, <1>2, <1>3
  <2>4. CASE queue[1].op # "store" /\ lo = 0
    BY <2>1, <2>4, <1>2, <1>3
  <2> QED
    BY <2>2, <2>3, <2>4
<1>7. \A i \in 1 .. Len(queue') : queue'[i].op = "store" =>
        /\ l + m = lo + k - 1
        /\ i \in l + 1 .. l + m
        /\ queue[i + 1].op = "store"
        /\ i + 1 \in 1 .. Len(queue) /\ i + 1 # 1 /\ queue'[i] = queue[i + 1]
  <2> SUFFICES ASSUME NEW i \in 1 .. Len(queue'), queue'[i].op = "store"
               PROVE  l + m = lo + k - 1
    BY <1>2, <1>6
  <2>1. i + 1 \in lo + 1 .. lo + k
    BY <1>2 DEF QueueInv, IsStore
  <2> QED
    BY <2>1, <1>2, <1>4
<1>8. \A i \in 1 .. Len(queue') : queue'[i].op = "store" =>
        /\ queue'[i].at = Len(taken') - (l + m) + (i - 1)
        /\ queue'[i].n = taken'[queue'[i].at + 1]
  <2> SUFFICES ASSUME NEW i \in 1 .. Len(queue'), queue'[i].op = "store"
               PROVE  /\ queue'[i].at = Len(taken') - (l + m) + (i - 1)
                      /\ queue'[i].n = taken'[queue'[i].at + 1]
    OBVIOUS
  <2>1. /\ queue[i + 1].at = Len(taken) - (lo + k) + ((i + 1) - 1)
        /\ queue[i + 1].n = taken[queue[i + 1].at + 1]
    BY <1>7 DEF QueueInv, IsStore
  <2>2. Len(taken) - (lo + k) + ((i + 1) - 1) = Len(taken) - (l + m) + (i - 1)
    <3>1. Len(taken) \in Int /\ l + m = lo + k - 1 /\ i \in Int
      BY <1>1, <1>7
    <3>2. lo \in Int /\ k \in Int /\ l \in Int /\ m \in Int
      BY <1>1
    <3>3. \A a, b, x, y \in Int : b = a - 1 => x - a + ((y + 1) - 1) = x - b + (y - 1)
      OBVIOUS
    <3>4. lo + k \in Int /\ l + m \in Int /\ l + m = (lo + k) - 1
      BY <3>1, <3>2
    <3> QED
      BY <3>1, <3>3, <3>4
  <2> QED
    BY <2>1, <2>2, <1>7
<1>9. l + m <= Len(queue')
  BY <1>2, <1>3 DEF QueueInv
<1>10. bank.state # "WAIT_4_ACTIVATE" \/ m_update_status' = "UPDATING"
         => l + m = Len(queue')
  <2> SUFFICES ASSUME bank.state # "WAIT_4_ACTIVATE" \/ m_update_status' = "UPDATING"
               PROVE  l + m = Len(queue')
    OBVIOUS
  <2>1. lo + k = Len(queue)
    BY DEF QueueInv
  <2>2. CASE k > 0
    BY <2>1, <2>2, <1>1, <1>2, <1>4
  <2>3. CASE k = 0
    <3>1. queue[1].op # "store" /\ lo > 0
      BY <2>1, <2>3, <1>2, <1>3
    <3> QED
      BY <2>1, <2>3, <3>1, <1>2
  <2> QED
    BY <2>2, <2>3
<1>11. m <= Len(taken)
  BY <1>1, <1>3 DEF QueueInv
<1>12. bank.state # "IDLE" /\ \A i \in 1 .. Len(queue') : queue'[i].op # "clear"
  BY <1>2 DEF QueueInv
<1>13. QueueInv(l, m)'
  BY <1>6, <1>8, <1>9, <1>10, <1>11, <1>12 DEF QueueInv, IsStore
<1>14. Undone(l, m)' = Undone(lo, k)
  BY <1>3, <1>2 DEF Undone
<1>15. FlashInv(l, m)'
  BY <1>14 DEF FlashInv, Whole
<1>16. StoresFrom(s, l, m, r)'
  <2> SUFFICES ASSUME NEW i \in 1 .. Len(queue'), queue'[i].op = "store"
               PROVE  /\ l + m + 1 - i \in 1 .. m
                      /\ queue'[i].buf = Back(s, l + m + 1 - i + r)
                      /\ rx_buffer'[queue'[i].buf] = queue'[i].n
    BY DEF StoresFrom, IsStore
  <2>1. /\ queue[i + 1].buf = Back(pool.read_index, lo + k + 1 - (i + 1) + r)
        /\ rx_buffer[queue[i + 1].buf] = queue[i + 1].n
    BY <1>7 DEF PoolInv, IsStore
  <2>2. lo + k + 1 - (i + 1) + r = l + m + 1 - i + r /\ l + m + 1 - i \in 1 .. m
    <3>1. l + m = lo + k - 1 /\ i \in l + 1 .. l + m
      BY <1>7
    <3>2. /\ lo \in Int /\ k \in Int /\ l \in Int /\ m \in Int /\ r \in Int /\ i \in Int
          /\ l + 1 <= i /\ i <= l + m
      BY <3>1, <1>1
    <3>3. lo + k + 1 - (i + 1) + r = l + m + 1 - i + r
      BY <3>1, <3>2
    <3>4. l + m + 1 - i \in 1 .. m
      BY <3>2
    <3> QED
      BY <3>3, <3>4
  <2> QED
    BY <2>1, <2>2, <1>7
<1> QED
  BY <1>3, <1>13, <1>15, <1>16

\* The callback of a store: the oldest buffer goes back, in the data phase.
LEMMA DataStored ==
  ASSUME Typed, CountInv, NEW lo \in 0 .. 2, NEW k \in 0 .. PoolSize, NEW r \in 0 .. PoolSize,
         QueueInv(lo, k), PoolInv(lo, k, r), FlashInv(lo, k),
         PacketStored
  PROVE  DataInv'
<1>0. PICK s : s = pool.read_index
  OBVIOUS
<1>1. /\ PoolSize \in Nat \ {0} /\ Len(taken) \in Nat /\ pool \in Pool
      /\ taken \in Seq(0 .. Total) /\ queue \in Seq(CommandSet)
  BY PoolSizeAssumption DEF Typed
<1>2. /\ done /\ done' = FALSE /\ queue' = Tail(queue) /\ Head(queue).op = "store"
      /\ UNCHANGED <<bank, taken, mp_final_packet, flash, rx_buffer>>
      /\ m_update_status' \in {m_update_status, "FAULT"}
  BY DEF PacketStored, Finishes, Notify, NotifyThen, Quiet, dataVars, history
<1>3. queue # << >>
  BY <1>2 DEF QueueInv
<1>4. /\ Head(queue) = queue[1] /\ queue[1].op = "store" /\ 1 \in 1 .. Len(queue)
  BY <1>1, <1>2, <1>3, TypedMeans, QueueHead
<1>5. bank.state \notin {"IDLE", "PREPARING"}
  BY <1>3, <1>4 DEF QueueInv
<1>6. m_update_status' = "UPDATING" => m_update_status = "UPDATING"
  BY <1>2
<1>7. lo = 0 /\ k > 0 /\ k - 1 \in 0 .. PoolSize
  BY <1>1, <1>4 DEF QueueInv, IsStore
<1>8. /\ QueueInv(lo, k - 1)' /\ FlashInv(lo, k - 1)'
      /\ StoresFrom(s, lo, k - 1, r)'
  <2>1. PICK m \in 0 .. PoolSize : m = k - 1
    BY <1>7
  <2>2. IF queue[1].op = "store" THEN lo = lo /\ m = k - 1
                                 ELSE lo = (IF lo = 0 THEN 0 ELSE lo - 1) /\ m = k
    BY <1>4, <2>1
  <2>3. done \/ queue[1].op # "store"
    BY <1>2
  <2>4. QueueInv(lo, m)' /\ FlashInv(lo, m)' /\ StoresFrom(s, lo, m, r)'
    BY <1>0, <1>2, <1>3, <1>5, <1>6, <2>2, <2>3, QueueShifts
  <2> QED
    BY <2>1, <2>4
<1>9. Len(taken) # 0
  BY <1>1, <1>7 DEF QueueInv
<1>10. CASE bank.state # "RX_DATA_PKT"
  <2>1. pool' = pool
    BY <1>10 DEF PacketStored
  <2>2. /\ Spans(pool', r) /\ (k - 1) + r <= pool'.free_available_count
    BY <1>1, <1>7, <2>1 DEF PoolInv, Pool
  <2>3. Len(taken) = Total /\ k - 1 > 0 => mp_final_packet = Back(pool.read_index, 1 + r)
    BY <1>7 DEF PoolInv
  <2>4. Len(taken) < Total => mp_final_packet = NoBuffer
    BY DEF PoolInv
  <2>5. PoolInv(lo, k - 1, r)'
    BY <1>0, <1>2, <1>8, <1>9, <1>10, <2>1, <2>2, <2>3, <2>4
       DEF PoolInv, StoresFrom, Receiving
  <2> QED
    BY <1>7, <1>8, <2>5 DEF DataInv
<1>11. CASE bank.state = "RX_DATA_PKT"
  <2>1. k + r = pool.free_available_count
    BY <1>11 DEF PoolInv, Receiving
  <2>2. queue[1].buf = Back(pool.read_index, pool.free_available_count)
    <3>1. queue[1].buf = Back(pool.read_index, lo + k + 1 - 1 + r)
      BY <1>4 DEF PoolInv, IsStore
    <3>2. lo + k + 1 - 1 + r = pool.free_available_count
      BY <1>7, <2>1
    <3> QED
      BY <3>1, <3>2
  <2>3. pool' = rx_consume(pool, Back(pool.read_index, pool.free_available_count))
    BY <1>4, <1>11, <2>2 DEF PacketStored
  <2>4. PICK t : t = IF pool.free_available_count = r + 1 THEN 0 ELSE r
    OBVIOUS
  <2>5. /\ pool'.read_index = pool.read_index
        /\ pool'.free_available_count =
             IF pool.free_available_count = r + 1 THEN 0 ELSE pool.free_available_count - 1
        /\ Spans(pool', t)
    <3>1. Spans(pool, r) /\ pool.free_available_count > 0
      BY <1>7, <2>1 DEF PoolInv
    <3> QED
      BY <1>1, <2>3, <2>4, <3>1, PoolGivesBack
  <2>6. /\ t \in 0 .. PoolSize /\ (k - 1) + t = pool'.free_available_count
        /\ (k - 1) + t <= pool'.free_available_count
        /\ k - 1 > 0 => t = r
        /\ r = 0 => t = 0
    BY <1>7, <2>1, <2>4, <2>5
  <2>7. StoresFrom(s, lo, k - 1, t)'
    <3> SUFFICES ASSUME NEW i \in 1 .. Len(queue'), queue'[i].op = "store"
                 PROVE  /\ lo + (k - 1) + 1 - i \in 1 .. k - 1
                        /\ queue'[i].buf = Back(s, lo + (k - 1) + 1 - i + t)
                        /\ rx_buffer'[queue'[i].buf] = queue'[i].n
      BY DEF StoresFrom, IsStore
    <3>1. /\ lo + (k - 1) + 1 - i \in 1 .. k - 1
          /\ queue'[i].buf = Back(s, lo + (k - 1) + 1 - i + r)
          /\ rx_buffer'[queue'[i].buf] = queue'[i].n
      BY <1>8 DEF StoresFrom, IsStore
    <3>2. t = r
      BY <1>7, <2>6, <3>1
    <3> QED
      BY <3>1, <3>2
  <2>8. Len(taken) = Total /\ k - 1 > 0 => mp_final_packet = Back(pool.read_index, 1 + t)
    BY <1>7, <2>6 DEF PoolInv
  <2>9. Len(taken) < Total => mp_final_packet = NoBuffer
    BY DEF PoolInv
  <2>10. Len(taken) < Total /\ ~bank.timedOut => t = 0
    BY <1>11, <2>6 DEF PoolInv, Receiving
  <2>11. PoolInv(lo, k - 1, t)'
    BY <1>0, <1>2, <1>9, <2>5, <2>6, <2>7, <2>8, <2>9, <2>10
       DEF PoolInv, StoresFrom, Receiving
  <2> QED
    BY <1>7, <1>8, <2>6, <2>11 DEF DataInv
<1> QED
  BY <1>10, <1>11

\* The callbacks of the settings' commands, which are before the stores or
\* behind the last of them.
LEMMA DataSettled ==
  ASSUME Typed, CountInv, NEW lo \in 0 .. 2, NEW k \in 0 .. PoolSize, NEW r \in 0 .. PoolSize,
         QueueInv(lo, k), PoolInv(lo, k, r), FlashInv(lo, k),
         SettingsErased \/ SettingsSaved
  PROVE  DataInv'
<1>0. PICK s : s = pool.read_index
  OBVIOUS
<1>1. /\ PoolSize \in Nat \ {0} /\ Len(taken) \in Nat /\ pool \in Pool
      /\ taken \in Seq(0 .. Total) /\ queue \in Seq(CommandSet)
  BY PoolSizeAssumption DEF Typed
<1>2. /\ done /\ done' = FALSE /\ queue' = Tail(queue) /\ Head(queue).op \in {"erase", "save"}
      /\ UNCHANGED <<bank, taken, mp_final_packet, flash, rx_buffer, pool>>
      /\ m_update_status' \in {m_update_status, "COMPLETE"}
  BY DEF SettingsErased, SettingsSaved, Finishes, Quiet, dataVars, history, poolVars
<1>3. queue # << >>
  BY <1>2 DEF QueueInv
<1>4. /\ queue[1].op \notin {"store", "clear"} /\ 1 \in 1 .. Len(queue)
  BY <1>1, <1>2, <1>3, TypedMeans, QueueHead
<1>5. bank.state \notin {"IDLE", "PREPARING"}
  BY <1>3, <1>4 DEF QueueInv
<1>6. m_update_status' = "UPDATING" => m_update_status = "UPDATING"
  BY <1>2
<1>7. PICK l \in 0 .. 2 : l = IF lo = 0 THEN 0 ELSE lo - 1
  OBVIOUS
<1>8. QueueInv(l, k)' /\ FlashInv(l, k)' /\ StoresFrom(s, l, k, r)'
  <2>1. IF queue[1].op = "store" THEN l = lo /\ k = k - 1
                                 ELSE l = (IF lo = 0 THEN 0 ELSE lo - 1) /\ k = k
    BY <1>4, <1>7
  <2>2. done \/ queue[1].op # "store"
    BY <1>2
  <2> QED
    BY <1>0, <1>2, <1>3, <1>5, <1>6, <2>1, <2>2, QueueShifts
<1>9. PoolInv(l, k, r)'
  BY <1>0, <1>2, <1>8 DEF PoolInv, StoresFrom, Receiving
<1> QED
  BY <1>8, <1>9 DEF DataInv
LEMMA DataStep == IInv /\ [Next]_vars => DataInv'
<1> SUFFICES ASSUME IInv, [Next]_vars PROVE DataInv'
  OBVIOUS
<1> USE DEF deviceVars, stackVars, linkVars, dataVars, history, poolVars, flashVars
<1>1. Typed /\ CountInv /\ EventsInv
  BY TypedMeans DEF IInv
<1>2. PICK lo \in 0 .. 2, k \in 0 .. PoolSize, r \in 0 .. PoolSize :
        QueueInv(lo, k) /\ PoolInv(lo, k, r) /\ FlashInv(lo, k)
  BY DEF IInv, DataInv
<1>3. /\ PoolSize \in Nat \ {0} /\ Total \in Nat \ {0} /\ bank \in BankSet
      /\ taken \in Seq(0 .. Total) /\ Len(taken) \in Nat /\ queue \in Seq(CommandSet)
      /\ pool \in Pool /\ pool.free_available_count \in Nat
  BY <1>1, PoolSizeAssumption, BleAssumption DEF BleAssumption, Typed, Pool
<1>4. ASSUME UNCHANGED <<taken, mp_final_packet, poolVars, flashVars>>,
             bank' \in {bank, [bank EXCEPT !.timedOut = TRUE]},
             m_update_status' = "UPDATING" => m_update_status = "UPDATING"
      PROVE  DataInv'
  <2>1. bank'.state = bank.state /\ (bank.timedOut => bank'.timedOut)
    BY <1>3, <1>4 DEF BankSet
  <2> QED
    BY <1>1, <1>2, <1>4, <2>1, DataKept
<1>5. ASSUME UNCHANGED <<taken, mp_final_packet, poolVars, flashVars>>,
             NEW s \in {"RDY", "RX_INIT_PKT", "RX_DATA_PKT", "VALIDATE", "WAIT_4_ACTIVATE"},
             bank' = [bank EXCEPT !.state = s],
             \/ {bank.state, s} \subseteq {"RDY", "RX_INIT_PKT"}
             \/ bank.state = "RX_INIT_PKT" /\ s = "RX_DATA_PKT"
             \/ bank.state = "RX_DATA_PKT" /\ s = "VALIDATE"
             \/ bank.state = "RX_DATA_PKT" /\ s = "WAIT_4_ACTIVATE" /\ Whole,
             m_update_status' \in {m_update_status, "FAULT"}
      PROVE  DataInv'
  <2>1. bank'.state = s /\ bank'.timedOut = bank.timedOut
    BY <1>3, <1>5 DEF BankSet
  <2>2. m_update_status' = "UPDATING" => m_update_status = "UPDATING"
    BY <1>5
  <2>3. bank.state = "RX_INIT_PKT" => Len(taken) = 0
    BY <1>1 DEF CountInv
  <2> QED
    BY <1>1, <1>2, <1>5, <2>1, <2>2, <2>3, DataKept
<1>6. CASE OnInitComplete
  <2>1. /\ \/ bank' = bank
           \/ bank.state = "RX_INIT_PKT" /\ bank' = [bank EXCEPT !.state = "RX_DATA_PKT"]
        /\ m_update_status' \in {m_update_status, "FAULT"}
        /\ UNCHANGED <<taken, mp_final_packet, poolVars, flashVars>>
    BY <1>6 DEF OnInitComplete, Notify, NotifyThen, Expects
  <2> QED
    BY <1>4, <1>5, <2>1
<1>7. CASE OnValidate
  <2>1. /\ \/ bank' = bank
           \/ bank.state = "RX_DATA_PKT" /\ bank' = [bank EXCEPT !.state = "VALIDATE"]
           \/ bank.state = "RX_DATA_PKT" /\ Whole /\ bank' = [bank EXCEPT !.state = "WAIT_4_ACTIVATE"]
        /\ m_update_status' \in {m_update_status, "FAULT"}
        /\ UNCHANGED <<taken, mp_final_packet, poolVars, flashVars>>
    BY <1>7 DEF OnValidate, Notify, NotifyThen
  <2> QED
    BY <1>4, <1>5, <2>1
<1>8. CASE InitData
  <2>1. /\ \/ bank' = bank
           \/ /\ bank.state \in {"RDY", "RX_INIT_PKT"}
              /\ bank' = [bank EXCEPT !.state = "RX_INIT_PKT"]
        /\ m_update_status' \in {m_update_status, "FAULT"}
        /\ UNCHANGED <<taken, mp_final_packet, poolVars, flashVars>>
    BY <1>8 DEF InitData, Notify, NotifyThen, Quiet
  <2> QED
    BY <1>4, <1>5, <2>1
<1>9. CASE OnActivate
  <2>1. /\ UNCHANGED <<bank, taken, mp_final_packet, poolVars, done, flash>>
        /\ m_update_status' # "UPDATING" \/ UNCHANGED m_update_status
        /\ IF bank.state = "WAIT_4_ACTIVATE"
             THEN queue' = queue \o Save /\ m_update_status' # "UPDATING"
             ELSE UNCHANGED queue
    BY <1>9 DEF OnActivate, Close
  <2>2. CASE bank.state # "WAIT_4_ACTIVATE"
    BY <1>4, <2>1, <2>2
  <2>3. CASE bank.state = "WAIT_4_ACTIVATE"
    <3>1. /\ Len(queue') = Len(queue) + 2
          /\ \A i \in 1 .. Len(queue) : queue'[i] = queue[i]
          /\ \A i \in 1 .. Len(queue') : i \in 1 .. Len(queue)
                  \/ (i > Len(queue) /\ queue'[i].op \notin {"store", "clear"})
      <4>1. /\ Len(queue \o Save) = Len(queue) + Len(Save)
            /\ \A i \in 1 .. Len(queue) + Len(Save) : (queue \o Save)[i] =
                 IF i <= Len(queue) THEN queue[i] ELSE Save[i - Len(queue)]
        BY <1>3, SaveTypes, ConcatProperties
      <4>2. \A i \in 1 .. Len(queue) + 2 :
              i \in 1 .. Len(queue) \/ (i > Len(queue) /\ i - Len(queue) \in {1, 2})
        BY <1>3
      <4>3. Len(queue') = Len(queue) + 2
        BY <4>1, <2>1, <2>3, SaveTypes
      <4>4. \A i \in 1 .. Len(queue) : queue'[i] = queue[i]
        <5>1. \A i \in 1 .. Len(queue) : i \in 1 .. Len(queue) + 2 /\ i <= Len(queue)
          BY <1>3
        <5> QED
          BY <4>1, <5>1, <2>1, <2>3, SaveTypes
      <4>5. \A i \in 1 .. Len(queue) + 2 :
              i \in 1 .. Len(queue) \/ (i > Len(queue) /\ queue'[i].op \notin {"store", "clear"})
        <5> SUFFICES ASSUME NEW i \in 1 .. Len(queue) + 2, i \notin 1 .. Len(queue)
                     PROVE  i > Len(queue) /\ queue'[i].op \notin {"store", "clear"}
          OBVIOUS
        <5>1. i > Len(queue) /\ i - Len(queue) \in {1, 2} /\ ~(i <= Len(queue))
          BY <4>2, <1>3
        <5>2. queue'[i] = Save[i - Len(queue)]
          BY <4>1, <5>1, <2>1, <2>3, SaveTypes
        <5> QED
          BY <5>1, <5>2, SaveTypes
      <4> QED
        BY <4>3, <4>4, <4>5
    <3>2. QueueInv(lo, k)'
      <4>1. /\ lo + k <= Len(queue') /\ k <= Len(taken)
            /\ queue' # << >>
        BY <1>2, <1>3, <3>1 DEF QueueInv
      <4>2. \A i \in 1 .. Len(queue') : queue'[i].op = "store" <=> i \in lo + 1 .. lo + k
        <5> SUFFICES ASSUME NEW i \in 1 .. Len(queue')
                     PROVE  queue'[i].op = "store" <=> i \in lo + 1 .. lo + k
          OBVIOUS
        <5>1. CASE i \in 1 .. Len(queue)
          BY <1>2, <3>1, <5>1 DEF QueueInv, IsStore
        <5>2. CASE i > Len(queue) /\ queue'[i].op \notin {"store", "clear"}
          <6>1. lo + k <= Len(queue)
            BY <1>2 DEF QueueInv
          <6>2. Len(queue) \in Nat /\ lo \in Nat /\ k \in Nat
            BY <1>3
          <6>3. i \notin lo + 1 .. lo + k
            BY <5>2, <6>1, <6>2
          <6> QED
            BY <5>2, <6>3
        <5>3. i \in 1 .. Len(queue) \/ (i > Len(queue) /\ queue'[i].op \notin {"store", "clear"})
          BY <3>1
        <5> QED
          BY <5>1, <5>2, <5>3
      <4>3. \A i \in 1 .. Len(queue') : queue'[i].op = "store" =>
              /\ queue'[i].at = Len(taken) - (lo + k) + (i - 1)
              /\ queue'[i].n = taken[queue'[i].at + 1]
        BY <1>2, <3>1 DEF QueueInv, IsStore
      <4>4. \A i \in 1 .. Len(queue') : queue'[i].op # "clear"
        BY <1>2, <2>3, <3>1 DEF QueueInv
      <4> QED
        BY <2>1, <2>3, <4>1, <4>2, <4>3, <4>4 DEF QueueInv, IsStore
    <3>4. PoolInv(lo, k, r)'
      <4>1. \A i \in 1 .. Len(queue') : queue'[i].op = "store" => i \in 1 .. Len(queue)
        BY <3>1
      <4>2. \A i \in 1 .. Len(queue') : queue'[i].op = "store" =>
              IsStore(i) /\ i \in 1 .. Len(queue) /\ queue'[i] = queue[i]
        BY <3>1, <4>1 DEF IsStore
      <4>3. (\A i \in 1 .. Len(queue) : IsStore(i) =>
              queue[i].buf = Back(pool.read_index, lo + k + 1 - i + r))'
        <5>1. \A i \in 1 .. Len(queue) : IsStore(i) =>
                queue[i].buf = Back(pool.read_index, lo + k + 1 - i + r)
          BY <1>2 DEF PoolInv
        <5>2. pool' = pool
          BY <2>1
        <5> QED
          BY <4>2, <5>1, <5>2 DEF IsStore
      <4>4. (\A i \in 1 .. Len(queue) : IsStore(i) /\ ~(i = 1 /\ done) =>
              rx_buffer[queue[i].buf] = queue[i].n)'
        <5>1. \A i \in 1 .. Len(queue) : IsStore(i) /\ ~(i = 1 /\ done) =>
                rx_buffer[queue[i].buf] = queue[i].n
          BY <1>2 DEF PoolInv
        <5>2. rx_buffer' = rx_buffer /\ done' = done
          BY <2>1
        <5> QED
          BY <4>2, <5>1, <5>2 DEF IsStore
      <4>5. UNCHANGED <<pool, taken, mp_final_packet, bank>> /\ (Receiving' => Receiving)
        BY <1>2, <2>1 DEF Receiving
      <4> QED
        BY <1>2, <4>3, <4>4, <4>5 DEF PoolInv, Spans
    <3>5. FlashInv(lo, k)'
      BY <1>2, <2>1 DEF FlashInv, Undone, Whole
    <3> QED
      BY <3>2, <3>4, <3>5 DEF DataInv
  <2> QED
    BY <2>2, <2>3
<1>10. CASE StartData
  <2>1. /\ UNCHANGED <<taken, mp_final_packet, poolVars, done, flash>>
        /\ m_update_status' \in {m_update_status, "FAULT"}
        /\ \/ UNCHANGED <<bank, queue>>
           \/ /\ bank.state = "IDLE" /\ bank' = [bank EXCEPT !.state = "PREPARING"]
              /\ queue' = Append(queue, Command("clear", NoBuffer, 0, 0))
    BY <1>10 DEF StartData, Notify, NotifyThen, Quiet
  <2>2. CASE UNCHANGED <<bank, queue>>
    BY <1>4, <2>1, <2>2
  <2>3. CASE /\ bank.state = "IDLE" /\ bank' = [bank EXCEPT !.state = "PREPARING"]
             /\ queue' = Append(queue, Command("clear", NoBuffer, 0, 0))
    <3>1. queue = << >> /\ ~done /\ Len(taken) = 0
      BY <1>1, <1>2, <2>3 DEF QueueInv, CountInv
    <3>2. Len(queue') = 1 /\ queue'[1].op = "clear" /\ queue' # << >>
      BY <2>3, <3>1 DEF Command
    <3>3. bank'.state = "PREPARING"
      BY <1>3, <2>3 DEF BankSet
    <3>4. \A i \in 1 .. Len(queue') : queue'[i].op # "store" /\ i \notin 1 + 1 .. 1 + 0
      BY <3>2
    <3>5. QueueInv(1, 0)'
      <4>1. 1 + 0 <= Len(queue') /\ 0 <= Len(taken) /\ 1 + 0 = Len(queue')
        BY <1>3, <3>2
      <4> QED
        BY <2>1, <3>2, <3>3, <3>4, <4>1 DEF QueueInv, IsStore
    <3>6. PoolInv(1, 0, r)'
      <4>1. Spans(pool, r) /\ 0 + r <= pool.free_available_count
        BY <1>2, <1>3 DEF PoolInv, Spans
      <4>2. pool.free_available_count = 0 /\ mp_final_packet = NoBuffer
        BY <1>2, <1>3, <3>1 DEF PoolInv
      <4> QED
        BY <1>3, <2>1, <3>1, <3>3, <3>4, <4>1, <4>2 DEF PoolInv, IsStore, Receiving, Spans
    <3>7. FlashInv(1, 0)'
      BY <2>1, <3>1, <3>3 DEF FlashInv
    <3> QED
      BY <1>3, <3>5, <3>6, <3>7 DEF DataInv
  <2> QED
    BY <2>1, <2>2, <2>3
<1>11. CASE AppData
  <2>1. Head(events).n \in 0 .. Total
    <3>1. PICK op \in Packet : Takes(op)
      BY <1>11 DEF AppData, TakesPacket
    <3>2. Head(events) = events[1] /\ events # << >> /\ Head(events) \in EventSet
          /\ Head(events).op \in Packet
      BY <1>1, <3>1, TypedMeans, TakesEffect DEF Takes
    <3> QED
      BY <1>1, <1>3, <3>2 DEF EventsInv, EventSet, Typed
  <2>2. CASE Head(events).op = "odd" \/ ~CanProduce(pool)
    <3>1. /\ UNCHANGED <<bank, taken, mp_final_packet, poolVars, flashVars>>
          /\ m_update_status' \in {m_update_status, "FAULT"}
      BY <1>11, <2>2 DEF AppData, Notify, NotifyThen
    <3> QED
      BY <1>4, <3>1
  <2>3. CASE Head(events).op # "odd" /\ CanProduce(pool)
    <3>1. rx_produce(pool).read_index = pool.read_index
      BY <1>2, <1>3, <2>3, PoolTakes DEF PoolInv
    <3>2. /\ rx_buffer' = [rx_buffer EXCEPT ![pool.write_index] = Head(events).n]
          /\ IF bank.state = "RX_DATA_PKT" /\ bank.received < Total /\ ~bank.timedOut
               THEN DataAccepted(rx_extract(rx_produce(pool)), pool.read_index)
               ELSE DataRefused(rx_extract(rx_produce(pool)), pool.read_index)
          /\ UNCHANGED <<done, flash>>
      BY <1>11, <2>3, <3>1 DEF AppData
    <3>3. CASE bank.state = "RX_DATA_PKT" /\ bank.received < Total /\ ~bank.timedOut
      BY <1>1, <1>2, <2>1, <2>3, <3>2, <3>3, DataAccepts
    <3>4. CASE ~(bank.state = "RX_DATA_PKT" /\ bank.received < Total /\ ~bank.timedOut)
      <4>1. bank.received \in 0 .. Overrun /\ Overrun = Total + 1
        BY <1>3, RecordTypes DEF Overrun
      <4>2. bank.state # "RX_DATA_PKT" \/ bank.received >= Total \/ bank.timedOut
        BY <3>4, <4>1, <1>3
      <4> QED
        BY <1>1, <1>2, <2>3, <3>2, <3>4, <4>2, DataRefuses
    <3> QED
      BY <3>3, <3>4
  <2> QED
    BY <2>2, <2>3
<1>12. CASE BankCleared
  <2>1. /\ UNCHANGED <<taken, mp_final_packet, poolVars, flash>> /\ done /\ done' = FALSE
        /\ queue' = Tail(queue) \o Save /\ bank' = [bank EXCEPT !.state = "RDY"]
        /\ Head(queue).op = "clear" /\ m_update_status' \in {m_update_status, "FAULT"}
    BY <1>12 DEF BankCleared, Finishes, Notify, NotifyThen
  <2>2. queue # << >>
    BY <1>2, <2>1 DEF QueueInv
  <2>3. queue[1].op = "clear" /\ 1 \in 1 .. Len(queue)
    BY <1>1, <1>3, <2>1, <2>2, TypedMeans, QueueHead
  <2>4. bank.state = "PREPARING"
    BY <1>2, <2>3 DEF QueueInv
  <2>5. Len(taken) = 0 /\ Len(queue) = 1
    BY <1>1, <1>2, <2>4 DEF CountInv, QueueInv
  <2>6. queue' = Save
    <3>1. Tail(queue) \in Seq(CommandSet) /\ Len(Tail(queue)) = 0
      BY <1>1, <2>2, <2>5, TypedMeans, QueueHead
    <3>2. Tail(queue) = << >>
      BY <3>1, EmptySeq
    <3> QED
      BY <2>1, <3>2, SaveTypes, ConcatEmptySeq
  <2>7. bank'.state = "RDY"
    BY <1>3, <2>1 DEF BankSet
  <2>8. Len(queue') = 2 /\ \A i \in 1 .. 2 : queue'[i].op \notin {"store", "clear"}
    BY <2>6, SaveTypes
  <2>9. QueueInv(2, 0)'
    <3>1. \A i \in 1 .. Len(queue') : i \notin 2 + 1 .. 2 + 0
      OBVIOUS
    <3>2. 2 + 0 <= Len(queue') /\ 0 <= Len(taken) /\ 2 + 0 = Len(queue')
      BY <1>3, <2>8
    <3> QED
      BY <2>1, <2>7, <2>8, <3>1, <3>2 DEF QueueInv, IsStore
  <2>10. PoolInv(2, 0, r)'
    <3>1. Spans(pool, r) /\ 0 + r <= pool.free_available_count
      BY <1>2, <1>3 DEF PoolInv, Spans
    <3>2. pool.free_available_count = 0 /\ mp_final_packet = NoBuffer
      BY <1>2, <1>3, <2>5 DEF PoolInv
    <3> QED
      BY <1>3, <2>1, <2>5, <2>7, <2>8, <3>1, <3>2 DEF PoolInv, IsStore, Receiving, Spans
  <2>11. FlashInv(2, 0)'
    <3>1. \A u \in Unit : flash[u] = Blank
      BY <1>2, <2>1, <2>4 DEF FlashInv
    <3>2. \A u \in Unit : ~(u < Len(taken) - 0)
      BY <2>5 DEF Unit
    <3>3. Undone(2, 0)' = 0
      BY DEF Undone
    <3> QED
      BY <2>1, <2>7, <3>1, <3>2, <3>3 DEF FlashInv
  <2> QED
    BY <1>3, <2>9, <2>10, <2>11 DEF DataInv
<1>13. CASE PacketStored
  BY <1>1, <1>2, <1>13, DataStored
<1>14. CASE SettingsErased \/ SettingsSaved
  BY <1>1, <1>2, <1>14, DataSettled
<1>15. CASE FlashWorks
  BY <1>1, <1>2, <1>15, DataFlashed
<1>16. ASSUME ~(\/ OnInitComplete \/ OnValidate \/ InitData \/ OnActivate \/ StartData
                \/ AppData \/ BankCleared \/ PacketStored \/ SettingsErased
                \/ SettingsSaved \/ FlashWorks)
       PROVE  /\ UNCHANGED <<taken, mp_final_packet, poolVars, flashVars>>
              /\ bank' \in {bank, [bank EXCEPT !.timedOut = TRUE]}
              /\ m_update_status' = "UPDATING" => m_update_status = "UPDATING"
  <2>1. CASE OnSysReset \/ Timeout
    BY <2>1 DEF OnSysReset, Timeout, Close
  <2>2. CASE OnConnected \/ OnDisconnected \/ ControlRefused \/ OnPktRcptNotif \/ OnStart
             \/ OnInit \/ OnReceiveFw \/ OnImageSizeReq \/ PacketIgnored
    BY <2>2 DEF OnConnected, OnDisconnected, ControlRefused, OnPktRcptNotif, OnStart, OnInit,
         OnReceiveFw, Expects, Quiet, OnImageSizeReq, Notify, NotifyThen, PacketIgnored
  <2>3. CASE Host \/ HostReads \/ LinkLost \/ LinkClosed \/ NoBleEvent \/ NoSocEvent \/ Leave
             \/ UNCHANGED vars
    BY <2>3 DEF Host, Connect, Subscribe, HostWrites, HostStrays, HostResets, HostReads,
         LinkLost, LinkClosed, LinkDown, NoBleEvent, NoSocEvent, Leave, vars
  <2> QED
    BY <1>16, <2>1, <2>2, <2>3 DEF Next, OnBleEvent, OnSocEvent
<1> QED
  BY <1>4, <1>6, <1>7, <1>8, <1>9, <1>10, <1>11, <1>12, <1>13, <1>14, <1>15, <1>16
-----------------------------------------------------------------------------
(* What the host has been told. *)

\* What it has been told goes on to hold.
LEMMA ToldLasts ==
  ASSUME IInv, [Next]_vars
  PROVE  /\ Len(taken) <= Len(taken')
         /\ Len(taken) = Total /\ NoStores => Len(taken') = Total /\ NoStores'
         /\ bank.state = "WAIT_4_ACTIVATE" => bank'.state = "WAIT_4_ACTIVATE"
<1> USE DEF deviceVars, stackVars, linkVars, dataVars, history, poolVars, flashVars
<1>1. /\ Typed /\ CountInv /\ Total \in Nat \ {0} /\ taken \in Seq(0 .. Total)
      /\ Len(taken) \in Nat /\ bank \in BankSet /\ queue \in Seq(CommandSet)
  BY TypedMeans, BleAssumption DEF BleAssumption, IInv, Typed
<1>2. \/ UNCHANGED taken
      \/ /\ \E n \in 0 .. Total : taken' = Append(taken, n)
         /\ Len(taken) < Total
  <2>1. CASE AppData
    <3>1. PICK op \in Packet : Takes(op)
      BY <2>1 DEF AppData, TakesPacket
    <3>2. Head(events) = events[1] /\ events # << >> /\ Head(events) \in EventSet
          /\ Head(events).op \in Packet
      BY <1>1, <3>1, TypedMeans, TakesEffect DEF Takes
    <3>3. Head(events).n \in 0 .. Total
      BY <1>1, <3>2 DEF IInv, EventsInv, EventSet, Typed
    <3>4. \/ UNCHANGED taken
          \/ /\ taken' = Append(taken, Head(events).n)
             /\ bank.state = "RX_DATA_PKT" /\ bank.received < Total
      BY <2>1 DEF AppData, DataAccepted, DataRefused
    <3>5. bank.state = "RX_DATA_PKT" /\ bank.received < Total => Len(taken) < Total
      BY <1>1 DEF CountInv, Overrun
    <3> QED
      BY <3>3, <3>4, <3>5
  <2>2. CASE ~AppData
    BY <2>2 DEF Next, vars, Host, Connect, Subscribe, HostWrites, HostStrays, HostResets,
       HostReads, LinkLost, LinkClosed, LinkDown, NoBleEvent, OnBleEvent, OnConnected,
       OnDisconnected, ControlRefused, OnPktRcptNotif, OnStart, OnInit, OnReceiveFw, Expects,
       OnInitComplete, OnValidate, OnActivate, OnSysReset, OnImageSizeReq, PacketIgnored,
       StartData, InitData, OnSocEvent, NoSocEvent, BankCleared, PacketStored, SettingsErased,
       SettingsSaved, Finishes, FlashWorks, Timeout, Leave
  <2> QED
    BY <2>1, <2>2
<1>3. UNCHANGED taken /\ NoStores => NoStores'
  <2> SUFFICES ASSUME UNCHANGED taken, NoStores PROVE NoStores'
    OBVIOUS
  <2>0. \A i \in 1 .. Len(queue) : queue[i].op # "store"
    BY DEF NoStores, IsStore
  <2>1. CASE UNCHANGED queue
    BY <2>0, <2>1 DEF NoStores, IsStore
  <2>2. CASE queue # << >> /\ queue' = Tail(queue)
    <3>1. \A i \in 1 .. Len(queue') : queue'[i] = queue[i + 1] /\ i + 1 \in 1 .. Len(queue)
      BY <1>1, <2>2, TypedMeans, QueueHead
    <3> QED
      BY <2>0, <3>1 DEF NoStores, IsStore
  <2>3. ASSUME NEW q \in Seq(CommandSet), \A i \in 1 .. Len(q) : q[i].op # "store",
               queue' = q \o Save
        PROVE  NoStores'
    <3>1. /\ Len(queue') = Len(q) + 2
          /\ \A i \in 1 .. Len(queue') : queue'[i] = IF i <= Len(q) THEN q[i] ELSE Save[i - Len(q)]
      <4>1. Len(q \o Save) = Len(q) + Len(Save) /\ Len(q) \in Nat
            /\ \A i \in 1 .. Len(q) + Len(Save) :
                 (q \o Save)[i] = IF i <= Len(q) THEN q[i] ELSE Save[i - Len(q)]
        <5>1. q \in Seq(CommandSet) /\ Save \in Seq(CommandSet)
          BY SaveTypes
        <5> QED
          BY <5>1, ConcatProperties
      <4> QED
        BY <4>1, <2>3, SaveTypes
    <3>2. \A i \in 1 .. Len(queue') : i \in 1 .. Len(q) \/ (~(i <= Len(q)) /\ i - Len(q) \in {1, 2})
      BY <2>3, <3>1
    <3>3. \A i \in 1 .. Len(q) : i <= Len(q)
      BY <2>3
    <3> QED
      BY <2>3, <3>1, <3>2, <3>3, SaveTypes DEF NoStores, IsStore
  <2>4. CASE queue' = queue \o Save
    BY <1>1, <2>0, <2>3, <2>4
  <2>5. CASE queue # << >> /\ queue' = Tail(queue) \o Save
    <3>1. /\ Tail(queue) \in Seq(CommandSet)
          /\ \A i \in 1 .. Len(Tail(queue)) : Tail(queue)[i] = queue[i + 1] /\ i + 1 \in 1 .. Len(queue)
      BY <1>1, <2>5, TypedMeans, QueueHead
    <3> QED
      BY <2>0, <2>3, <2>5, <3>1
  <2>6. CASE queue' = Append(queue, Command("clear", NoBuffer, 0, 0))
    BY <1>1, <2>0, <2>6 DEF NoStores, IsStore, Command
  <2>7. \/ UNCHANGED queue
        \/ queue' = queue \o Save
        \/ queue' = Append(queue, Command("clear", NoBuffer, 0, 0))
        \/ done /\ queue' \in {Tail(queue), Tail(queue) \o Save}
    <3>1. CASE AppData
      <4>1. UNCHANGED queue \/ \E n : taken' = Append(taken, n)
        BY <3>1 DEF AppData, DataAccepted, DataRefused
      <4>2. ASSUME NEW n, taken' = Append(taken, n) PROVE FALSE
        <5>1. Len(Append(taken, n)) = Len(taken) + 1
          BY <1>1
        <5> QED
          BY <4>2, <5>1, <1>1
      <4> QED
        BY <4>1, <4>2
    <3>2. CASE ~AppData
      BY <3>2 DEF Next, vars, Host, Connect, Subscribe, HostWrites, HostStrays, HostResets,
         HostReads, LinkLost, LinkClosed, LinkDown, NoBleEvent, OnBleEvent, OnConnected,
         OnDisconnected, ControlRefused, OnPktRcptNotif, OnStart, OnInit, OnReceiveFw, Expects,
         OnInitComplete, OnValidate, OnActivate, OnSysReset, OnImageSizeReq, PacketIgnored,
         StartData, InitData, OnSocEvent, NoSocEvent, BankCleared, PacketStored,
         SettingsErased, SettingsSaved, Finishes, FlashWorks, Timeout, Leave
    <3> QED
      BY <3>1, <3>2
  <2>8. done => queue # << >>
    BY DEF IInv, DataInv, QueueInv
  <2> QED
    BY <2>1, <2>2, <2>4, <2>5, <2>6, <2>7, <2>8
<1>4. bank.state = "WAIT_4_ACTIVATE" => bank'.state = "WAIT_4_ACTIVATE"
  <2> SUFFICES ASSUME bank.state = "WAIT_4_ACTIVATE" PROVE bank'.state = "WAIT_4_ACTIVATE"
    OBVIOUS
  <2>1. CASE BankCleared
    <3>1. queue # << >> /\ Head(queue).op = "clear"
      BY <2>1 DEF BankCleared, Finishes, IInv, DataInv, QueueInv
    <3>2. queue[1].op = "clear" /\ 1 \in 1 .. Len(queue)
      BY <1>1, <3>1, QueueHead, TypedMeans
    <3>3. bank.state = "PREPARING"
      BY <3>2 DEF IInv, DataInv, QueueInv
    <3> QED
      BY <3>3
  <2>2. CASE ~BankCleared
    <3>1. bank' = bank \/ bank' = [bank EXCEPT !.timedOut = TRUE]
      BY <2>2 DEF Next, vars, Host, Connect, Subscribe, HostWrites, HostStrays, HostResets,
         HostReads, LinkLost, LinkClosed, LinkDown, NoBleEvent, OnBleEvent, OnConnected,
         OnDisconnected, ControlRefused, OnPktRcptNotif, OnStart, OnInit, OnReceiveFw, Expects,
         OnInitComplete, OnValidate, OnActivate, OnSysReset, OnImageSizeReq, PacketIgnored,
         StartData, InitData, AppData, DataAccepted, DataRefused, OnSocEvent, NoSocEvent,
         PacketStored, SettingsErased, SettingsSaved, Finishes, FlashWorks, Timeout, Leave
    <3> QED
      BY <1>1, <3>1 DEF BankSet
  <2> QED
    BY <2>1, <2>2
<1>5. CASE UNCHANGED taken
  BY <1>1, <1>3, <1>4, <1>5
<1>6. CASE Len(taken) < Total /\ \E n \in 0 .. Total : taken' = Append(taken, n)
  BY <1>1, <1>4, <1>6
<1> QED
  BY <1>2, <1>5, <1>6

LEMMA NotesStep == IInv /\ [Next]_vars => NotesInv'
<1> SUFFICES ASSUME IInv, [Next]_vars PROVE NotesInv'
  OBVIOUS
<1> USE DEF deviceVars, stackVars, linkVars, dataVars, history, poolVars, flashVars
<1>1. /\ Typed /\ TypeOK /\ CountInv /\ NotesInv /\ Total \in Nat \ {0} /\ notes \in Seq(NoteSet)
      /\ Len(taken) \in Nat /\ m_update_status \in StatusSet /\ bank \in BankSet
      /\ m_num_of_firmware_bytes_rcvd \in 0 .. Total /\ PoolSize \in Nat \ {0}
      /\ taken \in Seq(0 .. Total) /\ queue \in Seq(CommandSet)
  BY TypedMeans, BleAssumption, PoolSizeAssumption DEF BleAssumption, IInv, Typed
<1>0. \A i \in 1 .. Len(notes) : notes[i].n \in 0 .. Total /\ notes[i].n <= Len(taken)
  <2> SUFFICES ASSUME NEW i \in 1 .. Len(notes)
               PROVE  notes[i].n \in 0 .. Total /\ notes[i].n <= Len(taken)
    OBVIOUS
  <2>1. notes[i] \in NoteSet
    BY <1>1
  <2> QED
    BY <2>1, <1>1 DEF NoteSet, NotesInv
<1>2. /\ Len(taken) <= Len(taken') /\ Len(taken') \in Nat
      /\ Len(taken) = Total /\ NoStores => Len(taken') = Total /\ NoStores'
      /\ bank.state = "WAIT_4_ACTIVATE" => bank'.state = "WAIT_4_ACTIVATE"
  <2>1. Len(taken') \in Nat
    BY TypeStep, TypedMeans DEF Typed
  <2> QED
    BY <2>1, ToldLasts

\* One note more, when it holds.
<1>3. ASSUME NEW note \in NoteSet, NotesPlus(note), notes' \in Seq(NoteSet),
             note.n <= Len(taken'),
             note = Response("RECEIVE", TRUE) => Len(taken') = Total /\ NoStores',
             note = Response("VALIDATE", TRUE) => bank'.state = "WAIT_4_ACTIVATE"
      PROVE  NotesInv'
  <2> SUFFICES ASSUME NEW i \in 1 .. Len(notes')
               PROVE  /\ notes'[i].n <= Len(taken')
                      /\ notes'[i] = Response("RECEIVE", TRUE) => Len(taken') = Total /\ NoStores'
                      /\ notes'[i] = Response("VALIDATE", TRUE) => bank'.state = "WAIT_4_ACTIVATE"
    BY DEF NotesInv, Response
  <2>1. CASE notes'[i] = note
    BY <1>3, <2>1
  <2>2. CASE \E j \in 1 .. Len(notes) : notes'[i] = notes[j]
    <3>1. PICK j \in 1 .. Len(notes) : notes'[i] = notes[j]
      BY <2>2
    <3>2. notes[j].n \in 0 .. Total /\ notes[j].n <= Len(taken)
      BY <1>0
    <3>3. notes[j].n <= Len(taken')
      BY <1>1, <1>2, <3>2
    <3> QED
      BY <1>1, <1>2, <3>1, <3>3 DEF NotesInv
  <2> QED
    BY <1>3, <2>1, <2>2 DEF NotesPlus
<1>4. CASE UNCHANGED notes
  <2>1. \A i \in 1 .. Len(notes) : notes[i].n <= Len(taken')
    BY <1>0, <1>1, <1>2
  <2> QED
    BY <1>1, <1>2, <1>4, <2>1 DEF NotesInv, Response
<1>5. ASSUME NEW note \in NoteSet, NEW status \in StatusSet, NotifyThen(note, status),
             note.n = 0,
             note = Response("RECEIVE", TRUE) => Len(taken') = Total /\ NoStores',
             note = Response("VALIDATE", TRUE) => bank'.state = "WAIT_4_ACTIVATE"
      PROVE  NotesInv'
  <2>1. NotesPlus(note) /\ notes' \in Seq(NoteSet)
    BY <1>1, <1>5, NotifyEffect
  <2>2. note.n <= Len(taken')
    BY <1>2, <1>5
  <2> QED
    BY <1>3, <1>5, <2>1, <2>2
<1>6. \A p \in {"START", "INIT", "RECEIVE", "VALIDATE"}, ok \in BOOLEAN :
        /\ Response(p, ok) \in NoteSet /\ Response(p, ok).n = 0
        /\ Response(p, ok) = Response("RECEIVE", TRUE) => p = "RECEIVE" /\ ok
        /\ Response(p, ok) = Response("VALIDATE", TRUE) => p = "VALIDATE" /\ ok
  BY <1>1 DEF Response, NoteSet
<1>7. ASSUME NEW p \in {"START", "INIT", "RECEIVE", "VALIDATE"}, NEW ok \in BOOLEAN,
             NotifyThen(Response(p, ok), m_update_status),
             ok /\ p = "RECEIVE" => Len(taken') = Total /\ NoStores',
             ok /\ p = "VALIDATE" => bank'.state = "WAIT_4_ACTIVATE"
      PROVE  NotesInv'
  BY <1>1, <1>5, <1>6, <1>7
<1>8. ASSUME NEW n \in 0 .. Total, n <= Len(taken'),
             NEW note \in {Receipt(n), Report(n)}, NotifyThen(note, m_update_status)
      PROVE  NotesInv'
  <2>1. /\ note \in NoteSet /\ note.n = n
        /\ note # Response("RECEIVE", TRUE) /\ note # Response("VALIDATE", TRUE)
    <3>1. note.type \in {"receipt", "report"} /\ note \in NoteSet /\ note.n = n
      <4>1. CASE note = Receipt(n)
        BY <1>8, <4>1 DEF Receipt, NoteSet
      <4>2. CASE note = Report(n)
        BY <1>8, <4>2 DEF Report, NoteSet
      <4> QED
        BY <1>8, <4>1, <4>2
    <3>2. Response("RECEIVE", TRUE).type = "RECEIVE" /\ Response("VALIDATE", TRUE).type = "VALIDATE"
      BY DEF Response
    <3> QED
      BY <3>1, <3>2
  <2>2. NotesPlus(note) /\ notes' \in Seq(NoteSet)
    BY <1>1, <1>8, <2>1, NotifyEffect
  <2> QED
    BY <1>3, <1>8, <2>1, <2>2
<1>9. CASE OnInitComplete
  <2>1. PICK ok \in BOOLEAN : NotifyThen(Response("INIT", ok), m_update_status)
    BY <1>9 DEF OnInitComplete, Notify
  <2> QED
    BY <1>7, <2>1
<1>10. CASE OnValidate
  <2> DEFINE ok == bank.state = "RX_DATA_PKT" /\ bank.received = Total /\ ~bank.timedOut /\ Whole
  <2>1. /\ NotifyThen(Response("VALIDATE", ok), m_update_status)
        /\ ok => bank' = [bank EXCEPT !.state = "WAIT_4_ACTIVATE"]
    BY <1>10 DEF OnValidate, Notify
  <2>2. ok => bank'.state = "WAIT_4_ACTIVATE"
    BY <1>1, <2>1 DEF BankSet
  <2>3. ok \in BOOLEAN
    OBVIOUS
  <2> HIDE DEF ok
  <2> QED
    BY <1>7, <2>1, <2>2, <2>3
<1>11. CASE OnImageSizeReq
  <2>1. NotifyThen(Report(m_num_of_firmware_bytes_rcvd), m_update_status) /\ UNCHANGED taken
    BY <1>11 DEF OnImageSizeReq, Notify
  <2>2. m_num_of_firmware_bytes_rcvd <= Len(taken')
    BY <1>1, <2>1 DEF CountInv
  <2> QED
    BY <1>1, <1>8, <2>1, <2>2
<1>12. CASE StartData
  BY <1>4, <1>7, <1>12 DEF StartData, Notify, Quiet
<1>13. CASE InitData
  BY <1>4, <1>7, <1>13 DEF InitData, Notify, Quiet
<1>14. CASE AppData
  <2>1. CASE NotifyThen(Response("RECEIVE", FALSE), m_update_status)
    BY <1>7, <2>1
  <2>2. CASE \E p, b : DataAccepted(p, b) /\ bank.state = "RX_DATA_PKT" /\ bank.received < Total
    <3>1. /\ taken' = Append(taken, Head(events).n)
          /\ m_num_of_firmware_bytes_rcvd' = m_num_of_firmware_bytes_rcvd + 1
          /\ \/ UNCHANGED notes
             \/ NotifyThen(Receipt(m_num_of_firmware_bytes_rcvd'), m_update_status)
      BY <2>2 DEF DataAccepted, Notify, Quiet, Counted
    <3>2. Len(taken') = Len(taken) + 1
      BY <1>1, <3>1
    <3>3. m_num_of_firmware_bytes_rcvd' = Len(taken') /\ Len(taken') \in 0 .. Total
      <4>1. m_num_of_firmware_bytes_rcvd' \in 0 .. Total
        BY TypeStep, TypedMeans DEF Typed
      <4> QED
        BY <1>1, <3>1, <3>2, <4>1 DEF CountInv
    <3>4. m_num_of_firmware_bytes_rcvd' <= Len(taken')
      BY <3>3
    <3> QED
      BY <1>4, <1>8, <3>1, <3>3, <3>4
  <2> QED
    BY <1>14, <2>1, <2>2 DEF AppData, DataRefused, Notify
<1>15. CASE BankCleared
  BY <1>7, <1>15 DEF BankCleared, Notify
<1>16. CASE PacketStored
  <2>1. CASE UNCHANGED notes
    BY <1>4, <2>1
  <2>2. CASE ~UNCHANGED notes
    <3>1. /\ NotifyThen(Response("RECEIVE", TRUE), m_update_status)
          /\ bank.state = "RX_DATA_PKT" /\ Head(queue).buf = mp_final_packet
          /\ Head(queue).op = "store" /\ done /\ queue' = Tail(queue) /\ UNCHANGED taken
      BY <1>16, <2>2 DEF PacketStored, Finishes, Notify, Quiet, IsFinal
    <3>2. PICK lo \in 0 .. 2, k \in 0 .. PoolSize, r \in 0 .. PoolSize :
            QueueInv(lo, k) /\ PoolInv(lo, k, r)
      BY DEF IInv, DataInv
    <3>3. queue # << >>
      BY <3>1, <3>2 DEF QueueInv
    <3>4. /\ Head(queue) = queue[1] /\ queue[1].op = "store" /\ 1 \in 1 .. Len(queue)
          /\ Len(queue') = Len(queue) - 1
          /\ \A i \in 1 .. Len(queue') : queue'[i] = queue[i + 1] /\ i + 1 \in 1 .. Len(queue)
      BY <1>1, <3>1, <3>3, QueueHead
    <3>5. lo = 0 /\ k > 0
      BY <3>2, <3>4 DEF QueueInv, IsStore
    <3>6. queue[1].buf = Back(pool.read_index, k + r)
      <4>1. queue[1].buf = Back(pool.read_index, lo + k + 1 - 1 + r)
        BY <3>2, <3>4 DEF PoolInv, IsStore
      <4>2. lo + k + 1 - 1 + r = k + r
        BY <3>5
      <4> QED
        BY <4>1, <4>2
    <3>7. pool.read_index \in Buffer /\ k + r \in 1 .. PoolSize
      BY <1>1, <3>2, <3>5 DEF PoolInv, Typed, Pool
    <3>8. mp_final_packet \in Buffer /\ mp_final_packet # NoBuffer
      <4>1. Back(pool.read_index, k + r) \in Buffer
        BY <3>7, BackFacts, k + r \in 0 .. PoolSize
      <4> QED
        BY <3>1, <3>4, <3>6, <4>1, <1>1 DEF NoBuffer, Buffer
    <3>9. Len(taken) = Total
      BY <1>1, <3>2, <3>8 DEF PoolInv, CountInv
    <3>10. mp_final_packet = Back(pool.read_index, 1 + r)
      BY <3>2, <3>5, <3>9 DEF PoolInv
    <3>11. k = 1
      <4>1. 1 + r \in 0 .. PoolSize /\ k + r \in 0 .. PoolSize /\ 1 + r # 0 /\ k + r # 0
        BY <3>5, <3>7, k \in Nat, r \in Nat, <1>1
      <4>2. 1 + r = k + r
        BY <3>1, <3>4, <3>6, <3>7, <3>10, <4>1, BackApart
      <4> QED
        BY <4>2
    <3>12. NoStores'
      <4> SUFFICES ASSUME NEW i \in 1 .. Len(queue') PROVE queue'[i].op # "store"
        BY DEF NoStores, IsStore
      <4>1. i + 1 \notin lo + 1 .. lo + k
        BY <3>5, <3>11
      <4> QED
        BY <3>2, <3>4, <4>1 DEF QueueInv, IsStore
    <3> QED
      BY <1>7, <3>1, <3>9, <3>12
  <2> QED
    BY <2>1, <2>2
<1>17. CASE HostReads
  <2>1. \A i \in 1 .. Len(notes') : notes'[i] = notes[i + 1] /\ i + 1 \in 1 .. Len(notes)
    BY <1>1, <1>17, HeadTailProperties DEF HostReads
  <2>3. \A i \in 1 .. Len(notes) : notes[i].n <= Len(taken')
    BY <1>0, <1>1, <1>2
  <2> QED
    BY <1>1, <1>2, <2>1, <2>3 DEF NotesInv, Response
<1>18. CASE LinkDown
  <2>1. Len(notes') = 0
    BY <1>18 DEF LinkDown
  <2> QED
    BY <2>1 DEF NotesInv
<1>19. ASSUME ~(\/ OnInitComplete \/ OnValidate \/ OnImageSizeReq \/ StartData \/ InitData
                \/ AppData \/ BankCleared \/ PacketStored \/ HostReads \/ LinkDown)
       PROVE  UNCHANGED notes
  BY <1>19 DEF Next, vars, Host, Connect, Subscribe, HostWrites, HostStrays, HostResets,
     LinkLost, LinkClosed, NoBleEvent, OnBleEvent, OnConnected, OnDisconnected,
     ControlRefused, OnPktRcptNotif, OnStart, OnInit, OnReceiveFw, Expects, Quiet,
     OnActivate, OnSysReset, Close, PacketIgnored, OnSocEvent, NoSocEvent, SettingsErased,
     SettingsSaved, Finishes, FlashWorks, Timeout, Leave
<1> QED
  BY <1>4, <1>9, <1>10, <1>11, <1>12, <1>13, <1>14, <1>15, <1>16, <1>17, <1>18, <1>19
-----------------------------------------------------------------------------
(* The theorems. *)

LEMMA InitInv == Init => IInv
<1> SUFFICES ASSUME Init PROVE IInv
  OBVIOUS
<1>1. /\ Total \in Nat \ {0} /\ Intervals \subseteq Nat /\ MaxLosses \in Nat /\ MaxStrays \in Nat
      /\ PoolSize \in Nat \ {0} /\ events = << >> /\ notes = << >> /\ queue = << >> /\ taken = << >>
      /\ Len(events) = 0 /\ Len(notes) = 0 /\ Len(queue) = 0 /\ Len(taken) = 0
  BY BleAssumption, PoolSizeAssumption DEF BleAssumption, Init
<1>2. TypeOK
  <2>1. host \in HostSet
    BY <1>1 DEF Init, HostSet, AwaitSet, GaveUp
  <2>2. pool \in Pool
    BY <1>1 DEF Init, hci_mem_pool_open, Pool, Buffer
  <2>3. /\ rx_buffer \in [Buffer -> 0 .. Old] /\ flash \in [Unit -> 0 .. Old]
    BY <1>1 DEF Init, Old
  <2>4. bank \in BankSet /\ m_pkt_notif \in NotifSet /\ ~m_pkt_notif.enabled
    BY <1>1 DEF Init, BankSet, NotifSet, Overrun
  <2>5. /\ events \in Seq(EventSet) /\ notes \in Seq(NoteSet) /\ queue \in Seq(CommandSet)
        /\ taken \in Seq(0 .. Total)
    BY <1>1, EmptySeq
  <2>6. mp_final_packet \in Buffer \cup {NoBuffer} /\ m_num_of_firmware_bytes_rcvd \in 0 .. Total
    BY <1>1 DEF Init
  <2>7. m_update_status \in StatusSet
    BY DEF Init, StatusSet
  <2>8. Typed
    BY <2>1, <2>2, <2>3, <2>4, <2>5, <2>6, <2>7 DEF Init, Typed
  <2> QED
    BY <2>8, TypedMeans
<1>3. LinkInv
  BY <1>1 DEF Init, LinkInv, Link, NoLink
<1>4. EventsInv /\ NotesInv
  BY <1>1 DEF EventsInv, NotesInv
<1>5. CountInv
  BY <1>1 DEF Init, CountInv
<1>6. DataInv
  <2>1. QueueInv(0, 0)
    BY <1>1 DEF Init, QueueInv
  <2>2. PoolInv(0, 0, 0)
    <3>1. {Back(pool.read_index, j) : j \in 0 + 1 .. pool.free_available_count} = {}
      BY DEF Init, hci_mem_pool_open
    <3>2. Spans(pool, 0)
      BY <1>1, <3>1 DEF Init, hci_mem_pool_open, Spans
    <3> QED
      BY <1>1, <3>2 DEF Init, hci_mem_pool_open, PoolInv, Receiving
  <2>3. FlashInv(0, 0)
    BY DEF Init, FlashInv
  <2> QED
    BY <1>1, <2>1, <2>2, <2>3 DEF DataInv
<1> QED
  BY <1>2, <1>3, <1>4, <1>5, <1>6 DEF IInv

\* The invariant that the others follow from.
THEOREM Invariance == Spec => []IInv
<1>1. Init => IInv
  BY InitInv
<1>2. IInv /\ [Next]_vars => IInv'
  BY TypeStep, LinkStep, EventsStep, CountStep, NotesStep, DataStep DEF IInv
<1> QED
  BY <1>1, <1>2, PTL DEF Spec

\* The variables have their types: in particular no more packets are counted
\* than the image has, and every command in the flash queue stays inside it.
THEOREM TypeCorrect == Spec => []TypeOK
<1>1. IInv => TypeOK
  BY DEF IInv
<1> QED
  BY <1>1, Invariance, PTL

\* The pool gives no buffer to a new packet before the flash has read it.
THEOREM BuffersKept == Spec => []StoresKept
<1>1. IInv => StoresKept
  BY DEF IInv, DataInv, PoolInv, IsStore, StoresKept
<1> QED
  BY <1>1, Invariance, PTL

\* The flash queue is never full while data arrives: a save and one store per
\* buffer of the pool is all it ever holds.
THEOREM QueueNeverFull == Spec => []QueueHasRoom
<1>1. IInv => QueueHasRoom
  <2> SUFFICES ASSUME IInv, m_update_status = "UPDATING" PROVE Len(queue) <= PoolSize + 2
    BY DEF QueueHasRoom, QueueSize
  <2>1. PICK lo \in 0 .. 2, k \in 0 .. PoolSize : lo + k = Len(queue)
    BY DEF IInv, DataInv, QueueInv
  <2> QED
    BY <2>1, PoolSizeAssumption
<1> QED
  BY <1>1, Invariance, PTL

\* Transport and radio agree on the link once the events are handled.
THEOREM StaysReachable == Spec => []NeverDark
<1>1. IInv => NeverDark
  <2> SUFFICES ASSUME IInv, events = << >>
               PROVE  /\ m_conn_handle <=> air \in {"up", "closing"}
                      /\ m_is_advertising <=> air = "adv"
                      /\ air = "down" => m_tear_down_in_progress
    BY DEF NeverDark
  <2>1. Len(events) = 0
    OBVIOUS
  <2>2. \A op : ~OneLink(events, op) /\ ~BothLinks(events)
    BY <2>1 DEF OneLink, BothLinks
  <2> QED
    BY <2>2 DEF IInv, LinkInv, Link
<1> QED
  BY <1>1, Invariance, PTL

\* A packet that was counted is in flash or in the queue for it.
LEMMA KeptOrQueued ==
  ASSUME IInv, NEW lo \in 0 .. 2, NEW k \in 0 .. PoolSize, QueueInv(lo, k), FlashInv(lo, k),
         NEW n \in 1 .. Len(taken)
  PROVE  \/ flash[n - 1] = taken[n]
         \/ \E j \in 1 .. Len(queue) : /\ queue[j].op = "store" /\ queue[j].at = n - 1
                                      /\ queue[j].n = taken[n]
<1>1. /\ Len(taken) \in Nat /\ Len(taken) <= Total /\ Total \in Nat /\ Len(queue) \in Nat
      /\ PoolSize \in Nat
  BY BleAssumption, PoolSizeAssumption, TypedMeans DEF BleAssumption, IInv, Typed, CountInv
<1>2. bank.state \notin {"IDLE", "PREPARING"}
  BY <1>1 DEF IInv, CountInv
<1>3. n - 1 \in Unit /\ (n - 1) + 1 = n
  BY <1>1 DEF Unit
<1>4. CASE n - 1 < Len(taken) - Undone(lo, k)
  BY <1>2, <1>3, <1>4 DEF FlashInv
<1>5. CASE ~(n - 1 < Len(taken) - Undone(lo, k))
  <2> DEFINE j == (n - 1) - Len(taken) + (lo + k) + 1
  <2>1. Undone(lo, k) \in Int /\ Undone(lo, k) <= k
    BY <1>1 DEF Undone
  <2>2. j \in lo + 1 .. lo + k /\ j \in 1 .. lo + k
    BY <1>1, <1>5, <2>1
  <2>3. j \in 1 .. Len(queue)
    BY <1>1, <2>2 DEF QueueInv
  <2>4. Len(taken) - (lo + k) + (j - 1) = n - 1
    BY <1>1
  <2> HIDE DEF j
  <2>5. /\ queue[j].op = "store" /\ queue[j].at = Len(taken) - (lo + k) + (j - 1)
        /\ queue[j].n = taken[queue[j].at + 1]
    BY <2>2, <2>3 DEF QueueInv, IsStore
  <2> QED
    BY <1>3, <2>3, <2>4, <2>5
<1> QED
  BY <1>4, <1>5

\* What a receipt or a report counts is kept.
THEOREM CountedIsKept == Spec => []ReceiptsHold
<1>1. IInv => ReceiptsHold
  <2> SUFFICES ASSUME IInv, NEW i \in 1 .. Len(notes), NEW n \in 1 .. notes[i].n
               PROVE  /\ n <= Len(taken)
                      /\ \/ flash[n - 1] = taken[n]
                         \/ \E j \in 1 .. Len(queue) :
                              queue[j].op = "store" /\ queue[j].at = n - 1 /\ queue[j].n = taken[n]
    BY DEF ReceiptsHold
  <2>1. notes[i] \in NoteSet /\ Len(taken) \in Nat
    BY TypedMeans DEF IInv, Typed
  <2>2. notes[i].n \in 0 .. Total
    BY <2>1 DEF NoteSet
  <2>3. notes[i].n <= Len(taken)
    BY DEF IInv, NotesInv
  <2>4. n \in 1 .. Len(taken)
    BY <2>1, <2>2, <2>3, BleAssumption DEF BleAssumption
  <2> QED
    BY <2>1, <2>4, KeptOrQueued DEF IInv, DataInv
<1> QED
  BY <1>1, Invariance, PTL

\* A host that is told of success has what it was told of in flash.
THEOREM SuccessIsStored == Spec => []FinalMeansStored
<1>1. IInv => FinalMeansStored
  <2> SUFFICES ASSUME IInv, NEW i \in 1 .. Len(notes)
               PROVE  /\ notes[i] = Response("RECEIVE", TRUE) =>
                           Len(taken) = Total /\ \A n \in 1 .. Total : flash[n - 1] = taken[n]
                      /\ notes[i] = Response("VALIDATE", TRUE) => Whole
    BY DEF FinalMeansStored
  <2>1. PICK lo \in 0 .. 2, k \in 0 .. PoolSize, r \in 0 .. PoolSize :
          QueueInv(lo, k) /\ PoolInv(lo, k, r) /\ FlashInv(lo, k)
    BY DEF IInv, DataInv
  <2>2. ASSUME notes[i] = Response("RECEIVE", TRUE)
        PROVE  Len(taken) = Total /\ \A n \in 1 .. Total : flash[n - 1] = taken[n]
    <3>1. Len(taken) = Total /\ NoStores
      BY <2>2 DEF IInv, NotesInv
    <3>2. \A n \in 1 .. Total : flash[n - 1] = taken[n]
      BY <2>1, <3>1, KeptOrQueued DEF NoStores, IsStore
    <3> QED
      BY <3>1, <3>2
  <2>3. ASSUME notes[i] = Response("VALIDATE", TRUE) PROVE Whole
    BY <2>1, <2>3 DEF IInv, NotesInv, FlashInv
  <2> QED
    BY <2>2, <2>3
<1> QED
  BY <1>1, Invariance, PTL

-----------------------------------------------------------------------------
(* The order of the packets taken, as long as none was refused.  What an      *)
(* acknowledged receipt or a report stands for decides where the host goes    *)
(* on, so the invariant follows the host's writes through the events and the  *)
(* answers through the notes.                                                 *)

Got   == Len(taken)
Sent  == host.at - FirstData
HasOp(s, op) == \E i \in 1 .. Len(s) : s[i].op = op
Early == {"IDLE", "PREPARING", "RDY", "RX_INIT_PKT"}
Typing == {"START", "INIT", "INIT_COMPLETE", "FW"}
Even   == Packet \ {"odd"}
IsReceipt(note) == note.type = "receipt"
InitOk(note)    == note.type = "INIT" /\ note.ok
Told    == /\ m_pkt_notif.enabled <=> host.interval # 0
           /\ m_pkt_notif.enabled => m_pkt_notif.target = host.interval
Aligned == m_pkt_notif.enabled =>
             m_pkt_notif.cnt = m_pkt_notif.target - (Got % m_pkt_notif.target)

\* A link: what there is before its host has subscribed, and after it is gone.
ConnInv ==
  /\ air = "adv" => events = << >>
  /\ air = "up" /\ ~cccd => \A i \in 1 .. Len(events) : events[i].op = "connected"
  /\ ~cccd => notes = << >>
  /\ cccd => air \in {"up", "closing"}
  /\ m_tear_down_in_progress => air \in {"closing", "down"}
  /\ air = "down" /\ ~m_tear_down_in_progress => host.losses # 0
  /\ \A i \in 1 .. Len(events) : events[i].op = "disconnected" => i = Len(events)

\* The first writes of a link, and where the host waits for nothing.
BeginInv ==
  /\ air \in {"adv", "up"} /\ host.losses = 0 /\ (host.at = 1 \/ ~cccd)
       => m_pkt_type = "INVALID"
  /\ cccd /\ host.at = 1 =>
       /\ \A i \in 1 .. Len(events) : events[i].op \in {"connected", "sizes"}
       /\ \A i \in 1 .. Len(notes) : ~InitOk(notes[i])
  /\ cccd => /\ host.at \in {1, 2, 3, 5, 6, GaveUp, Ends} => host.awaits = "none"
             /\ host.at = 7 => host.awaits \in {"none", "INIT"}
             /\ host.at \in FirstData .. LastData => host.awaits \in {"none", "receipt", "report"}

\* The sizes follow their START and the init packet its INIT; or they are the
\* first write of all.
PacketsInv ==
  /\ \A i \in 1 .. Len(events) :
       /\ events[i].op = "sizes" =>
            \/ IF i = 1 THEN m_pkt_type = "START" ELSE events[i - 1].op = "START"
            \/ /\ m_pkt_type = "INVALID"
               /\ \A j \in 1 .. i - 1 : events[j].op \in {"connected", "sizes"}
       /\ events[i].op = "init" =>
            IF i = 1 THEN m_pkt_type = "INIT" ELSE events[i - 1].op = "INIT"
  /\ cccd /\ host.at = 3 =>
       IF events = << >> THEN m_pkt_type = "START" ELSE events[Len(events)].op = "START"
  /\ cccd /\ host.at = 5 =>
       IF events = << >> THEN m_pkt_type = "INIT" ELSE events[Len(events)].op = "INIT"

\* The receipt interval is known before the bank is prepared.
ToldInv ==
  /\ \A i \in 1 .. Len(events) :
       /\ events[i].op = "PRN" =>
            /\ events[i].n = host.interval
            /\ \A j \in 1 .. i - 1 : events[j].op \in {"connected", "sizes"}
       /\ events[i].op \in Typing => Told \/ \E j \in 1 .. i - 1 : events[j].op = "PRN"
  /\ m_pkt_type # "INVALID" => Told
  /\ bank.state # "IDLE" => m_pkt_type # "INVALID"
  /\ cccd /\ host.at \notin {1, GaveUp, Ends} => Told \/ HasOp(events, "PRN")
  /\ \A i \in 1 .. Len(notes) : notes[i].type \notin {"receipt", "report"} =>
       notes[i].n = 0 /\ (notes[i].ok => bank.state # "IDLE")

\* The count for receipts is in step with the packets taken, from the first
\* packet on.
CntInv ==
  /\ Got = 0 => Aligned
  /\ (cccd /\ host.at = 7 /\ host.awaits = "none") \/ host.at \in FirstData .. LastData + 1 =>
       bank.state \notin Early /\ (Got < Total => Aligned /\ ~HasOp(events, "PRN"))
  /\ cccd /\ host.at <= 7 => ~HasOp(events, "data")
  /\ cccd /\ host.at = 7 /\ host.awaits = "none" => Got = 0
  /\ HasOp(events, "data") => bank.state \notin Early
  /\ \A i \in 1 .. Len(notes) : InitOk(notes[i]) =>
       /\ bank.state \notin Early
       /\ host.at <= 7 => Got = 0 /\ ~HasOp(events, "PRN")

\* The data packets under way: one after the other, the next one first, unless
\* they are dropped, to the last of them.
BlockInv ==
  /\ \A i, j \in 1 .. Len(events) :
       events[i].op = "data" /\ events[j].op = "data" /\ i <= j =>
         /\ events[j].n = events[i].n + (j - i)
         /\ \A k \in i .. j : events[k].op = "data"
  /\ \A i \in 1 .. Len(events) :
       events[i].op = "data" /\ (i > 1 => events[i - 1].op # "data") =>
         events[i].n = Got + 1 \/ (i = 1 /\ m_pkt_type # "FW")

\* The host in the middle of the data.
Sending == cccd /\ host.at \in FirstData .. LastData
NoneLost == HasOp(events, "data") \/ Got = Sent \/ (events = << >> /\ m_pkt_type # "FW")
SendInv ==
  /\ cccd /\ host.at <= 7 => \A i \in 1 .. Len(notes) : ~IsReceipt(notes[i])
  /\ Sending => \A i \in 1 .. Len(events) : events[i].op = "data" =>
       /\ events[i].n <= Sent
       /\ host.interval # 0 /\ events[i].n % host.interval = 0 =>
            host.awaits = "receipt" /\ events[i].n = Sent
  /\ Sending => \A i \in 1 .. Len(notes) : IsReceipt(notes[i]) =>
       /\ host.awaits = "receipt" /\ Got = Sent /\ ~HasOp(events, "data")
       /\ \A j \in 1 .. Len(notes) : IsReceipt(notes[j]) => i = j
  /\ Sending /\ host.awaits = "none" =>
       /\ \A i \in 1 .. Len(events) : events[i].op = "data" =>
            /\ events[i].n = Sent - (Len(events) - i)
            /\ \A j \in i .. Len(events) : events[j].op = "data"
       /\ NoneLost
  /\ cccd /\ host.awaits = "report" =>
       /\ host.at \in FirstData .. LastData + 1
       /\ \A i \in 1 .. Len(events) : events[i].op \notin Even
       /\ \A i \in 1 .. Len(notes) : /\ ~IsReceipt(notes[i])
                                     /\ notes[i].type = "report" => notes[i].n = Got

Unbroken == /\ ConnInv /\ BeginInv /\ PacketsInv /\ ToldInv /\ CntInv /\ BlockInv /\ SendInv
OrderInv == /\ TakenInOrder
            /\ Alive /\ ~refused => Unbroken

\* What the steps of the device do to all this.
Hears(note) == cccd /\ air = "up" /\ notes' = Append(notes, note)
Rests == UNCHANGED <<host, cccd, m_tear_down_in_progress>>

Idles ==
  /\ Rests /\ UNCHANGED <<air, events, m_pkt_type, m_pkt_notif, taken>>
  /\ bank'.state = bank.state \/ (bank.state = "PREPARING" /\ bank'.state = "RDY")
  /\ \/ notes' = notes
     \/ \E proc \in {"START", "RECEIVE"} :
          Hears(Response(proc, TRUE)) /\ bank'.state # "IDLE"

Closes ==
  /\ UNCHANGED <<host, cccd, notes, m_pkt_type, m_pkt_notif, taken, bank.state>>
  /\ m_tear_down_in_progress'
  /\ \/ UNCHANGED events
     \/ \E op \in {"ACTIVATE", "SYS_RESET"} : Takes(op)
  /\ \/ air = "up" /\ air' = "closing"
     \/ air = "adv" /\ air' = "down"
     \/ air \in {"closing", "down"} /\ UNCHANGED air

Connects ==
  /\ Takes("connected")
  /\ Rests /\ UNCHANGED <<air, notes, m_pkt_type, m_pkt_notif, taken, bank>>

Disconnects ==
  /\ Takes("disconnected") /\ air = "down"
  /\ Rests /\ UNCHANGED <<notes, m_pkt_type, m_pkt_notif, taken, bank>>
  /\ IF m_tear_down_in_progress THEN UNCHANGED air ELSE air' = "adv"

Learns ==
  /\ Takes("PRN")
  /\ Rests /\ UNCHANGED <<air, notes, m_pkt_type, taken, bank>>
  /\ m_pkt_notif' = IF Head(events).n = 0
                      THEN [m_pkt_notif EXCEPT !.enabled = FALSE, !.target = 0]
                      ELSE [enabled |-> TRUE, target |-> Head(events).n,
                            cnt |-> Head(events).n]

Turns(op) ==
  /\ Takes(op)
  /\ Rests /\ UNCHANGED <<air, m_pkt_notif, taken>>
  /\ m_pkt_type' = IF op = "INIT_COMPLETE" THEN "INIT" ELSE op
  /\ IF op # "INIT_COMPLETE" THEN UNCHANGED <<notes, bank>>
     ELSE \E ok \in BOOLEAN :
            /\ IF ok THEN bank.state = "RX_INIT_PKT" /\ bank'.state = "RX_DATA_PKT"
                     ELSE UNCHANGED bank
            /\ notes' = notes \/ Hears(Response("INIT", ok))

Answers ==
  /\ \E op \in {"VALIDATE", "SIZE"} : Takes(op)
  /\ Rests /\ UNCHANGED <<air, m_pkt_type, m_pkt_notif, taken>>
  /\ \/ bank'.state = bank.state
     \/ bank.state = "RX_DATA_PKT" /\ bank'.state \in {"VALIDATE", "WAIT_4_ACTIVATE"}
  /\ \/ notes' = notes
     \/ Hears(Report(Got))
     \/ \E ok \in BOOLEAN : Hears(Response("VALIDATE", ok)) /\ (ok => bank'.state # "IDLE")

Drops(op) ==
  /\ Takes(op) /\ m_pkt_type # "FW"
  /\ Rests /\ UNCHANGED <<air, m_pkt_type, m_pkt_notif, taken>>
  /\ \/ bank'.state = bank.state
     \/ bank.state = "IDLE" /\ bank'.state = "PREPARING" /\ m_pkt_type = "START"
     \/ bank.state \in {"RDY", "RX_INIT_PKT"} /\ bank'.state = "RX_INIT_PKT"
  /\ \/ notes' = notes
     \/ \E proc \in {"START", "INIT"} : Hears(Response(proc, FALSE))

Counts == m_pkt_notif.enabled /\ Got + 1 # Total
Accepts(op) ==
  /\ Takes(op) /\ op # "odd" /\ m_pkt_type = "FW"
  /\ Rests /\ UNCHANGED <<air, m_pkt_type>>
  /\ bank.state = "RX_DATA_PKT" /\ bank'.state = bank.state /\ Got < Total
  /\ taken' = Append(taken, Head(events).n)
  /\ m_pkt_notif' = IF Counts THEN [m_pkt_notif EXCEPT !.cnt = NextCnt(@)] ELSE m_pkt_notif
  /\ \/ notes' = notes
     \/ Counts /\ m_pkt_notif.cnt = 1 /\ Hears(Receipt(Got + 1))

HostDoes ==
  /\ Connect \/ Subscribe \/ HostWrites \/ HostStrays \/ HostResets \/ HostReads
     \/ LinkLost \/ LinkClosed
  /\ UNCHANGED <<m_pkt_type, m_pkt_notif, taken, bank, m_tear_down_in_progress>>

Does ==
  \/ HostDoes \/ Idles \/ Closes \/ Connects \/ Disconnects \/ Learns
  \/ (\E op \in Typing : Turns(op))
  \/ Answers
  \/ \E op \in Packet : Drops(op) \/ Accepts(op)

\* Once the session is over or a packet was refused, this stays so.
LEMMA StaysBroken == [Next]_vars /\ Alive' /\ ~refused' => Alive /\ ~refused
<1> SUFFICES ASSUME [Next]_vars, Alive', ~refused' PROVE Alive /\ ~refused
  OBVIOUS
<1> USE DEF deviceVars, stackVars, linkVars, dataVars, history, poolVars, flashVars
<1>1. CASE Leave
  BY <1>1 DEF Leave, Alive
<1>5. CASE UNCHANGED vars
  BY <1>5 DEF vars, Alive
<1>2. CASE Host \/ HostReads \/ LinkLost \/ LinkClosed \/ NoBleEvent \/ FlashWorks \/ Timeout
  BY <1>2 DEF Host, Connect, Subscribe, HostWrites, HostStrays, HostResets, HostReads,
     LinkLost, LinkClosed, LinkDown, NoBleEvent, FlashWorks, Timeout
<1>3. CASE OnSocEvent
  <2>1. Alive /\ UNCHANGED history
    BY <1>3 DEF OnSocEvent, NoSocEvent, BankCleared, PacketStored, SettingsErased,
       SettingsSaved, Finishes
  <2> QED
    BY <2>1 DEF history
<1>4. CASE OnBleEvent
  <2>1. Alive
    BY <1>4 DEF OnBleEvent, OnConnected, OnDisconnected, ControlRefused, OnPktRcptNotif,
         OnStart, OnInit, OnReceiveFw, OnInitComplete, OnValidate, OnActivate, OnSysReset,
         OnImageSizeReq, PacketIgnored, StartData, InitData, AppData, TakesControl,
         TakesPacket, Takes
  <2>2. CASE AppData
    BY <2>1, <2>2 DEF AppData, DataAccepted, DataRefused
  <2>3. CASE ~AppData
    <3>1. UNCHANGED dataVars \/ UNCHANGED history
      <4> HIDE DEF dataVars, history
      <4> QED
        BY <1>4, <2>3 DEF OnBleEvent, OnConnected, OnDisconnected, ControlRefused,
           OnPktRcptNotif, OnStart, OnInit, OnReceiveFw, OnInitComplete, OnValidate,
           OnActivate, OnSysReset, OnImageSizeReq, PacketIgnored, StartData, InitData, Expects
    <3> QED
      BY <2>1, <3>1
  <2> QED
    BY <2>2, <2>3
<1> QED
  BY <1>1, <1>2, <1>3, <1>4, <1>5 DEF Next

LEMMA HearsOrNot ==
  ASSUME NEW note, NEW status, Alive', NotifyThen(note, status)
  PROVE  notes' = notes \/ Hears(note)
BY DEF NotifyThen, Up, Hears

LEMMA CloseKind ==
  ASSUME LinkInv, NEW status, Close(status), Alive'
  PROVE  /\ UNCHANGED <<cccd, notes>> /\ m_tear_down_in_progress'
         /\ \/ air = "up" /\ air' = "closing"
            \/ air = "adv" /\ air' = "down"
            \/ air \in {"closing", "down"} /\ UNCHANGED air
<1>1. m_update_status' # "FAULT"
  BY DEF Alive
<1>2. UNCHANGED <<cccd, notes>> /\ m_tear_down_in_progress'
  BY DEF Close
<1>3. CASE m_conn_handle /\ air = "up" /\ air' = "closing"
  BY <1>2, <1>3
<1>4. CASE Stale /\ UNCHANGED air
  BY <1>2, <1>4 DEF Stale, LinkInv, Link
<1>5. CASE ~m_conn_handle /\ m_is_advertising /\ air = "adv" /\ air' = "down"
  BY <1>2, <1>5
<1>6. CASE ~m_conn_handle /\ ~m_is_advertising /\ UNCHANGED air
  BY <1>2, <1>6 DEF LinkInv, Link
<1> QED
  BY <1>1, <1>3, <1>4, <1>5, <1>6 DEF Close

\* Every step is one of these kinds, while the session lasts and takes what comes.
LEMMA StepKinds == IInv /\ [Next]_vars /\ Alive' /\ ~refused' => Does
<1> SUFFICES ASSUME IInv, [Next]_vars, Alive', ~refused' PROVE Does
  OBVIOUS
<1> USE DEF stackVars, linkVars, dataVars, history, poolVars, flashVars, Rests
<1>1. /\ Typed /\ LinkInv /\ bank \in BankSet /\ queue \in Seq(CommandSet)
      /\ m_num_of_firmware_bytes_rcvd = Got
      /\ bank.received = Got \/ (bank.received = Overrun /\ Got = Total)
  BY TypedMeans DEF IInv, CountInv, Got, Typed
<1>2. m_update_status' # "FAULT" /\ Alive
  BY StaysBroken DEF Alive
<1>B. \A b \in BankSet : \A x : /\ [b EXCEPT !.state = x].state = x
                               /\ [b EXCEPT !.received = x].state = b.state
                               /\ [b EXCEPT !.timedOut = x].state = b.state
  BY DEF BankSet
<1>3. CASE Host \/ HostReads \/ LinkLost \/ LinkClosed
  BY <1>3 DEF Host, Connect, Subscribe, HostWrites, HostStrays, HostResets, HostReads, LinkLost,
     LinkClosed, LinkDown, deviceVars, HostDoes, Does
<1>4. CASE NoBleEvent \/ FlashWorks \/ NoSocEvent \/ SettingsErased \/ SettingsSaved
           \/ UNCHANGED vars
  <2>1. Idles
    BY <1>4 DEF NoBleEvent, FlashWorks, NoSocEvent, SettingsErased, SettingsSaved, Finishes,
       Quiet, vars, Idles
  <2> QED
    BY <2>1 DEF Does
<1>5. CASE BankCleared
  <2>1. queue # << >>
    BY <1>5 DEF BankCleared, Finishes, IInv, DataInv, QueueInv
  <2>2. bank.state = "PREPARING"
    <3>1. queue[1].op = "clear" /\ 1 \in 1 .. Len(queue)
      BY <1>1, <1>5, <2>1, HeadTailProperties DEF BankCleared, Finishes
    <3> QED
      BY <3>1 DEF IInv, DataInv, QueueInv
  <2>3. bank'.state = "RDY"
    BY <1>1, <1>5, <1>B DEF BankCleared
  <2>4. notes' = notes \/ Hears(Response("START", TRUE))
    BY <1>5, HearsOrNot DEF BankCleared, Notify
  <2>5. UNCHANGED <<host, cccd, m_tear_down_in_progress, air, events, m_pkt_type, m_pkt_notif,
                    taken>>
    BY <1>5 DEF BankCleared, Finishes
  <2>6. Idles
    BY <2>2, <2>3, <2>4, <2>5 DEF Idles
  <2> QED
    BY <2>6 DEF Does
<1>6. CASE PacketStored
  <2>1. notes' = notes \/ (Hears(Response("RECEIVE", TRUE)) /\ bank.state = "RX_DATA_PKT")
    BY <1>2, <1>6, HearsOrNot DEF PacketStored, Notify, Quiet
  <2>2. UNCHANGED <<host, cccd, m_tear_down_in_progress, air, events, m_pkt_type, m_pkt_notif,
                    taken, bank>>
    BY <1>6 DEF PacketStored, Finishes
  <2>3. Idles
    BY <2>1, <2>2 DEF Idles
  <2> QED
    BY <2>3 DEF Does
<1>7. CASE Timeout
  <2>1. bank'.state = bank.state
    BY <1>1, <1>7, <1>B DEF Timeout
  <2>2. Closes
    BY <1>1, <1>7, <2>1, CloseKind DEF Timeout, Closes
  <2> QED
    BY <2>2 DEF Does
<1>8. CASE OnActivate \/ OnSysReset
  <2>1. \E op \in {"ACTIVATE", "SYS_RESET"} : Takes(op)
    BY <1>8 DEF OnActivate, OnSysReset, TakesControl
  <2>2. \E status : Close(status)
    BY <1>8 DEF OnActivate, OnSysReset
  <2>3. Closes
    BY <1>1, <1>8, <2>1, <2>2, CloseKind DEF OnActivate, OnSysReset, Closes, Takes
  <2> QED
    BY <2>3 DEF Does
<1>9. CASE OnConnected
  <2>1. Connects
    BY <1>9 DEF OnConnected, Connects, Takes
  <2> QED
    BY <2>1 DEF Does
<1>10. CASE OnDisconnected
  <2>1. air = "down" /\ ~m_is_advertising
    <3>1. /\ events \in Seq(EventSet) /\ events # << >> /\ events[1].op = "disconnected"
          /\ "disconnected" \in LinkOp /\ "connected" \in LinkOp
      BY <1>1, <1>10, TypedMeans, TakesEffect DEF OnDisconnected, Takes, Typed, LinkOp
    <3>2. ~NoLink(events) /\ ~OneLink(events, "connected") /\ ~BothLinks(events)
      BY <3>1, LinkTails
    <3> QED
      BY <1>1, <3>2 DEF LinkInv, Link
  <2>2. Disconnects
    BY <1>10, <2>1 DEF OnDisconnected, Disconnects, Takes
  <2> QED
    BY <2>2 DEF Does
<1>11. CASE OnPktRcptNotif
  <2>1. Learns
    BY <1>11 DEF OnPktRcptNotif, TakesControl, Takes, Learns, Quiet
  <2> QED
    BY <2>1 DEF Does
<1>12. CASE OnStart \/ OnInit \/ OnReceiveFw
  <2>1. \E op \in {"START", "INIT", "FW"} : Turns(op)
    BY <1>12 DEF OnStart, OnInit, OnReceiveFw, TakesControl, Takes, Expects, Quiet, Turns
  <2> QED
    BY <2>1 DEF Does, Typing
<1>13. CASE OnInitComplete
  <2>1. PICK ok \in BOOLEAN :
          /\ ok => bank.state = "RX_INIT_PKT"
          /\ bank' = IF ok THEN [bank EXCEPT !.state = "RX_DATA_PKT"] ELSE bank
          /\ Notify(Response("INIT", ok))
    BY <1>13 DEF OnInitComplete
  <2>2. notes' = notes \/ Hears(Response("INIT", ok))
    BY <2>1, HearsOrNot DEF Notify
  <2>3. ok => bank'.state = "RX_DATA_PKT"
    BY <1>1, <1>B, <2>1
  <2>4. /\ Takes("INIT_COMPLETE") /\ m_pkt_type' = "INIT"
        /\ UNCHANGED <<host, cccd, m_tear_down_in_progress, air, m_pkt_notif, taken>>
    BY <1>13 DEF OnInitComplete, TakesControl, Takes, Expects
  <2>5. Turns("INIT_COMPLETE")
    BY <2>1, <2>2, <2>3, <2>4 DEF Turns
  <2> QED
    BY <2>5 DEF Does, Typing
<1>14. CASE OnValidate
  <2>1. PICK ok \in BOOLEAN :
          /\ \/ bank'.state = bank.state /\ ~ok
             \/ bank.state = "RX_DATA_PKT" /\ bank'.state \in {"VALIDATE", "WAIT_4_ACTIVATE"}
          /\ Notify(Response("VALIDATE", ok))
    <3> DEFINE begins == bank.state = "RX_DATA_PKT" /\ bank.received = Total
               good   == begins /\ ~bank.timedOut /\ Whole
    <3>1. /\ bank' = IF good THEN [bank EXCEPT !.state = "WAIT_4_ACTIVATE"]
                     ELSE IF begins THEN [bank EXCEPT !.state = "VALIDATE"] ELSE bank
          /\ Notify(Response("VALIDATE", good))
      BY <1>14 DEF OnValidate
    <3>2. good \in BOOLEAN /\ (good => begins) /\ (begins => bank.state = "RX_DATA_PKT")
      OBVIOUS
    <3> HIDE DEF good, begins
    <3> QED
      BY <1>1, <1>B, <3>1, <3>2
  <2>2. notes' = notes \/ Hears(Response("VALIDATE", ok))
    BY <2>1, HearsOrNot DEF Notify
  <2>4. /\ Takes("VALIDATE")
        /\ UNCHANGED <<host, cccd, m_tear_down_in_progress, air, m_pkt_type, m_pkt_notif, taken>>
    BY <1>14 DEF OnValidate, TakesControl, Takes
  <2>5. Answers
    BY <2>1, <2>2, <2>4 DEF Answers
  <2> QED
    BY <2>5 DEF Does
<1>15. CASE OnImageSizeReq
  <2>2. notes' = notes \/ Hears(Report(Got))
    BY <1>1, <1>15, HearsOrNot DEF OnImageSizeReq, Notify
  <2>4. /\ Takes("SIZE")
        /\ UNCHANGED <<host, cccd, m_tear_down_in_progress, air, m_pkt_type, m_pkt_notif, taken,
                       bank>>
    BY <1>15 DEF OnImageSizeReq, TakesControl, Takes
  <2>5. Answers
    BY <2>2, <2>4 DEF Answers
  <2> QED
    BY <2>5 DEF Does
<1>16. CASE PacketIgnored \/ StartData \/ InitData
  <2>1. PICK op \in Packet : Takes(op)
    BY <1>16 DEF PacketIgnored, StartData, InitData, TakesPacket
  <2>2. /\ m_pkt_type # "FW"
        /\ UNCHANGED <<host, cccd, m_tear_down_in_progress, air, m_pkt_type, m_pkt_notif, taken>>
    BY <1>16, <2>1 DEF PacketIgnored, StartData, InitData, TakesPacket, Takes
  <2>3. notes' = notes \/ \E proc \in {"START", "INIT"} : Hears(Response(proc, FALSE))
    BY <1>16, HearsOrNot DEF PacketIgnored, StartData, InitData, Notify, Quiet
  <2>4. \/ bank'.state = bank.state
        \/ bank.state = "IDLE" /\ bank'.state = "PREPARING" /\ m_pkt_type = "START"
        \/ bank.state \in {"RDY", "RX_INIT_PKT"} /\ bank'.state = "RX_INIT_PKT"
    <3>1. CASE PacketIgnored
      BY <3>1 DEF PacketIgnored
    <3>2. CASE StartData
      <4>1. \/ bank' = bank
            \/ /\ bank.state = "IDLE" /\ bank' = [bank EXCEPT !.state = "PREPARING"]
               /\ m_pkt_type = "START"
        BY <3>2 DEF StartData, TakesPacket
      <4>2. [bank EXCEPT !.state = "PREPARING"].state = "PREPARING"
        BY <1>1, <1>B
      <4> QED
        BY <4>1, <4>2
    <3>3. CASE InitData
      <4>1. \/ bank' = bank
            \/ /\ bank.state \in {"RDY", "RX_INIT_PKT"}
               /\ bank' = [bank EXCEPT !.state = "RX_INIT_PKT"]
        BY <3>3 DEF InitData
      <4> QED
        BY <1>1, <1>B, <4>1
    <3> QED
      BY <1>16, <3>1, <3>2, <3>3
  <2>5. Drops(op)
    BY <2>1, <2>2, <2>3, <2>4 DEF Drops
  <2> QED
    BY <2>5 DEF Does
<1>17. CASE AppData
  <2>1. PICK op \in Packet : Takes(op) /\ m_pkt_type = "FW"
    BY <1>17 DEF AppData, TakesPacket
  <2>2. PICK p, b : /\ DataAccepted(p, b) /\ bank.state = "RX_DATA_PKT"
                    /\ bank.received < Total /\ op # "odd"
    BY <1>17, <2>1 DEF AppData, DataRefused, Takes
  <2>3. bank.received = Got /\ Got < Total
    BY <1>1, <2>2, BleAssumption DEF BleAssumption, Overrun
  <2>4. bank'.state = bank.state
    BY <1>1, <1>B, <2>2 DEF DataAccepted
  <2>5. m_num_of_firmware_bytes_rcvd' = Got + 1
    BY <1>1, <2>2 DEF DataAccepted, Counted
  <2>6. /\ taken' = Append(taken, Head(events).n) /\ UNCHANGED m_pkt_type
        /\ m_pkt_notif' = IF Counts THEN [m_pkt_notif EXCEPT !.cnt = NextCnt(@)]
                          ELSE m_pkt_notif
    BY <2>2, <2>3 DEF DataAccepted, Counts
  <2>7. notes' = notes \/ (Counts /\ m_pkt_notif.cnt = 1 /\ Hears(Receipt(Got + 1)))
    BY <2>2, <2>3, <2>5, HearsOrNot DEF DataAccepted, Notify, Quiet, Counts
  <2>8. UNCHANGED <<host, cccd, m_tear_down_in_progress, air>>
    BY <1>17, <2>1 DEF AppData, Takes
  <2>9. Accepts(op)
    BY <2>1, <2>2, <2>3, <2>4, <2>6, <2>7, <2>8 DEF Accepts
  <2> QED
    BY <2>9 DEF Does
<1>18. ~ControlRefused /\ ~Leave
  BY <1>2 DEF ControlRefused, Leave, Alive
<1> QED
  BY <1>3, <1>4, <1>5, <1>6, <1>7, <1>8, <1>9, <1>10, <1>11, <1>12, <1>13, <1>14, <1>15, <1>16,
     <1>17, <1>18 DEF Next, OnBleEvent, OnSocEvent

\* The places in the script.
LEMMA Places ==
  /\ Total \in Nat /\ Total >= 1 /\ FirstData = 8 /\ LastData = 7 + Total
  /\ Ends = 10 + Total /\ GaveUp = 11 + Total
BY BleAssumption DEF BleAssumption, FirstData, LastData, Ends, GaveUp

\* What the host does when it writes, and when it reads.
Keeps == host'.interval = host.interval /\ host'.losses = host.losses
Writes(e) ==
  /\ events' = Append(events, e) /\ e \in EventSet /\ e.op \in Control \cup Packet
  /\ cccd /\ air = "up" /\ host.awaits = "none" /\ host.at < Ends /\ UNCHANGED <<air, cccd, notes>>
  /\ Keeps /\ host'.at = host.at + 1 /\ host'.awaits # "report"
  /\ host.at = 1 => e = Write("PRN", host.interval)
  /\ host.at = 2 => e.op = "START"
  /\ host.at = 3 => e.op = "sizes"
  /\ host.at = 4 => e.op = "INIT"
  /\ host.at = 5 => e.op = "init"
  /\ host.at = 6 => e.op = "INIT_COMPLETE" /\ host'.awaits = "INIT"
  /\ host.at = 7 => e.op = "FW"
  /\ host.at \in FirstData .. LastData => e.op = "data" /\ e.n = host.at - 7
  /\ host.at \in FirstData .. LastData - 1 =>
       host'.awaits = IF host.interval # 0 /\ (host.at - 7) % host.interval = 0
                      THEN "receipt" ELSE "none"
  /\ host.at > LastData => e.op \in {"VALIDATE", "ACTIVATE"}
  /\ host.at \in {1, 2, 4, 5, 7, LastData + 2} => host'.awaits = "none"

LEMMA HostWrote == ASSUME Typed, HostWrites PROVE \E e : Writes(e)
<1> DEFINE e == Script(host.interval)[host.at]
<1>1. host.at \in 1 .. Ends - 1 /\ host.interval \in Intervals /\ host \in HostSet
  <2>1. host \in HostSet /\ host.at \in 1 .. GaveUp /\ host.interval \in Intervals
    BY RecordTypes DEF Typed
  <2> QED
    BY <2>1, Places DEF HostWrites
<1>2. /\ events' = Append(events, e) /\ cccd /\ air = "up" /\ host.awaits = "none"
      /\ UNCHANGED <<air, cccd, notes>>
      /\ host' = [host EXCEPT !.at = host.at + 1, !.awaits = WaitsFor(host.at)]
  BY DEF HostWrites, stackVars
<1>3. /\ Keeps /\ host'.at = host.at + 1 /\ host'.awaits = WaitsFor(host.at)
  BY <1>1, <1>2 DEF Keeps, HostSet
<1>4. e \in EventSet /\ e.op \in Control \cup Packet
  BY <1>1, ScriptTypes DEF EventSet
<1>5. /\ host.at = 1 => e = Write("PRN", host.interval)
      /\ host.at = 2 => e.op = "START"
      /\ host.at = 3 => e.op = "sizes"
      /\ host.at = 4 => e.op = "INIT"
      /\ host.at = 5 => e.op = "init"
      /\ host.at = 6 => e.op = "INIT_COMPLETE"
      /\ host.at = 7 => e.op = "FW"
      /\ host.at \in FirstData .. LastData => e.op = "data" /\ e.n = host.at - 7
      /\ host.at \in {LastData + 1, LastData + 2} => e.op \in {"VALIDATE", "ACTIVATE"}
  <2> HIDE DEF e
  <2>1. /\ host.at = 1 => e = Write("PRN", host.interval)
        /\ host.at = 2 => e = Write("START", 0)
        /\ host.at = 3 => e = Write("sizes", 0)
        /\ host.at = 4 => e = Write("INIT", 0)
        /\ host.at = 5 => e = Write("init", 0)
        /\ host.at = 6 => e = Write("INIT_COMPLETE", 0)
        /\ host.at = 7 => e = Write("FW", 0)
        /\ host.at \in FirstData .. LastData => e = Write("data", host.at - 7)
        /\ host.at = LastData + 1 => e = Write("VALIDATE", 0)
        /\ host.at = LastData + 2 => e = Write("ACTIVATE", 0)
    BY <1>1, ScriptIs DEF e
  <2> QED
    BY <2>1 DEF Write
<1> HIDE DEF e
<1>6. host.at > LastData => host.at \in {LastData + 1, LastData + 2}
  BY <1>1, Places
<1>7. /\ WaitsFor(host.at) # "report"
      /\ host.at = 6 => WaitsFor(host.at) = "INIT"
      /\ host.at \in FirstData .. LastData - 1 =>
           WaitsFor(host.at) = IF host.interval # 0 /\ (host.at - 7) % host.interval = 0
                               THEN "receipt" ELSE "none"
      /\ host.at \in {1, 2, 4, 5, 7, LastData + 2} => WaitsFor(host.at) = "none"
  BY <1>1, Places DEF WaitsFor
<1>8. host.at < Ends
  BY <1>1, Places
<1> QED
  BY <1>2, <1>3, <1>4, <1>5, <1>6, <1>7, <1>8 DEF Writes

Reads(note) ==
  /\ note \in NoteSet /\ note = notes[1] /\ Len(notes) >= 1
  /\ cccd /\ air \in {"up", "closing"} /\ Keeps /\ UNCHANGED events
  /\ Len(notes') = Len(notes) - 1
  /\ \A i \in 1 .. Len(notes') : notes'[i] = notes[i + 1] /\ i + 1 \in 1 .. Len(notes)
  /\ \/ UNCHANGED host
     \/ /\ host'.awaits = "none" /\ host.at \notin {GaveUp, Ends}
        /\ \/ host'.at = GaveUp
           \/ note.type = "receipt" /\ host.awaits = "receipt" /\ host'.at = host.at
           \/ note.type = "report" /\ host.awaits = "report" /\ host'.at = FirstData + note.n
           \/ /\ note.ok /\ note.type \in {"START", "INIT", "RECEIVE", "VALIDATE"}
              /\ \/ host'.at = After(note.type) /\ host'.at > host.at
                 \/ note.type = host.awaits /\ host'.at = host.at

LEMMA HostRead ==
  ASSUME Typed, ~cccd => notes = << >>, HostReads
  PROVE  \E note : Reads(note) /\ UNCHANGED <<air, cccd>>
<1> DEFINE note == Head(notes)
<1>1. host \in HostSet /\ notes \in Seq(NoteSet) /\ notes # << >> /\ notes' = Tail(notes)
  BY DEF Typed, HostReads
<1>2. /\ note \in NoteSet /\ note = notes[1] /\ Len(notes) >= 1 /\ cccd
      /\ air \in {"up", "closing"} /\ UNCHANGED <<events, air, cccd>>
      /\ Len(notes') = Len(notes) - 1
      /\ \A i \in 1 .. Len(notes') : notes'[i] = notes[i + 1] /\ i + 1 \in 1 .. Len(notes)
  BY <1>1, HeadTailProperties DEF HostReads, stackVars
<1>3. UNCHANGED host \/ (host' = Heard(note) /\ host.at \notin {GaveUp, Ends})
  BY DEF HostReads
<1> HIDE DEF note
<1>4. note.type \in {"START", "INIT", "RECEIVE", "VALIDATE", "receipt", "report"}
      /\ note.ok \in BOOLEAN
  BY <1>2 DEF NoteSet
<1>5. ASSUME host' = Heard(note)
      PROVE  /\ Keeps
             /\ \/ UNCHANGED host
                \/ /\ host'.awaits = "none"
                   /\ \/ host'.at = GaveUp
                      \/ /\ note.type = "receipt" /\ host.awaits = "receipt"
                         /\ host'.at = host.at
                      \/ /\ note.type = "report" /\ host.awaits = "report"
                         /\ host'.at = FirstData + note.n
                      \/ /\ note.ok /\ note.type \in {"START", "INIT", "RECEIVE", "VALIDATE"}
                         /\ \/ host'.at = After(note.type) /\ host'.at > host.at
                            \/ note.type = host.awaits /\ host'.at = host.at
  <2>E. /\ \A x \in Nat : /\ [host EXCEPT !.awaits = "none", !.at = x].at = x
                           /\ [host EXCEPT !.awaits = "none", !.at = x].awaits = "none"
                           /\ [host EXCEPT !.awaits = "none", !.at = x].interval = host.interval
                           /\ [host EXCEPT !.awaits = "none", !.at = x].losses = host.losses
                           /\ [host EXCEPT !.at = x, !.awaits = "none"].at = x
                           /\ [host EXCEPT !.at = x, !.awaits = "none"].awaits = "none"
                           /\ [host EXCEPT !.at = x, !.awaits = "none"].interval = host.interval
                           /\ [host EXCEPT !.at = x, !.awaits = "none"].losses = host.losses
        /\ [host EXCEPT !.awaits = "none"].at = host.at
        /\ [host EXCEPT !.awaits = "none"].awaits = "none"
        /\ [host EXCEPT !.awaits = "none"].interval = host.interval
        /\ [host EXCEPT !.awaits = "none"].losses = host.losses
    BY <1>1 DEF HostSet
  <2>N. /\ GaveUp \in Nat /\ FirstData + note.n \in Nat
        /\ note.type \in {"START", "INIT", "RECEIVE", "VALIDATE"} => After(note.type) \in Nat
    BY <1>2, Places DEF After, NoteSet
  <2>1. CASE ~note.ok
    <3>1. Heard(note) = [host EXCEPT !.at = GaveUp, !.awaits = "none"]
      BY <2>1 DEF Heard
    <3> QED
      BY <1>5, <2>1, <2>E, <2>N, <3>1 DEF Keeps
  <2>2. CASE note.ok /\ note.type = "receipt" /\ host.awaits = "receipt"
    <3>1. Heard(note) = [host EXCEPT !.awaits = "none"]
      BY <2>2 DEF Heard
    <3> QED
      BY <1>5, <2>2, <2>E, <2>N, <3>1 DEF Keeps
  <2>3. CASE note.ok /\ note.type = "report" /\ host.awaits = "report"
    <3>1. Heard(note) = [host EXCEPT !.awaits = "none", !.at = FirstData + note.n]
      BY <2>3 DEF Heard
    <3> QED
      BY <1>5, <2>3, <2>E, <2>N, <3>1 DEF Keeps
  <2>4. CASE /\ note.ok /\ note.type \in {"START", "INIT", "RECEIVE", "VALIDATE"}
             /\ After(note.type) > host.at
    <3>1. Heard(note) = [host EXCEPT !.at = After(note.type), !.awaits = "none"]
      BY <2>4 DEF Heard
    <3> QED
      BY <1>5, <2>4, <2>E, <2>N, <3>1 DEF Keeps
  <2>5. CASE /\ note.ok /\ note.type \in {"START", "INIT", "RECEIVE", "VALIDATE"}
             /\ ~(After(note.type) > host.at) /\ note.type = host.awaits
    <3>1. Heard(note) = [host EXCEPT !.awaits = "none"]
      BY <2>5 DEF Heard
    <3> QED
      BY <1>5, <2>5, <2>E, <3>1 DEF Keeps
  <2>6. CASE /\ note.ok /\ note.type \in {"START", "INIT", "RECEIVE", "VALIDATE"}
             /\ ~(After(note.type) > host.at) /\ note.type # host.awaits
    <3>1. Heard(note) = host
      BY <2>6 DEF Heard
    <3> QED
      BY <1>5, <2>6, <2>E, <3>1 DEF Keeps
  <2>7. CASE note.ok /\ note.type \in {"receipt", "report"} /\ host.awaits # note.type
    <3>1. Heard(note) = host
      BY <2>7 DEF Heard
    <3> QED
      BY <1>5, <2>7, <2>E, <3>1 DEF Keeps
  <2> QED
    BY <1>4, <2>1, <2>2, <2>3, <2>4, <2>5, <2>6, <2>7
<1>6. CASE UNCHANGED host
  BY <1>2, <1>6 DEF Reads, Keeps
<1>7. CASE host' = Heard(note) /\ host.at \notin {GaveUp, Ends}
  BY <1>2, <1>5, <1>7 DEF Reads
<1> QED
  BY <1>3, <1>6, <1>7

\* The oldest event is gone; there is one more; the same of what is notified.
Popped(op) ==
  /\ Len(events) \in Nat /\ Len(events) >= 1 /\ Len(events') = Len(events) - 1
  /\ events # << >> /\ events[1].op = op /\ Head(events) = events[1] /\ UNCHANGED host
  /\ \A i \in 1 .. Len(events') : events'[i] = events[i + 1] /\ i + 1 \in 1 .. Len(events)
  /\ \A i \in 1 .. Len(events) :
       i = 1 \/ (i - 1 \in 1 .. Len(events') /\ events'[i - 1] = events[i])
Pushed(e) ==
  /\ Len(events) \in Nat /\ Len(events') = Len(events) + 1
  /\ events'[Len(events) + 1] = e /\ Len(events) + 1 \in 1 .. Len(events')
  /\ \A i \in 1 .. Len(events) : events'[i] = events[i] /\ i \in 1 .. Len(events')
  /\ \A i \in 1 .. Len(events') : i \in 1 .. Len(events) \/ i = Len(events) + 1
Noted(note) ==
  /\ Len(notes) \in Nat /\ Len(notes') = Len(notes) + 1
  /\ notes'[Len(notes) + 1] = note /\ Len(notes) + 1 \in 1 .. Len(notes')
  /\ \A i \in 1 .. Len(notes) : notes'[i] = notes[i] /\ i \in 1 .. Len(notes')
  /\ \A i \in 1 .. Len(notes') : i \in 1 .. Len(notes) \/ i = Len(notes) + 1

LEMMA Moves ==
  ASSUME Typed
  PROVE  /\ \A op : Takes(op) => Popped(op)
         /\ \A e \in EventSet : events' = Append(events, e) => Pushed(e)
         /\ \A note : Hears(note) => Noted(note) /\ cccd /\ air = "up"
         /\ Len(events) \in Nat /\ Len(notes) \in Nat
         /\ events = << >> <=> Len(events) = 0
<1>1. events \in Seq(EventSet) /\ notes \in Seq(NoteSet)
  BY DEF Typed
<1>2. ASSUME NEW op, Takes(op) PROVE Popped(op)
  <2>1. events # << >> /\ events' = Tail(events) /\ Head(events).op = op /\ UNCHANGED host
    BY <1>2 DEF Takes
  <2> QED
    BY <1>1, <2>1, HeadTailProperties DEF Popped
<1>3. ASSUME NEW e \in EventSet, events' = Append(events, e) PROVE Pushed(e)
  BY <1>1, <1>3 DEF Pushed
<1>4. ASSUME NEW note, Hears(note) PROVE Noted(note) /\ cccd /\ air = "up"
  BY <1>1, <1>4 DEF Noted, Hears
<1>5. Len(events) \in Nat /\ Len(notes) \in Nat /\ (events = << >> <=> Len(events) = 0)
  BY <1>1
<1> QED
  BY <1>2, <1>3, <1>4, <1>5

\* The events that are written here.
LEMMA WriteTypes ==
  /\ \A op \in Control \cup LinkOp \cup {"sizes", "odd"} :
       Write(op, 0) \in EventSet /\ Write(op, 0).op = op /\ Write(op, 0).n = 0
  /\ {"SIZE", "SYS_RESET", "connected", "disconnected"} \subseteq Control \cup LinkOp \cup {"sizes"}
BY DEF Write, EventSet, Control, Packet, LinkOp

\* While the radio has a link, that it is gone is no event yet.
LEMMA LinkUp ==
  ASSUME Typed, LinkInv, air \in {"up", "closing"}
  PROVE  /\ \A i \in 1 .. Len(events) : events[i].op # "disconnected"
         /\ air = "closing" => m_tear_down_in_progress
<1>1. "disconnected" \in LinkOp
  BY DEF LinkOp
<1> QED
  BY <1>1 DEF LinkInv, Link, NoLink, OneLink

\* The host, by what its steps do.
Stands(op) == host'.at = host.at /\ host'.awaits = host.awaits /\ Keeps /\ Pushed(Write(op, 0))
Arrives ==
  /\ air = "adv" /\ air' = "up" /\ UNCHANGED <<cccd, notes>> /\ Stands("connected")
Asks ==
  /\ air = "up" /\ ~cccd /\ cccd' /\ UNCHANGED <<air, notes>> /\ Pushed(Write("SIZE", 0))
  /\ host.awaits = "link" /\ host.at \in FirstData .. LastData + 1
  /\ host'.at = host.at /\ host'.awaits = "report" /\ Keeps
Begins ==
  /\ air = "up" /\ ~cccd /\ cccd' /\ UNCHANGED <<air, notes, events>>
  /\ host'.awaits = "none" /\ Keeps /\ host'.at = IF host.at = GaveUp THEN GaveUp ELSE 1
Strays ==
  /\ air = "up" /\ cccd /\ UNCHANGED <<air, cccd, notes>>
  /\ \/ host.awaits # "none" /\ \E op \in (Control \ {"PRN", "INIT"}) \cup {"odd"} : Stands(op)
     \/ host.awaits = "none" /\ host.at = 1 /\ host.losses = 0 /\ Stands("sizes")
Resets ==
  /\ air = "up" /\ cccd /\ UNCHANGED <<air, cccd, notes>> /\ Pushed(Write("SYS_RESET", 0))
  /\ host'.at = Ends /\ host'.awaits = "none" /\ host.awaits = "none" /\ Keeps
Goes ==
  /\ air' = "down" /\ ~cccd' /\ notes' = << >> /\ Pushed(Write("disconnected", 0))
  /\ host'.at = host.at /\ host'.interval = host.interval
  /\ \/ air = "up" /\ host'.losses = host.losses + 1
     \/ air = "closing"

LEMMA HostKinds ==
  ASSUME Typed, ~cccd => notes = << >>, HostDoes
  PROVE  \/ Arrives \/ Asks \/ Begins \/ (\E e : Writes(e) /\ Pushed(e)) \/ Strays \/ Resets
         \/ (\E note : Reads(note) /\ UNCHANGED <<air, cccd>>)
         \/ Goes
<1> USE Moves, WriteTypes DEF stackVars
<1>1. host \in HostSet
  BY DEF Typed
<1>2. /\ \A a \in AwaitSet : /\ [host EXCEPT !.awaits = a].at = host.at
                            /\ [host EXCEPT !.awaits = a].awaits = a
                            /\ [host EXCEPT !.awaits = a].interval = host.interval
                            /\ [host EXCEPT !.awaits = a].losses = host.losses
      /\ \A x \in Nat : /\ [host EXCEPT !.at = x].at = x
                       /\ [host EXCEPT !.at = x].awaits = host.awaits
                       /\ [host EXCEPT !.at = x].interval = host.interval
                       /\ [host EXCEPT !.at = x].losses = host.losses
      /\ \A x \in Nat : /\ [host EXCEPT !.strays = x].at = host.at
                       /\ [host EXCEPT !.strays = x].awaits = host.awaits
                       /\ [host EXCEPT !.strays = x].interval = host.interval
                       /\ [host EXCEPT !.strays = x].losses = host.losses
      /\ host.at \in Nat /\ host.losses \in Nat /\ host.strays \in Nat
  BY <1>1 DEF HostSet, AwaitSet
<1>3. CASE Connect
  BY <1>3 DEF Connect, Arrives, Stands, Keeps
<1>4. CASE Subscribe
  <2>1. CASE /\ host.awaits = "link" /\ host.at \in FirstData .. LastData + 1
             /\ host' = [host EXCEPT !.awaits = "report"]
             /\ events' = Append(events, Write("SIZE", 0))
    BY <1>2, <1>4, <2>1 DEF Subscribe, Asks, Keeps, AwaitSet
  <2>2. CASE /\ host' = [host EXCEPT !.awaits = "none", !.at = IF @ = GaveUp THEN @ ELSE 1]
             /\ UNCHANGED events
    <3>1. /\ host'.awaits = "none" /\ Keeps
          /\ host'.at = IF host.at = GaveUp THEN GaveUp ELSE 1
      BY <1>1, <2>2 DEF HostSet, Keeps
    <3> QED
      BY <1>4, <2>2, <3>1 DEF Subscribe, Begins
  <2> QED
    BY <1>4, <2>1, <2>2 DEF Subscribe
<1>5. CASE HostWrites
  BY <1>5, HostWrote DEF Writes
<1>6. CASE HostStrays
  <2>1. /\ host'.at = host.at /\ host'.awaits = host.awaits /\ Keeps
        /\ air = "up" /\ cccd /\ UNCHANGED <<air, cccd, notes>>
    <3>1. host' = [host EXCEPT !.strays = host.strays + 1] /\ host.strays + 1 \in Nat
      BY <1>2, <1>6 DEF HostStrays
    <3> QED
      BY <1>2, <1>6, <3>1 DEF HostStrays, Keeps
  <2>2. CASE host.awaits # "none" /\ \E op \in (Control \ {"PRN", "INIT"}) \cup {"odd"} :
               events' = Append(events, Write(op, 0))
    BY <2>1, <2>2 DEF Strays, Stands
  <2>3. CASE /\ host.awaits = "none" /\ host.at = 1 /\ host.losses = 0
             /\ events' = Append(events, Write("sizes", 0))
    BY <2>1, <2>3 DEF Strays, Stands
  <2> QED
    BY <1>6, <2>2, <2>3 DEF HostStrays
<1>7. CASE HostResets
  <2>1. host' = [host EXCEPT !.at = Ends] /\ Ends \in Nat
    BY <1>7, Places DEF HostResets
  <2> QED
    BY <1>2, <1>7, <2>1 DEF HostResets, Resets, Keeps
<1>8. CASE HostReads
  BY <1>8, HostRead
<1>9. CASE LinkLost
  <2>1. /\ host'.at = host.at /\ host'.interval = host.interval /\ host'.losses = host.losses + 1
    BY <1>1, <1>9 DEF LinkLost, HostSet
  <2> QED
    BY <1>9, <2>1 DEF LinkLost, LinkDown, Goes
<1>10. CASE LinkClosed
  <2>1. host'.at = host.at /\ host'.interval = host.interval
    BY <1>1, <1>10 DEF LinkClosed, HostSet
  <2> QED
    BY <1>10, <2>1 DEF LinkClosed, LinkDown, Goes
<1> QED
  BY <1>3, <1>4, <1>5, <1>6, <1>7, <1>8, <1>9, <1>10 DEF HostDoes

-----------------------------------------------------------------------------
LEMMA ConnStep == ASSUME Typed, LinkInv, Typed', ConnInv, Does PROVE ConnInv'
<1> USE Moves
<1>1. CASE Idles
  <2>1. UNCHANGED <<air, events, cccd, m_tear_down_in_progress, host>>
        /\ (notes' = notes \/ cccd)
    BY <1>1 DEF Idles, Rests
  <2> QED
    BY <2>1 DEF ConnInv
<1>2. ASSUME NEW op, Popped(op), cccd' = cccd, notes' = notes \/ cccd,
             \/ UNCHANGED <<air, m_tear_down_in_progress>>
             \/ m_tear_down_in_progress' /\ air = "up" /\ air' = "closing"
             \/ m_tear_down_in_progress' /\ air = "adv" /\ air' = "down"
             \/ m_tear_down_in_progress' /\ air \in {"closing", "down"} /\ UNCHANGED air
      PROVE  ConnInv'
  <2>1. air # "adv"
    BY <1>2 DEF ConnInv, Popped
  <2>2. \A i \in 1 .. Len(events') : events'[i].op = "disconnected" => i = Len(events')
    BY <1>2 DEF ConnInv, Popped
  <2>3. air = "up" /\ ~cccd => \A i \in 1 .. Len(events') : events'[i].op = "connected"
    BY <1>2 DEF ConnInv, Popped
  <2>4. UNCHANGED host
    BY <1>2 DEF Popped
  <2> QED
    BY <1>2, <2>1, <2>2, <2>3, <2>4 DEF ConnInv
<1>3. CASE Closes
  <2>1. CASE \E op \in {"ACTIVATE", "SYS_RESET"} : Takes(op)
    BY <1>2, <1>3, <2>1 DEF Closes
  <2>2. CASE UNCHANGED events
    BY <1>3, <2>2 DEF Closes, ConnInv
  <2> QED
    BY <1>3, <2>1, <2>2 DEF Closes
<1>4. CASE Connects \/ Learns \/ (\E op \in Typing : Turns(op)) \/ Answers
           \/ \E op \in Packet : Drops(op) \/ Accepts(op)
  <2>1. /\ \E op : Takes(op)
        /\ UNCHANGED <<cccd, air, m_tear_down_in_progress>>
        /\ notes' = notes \/ cccd
    BY <1>4 DEF Connects, Learns, Turns, Answers, Drops, Accepts, Hears, Rests
  <2> QED
    BY <1>2, <2>1
<1>5. CASE Disconnects
  <2>1. /\ Popped("disconnected") /\ air = "down" /\ UNCHANGED <<cccd, m_tear_down_in_progress, notes>>
        /\ IF m_tear_down_in_progress THEN UNCHANGED air ELSE air' = "adv"
    BY <1>5 DEF Disconnects, Rests
  <2>2. Len(events) = 1 /\ Len(events') = 0
    BY <2>1 DEF ConnInv, Popped
  <2>3. events' = << >>
    BY <2>2, EmptySeq DEF Typed
  <2> QED
    BY <2>1, <2>2, <2>3 DEF ConnInv
<1>6. CASE HostDoes
  <2>0. UNCHANGED m_tear_down_in_progress
    BY <1>6 DEF HostDoes
  <2>1. CASE Arrives
    BY <2>0, <2>1 DEF ConnInv, Arrives, Stands, Pushed, Write
  <2>2. CASE Asks
    BY <2>0, <2>2, LinkUp DEF ConnInv, Asks, Pushed, Write
  <2>3. CASE Begins
    BY <2>0, <2>3 DEF ConnInv, Begins, Keeps
  <2>4. ASSUME NEW e, Pushed(e), e.op # "disconnected", cccd, air = "up", Keeps,
               UNCHANGED <<air, cccd, notes>>
        PROVE  ConnInv'
    BY <2>0, <2>4, LinkUp DEF ConnInv, Pushed, Keeps
  <2>5. \A op \in Control \cup Packet : op # "disconnected"
    BY DEF Control, Packet
  <2>6. CASE \E e : Writes(e) /\ Pushed(e)
    BY <2>4, <2>5, <2>6 DEF Writes
  <2>7. CASE Strays \/ Resets
    <3>1. {"sizes", "odd"} \subseteq Packet /\ "SYS_RESET" \in Control
      BY DEF Control, Packet
    <3>2. \A op : Write(op, 0).op = op
      BY DEF Write
    <3> QED
      BY <2>4, <2>5, <2>7, <3>1, <3>2 DEF Strays, Resets, Stands
  <2>8. CASE \E note : Reads(note) /\ UNCHANGED <<air, cccd>>
    BY <2>0, <2>8 DEF ConnInv, Reads, Keeps
  <2>9. CASE Goes
    <3>1. \A i \in 1 .. Len(events) : events[i].op # "disconnected"
      BY <2>9, LinkUp DEF Goes
    <3>2. air = "closing" => m_tear_down_in_progress
      BY <2>9, LinkUp
    <3>3. host.losses \in Nat
      BY DEF Typed, HostSet
    <3> QED
      BY <2>0, <2>9, <3>1, <3>2, <3>3 DEF ConnInv, Goes, Pushed
  <2>10. ~cccd => notes = << >>
    BY DEF ConnInv
  <2> QED
    BY <1>6, <2>1, <2>2, <2>3, <2>6, <2>7, <2>8, <2>9, <2>10, HostKinds
<1> QED
  BY <1>1, <1>3, <1>4, <1>5, <1>6 DEF Does

\* Where the host begins.
LEMMA BeginStep ==
  ASSUME Typed, LinkInv, ConnInv, BeginInv, Does
  PROVE  BeginInv'
<1> USE Moves
<1> DEFINE B1 == air \in {"adv", "up"} /\ host.losses = 0 /\ (host.at = 1 \/ ~cccd)
                   => m_pkt_type = "INVALID"
           B2 == cccd /\ host.at = 1 =>
                   /\ \A i \in 1 .. Len(events) : events[i].op \in {"connected", "sizes"}
                   /\ \A i \in 1 .. Len(notes) : ~InitOk(notes[i])
           B3 == cccd =>
                   /\ host.at \in {1, 2, 3, 5, 6, GaveUp, Ends} => host.awaits = "none"
                   /\ host.at = 7 => host.awaits \in {"none", "INIT"}
                   /\ host.at \in FirstData .. LastData =>
                        host.awaits \in {"none", "receipt", "report"}
<1>0. B1 /\ B2 /\ B3 /\ (BeginInv' <=> B1' /\ B2' /\ B3')
  BY DEF BeginInv
<1>1. ASSUME UNCHANGED <<host, cccd>>,
             UNCHANGED events \/ \E op : Popped(op),
             UNCHANGED notes \/ \E note : Noted(note) /\ ~InitOk(note)
      PROVE  B2' /\ B3'
  <2>1. B3'
    BY <1>0, <1>1
  <2>2. ASSUME cccd, host.at = 1
        PROVE  /\ \A i \in 1 .. Len(events') : events'[i].op \in {"connected", "sizes"}
               /\ \A i \in 1 .. Len(notes') : ~InitOk(notes'[i])
    <3>1. \A i \in 1 .. Len(events') : events'[i].op \in {"connected", "sizes"}
      BY <1>0, <1>1, <2>2 DEF Popped
    <3>2. \A i \in 1 .. Len(notes') : ~InitOk(notes'[i])
      <4>1. CASE UNCHANGED notes
        BY <1>0, <2>2, <4>1
      <4>2. CASE \E note : Noted(note) /\ ~InitOk(note)
        BY <1>0, <2>2, <4>2 DEF Noted
      <4> QED
        BY <1>1, <4>1, <4>2
    <3> QED
      BY <3>1, <3>2
  <2> QED
    BY <1>1, <2>1, <2>2
<1>2. CASE Idles
  <2>1. UNCHANGED notes \/ \E note : Noted(note) /\ ~InitOk(note)
    <3>1. \A proc \in {"START", "RECEIVE"} : ~InitOk(Response(proc, TRUE))
      BY DEF InitOk, Response
    <3> QED
      BY <1>2, <3>1 DEF Idles
  <2> QED
    BY <1>0, <1>1, <1>2, <2>1 DEF Idles, Rests
<1>3. CASE Closes
  <2>1. B1'
    BY <1>3 DEF Closes, ConnInv
  <2>2. UNCHANGED events \/ \E op : Popped(op)
    BY <1>3 DEF Closes
  <2> QED
    BY <1>0, <1>1, <1>3, <2>1, <2>2 DEF Closes
<1>4. CASE Connects \/ Learns \/ Disconnects
  <2>1. \E op : Popped(op)
    BY <1>4 DEF Connects, Learns, Disconnects
  <2>2. B1'
    <3>1. CASE UNCHANGED <<air, host, cccd, m_pkt_type>>
      BY <1>0, <3>1
    <3>2. CASE Disconnects /\ ~m_tear_down_in_progress
      BY <3>2 DEF Disconnects, Rests, ConnInv
    <3> QED
      BY <1>4, <3>1, <3>2 DEF Connects, Learns, Disconnects, Rests
  <2> QED
    BY <1>0, <1>1, <1>4, <2>1, <2>2 DEF Connects, Learns, Disconnects, Rests
<1>5. ASSUME NEW op \in Typing, Turns(op) PROVE BeginInv'
  <2>1. Popped(op) /\ UNCHANGED <<host, air, cccd>> /\ 1 \in 1 .. Len(events)
    BY <1>5 DEF Turns, Rests, Popped
  <2>2. op \notin {"connected", "sizes"}
    BY DEF Typing
  <2>3. ~(cccd /\ host.at = 1) /\ ~(air = "up" /\ ~cccd) /\ air # "adv"
    BY <1>0, <2>1, <2>2 DEF Popped, ConnInv
  <2> QED
    BY <1>0, <2>1, <2>3
<1>6. CASE Answers
  <2>1. UNCHANGED notes \/ \E note : Noted(note) /\ ~InitOk(note)
    <3>1. ~InitOk(Report(Got)) /\ \A ok \in BOOLEAN : ~InitOk(Response("VALIDATE", ok))
      BY DEF InitOk, Response, Report
    <3> QED
      BY <1>6, <3>1 DEF Answers
  <2>2. \E op : Popped(op)
    BY <1>6 DEF Answers
  <2> QED
    BY <1>0, <1>1, <1>6, <2>1, <2>2 DEF Answers, Rests
<1>7. ASSUME NEW op \in Packet, Drops(op) \/ Accepts(op) PROVE BeginInv'
  <2>1. UNCHANGED notes \/ \E note : Noted(note) /\ ~InitOk(note)
    <3>1. /\ \A proc \in {"START", "INIT"} : ~InitOk(Response(proc, FALSE))
          /\ ~InitOk(Receipt(Got + 1))
      BY DEF InitOk, Response, Receipt
    <3> QED
      BY <1>7, <3>1 DEF Drops, Accepts
  <2>2. Popped(op)
    BY <1>7 DEF Drops, Accepts
  <2> QED
    BY <1>0, <1>1, <1>7, <2>1, <2>2 DEF Drops, Accepts, Rests
<1>8. CASE HostDoes
  <2>0. UNCHANGED m_pkt_type /\ host.at \in Nat /\ host.at >= 1
    BY <1>8, Places DEF HostDoes, Typed, HostSet
  <2>1. CASE Arrives
    BY <1>0, <2>0, <2>1 DEF Arrives, Stands, Keeps, ConnInv
  <2>2. CASE Asks
    BY <1>0, <2>0, <2>2, Places DEF Asks, Keeps
  <2>3. CASE Begins
    BY <1>0, <2>0, <2>3, Places DEF Begins, Keeps, ConnInv
  <2>4. ASSUME NEW e, Writes(e), Pushed(e) PROVE BeginInv'
    <3>0. /\ host'.at = host.at + 1 /\ host.at < Ends
          /\ host.at \in {1, 2, 4, 5, 7, LastData + 2} => host'.awaits = "none"
      BY <2>4 DEF Writes
    <3>1. host'.at # 1 /\ cccd' /\ host'.at # GaveUp
      BY <2>0, <2>4, <3>0, Places DEF Writes
    <3>2. host'.at \in {2, 3, 5, 6, Ends} => host'.awaits = "none"
      <4>1. host'.at \in {2, 3, 5, 6, Ends} => host.at \in {1, 2, 4, 5, LastData + 2}
        BY <2>0, <3>0, Places
      <4> QED
        BY <3>0, <4>1
    <3>3. host'.at = 7 => host'.awaits = "INIT"
      BY <2>0, <2>4 DEF Writes
    <3>4. host'.at \in FirstData .. LastData => host'.awaits \in {"none", "receipt"}
      <4>1. host'.at = host.at + 1
        BY <2>4 DEF Writes
      <4>2. host'.at \in FirstData .. LastData => host.at = 7 \/ host.at \in FirstData .. LastData - 1
        BY <2>0, <4>1, Places
      <4> QED
        BY <2>4, <4>2 DEF Writes
    <3> QED
      BY <1>0, <3>1, <3>2, <3>3, <3>4
  <2>5. CASE Strays
    <3>1. CASE host.awaits # "none"
      BY <1>0, <2>0, <2>5, <3>1 DEF Strays, Stands, Keeps
    <3>2. CASE host.awaits = "none"
      <4>1. Pushed(Write("sizes", 0)) /\ Write("sizes", 0).op = "sizes" /\ UNCHANGED notes
            /\ host'.at = host.at /\ host'.awaits = host.awaits /\ Keeps
            /\ UNCHANGED <<air, cccd>>
        BY <2>5, <3>2 DEF Strays, Stands, Write
      <4>2. B2'
        BY <1>0, <4>1 DEF Pushed
      <4> QED
        BY <1>0, <2>0, <4>1, <4>2 DEF Keeps
    <3> QED
      BY <3>1, <3>2
  <2>6. CASE Resets
    BY <1>0, <2>0, <2>6, Places DEF Resets, Keeps
  <2>7. ASSUME NEW note, Reads(note), UNCHANGED <<air, cccd>> PROVE BeginInv'
    <3>1. /\ Keeps /\ UNCHANGED events
          /\ \A i \in 1 .. Len(notes') : notes'[i] = notes[i + 1] /\ i + 1 \in 1 .. Len(notes)
      BY <2>7 DEF Reads
    <3>2. UNCHANGED host \/ (host'.awaits = "none" /\ (host'.at = 1 => host.at = 1))
      BY <2>0, <2>7, Places DEF Reads, NoteSet, After
    <3> QED
      BY <1>0, <2>0, <2>7, <3>1, <3>2 DEF Keeps
  <2>8. CASE Goes
    BY <1>0, <2>0, <2>8 DEF Goes
  <2>9. ~cccd => notes = << >>
    BY DEF ConnInv
  <2> QED
    BY <1>8, <2>1, <2>2, <2>3, <2>4, <2>5, <2>6, <2>7, <2>8, <2>9, HostKinds
<1> QED
  BY <1>2, <1>3, <1>4, <1>5, <1>6, <1>7, <1>8 DEF Does

\* What a step of the device does to the packet type that it expects next.
Types(op) == m_pkt_type' = IF op \notin Typing THEN m_pkt_type
                           ELSE IF op = "INIT_COMPLETE" THEN "INIT" ELSE op
LEMMA TypeMoves ==
  ASSUME Typed, Does, ~HostDoes
  PROVE  /\ UNCHANGED <<host, cccd>>
         /\ \/ UNCHANGED <<events, m_pkt_type>>
            \/ \E op : Popped(op) /\ Types(op)
<1> USE Moves
<1>1. CASE Idles
  BY <1>1 DEF Idles, Rests
<1>2. CASE Closes
  <2>1. \A op \in {"ACTIVATE", "SYS_RESET"} : op \notin Typing
    BY DEF Typing
  <2> QED
    BY <1>2, <2>1 DEF Closes, Types
<1>3. CASE Connects \/ Disconnects \/ Learns \/ Answers
           \/ \E op \in Packet : Drops(op) \/ Accepts(op)
  <2>1. \A op \in Packet \cup {"connected", "disconnected", "PRN", "VALIDATE", "SIZE"} :
          op \notin Typing
    BY DEF Typing, Packet
  <2> QED
    BY <1>3, <2>1 DEF Connects, Disconnects, Learns, Answers, Drops, Accepts, Rests, Types
<1>4. CASE \E op \in Typing : Turns(op)
  BY <1>4 DEF Turns, Rests, Types
<1> QED
  BY <1>1, <1>2, <1>3, <1>4 DEF Does

LEMMA PacketsStep ==
  ASSUME Typed, Typed', LinkInv, ConnInv, BeginInv, PacketsInv, Does
  PROVE  PacketsInv'
<1> USE Moves
<1> DEFINE Sizes(i) ==
             \/ IF i = 1 THEN m_pkt_type = "START" ELSE events[i - 1].op = "START"
             \/ /\ m_pkt_type = "INVALID"
                /\ \A j \in 1 .. i - 1 : events[j].op \in {"connected", "sizes"}
           Inits(i) == IF i = 1 THEN m_pkt_type = "INIT" ELSE events[i - 1].op = "INIT"
           P1 == \A i \in 1 .. Len(events) : events[i].op = "sizes" => Sizes(i)
           P2 == \A i \in 1 .. Len(events) : events[i].op = "init" => Inits(i)
           P3 == cccd /\ host.at = 3 =>
                   IF events = << >> THEN m_pkt_type = "START"
                   ELSE events[Len(events)].op = "START"
           P4 == cccd /\ host.at = 5 =>
                   IF events = << >> THEN m_pkt_type = "INIT"
                   ELSE events[Len(events)].op = "INIT"
<1>0. P1 /\ P2 /\ P3 /\ P4 /\ (PacketsInv' <=> P1' /\ P2' /\ P3' /\ P4')
  BY DEF PacketsInv
<1>E. events' = << >> <=> Len(events') = 0
  BY DEF Typed
<1>1. ASSUME NEW op, Popped(op), Types(op), UNCHANGED <<host, cccd>> PROVE PacketsInv'
  <2>1. P1'
    <3> SUFFICES ASSUME NEW i \in 1 .. Len(events'), events'[i].op = "sizes" PROVE Sizes(i)'
      OBVIOUS
    <3>1. i + 1 \in 1 .. Len(events) /\ events[i + 1].op = "sizes" /\ i \in Nat \ {0}
          /\ (i + 1) - 1 = i /\ i + 1 # 1 /\ Sizes(i + 1)
      BY <1>0, <1>1 DEF Popped
    <3>2. CASE events[i].op = "START"
      <4>1. CASE i = 1
        BY <1>1, <3>2, <4>1 DEF Popped, Types, Typing
      <4>2. CASE i # 1
        BY <1>1, <3>1, <3>2, <4>2 DEF Popped
      <4> QED
        BY <4>1, <4>2
    <3>3. CASE /\ m_pkt_type = "INVALID"
               /\ \A j \in 1 .. i : events[j].op \in {"connected", "sizes"}
      <4>1. op \in {"connected", "sizes"}
        BY <1>1, <3>1, <3>3 DEF Popped
      <4>2. m_pkt_type' = "INVALID"
        BY <1>1, <3>3, <4>1 DEF Types, Typing
      <4>3. \A j \in 1 .. i - 1 : events'[j].op \in {"connected", "sizes"}
        <5> TAKE j \in 1 .. i - 1
        <5>1. j + 1 \in 1 .. i /\ j \in 1 .. Len(events')
          BY <3>1
        <5>2. events'[j] = events[j + 1]
          BY <1>1, <5>1 DEF Popped
        <5> QED
          BY <3>3, <5>1, <5>2
      <4> QED
        BY <4>2, <4>3
    <3> QED
      BY <3>1, <3>2, <3>3
  <2>2. P2'
    <3> SUFFICES ASSUME NEW i \in 1 .. Len(events'), events'[i].op = "init" PROVE Inits(i)'
      OBVIOUS
    <3>1. i + 1 \in 1 .. Len(events) /\ events[i + 1].op = "init" /\ i \in Nat \ {0}
          /\ events[i].op = "INIT"
      BY <1>0, <1>1 DEF Popped
    <3>2. CASE i = 1
      BY <1>1, <3>1, <3>2 DEF Popped, Types, Typing
    <3>3. CASE i # 1
      BY <1>1, <3>1, <3>3 DEF Popped
    <3> QED
      BY <3>2, <3>3
  <2>3. ASSUME NEW kind \in {"START", "INIT"}, events[Len(events)].op = kind
        PROVE  IF events' = << >> THEN m_pkt_type' = kind
               ELSE events'[Len(events')].op = kind
    <3>1. CASE Len(events') = 0
      <4>1. op = kind /\ kind \in Typing /\ kind # "INIT_COMPLETE"
        <5>1. Len(events) = 1
          BY <1>1, <3>1 DEF Popped
        <5> QED
          BY <1>1, <2>3, <5>1 DEF Popped, Typing
      <4> QED
        BY <1>1, <1>E, <3>1, <4>1 DEF Types
    <3>2. CASE Len(events') # 0
      BY <1>1, <1>E, <2>3, <3>2 DEF Popped
    <3> QED
      BY <3>1, <3>2
  <2>4. P3' /\ P4'
    BY <1>0, <1>1, <2>3 DEF Popped
  <2> QED
    BY <1>0, <2>1, <2>2, <2>4
<1>2. CASE ~HostDoes
  <2>1. CASE UNCHANGED <<events, m_pkt_type, host, cccd>>
    BY <1>0, <2>1
  <2> QED
    BY <1>1, <1>2, <2>1, TypeMoves
<1>3. CASE HostDoes
  <2>0. UNCHANGED m_pkt_type /\ host.at \in Nat /\ host.at >= 1
    BY <1>3, Places DEF HostDoes, Typed, HostSet
  <2>1. ASSUME NEW e, Pushed(e),
               e.op = "sizes" => \/ Len(events) = 0 /\ m_pkt_type = "START"
                                 \/ Len(events) > 0 /\ events[Len(events)].op = "START"
                                 \/ /\ m_pkt_type = "INVALID"
                                    /\ \A j \in 1 .. Len(events) :
                                         events[j].op \in {"connected", "sizes"},
               e.op = "init" => \/ Len(events) = 0 /\ m_pkt_type = "INIT"
                                \/ Len(events) > 0 /\ events[Len(events)].op = "INIT"
        PROVE  P1' /\ P2'
    <3>1. \A i \in 1 .. Len(events) : (events'[i].op = "sizes" => Sizes(i)')
                                      /\ (events'[i].op = "init" => Inits(i)')
      <4> TAKE i \in 1 .. Len(events)
      <4>1. /\ events'[i] = events[i] /\ (i # 1 => events'[i - 1] = events[i - 1])
            /\ \A j \in 1 .. i - 1 : events'[j] = events[j]
        BY <2>1 DEF Pushed
      <4> QED
        BY <1>0, <2>0, <4>1
    <3>2. ASSUME NEW n \in 1 .. Len(events'), n = Len(events) + 1
          PROVE  (e.op = "sizes" => Sizes(n)') /\ (e.op = "init" => Inits(n)')
      <4>1. /\ (Len(events) + 1) - 1 = Len(events) /\ (Len(events) + 1 = 1 <=> Len(events) = 0)
            /\ Len(events) > 0 => events'[Len(events)] = events[Len(events)]
            /\ \A j \in 1 .. Len(events) : events'[j] = events[j]
        BY <2>1 DEF Pushed
      <4> QED
        BY <2>0, <2>1, <3>2, <4>1
    <3> QED
      BY <2>1, <3>1, <3>2 DEF Pushed
  <2>2. P1' /\ P2'
    <3>1. CASE Arrives \/ Asks \/ Resets \/ Goes
      <4>1. \E op \in {"connected", "SIZE", "SYS_RESET", "disconnected"} : Pushed(Write(op, 0))
        BY <3>1 DEF Arrives, Stands, Asks, Resets, Goes
      <4>2. \A op : Write(op, 0).op = op
        BY DEF Write
      <4> QED
        BY <2>1, <4>1, <4>2
    <3>2. CASE Begins
      BY <1>0, <2>0, <3>2 DEF Begins
    <3>3. ASSUME NEW e, Writes(e), Pushed(e) PROVE P1' /\ P2'
      <4>1. (e.op = "sizes" => host.at = 3) /\ (e.op = "init" => host.at = 5)
        <5>1. host.at \in 1 .. 7 \/ host.at \in FirstData .. LastData \/ host.at > LastData
          BY <2>0, Places
        <5>2. Write("PRN", host.interval).op = "PRN"
          BY DEF Write
        <5>3. CASE host.at \in 1 .. 7
          BY <3>3, <5>2, <5>3 DEF Writes
        <5> QED
          BY <3>3, <5>1, <5>3 DEF Writes
      <4>2. cccd
        BY <3>3 DEF Writes
      <4>3. events = <<>> \/ (Len(events) # 0 /\ Len(events) > 0)
        BY <1>E
      <4>4. events = <<>> => Len(events) = 0
        OBVIOUS
      <4>5. e.op = "sizes" => \/ Len(events) = 0 /\ m_pkt_type = "START"
                              \/ Len(events) > 0 /\ events[Len(events)].op = "START"
        BY <1>0, <4>1, <4>2, <4>3, <4>4
      <4>6. e.op = "init" => \/ Len(events) = 0 /\ m_pkt_type = "INIT"
                             \/ Len(events) > 0 /\ events[Len(events)].op = "INIT"
        BY <1>0, <4>1, <4>2, <4>3, <4>4
      <4>7. Pushed(e)
        BY <3>3
      <4> HIDE DEF P1, P2, P3, P4
      <4> QED
        BY <2>1, <4>5, <4>6, <4>7
    <3>4. CASE Strays
      <4>1. ASSUME NEW op \in Control \cup {"odd"}, Pushed(Write(op, 0)) PROVE P1' /\ P2'
        <5>1. Write(op, 0).op = op /\ op \notin {"sizes", "init"}
          BY DEF Write, Control
        <5> QED
          BY <2>1, <4>1, <5>1
      <4>2. CASE host.at = 1 /\ host.losses = 0 /\ Pushed(Write("sizes", 0))
        <5>1. /\ m_pkt_type = "INVALID" /\ Write("sizes", 0).op = "sizes"
              /\ \A j \in 1 .. Len(events) : events[j].op \in {"connected", "sizes"}
          BY <3>4, <4>2 DEF Strays, BeginInv, Write
        <5> QED
          BY <2>1, <4>2, <5>1
      <4> QED
        BY <3>4, <4>1, <4>2 DEF Strays, Stands
    <3>5. CASE \E note : Reads(note)
      BY <1>0, <2>0, <3>5 DEF Reads
    <3>6. ~cccd => notes = << >>
      BY DEF ConnInv
    <3> QED
      BY <1>3, <3>1, <3>2, <3>3, <3>4, <3>5, <3>6, HostKinds
  <2>3. P3' /\ P4'
    <3>1. CASE Arrives
      BY <3>1 DEF Arrives, ConnInv
    <3>2. CASE Asks \/ Begins \/ Resets \/ Goes
      BY <2>0, <3>2, Places DEF Asks, Begins, Resets, Goes
    <3>3. ASSUME NEW e, Writes(e), Pushed(e) PROVE P3' /\ P4'
      <4>1. host'.at = host.at + 1
        BY <3>3 DEF Writes
      <4>2. events' # << >> /\ events'[Len(events')] = e
        BY <1>E, <3>3 DEF Pushed
      <4>3. /\ host'.at = 3 => e.op = "START"
            /\ host'.at = 5 => e.op = "INIT"
        BY <2>0, <3>3, <4>1 DEF Writes
      <4> QED
        BY <4>2, <4>3
    <3>4. CASE Strays
      <4>1. host'.at \notin {3, 5} /\ cccd
        BY <3>4 DEF Strays, Stands, BeginInv
      <4> QED
        BY <4>1
    <3>5. ASSUME NEW note, Reads(note), UNCHANGED <<air, cccd>> PROVE P3' /\ P4'
      <4>1. UNCHANGED events
        BY <3>5 DEF Reads
      <4>2. UNCHANGED host \/ host'.at \notin {3, 5} \/ host'.at = host.at
        <5>1. /\ GaveUp \notin {3, 5}
              /\ note.type \in {"START", "INIT", "RECEIVE", "VALIDATE"} =>
                   After(note.type) \notin {3, 5}
          BY Places DEF After
        <5>2. FirstData + note.n \notin {3, 5}
          BY <3>5, Places DEF Reads, NoteSet
        <5> QED
          BY <3>5, <5>1, <5>2 DEF Reads
      <4> QED
        BY <1>0, <2>0, <3>5, <4>1, <4>2
    <3>6. ~cccd => notes = << >>
      BY DEF ConnInv
    <3> QED
      BY <1>3, <3>1, <3>2, <3>3, <3>4, <3>5, <3>6, HostKinds
  <2> QED
    BY <1>0, <2>2, <2>3
<1> QED
  BY <1>2, <1>3

\* Where the session is: it does not go back.
LEMMA BankMoves ==
  ASSUME Does
  PROVE  /\ bank.state # "IDLE" => bank'.state # "IDLE"
         /\ bank.state \notin Early => bank'.state \notin Early
         /\ bank.state = "IDLE" /\ bank'.state # "IDLE" => m_pkt_type = "START" /\ UNCHANGED m_pkt_type
<1>1. \/ bank'.state = bank.state
      \/ bank.state = "PREPARING" /\ bank'.state = "RDY"
      \/ bank.state = "RX_INIT_PKT" /\ bank'.state = "RX_DATA_PKT"
      \/ bank.state = "RX_DATA_PKT" /\ bank'.state \in {"VALIDATE", "WAIT_4_ACTIVATE"}
      \/ bank.state = "IDLE" /\ bank'.state = "PREPARING" /\ m_pkt_type = "START" /\ UNCHANGED m_pkt_type
      \/ bank.state \in {"RDY", "RX_INIT_PKT"} /\ bank'.state = "RX_INIT_PKT"
  <2>1. CASE Idles \/ Closes \/ HostDoes \/ Connects \/ Disconnects \/ Learns \/ Answers
    BY <2>1 DEF Idles, Closes, HostDoes, Connects, Disconnects, Learns, Answers
  <2>2. CASE \E op \in Typing : Turns(op)
    BY <2>2 DEF Turns
  <2>3. CASE \E op \in Packet : Drops(op) \/ Accepts(op)
    BY <2>3 DEF Drops, Accepts
  <2> QED
    BY <2>1, <2>2, <2>3 DEF Does
<1> QED
  BY <1>1 DEF Early

\* What the host will hear of a step of the device.
Answer(note) ==
  \/ \E proc \in {"START", "INIT", "RECEIVE", "VALIDATE"} :
       \/ note = Response(proc, FALSE)
       \/ note = Response(proc, TRUE) /\ bank'.state # "IDLE" /\ proc # "INIT"
       \/ /\ note = Response(proc, TRUE) /\ proc = "INIT"
          /\ bank.state = "RX_INIT_PKT" /\ bank'.state = "RX_DATA_PKT"
          /\ events # << >> /\ events[1].op = "INIT_COMPLETE" /\ UNCHANGED taken
  \/ note = Report(Got) /\ UNCHANGED taken
  \/ /\ note = Receipt(Got + 1) /\ Counts /\ m_pkt_notif.cnt = 1
     /\ \E op \in Packet : Accepts(op)
LEMMA AnswerMoves ==
  ASSUME Typed, Does, ~HostDoes
  PROVE  UNCHANGED notes \/ \E note : Noted(note) /\ Answer(note) /\ cccd /\ air = "up"
<1> USE Moves
<1>1. CASE Idles
  BY <1>1 DEF Idles, Answer
<1>2. CASE Closes \/ Connects \/ Disconnects \/ Learns
  BY <1>2 DEF Closes, Connects, Disconnects, Learns
<1>3. ASSUME NEW op \in Typing, Turns(op)
      PROVE  UNCHANGED notes \/ \E note : Noted(note) /\ Answer(note) /\ cccd /\ air = "up"
  <2>1. CASE op # "INIT_COMPLETE"
    BY <1>3, <2>1 DEF Turns
  <2>2. CASE op = "INIT_COMPLETE"
    <3>1. PICK ok \in BOOLEAN :
            /\ IF ok THEN bank.state = "RX_INIT_PKT" /\ bank'.state = "RX_DATA_PKT"
                     ELSE UNCHANGED bank
            /\ notes' = notes \/ Hears(Response("INIT", ok))
      BY <1>3, <2>2 DEF Turns
    <3>2. events # << >> /\ events[1].op = "INIT_COMPLETE" /\ UNCHANGED taken
      BY <1>3, <2>2 DEF Turns, Popped
    <3>3. Answer(Response("INIT", ok))
      <4>1. CASE ok
        BY <3>1, <3>2, <4>1 DEF Answer
      <4>2. CASE ~ok
        BY <4>2 DEF Answer
      <4> QED
        BY <4>1, <4>2
    <3> QED
      BY <3>1, <3>3
  <2> QED
    BY <2>1, <2>2
<1>4. CASE Answers
  <2>1. CASE \E ok \in BOOLEAN : Hears(Response("VALIDATE", ok)) /\ (ok => bank'.state # "IDLE")
    <3>1. PICK ok \in BOOLEAN : Hears(Response("VALIDATE", ok)) /\ (ok => bank'.state # "IDLE")
      BY <2>1
    <3>2. Answer(Response("VALIDATE", ok))
      <4>1. CASE ok
        BY <3>1, <4>1 DEF Answer
      <4>2. CASE ~ok
        BY <4>2 DEF Answer
      <4> QED
        BY <4>1, <4>2
    <3> QED
      BY <3>1, <3>2
  <2>2. CASE Hears(Report(Got))
    BY <1>4, <2>2 DEF Answers, Answer
  <2> QED
    BY <1>4, <2>1, <2>2 DEF Answers
<1>5. CASE \E op \in Packet : Drops(op)
  BY <1>5 DEF Drops, Answer
<1>6. CASE \E op \in Packet : Accepts(op)
  BY <1>6 DEF Accepts, Answer
<1> QED
  BY <1>1, <1>2, <1>3, <1>4, <1>5, <1>6 DEF Does

\* The interval, once told, stays known.
LEMMA ToldMoves ==
  ASSUME Typed, ToldInv, Does, ~HostDoes
  PROVE  /\ Told => Told'
         /\ events # << >> /\ events[1].op = "PRN" /\ ~UNCHANGED events => Told'
<1> USE Moves
<1>1. m_pkt_notif \in NotifSet
  BY DEF Typed
<1>2. CASE Learns
  <2>1. events[1].op = "PRN" /\ 1 \in 1 .. Len(events) /\ UNCHANGED host
        /\ Head(events) = events[1]
    BY <1>2 DEF Learns, Popped
  <2>2. events[1].n = host.interval
    BY <2>1 DEF ToldInv
  <2>3. m_pkt_notif' = IF host.interval = 0
                         THEN [m_pkt_notif EXCEPT !.enabled = FALSE, !.target = 0]
                         ELSE [enabled |-> TRUE, target |-> host.interval, cnt |-> host.interval]
    BY <1>2, <2>1, <2>2 DEF Learns
  <2>4. Told'
    <3>1. CASE host.interval = 0
      <4>1. m_pkt_notif'.enabled = FALSE
        BY <1>1, <2>3, <3>1 DEF NotifSet
      <4> QED
        BY <2>1, <3>1, <4>1 DEF Told
    <3>2. CASE host.interval # 0
      BY <2>1, <2>3, <3>2 DEF Told
    <3> QED
      BY <3>1, <3>2
  <2> QED
    BY <2>4
<1>3. CASE \E op \in Packet : Accepts(op)
  <2>1. /\ m_pkt_notif'.enabled = m_pkt_notif.enabled
        /\ m_pkt_notif'.target = m_pkt_notif.target /\ UNCHANGED host
    BY <1>1, <1>3 DEF Accepts, NotifSet, Rests
  <2>2. events[1].op \in Packet
    BY <1>3 DEF Accepts, Popped
  <2> QED
    BY <2>1, <2>2 DEF Told, Packet
<1>4. CASE Idles \/ Closes \/ Connects \/ Disconnects \/ Answers \/ (\E op \in Packet : Drops(op))
           \/ \E op \in Typing : Turns(op)
  <2>1. UNCHANGED <<m_pkt_notif, host>>
    BY <1>4 DEF Idles, Closes, Connects, Disconnects, Answers, Drops, Turns, Rests
  <2>2. ASSUME ~UNCHANGED events PROVE events[1].op # "PRN"
    <3>1. \E op \in {"ACTIVATE", "SYS_RESET", "connected", "disconnected", "VALIDATE", "SIZE"}
                    \cup Packet \cup Typing : Popped(op)
      BY <1>4, <2>2 DEF Idles, Closes, Connects, Disconnects, Answers, Drops, Turns
    <3> QED
      BY <3>1 DEF Popped, Packet, Typing
  <2> QED
    BY <2>1, <2>2 DEF Told
<1> QED
  BY <1>2, <1>3, <1>4 DEF Does

LEMMA ToldStep ==
  ASSUME Typed, Typed', LinkInv, ConnInv, BeginInv, ToldInv, CntInv, SendInv, Does
  PROVE  ToldInv'
<1> USE Moves
<1> DEFINE T1 == \A i \in 1 .. Len(events) : events[i].op = "PRN" =>
                   /\ events[i].n = host.interval
                   /\ \A j \in 1 .. i - 1 : events[j].op \in {"connected", "sizes"}
           T2 == \A i \in 1 .. Len(events) : events[i].op \in Typing =>
                   Told \/ \E j \in 1 .. i - 1 : events[j].op = "PRN"
           T3 == m_pkt_type # "INVALID" => Told
           T4 == bank.state # "IDLE" => m_pkt_type # "INVALID"
           T5 == cccd /\ host.at \notin {1, GaveUp, Ends} => Told \/ HasOp(events, "PRN")
           T6 == \A i \in 1 .. Len(notes) : notes[i].type \notin {"receipt", "report"} =>
                   notes[i].n = 0 /\ (notes[i].ok => bank.state # "IDLE")
<1>0. T1 /\ T2 /\ T3 /\ T4 /\ T5 /\ T6 /\ (ToldInv' <=> T1' /\ T2' /\ T3' /\ T4' /\ T5' /\ T6')
  BY DEF ToldInv
<1>1. ASSUME NEW op, Popped(op), Types(op), UNCHANGED <<host, cccd>>, ~HostDoes
      PROVE  T1' /\ T2' /\ T3' /\ T5'
  <2>1. Told => Told'
    BY <1>1, ToldMoves
  <2>2. op = "PRN" => Told'
    <3>1. ~UNCHANGED events
      BY <1>1 DEF Popped
    <3> QED
      BY <1>1, <3>1, ToldMoves DEF Popped
  <2>3. T1'
    <3> SUFFICES ASSUME NEW i \in 1 .. Len(events'), events'[i].op = "PRN"
                 PROVE  /\ events'[i].n = host.interval
                        /\ \A j \in 1 .. i - 1 : events'[j].op \in {"connected", "sizes"}
      BY <1>1
    <3>1. i + 1 \in 1 .. Len(events) /\ events[i + 1] = events'[i] /\ i \in Nat
      BY <1>1 DEF Popped
    <3>2. /\ events[i + 1].n = host.interval
          /\ \A j \in 1 .. i : events[j].op \in {"connected", "sizes"}
      BY <1>0, <3>1
    <3>3. ASSUME NEW j \in 1 .. i - 1 PROVE events'[j].op \in {"connected", "sizes"}
      <4>1. j + 1 \in 1 .. i /\ j \in 1 .. Len(events')
        BY <3>1
      <4> QED
        BY <1>1, <3>2, <4>1 DEF Popped
    <3> QED
      BY <3>1, <3>2, <3>3
  <2>4. T2'
    <3> SUFFICES ASSUME NEW i \in 1 .. Len(events'), events'[i].op \in Typing, ~Told'
                 PROVE  \E j \in 1 .. i - 1 : events'[j].op = "PRN"
      OBVIOUS
    <3>1. i + 1 \in 1 .. Len(events) /\ events[i + 1] = events'[i] /\ (i + 1) - 1 = i /\ i \in Nat
      BY <1>1 DEF Popped
    <3>2. PICK j \in 1 .. i : events[j].op = "PRN"
      BY <1>0, <2>1, <3>1
    <3>3. j # 1
      BY <1>1, <2>2, <3>2 DEF Popped
    <3>4. j - 1 \in 1 .. i - 1 /\ j - 1 \in 1 .. Len(events') /\ (j - 1) + 1 = j
      BY <3>1, <3>3
    <3> QED
      BY <1>1, <3>2, <3>4 DEF Popped
  <2>5. T3'
    <3>1. CASE op \in Typing
      <4>1. 1 \in 1 .. Len(events) /\ events[1].op \in Typing
        BY <1>1, <3>1 DEF Popped
      <4>2. Told
        BY <1>0, <4>1
      <4> QED
        BY <2>1, <4>2
    <3>2. CASE op \notin Typing
      BY <1>0, <1>1, <2>1, <3>2 DEF Types
    <3> QED
      BY <3>1, <3>2
  <2>6. T5'
    <3> SUFFICES ASSUME cccd, host.at \notin {1, GaveUp, Ends}, ~Told' PROVE HasOp(events', "PRN")
      BY <1>1
    <3>1. PICK i \in 1 .. Len(events) : events[i].op = "PRN"
      BY <1>0, <2>1 DEF HasOp
    <3>2. i # 1
      BY <1>1, <2>2, <3>1 DEF Popped
    <3> QED
      BY <1>1, <3>1, <3>2 DEF Popped, HasOp
  <2> QED
    BY <2>3, <2>4, <2>5, <2>6
<1>2. T4'
  <2>1. m_pkt_type # "INVALID" => m_pkt_type' # "INVALID"
    <3>1. CASE HostDoes
      BY <3>1 DEF HostDoes
    <3>2. ASSUME NEW op, Types(op) PROVE m_pkt_type # "INVALID" => m_pkt_type' # "INVALID"
      BY <3>2 DEF Types, Typing
    <3> QED
      BY <3>1, <3>2, TypeMoves
  <2> QED
    BY <1>0, <2>1, BankMoves
<1>3. CASE ~HostDoes
  <2>1. T1' /\ T2' /\ T3' /\ T5'
    <3>1. CASE UNCHANGED <<events, m_pkt_type>>
      <4>1. UNCHANGED <<host, cccd>> /\ (Told => Told')
        BY <1>3, TypeMoves, ToldMoves
      <4> QED
        BY <1>0, <3>1, <4>1
    <3> QED
      BY <1>1, <1>3, <3>1, TypeMoves
  <2>2. T6'
    <3>1. bank.state # "IDLE" => bank'.state # "IDLE"
      BY BankMoves
    <3>2. CASE UNCHANGED notes
      BY <1>0, <3>1, <3>2
    <3>3. ASSUME NEW note, Noted(note), Answer(note) PROVE T6'
      <4>1. note.type \notin {"receipt", "report"} => note.n = 0 /\ (note.ok => bank'.state # "IDLE")
        BY <3>3 DEF Answer, Response, Report, Receipt
      <4>2. \A i \in 1 .. Len(notes') : notes'[i] = note \/ \E j \in 1 .. Len(notes) : notes'[i] = notes[j]
        BY <3>3 DEF Noted
      <4> QED
        BY <1>0, <3>1, <4>1, <4>2
    <3> QED
      BY <1>3, <3>2, <3>3, AnswerMoves
  <2> QED
    BY <1>0, <1>2, <2>1, <2>2
<1>4. CASE HostDoes
  <2>0. /\ UNCHANGED <<m_pkt_type, m_pkt_notif, bank>> /\ host.at \in Nat /\ host.at >= 1
        /\ (~cccd => notes = << >>) /\ host'.interval = host.interval
    <3>1. ~cccd => notes = << >>
      BY DEF ConnInv
    <3>2. host'.interval = host.interval
      BY <1>4, <3>1, HostKinds DEF Arrives, Stands, Asks, Begins, Writes, Strays, Resets, Reads,
         Goes, Keeps
    <3> QED
      BY <1>4, <3>1, <3>2, Places DEF HostDoes, Typed, HostSet
  <2>1. (Told <=> Told') /\ T3'
    BY <1>0, <2>0 DEF Told
  <2>2. ASSUME NEW e, Pushed(e),
               e.op = "PRN" => /\ e.n = host.interval
                               /\ \A j \in 1 .. Len(events) : events[j].op \in {"connected", "sizes"},
               e.op \in Typing => Told \/ HasOp(events, "PRN")
        PROVE  T1' /\ T2' /\ (HasOp(events, "PRN") => HasOp(events', "PRN"))
               /\ (e.op = "PRN" => HasOp(events', "PRN"))
    <3>1. T1'
      <4> SUFFICES ASSUME NEW i \in 1 .. Len(events'), events'[i].op = "PRN"
                   PROVE  /\ events'[i].n = host.interval
                          /\ \A j \in 1 .. i - 1 : events'[j].op \in {"connected", "sizes"}
        BY <2>0
      <4>1. \A j \in 1 .. i - 1 : j \in 1 .. Len(events) /\ events'[j] = events[j]
        BY <2>2 DEF Pushed
      <4>2. CASE i \in 1 .. Len(events)
        BY <1>0, <2>2, <4>1, <4>2 DEF Pushed
      <4>3. CASE i = Len(events) + 1
        BY <2>2, <4>1, <4>3 DEF Pushed
      <4> QED
        BY <2>2, <4>2, <4>3 DEF Pushed
    <3>2. T2'
      <4> SUFFICES ASSUME NEW i \in 1 .. Len(events'), events'[i].op \in Typing, ~Told
                   PROVE  \E j \in 1 .. i - 1 : events'[j].op = "PRN"
        BY <2>1
      <4>1. \A j \in 1 .. i - 1 : j \in 1 .. Len(events) /\ events'[j] = events[j]
        BY <2>2 DEF Pushed
      <4>2. CASE i \in 1 .. Len(events)
        BY <1>0, <2>2, <4>1, <4>2 DEF Pushed
      <4>3. CASE i = Len(events) + 1
        BY <2>2, <4>1, <4>3 DEF Pushed, HasOp
      <4> QED
        BY <2>2, <4>2, <4>3 DEF Pushed
    <3>3. (HasOp(events, "PRN") => HasOp(events', "PRN")) /\ (e.op = "PRN" => HasOp(events', "PRN"))
      BY <2>2 DEF Pushed, HasOp
    <3> QED
      BY <3>1, <3>2, <3>3
  <2>3. ASSUME NEW op, op \notin Typing, op # "PRN", Pushed(Write(op, 0))
        PROVE  T1' /\ T2' /\ (HasOp(events, "PRN") => HasOp(events', "PRN"))
    <3>1. Write(op, 0).op = op
      BY DEF Write
    <3> QED
      BY <2>2, <2>3, <3>1
  <2>4. {"connected", "disconnected", "SIZE", "SYS_RESET", "sizes"} \cap (Typing \cup {"PRN"}) = {}
    BY DEF Typing
  <2>5. CASE Arrives
    <3>1. T1' /\ T2' /\ ~cccd'
      BY <2>3, <2>4, <2>5 DEF Arrives, Stands, ConnInv
    <3>2. UNCHANGED notes
      BY <2>5 DEF Arrives
    <3> QED
      BY <1>0, <1>2, <2>0, <2>1, <3>1, <3>2
  <2>6. CASE Asks
    <3>1. T1' /\ T2' /\ UNCHANGED notes
      BY <2>3, <2>4, <2>6 DEF Asks
    <3>2. Told
      BY <1>0, <2>6 DEF Asks, CntInv, Early
    <3> QED
      BY <1>0, <1>2, <2>0, <2>1, <3>1, <3>2
  <2>7. CASE Begins
    <3>1. host'.at \in {1, GaveUp} /\ UNCHANGED <<events, notes>>
      BY <2>7 DEF Begins
    <3> QED
      BY <1>0, <1>2, <2>0, <2>1, <3>1
  <2>8. ASSUME NEW e, Writes(e), Pushed(e) PROVE ToldInv'
    <3>1. cccd /\ host.at < Ends /\ host.at # GaveUp /\ UNCHANGED <<notes, cccd>>
          /\ host'.at = host.at + 1
      BY <2>0, <2>8, Places DEF Writes
    <3>2. host.at = 1 => e.op = "PRN" /\ e.n = host.interval
      BY <2>8 DEF Writes, Write
    <3>3. host.at # 1 => e.op # "PRN"
      <4>1. \/ host.at \in {1, 2, 3, 4, 5, 6, 7} \/ host.at \in FirstData .. LastData
            \/ host.at > LastData
        BY <2>0, Places
      <4> QED
        BY <2>8, <4>1 DEF Writes
    <3>4. host.at # 1 => Told \/ HasOp(events, "PRN")
      BY <1>0, <2>0, <3>1, Places
    <3>5. host.at = 1 => \A j \in 1 .. Len(events) : events[j].op \in {"connected", "sizes"}
      BY <3>1 DEF BeginInv
    <3>6. host.at = 1 => e.op \notin Typing
      BY <3>2 DEF Typing
    <3>7. /\ T1' /\ T2' /\ (HasOp(events, "PRN") => HasOp(events', "PRN"))
          /\ (e.op = "PRN" => HasOp(events', "PRN"))
      BY <2>2, <2>8, <3>2, <3>3, <3>4, <3>5, <3>6
    <3>8. T5'
      BY <2>1, <3>2, <3>4, <3>7
    <3> QED
      BY <1>0, <1>2, <2>0, <2>1, <3>1, <3>7, <3>8
  <2>9. CASE Strays
    <3>1. cccd /\ UNCHANGED <<cccd, notes>> /\ host'.at = host.at
      BY <2>9 DEF Strays, Stands
    <3>2. T1' /\ T2' /\ (HasOp(events, "PRN") => HasOp(events', "PRN"))
      <4>1. CASE host.awaits = "none"
        BY <2>3, <2>4, <2>9, <4>1 DEF Strays, Stands
      <4>2. CASE host.awaits # "none"
        <5>1. PICK op \in (Control \ {"PRN", "INIT"}) \cup {"odd"} : Pushed(Write(op, 0))
          BY <2>9, <4>2 DEF Strays, Stands
        <5>2. Told \/ HasOp(events, "PRN")
          BY <1>0, <3>1, <4>2 DEF BeginInv
        <5>3. Write(op, 0).op = op
          BY DEF Write
        <5> QED
          BY <2>2, <5>1, <5>2, <5>3
      <4> QED
        BY <4>1, <4>2
    <3> QED
      BY <1>0, <1>2, <2>0, <2>1, <3>1, <3>2
  <2>10. CASE Resets
    <3>1. T1' /\ T2' /\ UNCHANGED notes /\ host'.at = Ends
      BY <2>3, <2>4, <2>10 DEF Resets
    <3> QED
      BY <1>0, <1>2, <2>0, <2>1, <3>1
  <2>11. ASSUME NEW note, Reads(note), UNCHANGED <<air, cccd>> PROVE ToldInv'
    <3>1. UNCHANGED events /\ cccd
          /\ \A i \in 1 .. Len(notes') : notes'[i] = notes[i + 1] /\ i + 1 \in 1 .. Len(notes)
      BY <2>11 DEF Reads
    <3>2. T6'
      BY <1>0, <2>0, <3>1
    <3>3. T5'
      <4> SUFFICES ASSUME host'.at \notin {1, GaveUp, Ends} PROVE Told \/ HasOp(events, "PRN")
        BY <2>1, <3>1
      <4>1. CASE host.at \notin {1, GaveUp, Ends}
        BY <1>0, <3>1, <4>1
      <4>2. CASE host.at \in {GaveUp, Ends}
        BY <2>11, <4>2 DEF Reads
      <4>3. CASE host.at = 1
        <5>1. host.awaits = "none"
          BY <3>1, <4>3 DEF BeginInv
        <5>2. /\ note.ok /\ note.type \in {"START", "INIT", "RECEIVE", "VALIDATE"}
              /\ note = notes[1] /\ Len(notes) >= 1
          BY <2>11, <4>3, <5>1 DEF Reads
        <5>3. bank.state # "IDLE"
          BY <1>0, <5>2
        <5> QED
          BY <1>0, <5>3
      <4> QED
        BY <4>1, <4>2, <4>3
    <3> QED
      BY <1>0, <1>2, <2>1, <3>1, <3>2, <3>3, <2>0
  <2>12. CASE Goes
    <3>1. T1' /\ T2' /\ ~cccd'
      BY <2>3, <2>4, <2>12 DEF Goes
    <3>2. T6'
      BY <2>12 DEF Goes
    <3> QED
      BY <1>0, <1>2, <2>1, <3>1, <3>2
  <2> QED
    BY <1>4, <2>0, <2>5, <2>6, <2>7, <2>8, <2>9, <2>10, <2>11, <2>12, HostKinds
<1> QED
  BY <1>3, <1>4

-----------------------------------------------------------------------------
\* The remainder of the next number.
LEMMA NextMod ==
  ASSUME NEW c \in Nat, NEW t \in Nat \ {0}
  PROVE  /\ c % t \in 0 .. t - 1
         /\ (c + 1) % t = IF c % t = t - 1 THEN 0 ELSE (c % t) + 1
         /\ 0 % t = 0
<1> DEFINE q == c \div t
           r == c % t
           q1 == (c + 1) \div t
           r1 == (c + 1) % t
<1>1. /\ q \in Int /\ r \in 0 .. t - 1 /\ c = t * q + r
      /\ q1 \in Int /\ r1 \in 0 .. t - 1 /\ c + 1 = t * q1 + r1
  OBVIOUS
<1> HIDE DEF q, r, q1, r1
<1>2. t * (q1 - q) = r + 1 - r1
  BY <1>1
<1>3. q1 - q >= 0
  <2>1. ASSUME q1 - q <= -1 PROVE FALSE
    <3>1. t * (q1 - q) <= -t
      BY <1>1, <2>1
    <3> QED
      BY <1>1, <1>2, <3>1
  <2> QED
    BY <1>1, <2>1
<1>4. q1 - q <= 1
  <2>1. ASSUME q1 - q >= 2 PROVE FALSE
    <3>1. t * (q1 - q) >= t + t
      BY <1>1, <2>1
    <3> QED
      BY <1>1, <1>2, <3>1
  <2> QED
    BY <1>1, <2>1
<1>5. r1 = IF r = t - 1 THEN 0 ELSE r + 1
  <2>1. CASE q1 - q = 0
    <3>1. t * (q1 - q) = 0
      BY <1>1, <2>1
    <3> QED
      BY <1>1, <1>2, <3>1
  <2>2. CASE q1 - q = 1
    <3>1. t * (q1 - q) = t
      BY <1>1, <2>2
    <3> QED
      BY <1>1, <1>2, <3>1
  <2> QED
    BY <1>1, <1>3, <1>4, <2>1, <2>2
<1> QED
  BY <1>1, <1>5 DEF r, r1

\* A packet that is taken is data: the others come where they are expected.
LEMMA AcceptsData ==
  ASSUME Typed, PacketsInv, NEW op \in Packet, Accepts(op)
  PROVE  /\ op = "data" /\ Popped("data") /\ m_pkt_type = "FW" /\ Got < Total
         /\ UNCHANGED <<host, cccd, air, m_pkt_type, bank.state>>
         /\ bank.state = "RX_DATA_PKT"
         /\ taken' = Append(taken, events[1].n) /\ Got' = Got + 1
<1>1. Popped(op) /\ op # "odd" /\ m_pkt_type = "FW" /\ 1 \in 1 .. Len(events)
  BY Moves DEF Accepts, Popped
<1>2. op = "data"
  BY <1>1 DEF PacketsInv, Popped, Packet
<1>3. Got' = Got + 1
  <2>1. taken \in Seq(0 .. Total) /\ taken' = Append(taken, Head(events).n)
    BY DEF Typed, Accepts
  <2> QED
    BY <2>1 DEF Got
<1> QED
  BY <1>1, <1>2, <1>3 DEF Accepts, Popped, Rests

\* The receipts: what is counted, and what for.
Learned == Popped("PRN") /\ UNCHANGED <<taken, notes>> /\ (Got = 0 => Aligned')
Accepted ==
  /\ Popped("data") /\ m_pkt_type = "FW" /\ Got < Total
  /\ UNCHANGED <<host, cccd, air, m_pkt_type, bank.state>> /\ bank.state = "RX_DATA_PKT"
  /\ taken' = Append(taken, events[1].n) /\ Got' = Got + 1
  /\ Aligned => Got + 1 = Total \/ Aligned'

LEMMA CntMoves ==
  ASSUME Typed, PacketsInv, Does, ~HostDoes
  PROVE  UNCHANGED <<m_pkt_notif, taken>> \/ Learned \/ Accepted
<1> USE Moves
<1>0. m_pkt_notif \in NotifSet /\ Got \in Nat
      /\ (m_pkt_notif.enabled => m_pkt_notif.cnt \in 1 .. m_pkt_notif.target)
  BY DEF Typed, Got
<1>1. CASE Idles \/ Closes \/ Connects \/ Disconnects \/ Answers \/ (\E op \in Packet : Drops(op))
           \/ \E op \in Typing : Turns(op)
  BY <1>1 DEF Idles, Closes, Connects, Disconnects, Answers, Drops, Turns
<1>2. CASE Learns
  <2>1. CASE Head(events).n = 0
    <3>1. m_pkt_notif' = [m_pkt_notif EXCEPT !.enabled = FALSE, !.target = 0]
      BY <1>2, <2>1 DEF Learns
    <3>2. ~m_pkt_notif'.enabled
      BY <1>0, <3>1 DEF NotifSet
    <3> QED
      BY <1>2, <3>2 DEF Learns, Learned, Aligned
  <2>2. CASE Head(events).n # 0
    <3>1. m_pkt_notif' = [enabled |-> TRUE, target |-> Head(events).n, cnt |-> Head(events).n]
          /\ UNCHANGED <<taken, notes>> /\ Popped("PRN")
      BY <1>2, <2>2 DEF Learns
    <3>2. Head(events).n \in Nat \ {0}
      <4>1. events # << >> /\ events \in Seq(EventSet)
        BY <3>1 DEF Popped, Typed
      <4>2. Head(events) \in EventSet
        BY <4>1
      <4> QED
        BY <2>2, <4>2 DEF EventSet
    <3>3. 0 % Head(events).n = 0
      BY <3>2, NextMod
    <3>4. Got = 0 => Aligned'
      BY <3>1, <3>2, <3>3 DEF Aligned, Got
    <3> QED
      BY <3>1, <3>4 DEF Learned
  <2> QED
    BY <2>1, <2>2
<1>3. ASSUME NEW op \in Packet, Accepts(op) PROVE Accepted
  <2>1. /\ Popped("data") /\ m_pkt_type = "FW" /\ Got < Total
        /\ UNCHANGED <<host, cccd, air, m_pkt_type, bank.state>> /\ bank.state = "RX_DATA_PKT"
        /\ taken' = Append(taken, events[1].n) /\ Got' = Got + 1
    BY <1>3, AcceptsData
  <2>2. ASSUME Aligned, Got + 1 # Total PROVE Aligned'
    <3>1. CASE ~m_pkt_notif.enabled
      <4>1. m_pkt_notif' = m_pkt_notif
        BY <1>3, <3>1 DEF Accepts, Counts
      <4> QED
        BY <3>1, <4>1 DEF Aligned
    <3>2. CASE m_pkt_notif.enabled
      <4> DEFINE t == m_pkt_notif.target
      <4>1. m_pkt_notif' = [m_pkt_notif EXCEPT !.cnt = NextCnt(m_pkt_notif.cnt)]
        BY <1>3, <2>2, <3>2 DEF Accepts, Counts
      <4>2. m_pkt_notif'.target = t /\ m_pkt_notif'.cnt = NextCnt(m_pkt_notif.cnt)
        BY <1>0, <4>1 DEF NotifSet
      <4>3. m_pkt_notif.cnt \in 1 .. t /\ m_pkt_notif.cnt = t - (Got % t)
        BY <1>0, <2>2, <3>2 DEF Aligned
      <4>4. t \in Nat \ {0}
        <5>1. t \in Intervals \cup {0}
          BY <1>0 DEF NotifSet
        <5>2. Intervals \cup {0} \subseteq Nat
          BY BleAssumption DEF BleAssumption
        <5> QED
          BY <4>3, <5>1, <5>2
      <4>5. /\ Got % t \in 0 .. t - 1
            /\ (Got + 1) % t = IF Got % t = t - 1 THEN 0 ELSE (Got % t) + 1
        BY <1>0, <4>4, NextMod
      <4> HIDE DEF t
      <4>6. NextCnt(m_pkt_notif.cnt) = IF m_pkt_notif.cnt = 1 THEN t ELSE m_pkt_notif.cnt - 1
        BY DEF NextCnt, t
      <4>7. NextCnt(m_pkt_notif.cnt) = t - ((Got + 1) % t)
        BY <4>3, <4>4, <4>5, <4>6
      <4> QED
        BY <2>1, <4>2, <4>7 DEF Aligned
    <3> QED
      BY <1>0, <3>1, <3>2 DEF NotifSet
  <2> QED
    BY <2>1, <2>2 DEF Accepted
<1> QED
  BY <1>1, <1>2, <1>3 DEF Does

\* Which writes are under way, and which notes.
LEMMA OpMoves ==
  ASSUME Typed
  PROVE  /\ \A op : Popped(op) => /\ HasOp(events, op)
                                  /\ \A x : HasOp(events', x) => HasOp(events, x)
         /\ \A e : Pushed(e) => \A x : HasOp(events', x) <=> HasOp(events, x) \/ e.op = x
         /\ \A note : Noted(note) => \A i \in 1 .. Len(notes') :
              notes'[i] = note \/ \E j \in 1 .. Len(notes) : notes'[i] = notes[j]
BY DEF Popped, Pushed, Noted, HasOp

LEMMA CntStep ==
  ASSUME Typed, Typed', LinkInv, CountInv, NotesInv, ConnInv, BeginInv, PacketsInv, ToldInv,
         CntInv, SendInv, Does
  PROVE  CntInv'
<1> USE Moves
<1> DEFINE AtFw  == cccd /\ host.at = 7 /\ host.awaits = "none"
           N1 == Got = 0 => Aligned
           N2 == AtFw \/ host.at \in FirstData .. LastData + 1 =>
                   bank.state \notin Early /\ (Got < Total => Aligned /\ ~HasOp(events, "PRN"))
           N3 == cccd /\ host.at <= 7 => ~HasOp(events, "data")
           N4 == AtFw => Got = 0
           N5 == HasOp(events, "data") => bank.state \notin Early
           N6 == \A i \in 1 .. Len(notes) : InitOk(notes[i]) =>
                   /\ bank.state \notin Early
                   /\ host.at <= 7 => Got = 0 /\ ~HasOp(events, "PRN")
<1>0. N1 /\ N2 /\ N3 /\ N4 /\ N5 /\ N6 /\ (CntInv' <=> N1' /\ N2' /\ N3' /\ N4' /\ N5' /\ N6')
  BY DEF CntInv
<1>B. bank.state \notin Early => bank'.state \notin Early
  BY BankMoves
<1>1. CASE ~HostDoes
  <2>0. UNCHANGED <<host, cccd>>
    BY <1>1, TypeMoves
  <2>1. \A x : HasOp(events', x) => HasOp(events, x)
    BY <1>1, TypeMoves, OpMoves
  <2>2. ASSUME NEW note, Answer(note), InitOk(note)
        PROVE  /\ bank.state = "RX_INIT_PKT" /\ bank'.state = "RX_DATA_PKT"
               /\ events # << >> /\ events[1].op = "INIT_COMPLETE" /\ UNCHANGED taken
               /\ Got = 0 /\ ~HasOp(events, "PRN")
    <3>1. /\ bank.state = "RX_INIT_PKT" /\ bank'.state = "RX_DATA_PKT"
          /\ events # << >> /\ events[1].op = "INIT_COMPLETE" /\ UNCHANGED taken
      BY <2>2 DEF Answer, InitOk, Response, Report, Receipt
    <3>2. Got = 0
      BY <3>1 DEF CountInv, Got
    <3>3. \A i \in 1 .. Len(events) : events[i].op # "PRN"
      <4> SUFFICES ASSUME NEW i \in 1 .. Len(events), events[i].op = "PRN" PROVE FALSE
        OBVIOUS
      <4>1. \A j \in 1 .. i - 1 : events[j].op \in {"connected", "sizes"}
        BY DEF ToldInv
      <4>2. i = 1 \/ 1 \in 1 .. i - 1
        OBVIOUS
      <4> QED
        BY <3>1, <4>1, <4>2
    <3> QED
      BY <3>1, <3>2, <3>3 DEF HasOp
  <2>3. UNCHANGED notes \/ \E note : Noted(note) /\ Answer(note)
    BY <1>1, AnswerMoves
  <2>4. ASSUME \A i \in 1 .. Len(notes) : InitOk(notes[i]) /\ host.at <= 7 =>
                 Got' = 0 /\ ~HasOp(events', "PRN"),
               \A note : Answer(note) /\ InitOk(note) => Got' = 0 /\ ~HasOp(events', "PRN")
        PROVE  N6'
    <3>1. CASE UNCHANGED notes
      BY <1>0, <1>B, <2>0, <2>4, <3>1
    <3>2. ASSUME NEW note, Noted(note), Answer(note) PROVE N6'
      <4>1. InitOk(note) => bank'.state \notin Early
        BY <2>2, <3>2 DEF Early
      <4> QED
        BY <1>0, <1>B, <2>0, <2>4, <3>2, <4>1, OpMoves
    <3> QED
      BY <2>3, <3>1, <3>2
  <2>5. N5'
    BY <1>0, <1>B, <2>1
  <2>6. CASE UNCHANGED <<m_pkt_notif, taken>>
    <3>1. (Aligned' <=> Aligned) /\ Got' = Got
      BY <2>6 DEF Aligned, Got
    <3>2. N6'
      BY <1>0, <2>1, <2>2, <2>4, <3>1
    <3> QED
      BY <1>0, <1>B, <2>0, <2>1, <2>5, <3>1, <3>2
  <2>7. CASE Learned
    <3>1. HasOp(events, "PRN") /\ events[1].op = "PRN" /\ Got' = Got
      BY <2>7, OpMoves DEF Learned, Popped, Got
    <3>2. \A note : Answer(note) => ~InitOk(note)
      BY <2>2, <3>1
    <3>3. N6'
      BY <1>0, <2>4, <3>1, <3>2
    <3>4. N1'
      BY <2>7, <3>1 DEF Learned
    <3> QED
      BY <1>0, <1>B, <2>0, <2>1, <2>5, <3>1, <3>3, <3>4
  <2>8. CASE Accepted
    <3>1. HasOp(events, "data") /\ events[1].op = "data" /\ Got' = Got + 1 /\ Got \in Nat
      BY <2>8, OpMoves DEF Accepted, Popped, Got, Typed
    <3>2. \A note : Answer(note) => ~InitOk(note)
      BY <2>2, <3>1
    <3>3. ~cccd => notes = << >>
      BY DEF ConnInv
    <3>4. host.at \in Nat /\ (Len(notes) # 0 => host.at > 7)
      <4>1. host.at \in Nat
        BY DEF Typed, HostSet
      <4>2. notes = << >> => Len(notes) = 0
        OBVIOUS
      <4> QED
        BY <1>0, <3>1, <3>3, <4>1, <4>2
    <3>5. N6'
      <4>1. \A i \in 1 .. Len(notes) : ~(host.at <= 7)
        BY <3>4
      <4> QED
        BY <2>4, <3>2, <4>1
    <3>6. ~AtFw
      BY <1>0, <3>1
    <3>7. N2'
      <4>1. host.at \in FirstData .. LastData + 1 /\ Got' < Total => Aligned'
        BY <1>0, <2>8, <3>1 DEF Accepted
      <4> QED
        BY <1>0, <1>B, <2>0, <2>1, <3>1, <3>6, <4>1, Places
    <3> QED
      BY <1>0, <2>0, <2>1, <2>5, <3>1, <3>5, <3>6, <3>7
  <2> QED
    BY <1>1, <2>6, <2>7, <2>8, CntMoves
<1>2. CASE HostDoes
  <2>0. /\ UNCHANGED <<m_pkt_notif, taken, bank>> /\ host.at \in Nat /\ host.at >= 1
        /\ (Aligned' <=> Aligned) /\ Got' = Got /\ (~cccd => notes = << >>) /\ N1'
    BY <1>0, <1>2, Places DEF HostDoes, Typed, HostSet, Aligned, Got, ConnInv
  <2>O. \A op, x : Pushed(Write(op, 0)) =>
           (HasOp(events', x) <=> HasOp(events, x) \/ op = x)
    BY OpMoves DEF Write
  <2>1. CASE Arrives
    <3>1. ~cccd' /\ UNCHANGED notes /\ host'.at = host.at
          /\ \A x \in {"PRN", "data"} : HasOp(events', x) <=> HasOp(events, x)
      BY <2>1, <2>O DEF Arrives, Stands, ConnInv
    <3> QED
      BY <1>0, <2>0, <3>1
  <2>2. CASE Asks
    <3>1. UNCHANGED notes /\ host'.at = host.at /\ host.at \in FirstData .. LastData + 1
          /\ \A x \in {"PRN", "data"} : HasOp(events', x) <=> HasOp(events, x)
      BY <2>2, <2>O DEF Asks
    <3>2. host.at > 7
      BY <3>1, Places
    <3> QED
      BY <1>0, <2>0, <3>1, <3>2
  <2>3. CASE Begins
    <3>1. UNCHANGED <<events, notes>> /\ notes = << >> /\ host'.at \in {1, GaveUp}
      BY <2>0, <2>3 DEF Begins
    <3>2. ~HasOp(events, "data")
      BY <2>3 DEF Begins, ConnInv, HasOp
    <3> QED
      BY <1>0, <2>0, <3>1, <3>2, Places
  <2>4. ASSUME NEW e, Writes(e), Pushed(e) PROVE CntInv'
    <3>1. cccd /\ host.at < Ends /\ UNCHANGED <<notes, cccd>> /\ host'.at = host.at + 1
          /\ host.awaits = "none"
      BY <2>4 DEF Writes
    <3>2. \A x : HasOp(events', x) <=> HasOp(events, x) \/ e.op = x
      BY <2>4, OpMoves
    <3>3. /\ e.op = "PRN" => host.at = 1
          /\ e.op = "data" => host.at \in FirstData .. LastData
      <4>1. \/ host.at \in {1, 2, 3, 4, 5, 6, 7} \/ host.at \in FirstData .. LastData
            \/ host.at > LastData
        BY <2>0, Places
      <4> QED
        BY <2>4, <4>1 DEF Writes, Write
    <3>4. ~AtFw'
      BY <2>0, <2>4, <3>1 DEF Writes
    <3>5. host'.at \in FirstData .. LastData + 1 =>
            host.at # 1 /\ (AtFw \/ host.at \in FirstData .. LastData + 1)
      BY <2>0, <3>1, Places
    <3>6. N2'
      BY <1>0, <2>0, <3>2, <3>3, <3>4, <3>5
    <3>7. N3'
      BY <1>0, <2>0, <3>1, <3>2, <3>3, Places
    <3>8. N5'
      BY <1>0, <2>0, <3>1, <3>2, <3>3, Places
    <3>9. N6'
      <4> SUFFICES ASSUME NEW i \in 1 .. Len(notes), InitOk(notes[i])
                   PROVE  bank.state \notin Early
                          /\ (host'.at <= 7 => Got = 0 /\ ~HasOp(events', "PRN"))
        BY <2>0, <3>1
      <4>1. host.at # 1
        BY <3>1 DEF BeginInv
      <4> QED
        BY <1>0, <2>0, <3>1, <3>2, <3>3, <4>1
    <3> QED
      BY <1>0, <2>0, <3>4, <3>6, <3>7, <3>8, <3>9
  <2>5. CASE Strays
    <3>1. UNCHANGED <<notes, cccd>> /\ host'.at = host.at /\ host'.awaits = host.awaits
      BY <2>5 DEF Strays, Stands
    <3>2. \A x \in {"PRN", "data"} : HasOp(events', x) <=> HasOp(events, x)
      <4>1. \A op \in (Control \ {"PRN", "INIT"}) \cup {"odd"} : op \notin {"PRN", "data"}
        BY DEF Control
      <4> QED
        BY <2>5, <2>O, <4>1 DEF Strays, Stands
    <3> QED
      BY <1>0, <2>0, <3>1, <3>2
  <2>6. CASE Resets
    <3>1. UNCHANGED <<notes, cccd>> /\ host'.at = Ends
          /\ \A x \in {"PRN", "data"} : HasOp(events', x) <=> HasOp(events, x)
      BY <2>6, <2>O DEF Resets
    <3> QED
      BY <1>0, <2>0, <3>1, Places
  <2>7. ASSUME NEW note, Reads(note), UNCHANGED <<air, cccd>> PROVE CntInv'
    <3>1. UNCHANGED <<events, cccd>> /\ cccd /\ note \in NoteSet
          /\ note = notes[1] /\ Len(notes) >= 1 /\ 1 \in 1 .. Len(notes)
          /\ \A i \in 1 .. Len(notes') : notes'[i] = notes[i + 1] /\ i + 1 \in 1 .. Len(notes)
      BY <2>7 DEF Reads
    <3>2. N5'
      BY <1>0, <2>0, <3>1
    <3>3. ASSUME host'.at <= 7 => host.at <= 7,
                 AtFw' => AtFw \/ (InitOk(note) /\ host.at <= 7),
                 host'.at \in FirstData .. LastData + 1 =>
                   host.at \in FirstData .. LastData + 1 \/ (bank.state \notin Early /\ Got = Total)
          PROVE  CntInv'
      <4>1. InitOk(note) /\ host.at <= 7 => bank.state \notin Early /\ Got = 0
                                            /\ Aligned /\ ~HasOp(events, "PRN")
        BY <1>0, <3>1
      <4>2. N2'
        BY <1>0, <2>0, <3>1, <3>3, <4>1, Places
      <4>3. N6'
        BY <1>0, <2>0, <3>1, <3>3
      <4>4. N3' /\ N4'
        BY <1>0, <2>0, <3>1, <3>3, <4>1
      <4> QED
        BY <1>0, <2>0, <3>2, <4>2, <4>3, <4>4
    <3>4. CASE UNCHANGED host
      BY <3>1, <3>3, <3>4
    <3>5. CASE host'.at = GaveUp
      BY <3>3, <3>5, Places
    <3>6. CASE note.type = "receipt" /\ host.awaits = "receipt" /\ host'.at = host.at
      <4>1. host.at # 7
        BY <3>1, <3>6 DEF BeginInv
      <4> QED
        BY <3>3, <3>6, <4>1
    <3>7. CASE note.type = "report" /\ host.awaits = "report" /\ host'.at = FirstData + note.n
      <4>1. host.at \in FirstData .. LastData + 1
        BY <3>1, <3>7 DEF SendInv
      <4>2. host'.at \in Nat /\ host'.at # 7 /\ ~(host'.at <= 7)
        BY <3>1, <3>7, Places DEF NoteSet
      <4> QED
        BY <3>3, <4>1, <4>2
    <3>8. CASE /\ note.ok /\ note.type \in {"START", "INIT", "RECEIVE", "VALIDATE"}
               /\ host'.at = After(note.type) /\ host'.at > host.at
      <4>1. CASE note.type = "START"
        <5>1. host'.at = 4
          BY <3>8, <4>1 DEF After
        <5> QED
          BY <2>0, <3>3, <3>8, <5>1, Places
      <4>2. CASE note.type = "INIT"
        <5>1. host'.at = 7 /\ InitOk(note)
          BY <3>8, <4>2 DEF After, InitOk
        <5> QED
          BY <2>0, <3>3, <3>8, <5>1, Places
      <4>3. CASE note.type = "RECEIVE"
        <5>1. host'.at = LastData + 1
          BY <3>8, <4>3 DEF After
        <5>2. note.n = 0
          BY <3>1, <4>3 DEF ToldInv
        <5>3. note = Response("RECEIVE", TRUE)
          BY <3>1, <3>8, <4>3, <5>2 DEF NoteSet, Response
        <5>4. Got = Total
          BY <3>1, <5>3 DEF NotesInv, Got
        <5>5. bank.state \notin Early
          BY <5>4, Places DEF CountInv, Got, Early
        <5> QED
          BY <2>0, <3>3, <3>8, <5>1, <5>4, <5>5, Places
      <4>4. CASE note.type = "VALIDATE"
        <5>1. host'.at = LastData + 2
          BY <3>8, <4>4 DEF After
        <5> QED
          BY <2>0, <3>3, <3>8, <5>1, Places
      <4> QED
        BY <3>8, <4>1, <4>2, <4>3, <4>4
    <3>9. CASE /\ note.ok /\ note.type \in {"START", "INIT", "RECEIVE", "VALIDATE"}
               /\ note.type = host.awaits /\ host'.at = host.at
      <4>1. host.at = 7 => InitOk(note)
        BY <3>1, <3>9 DEF BeginInv, InitOk
      <4> QED
        BY <3>3, <3>9, <4>1
    <3> QED
      BY <2>7, <3>4, <3>5, <3>6, <3>7, <3>8, <3>9 DEF Reads
  <2>8. CASE Goes
    <3>1. ~cccd' /\ notes' = << >> /\ host'.at = host.at
          /\ \A x \in {"PRN", "data"} : HasOp(events', x) <=> HasOp(events, x)
      BY <2>8, <2>O DEF Goes
    <3> QED
      BY <1>0, <2>0, <3>1
  <2> QED
    BY <1>2, <2>0, <2>1, <2>2, <2>3, <2>4, <2>5, <2>6, <2>7, <2>8, HostKinds
<1> QED
  BY <1>1, <1>2

\* A data packet is taken or, outside the data phase, dropped.
LEMMA DataTakes ==
  ASSUME Typed, PacketsInv, Does, ~HostDoes, Popped("data")
  PROVE  Accepted \/ (m_pkt_type # "FW" /\ UNCHANGED <<m_pkt_type, m_pkt_notif, taken>>)
<1> USE Moves
<1>1. ASSUME NEW op, Popped(op) PROVE op = "data"
  BY <1>1 DEF Popped
<1>2. ~UNCHANGED events
  BY DEF Popped
<1>3. ~Idles /\ ~Closes /\ ~Connects /\ ~Disconnects /\ ~Learns /\ ~Answers
  BY <1>1, <1>2 DEF Idles, Closes, Connects, Disconnects, Learns, Answers
<1>4. \A op \in Typing : ~Turns(op)
  BY <1>1 DEF Turns, Typing
<1>5. CASE \E op \in Packet : Drops(op)
  BY <1>5 DEF Drops
<1>6. ASSUME NEW op \in Packet, Accepts(op) PROVE Accepted
  <2>1. Got' = Got + 1 /\ Got \in Nat /\ ~UNCHANGED taken /\ ~Learned
    BY <1>1, <1>6, AcceptsData DEF Learned, Got, Typed
  <2> QED
    BY <2>1, CntMoves
<1> QED
  BY <1>3, <1>4, <1>5, <1>6 DEF Does

LEMMA BlockStep ==
  ASSUME Typed, Typed', LinkInv, ConnInv, PacketsInv, BlockInv, SendInv, Does
  PROVE  BlockInv'
<1> USE Moves
<1> DEFINE Data(i) == events[i].op = "data"
           K1 == \A i, j \in 1 .. Len(events) : Data(i) /\ Data(j) /\ i <= j =>
                   /\ events[j].n = events[i].n + (j - i)
                   /\ \A k \in i .. j : Data(k)
           K2 == \A i \in 1 .. Len(events) : Data(i) /\ (i > 1 => ~Data(i - 1)) =>
                   events[i].n = Got + 1 \/ (i = 1 /\ m_pkt_type # "FW")
<1>0. K1 /\ K2 /\ (BlockInv' <=> K1' /\ K2')
  BY DEF BlockInv
<1>T. Got \in Nat /\ \A i \in 1 .. Len(events) : events[i].n \in Nat
  <2>1. events \in Seq(EventSet) /\ taken \in Seq(0 .. Total)
    BY DEF Typed
  <2>2. \A i \in 1 .. Len(events) : events[i] \in EventSet
    BY <2>1
  <2> QED
    BY <2>1, <2>2 DEF Got, EventSet
<1>1. ASSUME ~HostDoes, NEW op, Popped(op), Types(op) PROVE BlockInv'
  <2>1. K1'
    <3> SUFFICES ASSUME NEW i \in 1 .. Len(events'), NEW j \in 1 .. Len(events'),
                        Data(i)', Data(j)', i <= j
                 PROVE  events'[j].n = events'[i].n + (j - i) /\ \A k \in i .. j : Data(k)'
      OBVIOUS
    <3>1. /\ i + 1 \in 1 .. Len(events) /\ j + 1 \in 1 .. Len(events)
          /\ Data(i + 1) /\ Data(j + 1) /\ i + 1 <= j + 1
          /\ events'[i] = events[i + 1] /\ events'[j] = events[j + 1]
      BY <1>1 DEF Popped
    <3>2. /\ events[j + 1].n = events[i + 1].n + ((j + 1) - (i + 1))
          /\ \A k \in i + 1 .. j + 1 : Data(k)
      BY <1>0, <3>1
    <3>3. \A k \in i .. j : k \in 1 .. Len(events') /\ k + 1 \in i + 1 .. j + 1
      OBVIOUS
    <3>4. \A k \in i .. j : Data(k)'
      <4> TAKE k \in i .. j
      <4>1. events'[k] = events[k + 1]
        BY <1>1, <3>3 DEF Popped
      <4>2. k + 1 \in i + 1 .. j + 1
        BY <3>3
      <4> QED
        BY <3>2, <4>1, <4>2
    <3> QED
      BY <1>T, <3>1, <3>2, <3>4
  <2>2. K2'
    <3> SUFFICES ASSUME NEW i \in 1 .. Len(events'), Data(i)', i > 1 => ~Data(i - 1)'
                 PROVE  events'[i].n = Got' + 1 \/ (i = 1 /\ m_pkt_type' # "FW")
      OBVIOUS
    <3>1. /\ i + 1 \in 1 .. Len(events) /\ Data(i + 1) /\ events'[i] = events[i + 1]
          /\ i \in 1 .. Len(events) /\ (i + 1) - 1 = i /\ i + 1 > 1
          /\ 1 \in 1 .. Len(events)
      BY <1>1 DEF Popped
    <3>2. i > 1 => ~Data(i)
      BY <1>1 DEF Popped
    <3>3. CASE ~Data(i)
      <4>1. ~Data(1)
        <5>1. 1 <= i + 1 /\ i \in 1 .. i + 1
          OBVIOUS
        <5>2. Data(1) => Data(i)
          BY <1>0, <3>1, <5>1
        <5> QED
          BY <3>3, <5>2
      <4>2. Got' = Got
        BY <1>1, <4>1, CntMoves DEF Accepted, Learned, Popped, Got
      <4>3. events[i + 1].n = Got + 1
        BY <1>0, <3>1, <3>3
      <4> QED
        BY <3>1, <4>2, <4>3
    <3>4. CASE Data(i)
      <4>1. i = 1 /\ op = "data"
        BY <1>1, <3>2, <3>4 DEF Popped
      <4>2. events[2].n = events[1].n + (2 - 1) /\ events'[i] = events[2]
        BY <1>0, <3>1, <3>4, <4>1
      <4>3. CASE m_pkt_type # "FW"
        BY <1>1, <4>1, <4>3 DEF Types, Typing
      <4>4. CASE Accepted /\ m_pkt_type = "FW"
        <5>1. 1 \in 1 .. Len(events) /\ Data(1) /\ ~(1 > 1)
          BY <3>1, <3>4, <4>1
        <5>2. events[1].n = Got + 1
          BY <1>0, <4>4, <5>1
        <5>3. Got' = Got + 1
          BY <4>4 DEF Accepted
        <5>4. events'[i].n = Got + 1 + 1
          BY <1>T, <4>2, <5>2
        <5> QED
          BY <5>3, <5>4
      <4> QED
        BY <1>1, <4>1, <4>3, <4>4, DataTakes
    <3> QED
      BY <3>3, <3>4
  <2> QED
    BY <1>0, <2>1, <2>2
<1>2. CASE ~HostDoes
  <2>1. CASE UNCHANGED <<events, m_pkt_type>>
    <3>1. Got' = Got
      BY <1>2, <2>1, CntMoves DEF Accepted, Learned, Popped, Got
    <3> QED
      BY <1>0, <2>1, <3>1
  <2> QED
    BY <1>1, <1>2, <2>1, TypeMoves
<1>3. CASE HostDoes
  <2>0. UNCHANGED <<m_pkt_type, taken>> /\ Got' = Got /\ (~cccd => notes = << >>)
    BY <1>3 DEF HostDoes, Got, ConnInv
  <2>1. ASSUME UNCHANGED events PROVE BlockInv'
    <3>1. K1'
      BY <1>0, <2>1
    <3>2. K2'
      BY <1>0, <2>0, <2>1
    <3> QED
      BY <1>0, <3>1, <3>2
  <2>2. ASSUME NEW e, Pushed(e), e.op # "data" PROVE BlockInv'
    <3>1. \A i \in 1 .. Len(events') : Data(i)' =>
            /\ i \in 1 .. Len(events) /\ Data(i) /\ events'[i] = events[i]
            /\ \A k \in 1 .. i : k \in 1 .. Len(events) /\ events'[k] = events[k]
      BY <2>2 DEF Pushed
    <3>2. K1'
      <4> SUFFICES ASSUME NEW i \in 1 .. Len(events'), NEW j \in 1 .. Len(events'),
                          Data(i)', Data(j)', i <= j
                   PROVE  events'[j].n = events'[i].n + (j - i) /\ \A k \in i .. j : Data(k)'
        OBVIOUS
      <4>1. \A k \in i .. j : k \in 1 .. j
        OBVIOUS
      <4>2. /\ i \in 1 .. Len(events) /\ j \in 1 .. Len(events) /\ Data(i) /\ Data(j)
            /\ events'[i] = events[i] /\ events'[j] = events[j]
            /\ \A k \in i .. j : events'[k] = events[k]
        BY <3>1, <4>1
      <4>3. events[j].n = events[i].n + (j - i) /\ \A k \in i .. j : Data(k)
        BY <1>0, <4>2
      <4> QED
        BY <4>2, <4>3
    <3>3. K2'
      <4> SUFFICES ASSUME NEW i \in 1 .. Len(events'), Data(i)', i > 1 => ~Data(i - 1)'
                   PROVE  events'[i].n = Got' + 1 \/ (i = 1 /\ m_pkt_type' # "FW")
        OBVIOUS
      <4>1. i > 1 => i - 1 \in 1 .. i
        OBVIOUS
      <4> QED
        BY <1>0, <2>0, <3>1, <4>1
    <3> QED
      BY <1>0, <3>2, <3>3
  <2>3. ASSUME NEW e, Writes(e), Pushed(e), e.op = "data" PROVE BlockInv'
    <3> DEFINE L == Len(events)
    <3>1. host.at \in FirstData .. LastData /\ e.n = Sent + 1 /\ Sending /\ host.awaits = "none"
          /\ Sent \in Nat
      <4>1. host.at \in Nat /\ host.at >= 1 /\ host.at < Ends
        <5>1. host.at \in 1 .. GaveUp
          BY DEF Typed, HostSet
        <5> QED
          BY <2>3, <5>1, Places DEF Writes
      <4>2. \/ host.at \in {1, 2, 3, 4, 5, 6, 7} \/ host.at \in FirstData .. LastData
            \/ host.at > LastData
        BY <4>1, Places
      <4>3. host.at \in FirstData .. LastData
        BY <2>3, <4>2 DEF Writes, Write
      <4>4. e.n = host.at - 7
        BY <2>3, <4>3 DEF Writes
      <4>5. cccd /\ host.awaits = "none"
        BY <2>3 DEF Writes
      <4>6. Sent = host.at - 8 /\ host.at >= 8
        BY <4>3, Places DEF Sent
      <4>7. e.n = Sent + 1 /\ Sent \in Nat
        BY <4>1, <4>4, <4>6
      <4> QED
        BY <4>3, <4>5, <4>7 DEF Sending
    <3>2. \A i \in 1 .. L : Data(i) => events[i].n = Sent - (L - i) /\ \A j \in i .. L : Data(j)
      BY <3>1 DEF SendInv
    <3>3. NoneLost
      BY <3>1 DEF SendInv
    <3>4. /\ L \in Nat /\ Len(events') = L + 1 /\ events'[L + 1] = e
          /\ \A i \in 1 .. L : events'[i] = events[i]
      BY <2>3 DEF Pushed
    <3> HIDE DEF L
    <3>5. K1'
      <4> SUFFICES ASSUME NEW i \in 1 .. L + 1, NEW j \in 1 .. L + 1, Data(i)', Data(j)', i <= j
                   PROVE  events'[j].n = events'[i].n + (j - i) /\ \A k \in i .. j : Data(k)'
        BY <3>4
      <4>1. CASE j \in 1 .. L
        <5>1. i \in 1 .. L /\ \A k \in i .. j : k \in 1 .. L
          BY <3>4, <4>1
        <5>2. /\ Data(i) /\ Data(j) /\ events'[i] = events[i] /\ events'[j] = events[j]
              /\ \A k \in i .. j : events'[k] = events[k]
          BY <3>4, <4>1, <5>1
        <5>3. events[j].n = events[i].n + (j - i) /\ \A k \in i .. j : Data(k)
          BY <1>0, <4>1, <5>1, <5>2 DEF L
        <5> QED
          BY <5>2, <5>3
      <4>2. CASE i = L + 1 /\ j = L + 1
        <5>1. \A k \in i .. j : k = L + 1
          BY <3>4, <4>2
        <5>2. events'[j].n = events'[i].n + (j - i)
          BY <3>1, <3>4, <4>2
        <5> QED
          BY <2>3, <3>4, <5>1, <5>2
      <4>3. CASE i \in 1 .. L /\ j = L + 1
        <5>1. events[i].n = Sent - (L - i) /\ \A k \in i .. L : Data(k)
          BY <3>2, <3>4, <4>3
        <5>2. \A k \in i .. j : k \in i .. L \/ k = L + 1
          BY <3>4, <4>3
        <5>3. \A k \in i .. j : Data(k)'
          BY <2>3, <3>4, <4>3, <5>1, <5>2
        <5>4. events'[j].n = events'[i].n + (j - i)
          BY <3>1, <3>4, <4>3, <5>1
        <5> QED
          BY <5>3, <5>4
      <4> QED
        BY <3>4, <4>1, <4>2, <4>3
    <3>6. K2'
      <4> SUFFICES ASSUME NEW i \in 1 .. L + 1, Data(i)', i > 1 => ~Data(i - 1)'
                   PROVE  events'[i].n = Got + 1 \/ (i = 1 /\ m_pkt_type # "FW")
        BY <2>0, <3>4
      <4>1. CASE i \in 1 .. L
        <5>1. i > 1 => i - 1 \in 1 .. L
          BY <3>4, <4>1
        <5> QED
          BY <1>0, <3>4, <4>1, <5>1 DEF L
      <4>2. CASE i = L + 1
        <5>1. ~HasOp(events, "data")
          <6>1. L > 0 => ~Data(L)
            BY <3>4, <4>2
          <6>2. \A j \in 1 .. L : L \in j .. L /\ L > 0
            BY <3>4
          <6> QED
            BY <3>2, <6>1, <6>2 DEF HasOp, L
        <5>2. Got = Sent \/ (L = 0 /\ m_pkt_type # "FW")
          BY <3>3, <5>1 DEF NoneLost, L
        <5> QED
          BY <3>1, <3>4, <4>2, <5>2
      <4> QED
        BY <3>4, <4>1, <4>2
    <3> QED
      BY <1>0, <3>5, <3>6
  <2>4. \A op : Write(op, 0).op = op
    BY DEF Write
  <2>5. CASE Arrives \/ Asks \/ Strays \/ Resets \/ Goes
    <3>1. \E op : op # "data" /\ Pushed(Write(op, 0))
      <4>1. \A op \in Control \ {"PRN", "INIT"} : op # "data"
        BY DEF Control
      <4> QED
        BY <2>5, <4>1 DEF Arrives, Stands, Asks, Strays, Resets, Goes
    <3> QED
      BY <2>2, <2>4, <3>1
  <2>6. CASE Begins \/ \E note : Reads(note)
    BY <2>1, <2>6 DEF Begins, Reads
  <2>7. CASE \E e : Writes(e) /\ Pushed(e)
    BY <2>2, <2>3, <2>7
  <2> QED
    BY <1>3, <2>0, <2>5, <2>6, <2>7, HostKinds
<1> QED
  BY <1>2, <1>3

\* A new receipt is for the packet that the host waits for, and this is the
\* last that is under way.
LEMMA NewReceipt ==
  ASSUME Typed, PacketsInv, ToldInv, CntInv, BlockInv, SendInv, Sending,
         NEW note, Answer(note), IsReceipt(note)
  PROVE  /\ Popped("data") /\ host.awaits = "receipt" /\ Got' = Got + 1 /\ Got + 1 = Sent
         /\ \A i \in 2 .. Len(events) : events[i].op # "data"
<1>1. Counts /\ m_pkt_notif.cnt = 1 /\ \E op \in Packet : Accepts(op)
  BY DEF Answer, IsReceipt, Response, Report
<1>2. /\ Popped("data") /\ m_pkt_type = "FW" /\ Got < Total /\ Got' = Got + 1
  BY <1>1, AcceptsData
<1>3. 1 \in 1 .. Len(events) /\ events[1].op = "data" /\ host.at \in FirstData .. LastData
  BY <1>2 DEF Popped, Sending
<1>4. events[1].n = Got + 1
  BY <1>2, <1>3 DEF BlockInv
<1>5. /\ Aligned /\ m_pkt_notif.enabled /\ m_pkt_notif.target = host.interval
      /\ host.interval # 0
  <2>1. Told /\ m_pkt_notif.enabled
    BY <1>1, <1>2 DEF ToldInv, Counts
  <2>2. host.at \in FirstData .. LastData + 1
    BY <1>3, Places
  <2>3. Aligned
    BY <1>2, <2>2 DEF CntInv
  <2> QED
    BY <2>1, <2>3 DEF Told
<1>6. (Got + 1) % host.interval = 0
  <2>1. host.interval \in Nat \ {0} /\ Got \in Nat
    <3>1. host.interval \in Intervals /\ Intervals \subseteq Nat
      BY RecordTypes, BleAssumption DEF Typed, BleAssumption
    <3>2. Got \in Nat
      BY DEF Typed, Got
    <3> QED
      BY <1>5, <3>1, <3>2
  <2>2. 1 = host.interval - (Got % host.interval)
    BY <1>1, <1>5 DEF Aligned
  <2>3. /\ Got % host.interval \in 0 .. host.interval - 1
        /\ (Got + 1) % host.interval =
             IF Got % host.interval = host.interval - 1 THEN 0 ELSE (Got % host.interval) + 1
    BY <2>1, NextMod
  <2>4. Got % host.interval = host.interval - 1
    BY <2>1, <2>2, <2>3
  <2> QED
    BY <2>3, <2>4
<1>7. host.awaits = "receipt" /\ events[1].n = Sent
  BY <1>3, <1>4, <1>5, <1>6 DEF SendInv
<1>8. ASSUME NEW i \in 2 .. Len(events), events[i].op = "data" PROVE FALSE
  <2>1. i \in 1 .. Len(events) /\ 1 <= i
    OBVIOUS
  <2>2. events[i].n = events[1].n + (i - 1)
    BY <1>3, <1>8, <2>1 DEF BlockInv
  <2>3. events[i].n <= Sent
    BY <1>8, <2>1 DEF SendInv
  <2>4. Got \in Nat
    BY DEF Typed, Got
  <2> QED
    BY <1>4, <1>7, <2>2, <2>3, <2>4
<1> QED
  BY <1>2, <1>4, <1>7, <1>8

LEMMA SendStep ==
  ASSUME Typed, Typed', LinkInv, ConnInv, BeginInv, PacketsInv, ToldInv, CntInv, BlockInv,
         SendInv, Does
  PROVE  SendInv'
<1> USE Moves
<1> DEFINE Data(i) == events[i].op = "data"
           Rcpt(i) == IsReceipt(notes[i])
           S1 == cccd /\ host.at <= 7 => \A i \in 1 .. Len(notes) : ~Rcpt(i)
           S2 == Sending => \A i \in 1 .. Len(events) : Data(i) =>
                   /\ events[i].n <= Sent
                   /\ host.interval # 0 /\ events[i].n % host.interval = 0 =>
                        host.awaits = "receipt" /\ events[i].n = Sent
           S3 == Sending => \A i \in 1 .. Len(notes) : Rcpt(i) =>
                   /\ host.awaits = "receipt" /\ Got = Sent /\ ~HasOp(events, "data")
                   /\ \A j \in 1 .. Len(notes) : Rcpt(j) => i = j
           S4 == Sending /\ host.awaits = "none" =>
                   /\ \A i \in 1 .. Len(events) : Data(i) =>
                        /\ events[i].n = Sent - (Len(events) - i)
                        /\ \A j \in i .. Len(events) : Data(j)
                   /\ NoneLost
           S5 == cccd /\ host.awaits = "report" =>
                   /\ host.at \in FirstData .. LastData + 1
                   /\ \A i \in 1 .. Len(events) : events[i].op \notin Even
                   /\ \A i \in 1 .. Len(notes) :
                        ~Rcpt(i) /\ (notes[i].type = "report" => notes[i].n = Got)
<1>0. S1 /\ S2 /\ S3 /\ S4 /\ S5 /\ (SendInv' <=> S1' /\ S2' /\ S3' /\ S4' /\ S5')
  BY DEF SendInv
<1>T. Got \in Nat /\ host.at \in Nat /\ host.at >= 1 /\ Sent \in Int /\ "data" \in Even
  <2>1. host.at \in 1 .. GaveUp
    BY DEF Typed, HostSet
  <2> QED
    BY <2>1, Places DEF Typed, Got, Sent, Packet, Even
<1>E. events' = << >> <=> Len(events') = 0
  BY DEF Typed
<1>1. CASE ~HostDoes
  <2>0. UNCHANGED <<host, cccd>> /\ (Sending' <=> Sending) /\ Sent' = Sent
    BY <1>1, TypeMoves DEF Sending, Sent
  <2>1. \A x : HasOp(events', x) => HasOp(events, x)
    BY <1>1, TypeMoves, OpMoves
  <2>2. UNCHANGED notes \/ \E note : Noted(note) /\ Answer(note)
    BY <1>1, AnswerMoves
  <2>3. \/ Got' = Got
        \/ Accepted /\ HasOp(events, "data") /\ Got' = Got + 1
    BY <1>1, CntMoves, OpMoves DEF Accepted, Learned, Got
  <2>4. \A note : Answer(note) /\ IsReceipt(note) => HasOp(events, "data")
    <3>1. \A note : Answer(note) /\ IsReceipt(note) => \E op \in Packet : Accepts(op)
      BY DEF Answer, IsReceipt, Response, Report
    <3> QED
      BY <3>1, AcceptsData, OpMoves
  <2>5. S1'
    <3> SUFFICES ASSUME cccd, host.at <= 7 PROVE \A i \in 1 .. Len(notes') : ~Rcpt(i)'
      BY <2>0
    <3>1. ~HasOp(events, "data")
      BY DEF CntInv
    <3>2. ASSUME NEW note, Noted(note), Answer(note) PROVE \A i \in 1 .. Len(notes') : ~Rcpt(i)'
      BY <1>0, <2>4, <3>1, <3>2, OpMoves
    <3> QED
      BY <1>0, <2>2, <3>2
  <2>6. S2'
    <3>1. CASE UNCHANGED events
      BY <1>0, <2>0, <3>1
    <3>2. ASSUME NEW op, Popped(op) PROVE S2'
      <4> SUFFICES ASSUME Sending, NEW i \in 1 .. Len(events'), Data(i)'
                   PROVE  /\ events'[i].n <= Sent
                          /\ host.interval # 0 /\ events'[i].n % host.interval = 0 =>
                               host.awaits = "receipt" /\ events'[i].n = Sent
        BY <2>0
      <4>1. i + 1 \in 1 .. Len(events) /\ events'[i] = events[i + 1]
        BY <3>2 DEF Popped
      <4> HIDE <1>0
      <4>2. S2
        BY <1>0
      <4> QED
        BY <4>1, <4>2
    <3> QED
      BY <1>1, <3>1, <3>2, TypeMoves
  <2>7. S3'
    <3> SUFFICES ASSUME Sending, NEW i \in 1 .. Len(notes'), Rcpt(i)'
                 PROVE  /\ host.awaits = "receipt" /\ Got' = Sent /\ ~HasOp(events', "data")
                        /\ \A j \in 1 .. Len(notes') : Rcpt(j)' => i = j
      BY <2>0
    <3>1. ASSUME i \in 1 .. Len(notes), Rcpt(i), \A j \in 1 .. Len(notes') : Rcpt(j)' =>
                   j \in 1 .. Len(notes) /\ Rcpt(j)
          PROVE  /\ host.awaits = "receipt" /\ Got' = Sent /\ ~HasOp(events', "data")
                 /\ \A j \in 1 .. Len(notes') : Rcpt(j)' => i = j
      BY <1>0, <2>1, <2>3, <3>1
    <3>2. CASE UNCHANGED notes
      BY <3>1, <3>2
    <3>3. ASSUME NEW note, Noted(note), Answer(note), ~IsReceipt(note)
          PROVE  /\ host.awaits = "receipt" /\ Got' = Sent /\ ~HasOp(events', "data")
                 /\ \A j \in 1 .. Len(notes') : Rcpt(j)' => i = j
      <4>1. \A j \in 1 .. Len(notes') : Rcpt(j)' => j \in 1 .. Len(notes) /\ Rcpt(j)
        BY <3>3 DEF Noted
      <4> QED
        BY <3>1, <4>1
    <3>4. ASSUME NEW note, Noted(note), Answer(note), IsReceipt(note)
          PROVE  /\ host.awaits = "receipt" /\ Got' = Sent /\ ~HasOp(events', "data")
                 /\ \A j \in 1 .. Len(notes') : Rcpt(j)' => i = j
      <4>1. /\ Popped("data") /\ host.awaits = "receipt" /\ Got' = Got + 1 /\ Got + 1 = Sent
            /\ \A k \in 2 .. Len(events) : events[k].op # "data"
        BY <3>4, NewReceipt
      <4>2. ~HasOp(events', "data")
        <5>1. \A k \in 1 .. Len(events') : events'[k] = events[k + 1] /\ k + 1 \in 2 .. Len(events)
          BY <4>1 DEF Popped
        <5> QED
          BY <4>1, <5>1 DEF HasOp
      <4>3. \A j \in 1 .. Len(notes) : ~Rcpt(j)
        BY <1>0, <2>4, <3>4
      <4>4. \A j \in 1 .. Len(notes') : Rcpt(j)' => j = Len(notes) + 1
        BY <3>4, <4>3 DEF Noted
      <4> QED
        BY <4>1, <4>2, <4>4
    <3> QED
      BY <2>2, <3>2, <3>3, <3>4
  <2>8. S4'
    <3> SUFFICES ASSUME Sending, host.awaits = "none"
                 PROVE  /\ \A i \in 1 .. Len(events') : Data(i)' =>
                             /\ events'[i].n = Sent - (Len(events') - i)
                             /\ \A j \in i .. Len(events') : Data(j)'
                        /\ NoneLost'
      BY <2>0
    <3>1. /\ \A i \in 1 .. Len(events) : Data(i) =>
               /\ events[i].n = Sent - (Len(events) - i)
               /\ \A j \in i .. Len(events) : Data(j)
          /\ NoneLost
      BY <1>0
    <3>2. CASE UNCHANGED <<events, m_pkt_type>>
      <4>1. Got' = Got
        BY <1>1, <3>2, CntMoves DEF Accepted, Learned, Popped, Got
      <4>2. NoneLost'
        BY <2>0, <3>1, <3>2, <4>1 DEF NoneLost
      <4> QED
        BY <3>1, <3>2, <4>2
    <3>3. ASSUME NEW op, Popped(op), Types(op)
          PROVE  /\ \A i \in 1 .. Len(events') : Data(i)' =>
                      /\ events'[i].n = Sent - (Len(events') - i)
                      /\ \A j \in i .. Len(events') : Data(j)'
                 /\ NoneLost'
      <4>1. ASSUME NEW i \in 1 .. Len(events'), Data(i)'
            PROVE  /\ events'[i].n = Sent - (Len(events') - i)
                   /\ \A j \in i .. Len(events') : Data(j)'
        <5>1. i + 1 \in 1 .. Len(events) /\ events'[i] = events[i + 1]
              /\ Len(events') = Len(events) - 1
          BY <3>3 DEF Popped
        <5>2. /\ events[i + 1].n = Sent - (Len(events) - (i + 1))
              /\ \A j \in i + 1 .. Len(events) : Data(j)
          BY <3>1, <4>1, <5>1
        <5>3. ASSUME NEW j \in i .. Len(events') PROVE Data(j)'
          <6>1. j \in 1 .. Len(events') /\ j + 1 \in i + 1 .. Len(events)
            BY <5>1
          <6>2. events'[j] = events[j + 1]
            BY <3>3, <6>1 DEF Popped
          <6> QED
            BY <5>2, <6>1, <6>2
        <5>4. events'[i].n = Sent - (Len(events') - i)
          BY <1>T, <5>1, <5>2
        <5> QED
          BY <5>3, <5>4
      <4>2. CASE op # "data"
        <5>1. Got' = Got
          BY <2>3, <3>3, <4>2 DEF Accepted, Popped
        <5>2. HasOp(events, "data") => HasOp(events', "data")
          BY <3>3, <4>2 DEF HasOp, Popped
        <5>3. events # << >>
          BY <3>3 DEF Popped
        <5> QED
          BY <2>0, <3>1, <4>1, <5>1, <5>2, <5>3 DEF NoneLost
      <4>3. CASE op = "data" /\ ~HasOp(events', "data")
        <5>1. 1 \in 1 .. Len(events) /\ Data(1)
          BY <3>3, <4>3 DEF Popped
        <5>2. events[1].n = Sent - (Len(events) - 1) /\ \A j \in 1 .. Len(events) : Data(j)
          BY <3>1, <5>1
        <5>3. Len(events) = 1 /\ Len(events') = 0
          <6>1. Len(events') # 0 => 1 \in 1 .. Len(events') /\ events'[1] = events[2]
                                    /\ 2 \in 1 .. Len(events)
            BY <3>3 DEF Popped
          <6> QED
            BY <3>3, <4>3, <5>2, <6>1 DEF HasOp, Popped
        <5>4. CASE Accepted
          <6>1. events[1].n = Got + 1
            BY <5>1, <5>4 DEF Accepted, BlockInv
          <6>2. Got' = Sent
            BY <1>T, <5>2, <5>3, <5>4, <6>1 DEF Accepted
          <6> QED
            BY <2>0, <4>1, <6>2 DEF NoneLost
        <5>5. CASE m_pkt_type # "FW" /\ UNCHANGED m_pkt_type
          BY <1>E, <4>1, <5>3, <5>5 DEF NoneLost
        <5> QED
          BY <1>1, <3>3, <4>3, <5>4, <5>5, DataTakes
      <4>4. CASE HasOp(events', "data")
        BY <4>1, <4>4 DEF NoneLost
      <4> QED
        BY <4>2, <4>3, <4>4
    <3> QED
      BY <1>1, <3>2, <3>3, TypeMoves
  <2>9. S5'
    <3> SUFFICES ASSUME cccd, host.awaits = "report"
                 PROVE  /\ host.at \in FirstData .. LastData + 1
                        /\ \A i \in 1 .. Len(events') : events'[i].op \notin Even
                        /\ \A i \in 1 .. Len(notes') :
                             ~Rcpt(i)' /\ (notes'[i].type = "report" => notes'[i].n = Got')
      BY <2>0
    <3>1. ~HasOp(events, "data") /\ Got' = Got
      BY <1>0, <1>T, <2>3 DEF HasOp
    <3>2. \A i \in 1 .. Len(events') : events'[i].op \notin Even
      <4>1. \A x \in Even : ~HasOp(events, x)
        BY <1>0 DEF HasOp
      <4>2. \A x \in Even : ~HasOp(events', x)
        BY <2>1, <4>1
      <4> QED
        BY <4>2 DEF HasOp
    <3>3. ASSUME NEW note, Answer(note)
          PROVE  ~IsReceipt(note) /\ (note.type = "report" => note.n = Got)
      BY <2>4, <3>1, <3>3 DEF Answer, Response, Report, Receipt, IsReceipt
    <3>4. \A i \in 1 .. Len(notes') :
             ~Rcpt(i)' /\ (notes'[i].type = "report" => notes'[i].n = Got')
      <4>1. CASE UNCHANGED notes
        BY <1>0, <3>1, <4>1
      <4>2. ASSUME NEW note, Noted(note), Answer(note)
            PROVE  \A i \in 1 .. Len(notes') :
                      ~Rcpt(i)' /\ (notes'[i].type = "report" => notes'[i].n = Got')
        BY <1>0, <3>1, <3>3, <4>2, OpMoves
      <4> QED
        BY <2>2, <4>1, <4>2
    <3> QED
      BY <1>0, <3>2, <3>4
  <2> QED
    BY <1>0, <2>5, <2>6, <2>7, <2>8, <2>9
<1>2. CASE HostDoes
  <2>0. UNCHANGED <<m_pkt_type, taken>> /\ Got' = Got /\ (~cccd => notes = << >>)
    BY <1>2 DEF HostDoes, Got, ConnInv
  <2>N. notes = << >> => Len(notes) = 0
    OBVIOUS
  <2>1. CASE Arrives \/ Goes
    <3>1. ~cccd'
      BY <2>1 DEF Arrives, Goes, ConnInv
    <3> QED
      BY <1>0, <3>1 DEF Sending
  <2>2. CASE Asks
    <3>1. UNCHANGED notes /\ Len(notes) = 0 /\ host'.awaits = "report"
          /\ host'.at \in FirstData .. LastData + 1
      BY <2>0, <2>N, <2>2 DEF Asks
    <3>2. \A i \in 1 .. Len(events') : events'[i].op \in {"connected", "SIZE"}
      BY <2>2 DEF Asks, ConnInv, Pushed, Write
    <3>3. \A op \in {"connected", "SIZE"} : op \notin Even
      BY DEF Packet, Even
    <3>4. S1' /\ S3' /\ S4' /\ S5'
      BY <3>1, <3>2, <3>3
    <3>5. S2'
      BY <3>2
    <3> QED
      BY <1>0, <3>4, <3>5
  <2>3. CASE Begins
    <3>1. UNCHANGED notes /\ Len(notes) = 0 /\ host'.awaits = "none" /\ ~Sending'
      BY <2>0, <2>N, <2>3, Places DEF Begins, Sending
    <3> QED
      BY <1>0, <3>1
  <2>4. ASSUME NEW e, Writes(e), Pushed(e) PROVE SendInv'
    <3>1. /\ cccd /\ UNCHANGED <<notes, cccd>> /\ host'.at = host.at + 1 /\ host'.awaits # "report"
          /\ host.awaits = "none" /\ host'.interval = host.interval /\ Sent' = Sent + 1
      BY <1>T, <2>4, Places DEF Writes, Keeps, Sent
    <3>2. S1' /\ S5'
      BY <1>0, <1>T, <3>1
    <3>3. CASE ~Sending'
      BY <1>0, <3>2, <3>3
    <3>4. CASE Sending' /\ host.at = 7
      <4>1. Got = 0 /\ Sent' = 0 /\ host'.awaits = "none" /\ ~HasOp(events, "data")
            /\ e.op # "data"
        BY <2>4, <3>1, <3>4, Places DEF CntInv, Writes, Sent
      <4>2. ~HasOp(events', "data")
        BY <2>4, <4>1, OpMoves
      <4>3. S2' /\ S4'
        BY <2>0, <4>1, <4>2 DEF HasOp, NoneLost
      <4>4. S3'
        BY <1>0, <3>1, <3>4
      <4> QED
        BY <1>0, <3>2, <4>3, <4>4
    <3>5. CASE Sending' /\ host.at # 7
      <4>1. Sending /\ host.at \in FirstData .. LastData - 1
        <5>1. host'.at \in FirstData .. LastData
          BY <3>5 DEF Sending
        <5>2. host.at \in FirstData .. LastData - 1 /\ host.at \in FirstData .. LastData
          BY <1>T, <3>1, <3>5, <5>1, Places
        <5> QED
          BY <3>1, <5>2 DEF Sending
      <4>2. /\ e.op = "data" /\ e.n = Sent'
            /\ host'.awaits = IF host.interval # 0 /\ Sent' % host.interval = 0
                              THEN "receipt" ELSE "none"
        <5>1. host.at \in FirstData .. LastData /\ host.at - 7 = Sent'
          BY <1>T, <3>1, <4>1, Places DEF Sent
        <5> QED
          BY <2>4, <4>1, <5>1 DEF Writes
      <4>3. /\ Len(events') = Len(events) + 1 /\ events'[Len(events) + 1] = e
            /\ \A i \in 1 .. Len(events) : events'[i] = events[i]
            /\ \A i \in 1 .. Len(events') : i \in 1 .. Len(events) \/ i = Len(events) + 1
        BY <2>4 DEF Pushed
      <4>4. \A i \in 1 .. Len(events) : Data(i) =>
              /\ events[i].n <= Sent
              /\ ~(host.interval # 0 /\ events[i].n % host.interval = 0)
              /\ events[i].n = Sent - (Len(events) - i)
              /\ \A j \in i .. Len(events) : Data(j)
        BY <1>0, <3>1, <4>1
      <4>5. S2'
        <5> SUFFICES ASSUME NEW i \in 1 .. Len(events'), Data(i)'
                     PROVE  /\ events'[i].n <= Sent'
                            /\ host.interval # 0 /\ events'[i].n % host.interval = 0 =>
                                 host'.awaits = "receipt" /\ events'[i].n = Sent'
          BY <3>1
        <5>1. CASE i \in 1 .. Len(events)
          <6>1. events'[i] = events[i] /\ Data(i)
            BY <4>3, <5>1
          <6>2. events[i].n <= Sent /\ ~(host.interval # 0 /\ events[i].n % host.interval = 0)
                /\ events[i].n \in Int
            BY <1>T, <4>4, <5>1, <6>1
          <6>3. events'[i].n <= Sent'
            BY <1>T, <3>1, <6>1, <6>2
          <6> QED
            BY <6>1, <6>2, <6>3
        <5>2. CASE i = Len(events) + 1
          <6>1. events'[i].n = Sent' /\ Sent' \in Int
            BY <1>T, <3>1, <4>2, <4>3, <5>2
          <6>2. host.interval # 0 /\ Sent' % host.interval = 0 => host'.awaits = "receipt"
            BY <4>2
          <6> QED
            BY <6>1, <6>2
        <5> QED
          BY <4>3, <5>1, <5>2
      <4>6. S3'
        BY <1>0, <3>1, <4>1
      <4>7. S4'
        <5>1. \A i \in 1 .. Len(events') : Data(i)' =>
                /\ events'[i].n = Sent' - (Len(events') - i)
                /\ \A j \in i .. Len(events') : Data(j)'
          <6> SUFFICES ASSUME NEW i \in 1 .. Len(events'), Data(i)'
                       PROVE  /\ events'[i].n = Sent' - (Len(events') - i)
                              /\ \A j \in i .. Len(events') : Data(j)'
            OBVIOUS
          <6>1. CASE i = Len(events) + 1
            BY <1>T, <3>1, <4>2, <4>3, <6>1
          <6>2. CASE i \in 1 .. Len(events)
            <7>1. events[i].n = Sent - (Len(events) - i) /\ \A j \in i .. Len(events) : Data(j)
              BY <4>3, <4>4, <6>2
            <7>2. events'[i].n = Sent' - (Len(events') - i)
              BY <1>T, <3>1, <4>3, <6>2, <7>1
            <7>3. ASSUME NEW j \in i .. Len(events') PROVE Data(j)'
              <8>1. j = Len(events) + 1 \/ (j \in 1 .. Len(events) /\ j \in i .. Len(events))
                BY <4>3, <6>2
              <8> QED
                BY <4>2, <4>3, <7>1, <8>1
            <7> QED
              BY <7>2, <7>3
          <6> QED
            BY <4>3, <6>1, <6>2
        <5>2. NoneLost'
          BY <2>4, <4>2, OpMoves DEF NoneLost
        <5> QED
          BY <5>1, <5>2
      <4> QED
        BY <1>0, <3>2, <4>5, <4>6, <4>7
    <3> QED
      BY <3>3, <3>4, <3>5
  <2>5. CASE Strays
    <3>1. /\ cccd /\ UNCHANGED <<notes, cccd>> /\ host'.at = host.at /\ host'.awaits = host.awaits
          /\ host'.interval = host.interval /\ (Sending' <=> Sending) /\ Sent' = Sent
      BY <2>5 DEF Strays, Stands, Keeps, Sending, Sent
    <3>2. S1'
      BY <1>0, <3>1
    <3>3. CASE host.awaits = "none"
      <4>1. ~Sending'
        BY <2>5, <3>1, <3>3, Places DEF Strays, Sending
      <4> QED
        BY <1>0, <3>1, <3>2, <3>3, <4>1
    <3>4. CASE host.awaits # "none"
      <4>1. PICK op \in (Control \ {"PRN", "INIT"}) \cup {"odd"} : Pushed(Write(op, 0))
        BY <2>5, <3>4 DEF Strays, Stands
      <4>2. Write(op, 0).op = op /\ op \notin Even
        BY <4>1 DEF Write, Control, Packet, Even
      <4>3. \A i \in 1 .. Len(events') : events'[i].op \in Even =>
              i \in 1 .. Len(events) /\ events'[i] = events[i]
        BY <4>1, <4>2 DEF Pushed
      <4>4. HasOp(events', "data") => HasOp(events, "data")
        BY <1>T, <4>3 DEF HasOp
      <4>5. S2' /\ S5'
        BY <1>0, <1>T, <2>0, <3>1, <4>3
      <4>6. S3' /\ S4'
        BY <1>0, <2>0, <3>1, <3>4, <4>4
      <4> QED
        BY <1>0, <3>2, <4>5, <4>6
    <3> QED
      BY <3>3, <3>4
  <2>6. CASE Resets
    <3>1. host'.at = Ends /\ host'.awaits = "none" /\ ~Sending' /\ ~(host'.at <= 7)
      BY <2>6, Places DEF Resets, Sending
    <3> QED
      BY <1>0, <3>1
  <2>7. ASSUME NEW note, Reads(note), UNCHANGED <<air, cccd>> PROVE SendInv'
    <3>1. UNCHANGED <<events, cccd>> /\ cccd /\ note \in NoteSet /\ Keeps
          /\ note = notes[1] /\ Len(notes) >= 1 /\ 1 \in 1 .. Len(notes)
          /\ \A i \in 1 .. Len(notes') : notes'[i] = notes[i + 1] /\ i + 1 \in 1 .. Len(notes)
      BY <2>7 DEF Reads
    <3>2. (host'.at <= 7 => host.at <= 7) => S1'
      BY <1>0, <3>1
    <3>3. CASE UNCHANGED host
      <4>1. (Sending' <=> Sending) /\ Sent' = Sent
        BY <3>1, <3>3 DEF Sending, Sent
      <4>2. S1' /\ S2' /\ S5'
        BY <1>0, <2>0, <3>1, <3>2, <3>3, <4>1
      <4>3. S3'
        <5> SUFFICES ASSUME Sending, NEW i \in 1 .. Len(notes'), Rcpt(i)'
                     PROVE  /\ host.awaits = "receipt" /\ Got = Sent /\ ~HasOp(events, "data")
                            /\ \A j \in 1 .. Len(notes') : Rcpt(j)' => i = j
          BY <2>0, <3>1, <3>3, <4>1
        <5>1. i + 1 \in 1 .. Len(notes) /\ Rcpt(i + 1)
          BY <3>1
        <5>2. /\ host.awaits = "receipt" /\ Got = Sent /\ ~HasOp(events, "data")
              /\ \A j \in 1 .. Len(notes) : Rcpt(j) => i + 1 = j
          BY <1>0, <5>1
        <5>3. ASSUME NEW j \in 1 .. Len(notes'), Rcpt(j)' PROVE i = j
          <6>1. j + 1 \in 1 .. Len(notes) /\ Rcpt(j + 1)
            BY <3>1, <5>3
          <6>2. i + 1 = j + 1
            BY <5>2, <6>1
          <6> QED
            BY <6>2
        <5> QED
          BY <5>2, <5>3
      <4>4. S4'
        BY <1>0, <2>0, <3>1, <3>3, <4>1 DEF NoneLost
      <4> QED
        BY <1>0, <4>2, <4>3, <4>4
    <3>4. ASSUME host'.awaits = "none", ~Sending', host'.at <= 7 => host.at <= 7 PROVE SendInv'
      BY <1>0, <3>2, <3>4
    <3>5. ASSUME host'.awaits = "none", Got = Sent', ~HasOp(events, "data"),
                 \A i \in 1 .. Len(notes') : ~Rcpt(i)'
          PROVE  SendInv'
      <4>1. S2' /\ S4'
        BY <2>0, <3>1, <3>5 DEF HasOp, NoneLost
      <4> QED
        BY <1>0, <3>5, <4>1
    <3>6. CASE host'.awaits = "none" /\ host'.at = GaveUp
      BY <3>4, <3>6, Places DEF Sending
    <3>7. CASE /\ host'.awaits = "none" /\ host'.at = host.at
               /\ note.type = "receipt" /\ host.awaits = "receipt"
      <4>1. CASE ~Sending
        BY <3>1, <3>4, <3>7, <4>1 DEF Sending
      <4>2. CASE Sending
        <5>1. Rcpt(1)
          BY <3>1, <3>7 DEF IsReceipt
        <5>2. /\ Got = Sent /\ ~HasOp(events, "data")
              /\ \A j \in 1 .. Len(notes) : Rcpt(j) => 1 = j
          BY <1>0, <3>1, <4>2, <5>1
        <5>3. \A i \in 1 .. Len(notes') : ~Rcpt(i)'
          <6>1. \A i \in 1 .. Len(notes') : i + 1 # 1
            OBVIOUS
          <6> QED
            BY <3>1, <5>2, <6>1
        <5>4. Sent' = Sent
          BY <3>7 DEF Sent
        <5> QED
          BY <3>5, <3>7, <5>2, <5>3, <5>4
      <4> QED
        BY <4>1, <4>2
    <3>8. CASE /\ host'.awaits = "none" /\ host'.at = FirstData + note.n
               /\ note.type = "report" /\ host.awaits = "report"
      <4>1. note.n = Got /\ ~HasOp(events, "data") /\ \A i \in 1 .. Len(notes) : ~Rcpt(i)
        BY <1>0, <1>T, <3>1, <3>8 DEF HasOp
      <4>2. Sent' = Got
        BY <1>T, <3>8, <4>1, Places DEF Sent
      <4> QED
        BY <3>1, <3>5, <3>8, <4>1, <4>2
    <3>9. CASE /\ host'.awaits = "none" /\ note.type \in {"START", "INIT", "RECEIVE", "VALIDATE"}
               /\ host'.at = After(note.type) /\ host'.at > host.at
      <4>1. host'.at \in {4, 7, LastData + 1, LastData + 2}
        BY <3>9 DEF After
      <4>2. ~Sending' /\ (host'.at <= 7 => host.at <= 7)
        BY <1>T, <3>9, <4>1, Places DEF Sending
      <4> QED
        BY <3>4, <3>9, <4>2
    <3>10. CASE /\ host'.awaits = "none" /\ note.type \in {"START", "INIT", "RECEIVE", "VALIDATE"}
                /\ note.type = host.awaits /\ host'.at = host.at
      <4>1. ~Sending
        BY <3>1, <3>10 DEF BeginInv, Sending
      <4>2. ~Sending'
        BY <3>1, <3>10, <4>1 DEF Sending
      <4> QED
        BY <3>4, <3>10, <4>2
    <3> QED
      BY <2>7, <3>3, <3>6, <3>7, <3>8, <3>9, <3>10 DEF Reads
  <2> QED
    BY <1>2, <2>0, <2>1, <2>2, <2>3, <2>4, <2>5, <2>6, <2>7, HostKinds
<1> QED
  BY <1>1, <1>2

-----------------------------------------------------------------------------
\* A packet is appended to those taken only if it is the next one.
LEMMA TakesNext == IInv /\ OrderInv /\ [Next]_vars => TakenInOrder'
<1> SUFFICES ASSUME IInv, OrderInv, [Next]_vars, ~refused'
             PROVE  \A k \in 1 .. Len(taken') : taken'[k] = k
  BY DEF TakenInOrder
<1> USE DEF deviceVars, stackVars, linkVars, dataVars, poolVars, flashVars
<1>1. CASE UNCHANGED history
  BY <1>1 DEF OrderInv, TakenInOrder, history
<1>2. CASE AppData
  <2>1. Typed
    BY TypedMeans DEF IInv
  <2>2. PICK op \in Packet : Takes(op)
    BY <1>2 DEF AppData, TakesPacket
  <2>3. m_pkt_type = "FW"
    BY <1>2 DEF AppData, TakesPacket
  <2>4. \/ UNCHANGED history
        \/ taken' = Append(taken, Head(events).n) /\ UNCHANGED refused /\ op # "odd"
    BY <1>2, <2>2 DEF AppData, DataAccepted, DataRefused, Takes, history
  <2>5. CASE taken' = Append(taken, Head(events).n) /\ UNCHANGED refused /\ op # "odd"
    <3>1. Popped(op) /\ Alive /\ ~refused /\ 1 \in 1 .. Len(events)
      BY <2>1, <2>2, <2>5, Moves DEF Takes, Popped
    <3>2. PacketsInv /\ BlockInv /\ TakenInOrder
      BY <3>1 DEF OrderInv, Unbroken
    <3>3. op = "data"
      BY <2>2, <2>3, <2>5, <3>1, <3>2 DEF PacketsInv, Popped, Packet
    <3>4. Head(events).n = Len(taken) + 1
      BY <2>3, <3>1, <3>2, <3>3 DEF BlockInv, Popped, Got
    <3>5. taken \in Seq(0 .. Total)
      BY <2>1 DEF Typed
    <3> QED
      BY <2>5, <3>1, <3>2, <3>4, <3>5 DEF TakenInOrder
  <2> QED
    BY <1>1, <2>4, <2>5
<1>3. CASE OnBleEvent /\ ~AppData
  <2>1. UNCHANGED dataVars \/ UNCHANGED history
    <3> HIDE DEF dataVars, history
    <3> QED
      BY <1>3 DEF OnBleEvent, OnConnected, OnDisconnected, ControlRefused,
         OnPktRcptNotif, OnStart, OnInit, OnReceiveFw, OnInitComplete, OnValidate,
         OnActivate, OnSysReset, OnImageSizeReq, PacketIgnored, StartData, InitData, Expects
  <2> QED
    BY <1>1, <2>1
<1>4. CASE ~OnBleEvent
  <2>1. UNCHANGED history
    BY <1>4 DEF Next, vars, Leave, Host, Connect, Subscribe, HostWrites, HostStrays, HostResets,
       HostReads, LinkLost, LinkClosed, LinkDown, NoBleEvent, FlashWorks, Timeout, OnSocEvent,
       NoSocEvent, BankCleared, PacketStored, SettingsErased, SettingsSaved
  <2> QED
    BY <1>1, <2>1
<1> QED
  BY <1>2, <1>3, <1>4

LEMMA OrderInit == Init => OrderInv
<1> SUFFICES ASSUME Init PROVE OrderInv
  OBVIOUS
<1>1. /\ events = << >> /\ notes = << >> /\ taken = << >> /\ ~cccd /\ air = "adv"
      /\ host.at = 1 /\ ~m_tear_down_in_progress /\ m_pkt_type = "INVALID"
      /\ ~m_pkt_notif.enabled /\ bank.state = "IDLE"
  BY DEF Init
<1>2. Len(events) = 0 /\ Len(notes) = 0 /\ Len(taken) = 0
  BY <1>1
<1>3. TakenInOrder
  BY <1>2 DEF TakenInOrder
<1>4. ConnInv /\ BeginInv /\ PacketsInv
  BY <1>1, <1>2 DEF ConnInv, BeginInv, PacketsInv
<1>5. ToldInv /\ BlockInv
  BY <1>1, <1>2 DEF ToldInv, BlockInv
<1>6. CntInv /\ SendInv
  BY <1>1, <1>2, Places DEF CntInv, SendInv, Sending, Aligned, HasOp
<1> QED
  BY <1>3, <1>4, <1>5, <1>6 DEF OrderInv, Unbroken

LEMMA OrderStep == IInv /\ OrderInv /\ [Next]_vars => OrderInv'
<1> SUFFICES ASSUME IInv, OrderInv, [Next]_vars PROVE OrderInv'
  OBVIOUS
<1>1. TakenInOrder'
  BY TakesNext
<1>2. ASSUME Alive', ~refused' PROVE Unbroken'
  <2>1. Unbroken
    BY <1>2, StaysBroken DEF OrderInv
  <2>2. Does
    BY <1>2, StepKinds
  <2>3. Typed /\ Typed' /\ LinkInv /\ CountInv /\ NotesInv
    BY TypeStep, TypedMeans DEF IInv
  <2>4. /\ ConnInv /\ BeginInv /\ PacketsInv /\ ToldInv /\ CntInv /\ BlockInv /\ SendInv
    BY <2>1 DEF Unbroken
  <2>5. ConnInv' /\ BeginInv' /\ PacketsInv'
    BY <2>2, <2>3, <2>4, ConnStep, BeginStep, PacketsStep
  <2>6. ToldInv' /\ CntInv'
    BY <2>2, <2>3, <2>4, ToldStep, CntStep
  <2>7. BlockInv' /\ SendInv'
    BY <2>2, <2>3, <2>4, BlockStep, SendStep
  <2> QED
    BY <2>5, <2>6, <2>7 DEF Unbroken
<1> QED
  BY <1>1, <1>2 DEF OrderInv

\* For every image length, receipt interval, pool and any number of lost links
\* and strayed writes: until a packet is refused, app_data_process passes the
\* packets of the image to dfu_data_pkt_handle in order, each once, although a
\* host goes on where a receipt or dfu_transport_ble.c's image size report says.
THEOREM TakenInTurn == Spec => []TakenInOrder
<1>1. Init => OrderInv
  BY OrderInit
<1>2. IInv /\ OrderInv /\ [Next]_vars => OrderInv'
  BY OrderStep
<1>3. OrderInv => TakenInOrder
  BY DEF OrderInv
<1>4. Spec => []IInv
  BY Invariance
<1> QED
  BY <1>1, <1>2, <1>3, <1>4, PTL DEF Spec
=============================================================================
