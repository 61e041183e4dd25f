--------------------------- MODULE VenusRingProofs ---------------------------
(***************************************************************************)
(* Proofs about VenusRing: types, the order of the four wrapping counters, *)
(* what a successful cmd_wait means, and that the ring implements          *)
(* CommandStream, for every buffer size, counter width, command length and *)
(* command words.                                                          *)
(***************************************************************************)
EXTENDS VenusRing, TLAPS, SequenceTheorems

\* Non-negative remainders below the modulus are themselves.
LEMMA ModSmall ==
  ASSUME NEW a \in Int, a >= 0, a < CounterMod
  PROVE  a % CounterMod = a
BY VenusRingAssumption

\* A subtraction that went below zero wraps once.
LEMMA ModNegative ==
  ASSUME NEW a \in Int, a < 0, a >= -CounterMod
  PROVE  a % CounterMod = a + CounterMod
BY VenusRingAssumption

\* An addition that went over the top wraps once.
LEMMA ModLarge ==
  ASSUME NEW a \in Int, a >= CounterMod, a < 2 * CounterMod
  PROVE  a % CounterMod = a - CounterMod
BY VenusRingAssumption

\* The distance between two positions, without the remainder.
LEMMA DistanceIs ==
  ASSUME NEW a \in Positions, NEW b \in Positions
  PROVE  Distance(a, b) = IF a <= b THEN b - a ELSE b - a + CounterMod
<1>1. CASE a <= b
  <2>1. (b - a) \in Int /\ b - a >= 0 /\ b - a < CounterMod
    BY <1>1, VenusRingAssumption DEF Positions
  <2>2. QED
    BY <2>1, <1>1, ModSmall DEF Distance
<1>2. CASE a > b
  <2>1. (b - a) \in Int /\ b - a < 0 /\ b - a >= -CounterMod
    BY <1>2, VenusRingAssumption DEF Positions
  <2>2. (b - a) % CounterMod = b - a + CounterMod
    BY <2>1, ModNegative
  <2>3. ~(a <= b)
    BY <1>2 DEF Positions
  <2>4. QED
    BY <2>2, <2>3 DEF Distance
<1>3. QED
  BY <1>1, <1>2, VenusRingAssumption DEF Positions

\* A distance is a position, and zero only between equal positions.
LEMMA DistanceZero ==
  ASSUME NEW a \in Positions, NEW b \in Positions
  PROVE  /\ Distance(a, b) \in Nat
         /\ Distance(a, b) < CounterMod
         /\ Distance(a, b) = 0 <=> a = b
<1>1. /\ a \in Int /\ a >= 0 /\ a < CounterMod
      /\ b \in Int /\ b >= 0 /\ b < CounterMod
      /\ CounterMod \in Nat
  BY VenusRingAssumption DEF Positions
<1>2. CASE a <= b
  <2>1. Distance(a, b) = b - a
    BY <1>2, DistanceIs
  <2>2. QED
    BY <1>1, <1>2, <2>1
<1>3. CASE ~(a <= b)
  <2>1. Distance(a, b) = b - a + CounterMod
    BY <1>3, DistanceIs
  <2>2. QED
    BY <1>1, <1>3, <2>1
<1>4. QED
  BY <1>2, <1>3

\* Advancing a position moves it away from any other by as much, as long as the
\* distance stays below the width of the counters.
LEMMA DistanceAdvance ==
  ASSUME NEW a \in Positions, NEW b \in Positions, NEW n \in Nat,
         Distance(a, b) + n < CounterMod
  PROVE  /\ Advance(b, n) \in Positions
         /\ Distance(a, Advance(b, n)) = Distance(a, b) + n
<1>1. n < CounterMod
  BY DistanceZero, VenusRingAssumption
<1>2. Advance(b, n) = IF b + n < CounterMod THEN b + n ELSE b + n - CounterMod
  <2>1. CASE b + n < CounterMod
    <3>1. b + n \in Int /\ b + n >= 0
      BY DEF Positions
    <3>2. QED
      BY <2>1, <3>1, ModSmall DEF Advance
  <2>2. CASE b + n >= CounterMod
    <3>1. b + n \in Int /\ b + n < 2 * CounterMod
      <4>1. b \in Int /\ b < CounterMod /\ CounterMod \in Nat
        BY VenusRingAssumption DEF Positions
      <4>2. QED
        BY <1>1, <4>1
    <3>2. (b + n) % CounterMod = b + n - CounterMod
      <4> DEFINE m == b + n
      <4>1. m \in Int /\ m >= CounterMod /\ m < 2 * CounterMod
        BY <2>2, <3>1
      <4>2. m % CounterMod = m - CounterMod
        <5> HIDE DEF m
        <5>1. QED
          BY <4>1, ModLarge
      <4>3. QED
        BY <4>1, <4>2, <3>1, VenusRingAssumption DEF Positions
    <3>3. CounterMod \in Nat
      BY VenusRingAssumption
    <3>4. ~(b + n < CounterMod)
      BY <2>2, <3>1, <3>3
    <3>5. QED
      BY <3>2, <3>4 DEF Advance
  <2>3. QED
    BY <2>1, <2>2, VenusRingAssumption DEF Positions
<1>3. Advance(b, n) \in Positions
  BY <1>1, <1>2, VenusRingAssumption DEF Positions
<1>4. QED
  <2>1. Distance(a, Advance(b, n)) = IF a <= Advance(b, n)
                                     THEN Advance(b, n) - a
                                     ELSE Advance(b, n) - a + CounterMod
    BY <1>3, DistanceIs
  <2>2. Distance(a, b) = IF a <= b THEN b - a ELSE b - a + CounterMod
    BY DistanceIs
  <2>3. QED
    BY <1>1, <1>2, <1>3, <2>1, <2>2, VenusRingAssumption DEF Positions

\* Two arcs that together stay below the width of the counters make one arc.
LEMMA DistanceChain ==
  ASSUME NEW a \in Positions, NEW b \in Positions, NEW c \in Positions,
         Distance(a, b) + Distance(b, c) < CounterMod
  PROVE  Distance(a, c) = Distance(a, b) + Distance(b, c)
<1>1. /\ a \in Int /\ a >= 0 /\ a < CounterMod
      /\ b \in Int /\ b >= 0 /\ b < CounterMod
      /\ c \in Int /\ c >= 0 /\ c < CounterMod
      /\ CounterMod \in Nat
  BY VenusRingAssumption DEF Positions
<1>2. /\ Distance(a, b) = IF a <= b THEN b - a ELSE b - a + CounterMod
      /\ Distance(b, c) = IF b <= c THEN c - b ELSE c - b + CounterMod
      /\ Distance(a, c) = IF a <= c THEN c - a ELSE c - a + CounterMod
  BY DistanceIs
<1>3. QED
  BY <1>1, <1>2

-----------------------------------------------------------------------------

\* The guest is inside a call only on a registered ring, and holds data only
\* between the check and the copy of cmd_write.
CallInv ==
  /\ pc # "idle" => protocol_ready
  /\ pc # "copy" => chunk = <<>>
  /\ result = "wait_ok" => pc = "idle"

\* The host's thread lives with the registration, and is executing something
\* exactly when its read position is ahead of the head it stored.
HostInv ==
  /\ ring_thread # "none" => protocol_ready
  /\ running # <<>> => protocol_ready
  /\ protocol_ready => (running = <<>> <=> head = cur)

\* WaitMeansExecuted on a ring that is still registered.
WaitInv == result = "wait_ok" => protocol_ready

\* The inductive invariant.
IInv == TypeOK /\ CallInv /\ HostInv /\ CountersOrdered /\ WaitInv /\ WaitMeansExecuted

\* Offsets in the buffer.
LEMMA OffsetInBuffer ==
  ASSUME NEW a \in Nat
  PROVE  a % BufSize \in 0..(BufSize - 1)
BY VenusRingAssumption

\* What the host copies out are command words.
LEMMA SliceType ==
  ASSUME buf \in [0..(BufSize - 1) -> Data], NEW from \in Nat, NEW n \in Nat
  PROVE  /\ Slice(from, n) \in Seq(Data)
         /\ Len(Slice(from, n)) = n
<1>1. \A i \in 1..n : buf[(from + i - 1) % BufSize] \in Data
  <2> TAKE i \in 1..n
  <2>1. from + i - 1 \in Nat
    OBVIOUS
  <2>2. (from + i - 1) % BufSize \in 0..(BufSize - 1)
    BY <2>1, OffsetInBuffer
  <2>3. QED
    BY <2>2
<1>2. QED
  BY <1>1 DEF Slice

\* Copying into the buffer leaves it a buffer of command words.
LEMMA CopiedType ==
  ASSUME buf \in [0..(BufSize - 1) -> Data], NEW offset \in 0..(BufSize - 1),
         NEW d \in Chunks, Len(d) <= BufSize
  PROVE  Copied(offset, d) \in [0..(BufSize - 1) -> Data]
<1>1. /\ Len(d) \in Nat
      /\ \A i \in 1..Len(d) : d[i] \in Data
  <2>1. PICK n \in 1..MaxLen : d \in [1..n -> Data]
    BY DEF Chunks
  <2>2. n \in Nat
    BY VenusRingAssumption
  <2>3. QED
    BY <2>1, <2>2
<1>2. BufSize \in Nat /\ offset \in Nat /\ offset < BufSize
  BY VenusRingAssumption
<1>3. ASSUME NEW i \in 0..(BufSize - 1), offset + Len(d) <= BufSize
      PROVE  i \in offset..(offset + Len(d) - 1) => d[i - offset + 1] \in Data
  BY <1>1, <1>2
<1>4. ASSUME NEW i \in 0..(BufSize - 1), ~(offset + Len(d) <= BufSize)
      PROVE  /\ i >= offset => d[i - offset + 1] \in Data
             /\ i < Len(d) - (BufSize - offset) => d[BufSize - offset + i + 1] \in Data
  BY <1>1, <1>2, <1>4
<1>5. QED
  BY <1>3, <1>4 DEF Copied

\* The data of a write is a sequence, and so is no data.
LEMMA ChunkLength ==
  ASSUME NEW d \in Chunks \cup {<<>>}
  PROVE  Len(d) \in Nat
<1>1. CASE d \in Chunks
  <2>1. PICK n \in 1..MaxLen : d \in [1..n -> Data]
    BY <1>1 DEF Chunks
  <2>2. n \in Nat
    BY VenusRingAssumption
  <2>3. QED
    BY <2>1, <2>2
<1>2. CASE d = <<>>
  BY <1>2
<1>3. QED
  BY <1>1, <1>2

\* The ring starts unregistered.
LEMMA InitIInv == Init => IInv
<1> SUFFICES ASSUME Init PROVE IInv
  OBVIOUS
<1>1. 0 \in Positions
  BY VenusRingAssumption DEF Positions
<1>2. TypeOK
  <2>1. buf \in [0..(BufSize - 1) -> Data]
    BY DEF Init
  <2>2. /\ <<>> \in Seq(Data)
        /\ running = <<>> /\ chunk = <<>> /\ cur_tail = 0 /\ cur = 0
        /\ head \in Positions /\ tail \in Positions
        /\ protocol_ready = FALSE /\ pc = "idle" /\ result = "none" /\ ring_thread = "none"
    BY DEF Init
  <2>3. QED
    BY <1>1, <2>1, <2>2 DEF TypeOK, Results
<1>3. CallInv /\ HostInv /\ CountersOrdered /\ WaitInv /\ WaitMeansExecuted
  BY DEF Init, CallInv, HostInv, CountersOrdered, WaitInv, WaitMeansExecuted
<1>4. QED
  BY <1>2, <1>3 DEF IInv

\* The guest's calls preserve the invariant.
LEMMA GuestIInv == IInv /\ GuestNext => IInv'
<1> SUFFICES ASSUME IInv, GuestNext PROVE IInv'
  OBVIOUS
<1>a. TypeOK /\ CallInv /\ HostInv /\ CountersOrdered /\ WaitInv /\ WaitMeansExecuted
  BY DEF IInv
<1>b. /\ 0 \in Positions /\ BufSize \in Nat /\ BufSize < CounterMod /\ CounterMod \in Nat
      /\ cur_tail \in Positions /\ head \in Positions
      /\ tail \in Positions /\ cur \in Positions
      /\ buf \in [0..(BufSize - 1) -> Data] /\ running \in Seq(Data)
      /\ chunk \in Chunks \cup {<<>>}
  BY <1>a, VenusRingAssumption DEF TypeOK, Positions
<1>c. \A d \in Chunks : Len(d) \in Nat
  BY ChunkLength
<1>d. Len(<<>>) = 0
  OBVIOUS
<1> USE DEF IInv, TypeOK, CallInv, HostInv, WaitInv, WaitMeansExecuted, Results
<1>1. CASE Register
  <2>1. /\ pc = "idle" /\ chunk = <<>> /\ pc' = pc /\ chunk' = chunk /\ running = <<>>
        /\ head' = 0 /\ tail' = 0 /\ running' = running /\ buf' = buf
        /\ result' \in {"none", "register_error"}
        /\ protocol_ready = FALSE
    BY <1>1, <1>a DEF Register
  <2>2. CASE protocol_ready' = TRUE /\ cur_tail' = 0 /\ ring_thread' = "awake" /\ cur' = 0
    <3>1. Distance(0, 0) = 0
      BY <1>b, DistanceZero
    <3>2. CountersOrdered'
      BY <1>b, <1>d, <2>1, <2>2, <3>1 DEF CountersOrdered, Distance
    <3>3. QED
      BY <1>a, <1>b, <2>1, <2>2, <3>2
  <2>3. CASE UNCHANGED <<protocol_ready, cur_tail, ring_thread, cur>>
    <3>1. CountersOrdered'
      BY <2>1, <2>3 DEF CountersOrdered
    <3>2. QED
      BY <1>a, <1>b, <2>1, <2>3, <3>1
  <2>4. QED
    BY <1>1, <2>2, <2>3 DEF Register
<1>2. CASE WriteCheck
  <2>1. /\ pc = "idle" /\ protocol_ready /\ chunk = <<>>
        /\ UNCHANGED <<protocol_ready, cur_tail, buf, head, tail, ring_thread, cur, running>>
    BY <1>2, <1>a DEF WriteCheck, sharedVars, hostVars
  <2>2. PICK d \in Chunks :
          IF Len(d) > Avail
          THEN result' = "write_ENOSPC" /\ UNCHANGED <<pc, chunk>>
          ELSE pc' = "copy" /\ chunk' = d /\ result' = "none"
    BY <1>2 DEF WriteCheck
  <2>3. CASE Len(d) > Avail
    <3>1. CountersOrdered'
      BY <1>a, <2>1, <2>2, <2>3 DEF CountersOrdered, Distance
    <3>2. QED
      BY <1>a, <1>b, <2>1, <2>2, <2>3, <3>1
  <2>4. CASE ~(Len(d) > Avail)
    <3>1. Distance(head, cur_tail) + Len(d) <= BufSize
      <4>1. Len(d) \in Nat /\ Distance(head, cur_tail) \in Nat
        BY <1>b, <1>c, DistanceZero
      <4>2. ~(Len(d) > BufSize - Distance(head, cur_tail))
        BY <2>4 DEF Avail
      <4>3. QED
        BY <1>b, <4>1, <4>2
    <3>2. CountersOrdered'
      BY <1>a, <2>1, <2>2, <2>4, <3>1 DEF CountersOrdered, Distance
    <3>3. QED
      BY <1>a, <1>b, <2>1, <2>2, <2>4, <3>2
  <2>5. QED
    BY <2>3, <2>4
<1>3. CASE WriteCopy
  <2>1. /\ pc = "copy" /\ protocol_ready
        /\ cur_tail' = Advance(cur_tail, Len(chunk))
        /\ buf' = Copied(cur_tail % BufSize, chunk)
        /\ chunk' = <<>> /\ result' = "write_ok" /\ pc' = "idle"
        /\ UNCHANGED <<protocol_ready, head, tail, ring_thread, cur, running>>
    BY <1>3, <1>a DEF WriteCopy, hostVars
  <2>2. /\ Len(chunk) \in Nat
        /\ Distance(head, cur_tail) + Len(chunk) <= BufSize
        /\ Distance(head, cur) + Distance(cur, tail) + Distance(tail, cur_tail)
             = Distance(head, cur_tail)
    BY <1>a, <1>b, <1>c, <1>d, <2>1 DEF CountersOrdered
  <2>3. /\ Distance(head, cur) \in Nat /\ Distance(cur, tail) \in Nat
        /\ Distance(tail, cur_tail) \in Nat /\ Distance(head, cur_tail) \in Nat
    BY <1>b, DistanceZero
  <2>4. /\ Distance(head, cur_tail) + Len(chunk) < CounterMod
        /\ Distance(tail, cur_tail) + Len(chunk) < CounterMod
    BY <1>b, <2>2, <2>3
  <2>5. /\ cur_tail' \in Positions
        /\ Distance(head, cur_tail') = Distance(head, cur_tail) + Len(chunk)
        /\ Distance(tail, cur_tail') = Distance(tail, cur_tail) + Len(chunk)
    BY <1>b, <2>1, <2>2, <2>4, DistanceAdvance
  <2>6. CountersOrdered'
    <3>1. /\ Distance(head, cur)' = Distance(head, cur)
          /\ Distance(cur, tail)' = Distance(cur, tail)
          /\ Distance(tail, cur_tail)' = Distance(tail, cur_tail')
          /\ Distance(head, cur_tail)' = Distance(head, cur_tail')
      BY <2>1 DEF Distance
    <3>2. Len(chunk') = 0
      BY <1>d, <2>1
    <3>3. QED
      BY <1>b, <2>2, <2>3, <2>5, <3>1, <3>2 DEF CountersOrdered
  <2>7. buf' \in [0..(BufSize - 1) -> Data]
    <3>1. CASE chunk \in Chunks
      <4>1. cur_tail \in Nat /\ Len(chunk) <= BufSize
        BY <1>b, <2>2, <2>3 DEF Positions
      <4>2. cur_tail % BufSize \in 0..(BufSize - 1)
        BY <4>1, OffsetInBuffer
      <4>3. QED
        BY <1>b, <2>1, <3>1, <4>1, <4>2, CopiedType
    <3>2. CASE chunk = <<>>
      <4>1. cur_tail % BufSize \in 0..(BufSize - 1)
        BY <1>b, OffsetInBuffer DEF Positions
      <4>2. Copied(cur_tail % BufSize, chunk) = [i \in 0..(BufSize - 1) |-> buf[i]]
        BY <1>b, <1>d, <3>2, <4>1 DEF Copied
      <4>3. QED
        BY <1>b, <2>1, <4>2
    <3>3. QED
      BY <1>b, <3>1, <3>2
  <2>8. QED
    BY <1>a, <1>b, <2>1, <2>5, <2>6, <2>7
<1>4. CASE FlushStore
  <2>1. /\ pc = "idle" /\ protocol_ready /\ chunk = <<>>
        /\ tail' = cur_tail /\ result' = "none" /\ pc' = "notify"
        /\ UNCHANGED <<protocol_ready, cur_tail, chunk, buf, head, ring_thread, cur, running>>
    BY <1>4, <1>a DEF FlushStore, hostVars
  <2>2. /\ Distance(cur, tail) + Distance(tail, cur_tail) = Distance(cur, cur_tail)
        /\ Distance(cur_tail, cur_tail) = 0
    <3>1. /\ Distance(head, cur) + Distance(cur, tail) + Distance(tail, cur_tail)
               = Distance(head, cur_tail)
          /\ Distance(head, cur_tail) + Len(chunk) <= BufSize
      BY <1>a, <2>1 DEF CountersOrdered
    <3>2. /\ Distance(head, cur) \in Nat /\ Distance(cur, tail) \in Nat
          /\ Distance(tail, cur_tail) \in Nat /\ Distance(head, cur_tail) \in Nat
      BY <1>b, DistanceZero
    <3>3. Distance(cur, tail) + Distance(tail, cur_tail) < CounterMod
      BY <1>b, <1>d, <2>1, <3>1, <3>2
    <3>4. QED
      BY <1>b, <3>2, <3>3, DistanceChain, DistanceZero
  <2>3. CountersOrdered'
    <3>1. /\ Distance(head, cur)' = Distance(head, cur)
          /\ Distance(cur, tail)' = Distance(cur, cur_tail)
          /\ Distance(tail, cur_tail)' = Distance(cur_tail, cur_tail)
          /\ Distance(head, cur_tail)' = Distance(head, cur_tail)
      BY <2>1 DEF Distance
    <3>2. /\ Distance(head, cur) \in Nat /\ Distance(cur, tail) \in Nat
          /\ Distance(tail, cur_tail) \in Nat
      BY <1>b, DistanceZero
    <3>3. QED
      BY <1>a, <2>1, <2>2, <3>1, <3>2 DEF CountersOrdered
  <2>4. QED
    BY <1>a, <1>b, <2>1, <2>3
<1>5. CASE FlushNotify
  <2>1. /\ pc = "notify" /\ protocol_ready /\ pc' = "idle" /\ chunk = <<>>
        /\ result' \in {"flush_ok", "flush_error"}
        /\ ring_thread' \in {ring_thread, "awake"}
        /\ UNCHANGED <<protocol_ready, cur_tail, chunk, buf, head, tail, cur, running>>
    BY <1>5, <1>a DEF FlushNotify, sharedVars
  <2>2. CountersOrdered'
    BY <1>a, <2>1 DEF CountersOrdered, Distance
  <2>3. QED
    BY <1>a, <1>b, <2>1, <2>2
<1>6. CASE Wait
  <2>1. /\ pc = "idle" /\ protocol_ready
        /\ result' = IF head = cur_tail THEN "wait_ok" ELSE "wait_ETIMEDOUT"
        /\ UNCHANGED <<protocol_ready, cur_tail, pc, chunk, buf, head, tail,
                       ring_thread, cur, running>>
    BY <1>6 DEF Wait, sharedVars, hostVars
  <2>2. CountersOrdered'
    BY <1>a, <2>1 DEF CountersOrdered, Distance
  <2>3. head = cur_tail => running = <<>> /\ cur = cur_tail
    <3> SUFFICES ASSUME head = cur_tail PROVE head = cur
      BY <1>a, <2>1
    <3>1. Distance(head, cur_tail) = 0
      BY <1>b, DistanceZero
    <3>2. /\ Distance(head, cur) \in Nat /\ Distance(cur, tail) \in Nat
          /\ Distance(tail, cur_tail) \in Nat
      BY <1>b, DistanceZero
    <3>3. Distance(head, cur) = 0
      BY <1>a, <2>1, <3>1, <3>2 DEF CountersOrdered
    <3>4. QED
      BY <1>b, <3>3, DistanceZero
  <2>4. QED
    BY <1>a, <1>b, <2>1, <2>2, <2>3
<1>7. CASE Unregister
  <2>1. /\ pc = "idle" /\ protocol_ready' = FALSE /\ cur_tail' = 0 /\ result' = "none"
        /\ ring_thread' = "none" /\ running' = <<>>
        /\ UNCHANGED <<pc, chunk, buf, head, tail, cur>>
    BY <1>7 DEF Unregister, sharedVars
  <2>2. CountersOrdered'
    BY <2>1 DEF CountersOrdered
  <2>3. <<>> \in Seq(Data)
    OBVIOUS
  <2>4. CallInv' /\ HostInv' /\ WaitInv' /\ WaitMeansExecuted'
    BY <1>a, <2>1
  <2>5. TypeOK'
    BY <1>a, <1>b, <2>1, <2>3
  <2>6. QED
    BY <2>2, <2>4, <2>5
<1>8. QED
  BY <1>1, <1>2, <1>3, <1>4, <1>5, <1>6, <1>7 DEF GuestNext

\* The host's steps preserve it.
LEMMA HostIInv == IInv /\ HostNext => IInv'
<1> SUFFICES ASSUME IInv, HostNext PROVE IInv'
  OBVIOUS
<1>a. TypeOK /\ CallInv /\ HostInv /\ CountersOrdered /\ WaitInv /\ WaitMeansExecuted
  BY DEF IInv
<1>b. /\ cur_tail \in Positions /\ head \in Positions
      /\ tail \in Positions /\ cur \in Positions
      /\ buf \in [0..(BufSize - 1) -> Data] /\ running \in Seq(Data)
      /\ CounterMod \in Nat /\ BufSize \in Nat /\ BufSize < CounterMod
  BY <1>a, VenusRingAssumption DEF TypeOK
<1>c. /\ Distance(head, cur) \in Nat /\ Distance(cur, tail) \in Nat
      /\ Distance(tail, cur_tail) \in Nat /\ Distance(head, cur_tail) \in Nat
  BY <1>b, DistanceZero
<1> USE DEF IInv, CallInv, HostInv, WaitInv, WaitMeansExecuted
<1>1. CASE HostRead
  <2>1. /\ ring_thread = "awake" /\ protocol_ready /\ running = <<>> /\ tail # cur
        /\ running' = Slice(cur, Distance(cur, tail)) /\ cur' = tail /\ head = cur
        /\ UNCHANGED <<protocol_ready, cur_tail, pc, chunk, result, buf, head, tail, ring_thread>>
    BY <1>1, <1>a DEF HostRead, guestVars, sharedVars
  <2>2. Distance(cur, tail) > 0
    BY <1>b, <1>c, <2>1, DistanceZero
  <2>3. /\ Slice(cur, Distance(cur, tail)) \in Seq(Data)
        /\ Len(Slice(cur, Distance(cur, tail))) = Distance(cur, tail)
    <3>1. cur \in Nat
      BY <1>b DEF Positions
    <3>2. QED
      BY <1>b, <1>c, <3>1, SliceType
  <2>4. running' \in Seq(Data) /\ running' # <<>>
    BY <2>1, <2>2, <2>3
  <2>5. result # "wait_ok"
    <3> SUFFICES ASSUME result = "wait_ok" PROVE FALSE
      OBVIOUS
    <3>1. cur = cur_tail
      BY <1>a
    <3>2. Distance(head, cur_tail) = 0
      BY <1>b, <2>1, <3>1, DistanceZero
    <3>3. QED
      BY <1>a, <1>c, <2>1, <2>2, <3>2 DEF CountersOrdered
  <2>6. CountersOrdered'
    <3>1. /\ Distance(head, cur)' = Distance(cur, tail)
          /\ Distance(cur, tail)' = Distance(tail, tail)
          /\ Distance(tail, cur_tail)' = Distance(tail, cur_tail)
          /\ Distance(head, cur_tail)' = Distance(head, cur_tail)
      BY <2>1 DEF Distance
    <3>2. Distance(tail, tail) = 0 /\ Distance(head, cur) = 0
      BY <1>b, <2>1, DistanceZero
    <3>3. QED
      BY <1>a, <1>c, <2>1, <3>1, <3>2 DEF CountersOrdered
  <2>7. TypeOK'
    BY <1>a, <1>b, <2>1, <2>4 DEF TypeOK
  <2>8. HostInv'
    BY <1>a, <2>1, <2>4
  <2>9. QED
    BY <1>a, <2>1, <2>5, <2>6, <2>7, <2>8
<1>2. CASE HostStoreHead
  <2>1. /\ running # <<>> /\ protocol_ready /\ head' = cur /\ running' = <<>>
        /\ UNCHANGED <<protocol_ready, cur_tail, pc, chunk, result, buf, tail, ring_thread, cur>>
    BY <1>2, <1>a DEF HostStoreHead, guestVars
  <2>2. CountersOrdered'
    <3>1. /\ Distance(head, cur)' = Distance(cur, cur)
          /\ Distance(cur, tail)' = Distance(cur, tail)
          /\ Distance(tail, cur_tail)' = Distance(tail, cur_tail)
          /\ Distance(head, cur_tail)' = Distance(cur, cur_tail)
      BY <2>1 DEF Distance
    <3>2. Distance(cur, cur) = 0
      BY <1>b, DistanceZero
    <3>3. /\ Distance(head, cur) + Distance(cur, tail) + Distance(tail, cur_tail)
               = Distance(head, cur_tail)
          /\ Distance(head, cur_tail) + Len(chunk) <= BufSize
      BY <1>a, <2>1 DEF CountersOrdered
    <3>4. Len(chunk) \in Nat
      <4>1. chunk \in Chunks \cup {<<>>}
        BY <1>a DEF TypeOK
      <4>2. QED
        BY <4>1, ChunkLength
    <3>5. Distance(cur, cur_tail) = Distance(cur, tail) + Distance(tail, cur_tail)
      <4>1. Distance(cur, tail) + Distance(tail, cur_tail) < CounterMod
        BY <1>b, <1>c, <3>3, <3>4
      <4>2. QED
        BY <1>b, <4>1, DistanceChain
    <3>6. Distance(cur, cur_tail) + Len(chunk) <= BufSize
      BY <1>b, <1>c, <3>3, <3>4, <3>5
    <3>7. chunk' = chunk /\ protocol_ready'
      BY <2>1
    <3>8. QED
      BY <1>c, <3>1, <3>2, <3>5, <3>6, <3>7 DEF CountersOrdered
  <2>3. <<>> \in Seq(Data)
    OBVIOUS
  <2>4. TypeOK'
    BY <1>a, <1>b, <2>1, <2>3 DEF TypeOK
  <2>5. QED
    BY <1>a, <2>1, <2>2, <2>4
<1>3. CASE HostSleep
  <2>1. /\ ring_thread = "awake" /\ ring_thread' = "asleep"
        /\ UNCHANGED <<protocol_ready, cur_tail, pc, chunk, result, buf, head, tail,
                       cur, running>>
    BY <1>3 DEF HostSleep, guestVars, sharedVars
  <2>2. CountersOrdered'
    BY <1>a, <2>1 DEF CountersOrdered, Distance
  <2>3. TypeOK'
    BY <1>a, <1>b, <2>1 DEF TypeOK
  <2>4. QED
    BY <1>a, <2>1, <2>2, <2>3
<1>4. QED
  BY <1>1, <1>2, <1>3 DEF HostNext

\* Every step preserves it.
LEMMA NextIInv == IInv /\ [Next]_vars => IInv'
<1> SUFFICES ASSUME IInv, [Next]_vars PROVE IInv'
  OBVIOUS
<1>1. CASE UNCHANGED vars
  <2>1. UNCHANGED <<protocol_ready, cur_tail, pc, chunk, result, buf, head, tail,
                   ring_thread, cur, running>>
    BY <1>1 DEF vars, guestVars, sharedVars, hostVars
  <2>2. QED
    BY <2>1 DEF IInv, TypeOK, CallInv, HostInv, CountersOrdered, Distance, WaitInv,
                WaitMeansExecuted
<1>2. CASE Next
  BY <1>2, GuestIInv, HostIInv DEF Next
<1>3. QED
  BY <1>1, <1>2

-----------------------------------------------------------------------------

\* The guest's, the shared and the host's state keep their types.
THEOREM RingTypeCorrect == Spec => []TypeOK
<1>1. IInv => TypeOK
  BY DEF IInv
<1>2. QED
  BY <1>1, InitIInv, NextIInv, PTL DEF Spec

\* The four counters keep their order and stay within one buffer of each other,
\* across every wrap of their width: the unsigned subtraction of cmd_write is
\* the number of words in the ring.
THEOREM RingCountersOrdered == Spec => []CountersOrdered
<1>1. IInv => CountersOrdered
  BY DEF IInv
<1>2. QED
  BY <1>1, InitIInv, NextIInv, PTL DEF Spec

\* A cmd_wait that returned 0 found every word written executed by the host.
THEOREM RingWaitMeansExecuted == Spec => []WaitMeansExecuted
<1>1. IInv => WaitMeansExecuted
  BY DEF IInv
<1>2. QED
  BY <1>1, InitIInv, NextIInv, PTL DEF Spec

-----------------------------------------------------------------------------
\* Offsets in the buffer

\* A multiple of the buffer's size that is smaller than the buffer is zero.
LEMMA SmallMultiple ==
  ASSUME NEW k \in Int, BufSize * k < BufSize, BufSize * k > -BufSize
  PROVE  k = 0
<1>1. BufSize \in Nat /\ BufSize > 0
  BY VenusRingAssumption
<1>2. CASE k >= 1
  <2>1. BufSize * k = BufSize + BufSize * (k - 1) /\ BufSize * (k - 1) >= 0
    BY <1>1, <1>2
  <2> QED
    BY <1>1, <2>1
<1>3. CASE k <= -1
  <2>1. BufSize * k = BufSize * (k + 1) - BufSize /\ BufSize * (-(k + 1)) >= 0
    BY <1>1, <1>3
  <2>2. BufSize * (k + 1) <= 0
    BY <1>1, <2>1
  <2> QED
    BY <1>1, <2>1, <2>2
<1> QED
  BY <1>2, <1>3

\* A position is its round of the buffer and its offset in it.
LEMMA RoundAndOffset ==
  ASSUME NEW a \in Nat
  PROVE  \E q \in Nat : a = BufSize * q + (a % BufSize)
<1>1. a = BufSize * (a \div BufSize) + (a % BufSize)
  BY VenusRingAssumption
<1>2. a \div BufSize \in Nat
  BY VenusRingAssumption
<1> QED
  BY <1>1, <1>2

\* Whichever way a position is cut into rounds and an offset, the offset is the same.
LEMMA SameOffset ==
  ASSUME NEW p \in Int, NEW q \in Int, NEW r \in 0..(BufSize - 1), NEW s \in 0..(BufSize - 1),
         BufSize * p + r = BufSize * q + s
  PROVE  r = s
<1>1. BufSize \in Nat /\ BufSize > 0
  BY VenusRingAssumption
<1>2. BufSize * (p - q) = s - r
  BY <1>1
<1>3. p - q = 0
  <2> DEFINE k == p - q
  <2>1. k \in Int /\ BufSize * k < BufSize /\ BufSize * k > -BufSize
    BY <1>1, <1>2
  <2> HIDE DEF k
  <2>2. k = 0
    BY <2>1, SmallMultiple
  <2> QED
    BY <2>2 DEF k
<1> QED
  BY <1>1, <1>2, <1>3

\* A position that is so many rounds and an offset has that offset.
LEMMA OffsetIs ==
  ASSUME NEW a \in Nat, NEW q \in Int, NEW r \in 0..(BufSize - 1), a = BufSize * q + r
  PROVE  a % BufSize = r
<1>1. PICK p \in Nat : a = BufSize * p + (a % BufSize)
  BY RoundAndOffset
<1>2. a % BufSize \in 0..(BufSize - 1)
  BY OffsetInBuffer
<1> DEFINE s == a % BufSize
<1>3. s \in 0..(BufSize - 1) /\ BufSize * p + s = BufSize * q + r
  BY <1>1, <1>2
<1> HIDE DEF s
<1>4. s = r
  BY <1>3, SameOffset
<1> QED
  BY <1>4 DEF s

\* Where a counter wraps the buffer starts over, so wrapping does not move the offset.
LEMMA OffsetOfWrapped ==
  ASSUME NEW a \in Nat
  PROVE  (a + CounterMod) % BufSize = a % BufSize
<1>1. PICK p \in Nat : a = BufSize * p + (a % BufSize)
  BY RoundAndOffset
<1>2. PICK q \in Nat : CounterMod = BufSize * q + (CounterMod % BufSize)
  BY RoundAndOffset, VenusRingAssumption
<1>3. /\ a % BufSize \in 0..(BufSize - 1)
      /\ BufSize \in Nat /\ CounterMod \in Nat /\ CounterMod % BufSize = 0
  BY OffsetInBuffer, VenusRingAssumption
<1> DEFINE s == a % BufSize
           c == a + CounterMod
<1>4. c \in Nat /\ c = BufSize * (p + q) + s /\ s \in 0..(BufSize - 1)
  <2>1. CounterMod = BufSize * q
    BY <1>2, <1>3
  <2>2. BufSize * (p + q) = BufSize * p + BufSize * q
    BY <1>3
  <2>3. a = BufSize * p + s /\ s \in 0..(BufSize - 1)
    BY <1>1, <1>3
  <2> HIDE DEF s
  <2>4. c \in Nat /\ c = BufSize * p + s + CounterMod
    BY <1>3, <2>3
  <2> QED
    BY <1>3, <2>1, <2>2, <2>3, <2>4
<1> HIDE DEF s, c
<1>5. c % BufSize = s
  BY <1>4, OffsetIs
<1> QED
  BY <1>5 DEF s, c

\* Adding to the offset or to the position comes to the same offset.
LEMMA OffsetOfSum ==
  ASSUME NEW a \in Nat, NEW n \in Nat
  PROVE  ((a % BufSize) + n) % BufSize = (a + n) % BufSize
<1>1. PICK p \in Nat : a = BufSize * p + (a % BufSize)
  BY RoundAndOffset
<1>2. a % BufSize \in 0..(BufSize - 1) /\ BufSize \in Nat
  BY OffsetInBuffer, VenusRingAssumption
<1> DEFINE c == (a % BufSize) + n
<1>3. c \in Nat
  BY <1>2
<1>4. PICK q \in Nat : c = BufSize * q + (c % BufSize)
  BY <1>3, RoundAndOffset
<1>5. c % BufSize \in 0..(BufSize - 1)
  BY <1>3, OffsetInBuffer
<1> DEFINE s == c % BufSize
           e == a + n
<1>6. e \in Nat /\ e = BufSize * (p + q) + s /\ s \in 0..(BufSize - 1)
  BY <1>1, <1>2, <1>4, <1>5
<1> HIDE DEF s, e
<1>7. e % BufSize = s
  BY <1>6, OffsetIs
<1> QED
  BY <1>7 DEF s, e, c

\* Two positions less than a buffer apart have different offsets.
LEMMA OffsetsApart ==
  ASSUME NEW a \in Nat, NEW k \in 1..(BufSize - 1)
  PROVE  (a + k) % BufSize # a % BufSize
<1>1. PICK p \in Nat : a = BufSize * p + (a % BufSize)
  BY RoundAndOffset
<1>2. PICK q \in Nat : a + k = BufSize * q + ((a + k) % BufSize)
  BY RoundAndOffset
<1>3. BufSize \in Nat /\ BufSize > 0
  BY VenusRingAssumption
<1> SUFFICES ASSUME (a + k) % BufSize = a % BufSize PROVE FALSE
  OBVIOUS
<1> DEFINE d == q - p
<1>4. a % BufSize \in 0..(BufSize - 1)
  BY OffsetInBuffer
<1>5. d \in Int /\ BufSize * d = k
  BY <1>1, <1>2, <1>3, <1>4
<1> HIDE DEF d
<1>6. d = 0
  BY <1>3, <1>5, SmallMultiple
<1> QED
  BY <1>3, <1>5, <1>6

\* The offset of a position that many words further on, past the wrap or not.
LEMMA OffsetAhead ==
  ASSUME NEW a \in Positions, NEW b \in Positions, NEW k \in Nat
  PROVE  (b + k) % BufSize = (a + Distance(a, b) + k) % BufSize
<1>1. /\ a \in Nat /\ b \in Nat /\ CounterMod \in Nat
      /\ Distance(a, b) = IF a <= b THEN b - a ELSE b - a + CounterMod
  BY DistanceIs, VenusRingAssumption DEF Positions
<1>2. CASE a <= b
  <2>1. a + Distance(a, b) + k = b + k
    BY <1>1, <1>2
  <2> QED
    BY <2>1
<1>3. CASE ~(a <= b)
  <2>1. a + Distance(a, b) + k = (b + k) + CounterMod /\ b + k \in Nat
    BY <1>1, <1>3
  <2>2. ((b + k) + CounterMod) % BufSize = (b + k) % BufSize
    <3> DEFINE c == b + k
    <3>1. c \in Nat
      BY <2>1
    <3> HIDE DEF c
    <3>2. (c + CounterMod) % BufSize = c % BufSize
      BY <3>1, OffsetOfWrapped
    <3> QED
      BY <3>2 DEF c
  <2> QED
    BY <2>1, <2>2
<1> QED
  BY <1>2, <1>3

-----------------------------------------------------------------------------
\* What is in the buffer

\* The words of one stretch of the ring and of the stretch after it are those of both.
LEMMA SliceAppend ==
  ASSUME buf \in [0..(BufSize - 1) -> Data], NEW a \in Positions, NEW b \in Positions,
         NEW n \in Nat
  PROVE  Slice(a, Distance(a, b) + n) = Slice(a, Distance(a, b)) \o Slice(b, n)
<1> DEFINE D == Distance(a, b)
           s == Slice(a, D + n)
           t == Slice(a, D)
           u == Slice(b, n)
<1>1. a \in Nat /\ b \in Nat /\ D \in Nat /\ D + n \in Nat
  BY DistanceZero DEF Positions
<1>2. /\ s \in Seq(Data) /\ Len(s) = D + n
      /\ t \in Seq(Data) /\ Len(t) = D
      /\ u \in Seq(Data) /\ Len(u) = n
  BY <1>1, SliceType
<1>3. /\ t \o u \in Seq(Data) /\ Len(t \o u) = D + n
      /\ \A i \in 1..(D + n) : (t \o u)[i] = IF i <= D THEN t[i] ELSE u[i - D]
  <2> HIDE DEF D, s, t, u
  <2> QED
    BY <1>2, ConcatProperties
<1>4. \A i \in 1..(D + n) : s[i] = (t \o u)[i]
  <2> SUFFICES ASSUME NEW i \in 1..(D + n) PROVE s[i] = IF i <= D THEN t[i] ELSE u[i - D]
    BY <1>3
  <2>1. s[i] = buf[(a + i - 1) % BufSize]
    BY DEF Slice
  <2>2. CASE i <= D
    BY <1>1, <2>1, <2>2 DEF Slice
  <2>3. CASE ~(i <= D)
    <3>1. i - D \in 1..n /\ i - D - 1 \in Nat
      BY <1>1, <2>3
    <3>2. u[i - D] = buf[(b + (i - D) - 1) % BufSize]
      BY <3>1 DEF Slice
    <3>3. (b + (i - D - 1)) % BufSize = (a + D + (i - D - 1)) % BufSize
      BY <3>1, OffsetAhead
    <3>4. b + (i - D) - 1 = b + (i - D - 1) /\ a + D + (i - D - 1) = a + i - 1
      BY <1>1
    <3> QED
      BY <2>1, <2>3, <3>2, <3>3, <3>4
  <2> QED
    BY <2>2, <2>3
<1> HIDE DEF D, s, t, u
<1>5. s = t \o u
  BY <1>2, <1>3, <1>4, SeqEqual
<1> QED
  BY <1>5 DEF D, s, t, u

\* Where a copy puts the words, around the end of the buffer or not, and what it
\* leaves alone.
LEMMA CopiedWords ==
  ASSUME NEW offset \in 0..(BufSize - 1), NEW d, Len(d) \in Nat, Len(d) <= BufSize
  PROVE  /\ \A j \in 1..Len(d) : Copied(offset, d)[(offset + j - 1) % BufSize] = d[j]
         /\ \A i \in 0..(BufSize - 1) :
              (\A j \in 1..Len(d) : i # (offset + j - 1) % BufSize)
                => Copied(offset, d)[i] = buf[i]
<1>1. BufSize \in Nat /\ BufSize > 0
  BY VenusRingAssumption
<1>2. ASSUME NEW j \in 1..Len(d)
      PROVE  (offset + j - 1) % BufSize =
               IF offset + j - 1 < BufSize THEN offset + j - 1 ELSE offset + j - 1 - BufSize
  <2> DEFINE m == offset + j - 1
  <2>1. m \in Nat /\ m < 2 * BufSize
    BY <1>1
  <2> HIDE DEF m
  <2>2. CASE m < BufSize
    <3>1. m \in 0..(BufSize - 1) /\ BufSize * 0 = 0
      BY <1>1, <2>1, <2>2
    <3>2. m = BufSize * 0 + m
      BY <2>1, <3>1
    <3>3. m % BufSize = m
      BY <2>1, <3>1, <3>2, OffsetIs
    <3> QED
      BY <2>2, <3>3 DEF m
  <2>3. CASE ~(m < BufSize)
    <3>1. m - BufSize \in 0..(BufSize - 1) /\ BufSize * 1 = BufSize
      BY <1>1, <2>1, <2>3
    <3>2. m = BufSize * 1 + (m - BufSize)
      BY <1>1, <2>1, <3>1
    <3>3. m % BufSize = m - BufSize
      BY <2>1, <3>1, <3>2, OffsetIs
    <3> QED
      BY <1>1, <2>3, <3>3 DEF m
  <2> QED
    BY <2>2, <2>3
<1>3. ASSUME NEW j \in 1..Len(d)
      PROVE  Copied(offset, d)[(offset + j - 1) % BufSize] = d[j]
  <2>1. CASE offset + j - 1 < BufSize
    <3>1. (offset + j - 1) % BufSize = offset + j - 1
      BY <1>2, <2>1
    <3>2. offset + j - 1 \in 0..(BufSize - 1) /\ offset + j - 1 >= offset
      BY <1>1, <2>1
    <3>3. (offset + j - 1) - offset + 1 = j
      BY <1>1
    <3> QED
      BY <1>1, <3>1, <3>2, <3>3 DEF Copied
  <2>2. CASE ~(offset + j - 1 < BufSize)
    <3> DEFINE i == offset + j - 1 - BufSize
    <3>1. (offset + j - 1) % BufSize = i
      BY <1>2, <2>2
    <3>2. /\ i \in 0..(BufSize - 1) /\ ~(i >= offset) /\ ~(offset + Len(d) <= BufSize)
          /\ i < Len(d) - (BufSize - offset) /\ BufSize - offset + i + 1 = j
      BY <1>1, <2>2
    <3> HIDE DEF i
    <3> QED
      BY <3>1, <3>2 DEF Copied
  <2> QED
    BY <2>1, <2>2
<1>4. ASSUME NEW i \in 0..(BufSize - 1),
             \A j \in 1..Len(d) : i # (offset + j - 1) % BufSize
      PROVE  Copied(offset, d)[i] = buf[i]
  <2>1. CASE offset + Len(d) <= BufSize
    <3>1. i \notin offset..(offset + Len(d) - 1)
      <4> SUFFICES ASSUME i \in offset..(offset + Len(d) - 1) PROVE FALSE
        OBVIOUS
      <4> DEFINE j == i - offset + 1
      <4>1. j \in 1..Len(d) /\ offset + j - 1 = i /\ i < BufSize
        BY <1>1
      <4> QED
        BY <1>2, <1>4, <4>1
    <3> QED
      BY <2>1, <3>1 DEF Copied
  <2>2. CASE ~(offset + Len(d) <= BufSize)
    <3>1. ~(i >= offset)
      <4> SUFFICES ASSUME i >= offset PROVE FALSE
        OBVIOUS
      <4> DEFINE j == i - offset + 1
      <4>1. j \in 1..Len(d) /\ offset + j - 1 = i /\ i < BufSize
        BY <1>1, <2>2
      <4> QED
        BY <1>2, <1>4, <4>1
    <3>2. ~(i < Len(d) - (BufSize - offset))
      <4> SUFFICES ASSUME i < Len(d) - (BufSize - offset) PROVE FALSE
        OBVIOUS
      <4> DEFINE j == i - offset + 1 + BufSize
      <4>1. /\ j \in 1..Len(d) /\ ~(offset + j - 1 < BufSize)
            /\ offset + j - 1 - BufSize = i
        BY <1>1, <2>2
      <4> QED
        BY <1>2, <1>4, <4>1
    <3> QED
      BY <2>2, <3>1, <3>2 DEF Copied
  <2> QED
    BY <2>1, <2>2
<1> QED
  BY <1>3, <1>4

\* A copy at cur_tail shows in no stretch of the ring that ends at cur_tail or before.
LEMMA CopyLeavesWords ==
  ASSUME TypeOK, NEW a \in Positions, NEW n \in Nat, n <= Distance(a, cur_tail),
         NEW d, Len(d) \in Nat, Distance(a, cur_tail) + Len(d) <= BufSize,
         buf' = Copied(cur_tail % BufSize, d)
  PROVE  \A i \in 1..n : buf'[(a + i - 1) % BufSize] = buf[(a + i - 1) % BufSize]
<1> DEFINE D == Distance(a, cur_tail)
<1>1. /\ a \in Nat /\ cur_tail \in Nat /\ cur_tail \in Positions /\ D \in Nat
      /\ BufSize \in Nat /\ BufSize > 0 /\ Len(d) <= BufSize
      /\ cur_tail % BufSize \in 0..(BufSize - 1)
  <2>1. a \in Nat /\ cur_tail \in Nat /\ cur_tail \in Positions
    BY DEF TypeOK, Positions
  <2>2. D \in Nat
    BY <2>1, DistanceZero
  <2>3. BufSize \in Nat /\ BufSize > 0
    BY VenusRingAssumption
  <2> QED
    BY <2>1, <2>2, <2>3, OffsetInBuffer
<1> SUFFICES ASSUME NEW i \in 1..n
             PROVE  buf'[(a + i - 1) % BufSize] = buf[(a + i - 1) % BufSize]
  OBVIOUS
<1>2. ASSUME NEW j \in 1..Len(d)
      PROVE  (a + i - 1) % BufSize # ((cur_tail % BufSize) + j - 1) % BufSize
  <2> DEFINE k == D + j - i
             p == a + i - 1
  <2>1. p \in Nat /\ k \in 1..(BufSize - 1) /\ j - 1 \in Nat
    BY <1>1
  <2>2. (p + k) % BufSize # p % BufSize
    <3> HIDE DEF p, k
    <3> QED
      BY <2>1, OffsetsApart
  <2>3. p + k = a + D + (j - 1)
    BY <1>1
  <2>4. (cur_tail + (j - 1)) % BufSize = (a + D + (j - 1)) % BufSize
    BY <1>1, <2>1, OffsetAhead
  <2>5. ((cur_tail % BufSize) + (j - 1)) % BufSize = (cur_tail + (j - 1)) % BufSize
    BY <1>1, <2>1, OffsetOfSum
  <2>6. (cur_tail % BufSize) + (j - 1) = (cur_tail % BufSize) + j - 1
    BY <1>1
  <2> QED
    BY <2>2, <2>3, <2>4, <2>5, <2>6
<1>3. (a + i - 1) % BufSize \in 0..(BufSize - 1)
  <2>1. a + i - 1 \in Nat
    BY <1>1
  <2> QED
    BY <2>1, OffsetInBuffer
<1> QED
  BY <1>1, <1>2, <1>3, CopiedWords

\* A copy at cur_tail is what the ring has from there on.
LEMMA CopyWrites ==
  ASSUME TypeOK, NEW d, Len(d) \in Nat, Len(d) <= BufSize,
         buf' = Copied(cur_tail % BufSize, d)
  PROVE  \A j \in 1..Len(d) : buf'[(cur_tail + j - 1) % BufSize] = d[j]
<1> SUFFICES ASSUME NEW j \in 1..Len(d)
             PROVE  buf'[(cur_tail + j - 1) % BufSize] = d[j]
  OBVIOUS
<1>1. cur_tail \in Nat /\ j - 1 \in Nat
  BY DEF TypeOK, Positions
<1>2. cur_tail % BufSize \in 0..(BufSize - 1) /\ cur_tail % BufSize \in Int
  BY <1>1, OffsetInBuffer
<1>3. ((cur_tail % BufSize) + (j - 1)) % BufSize = (cur_tail + (j - 1)) % BufSize
  BY <1>1, OffsetOfSum
<1>4. /\ (cur_tail % BufSize) + (j - 1) = (cur_tail % BufSize) + j - 1
      /\ cur_tail + (j - 1) = cur_tail + j - 1
  BY <1>1, <1>2
<1> QED
  BY <1>2, <1>3, <1>4, CopiedWords

-----------------------------------------------------------------------------
\* The refinement of CommandStream

Draft == IF protocol_ready THEN Slice(tail, Distance(tail, cur_tail)) ELSE <<>>
Pending == IF protocol_ready THEN Slice(cur, Distance(cur, tail)) ELSE <<>>

\* The host has taken as many words as lie between the head and where it reads, and a
\* copy under way has something to copy.
RunInv ==
  /\ protocol_ready => Len(running) = Distance(head, cur)
  /\ pc = "copy" => chunk # <<>>

\* The words not published and those not taken fill the stretches between the counters.
LEMMA Lengths ==
  ASSUME IInv, protocol_ready
  PROVE  /\ Draft \in Seq(Data) /\ Len(Draft) = Distance(tail, cur_tail)
         /\ Pending \in Seq(Data) /\ Len(Pending) = Distance(cur, tail)
<1>1. /\ tail \in Positions /\ cur_tail \in Positions /\ cur \in Positions
      /\ tail \in Nat /\ cur \in Nat
      /\ buf \in [0..(BufSize - 1) -> Data]
  BY DEF IInv, TypeOK, Positions
<1>2. Distance(tail, cur_tail) \in Nat /\ Distance(cur, tail) \in Nat
  BY <1>1, DistanceZero
<1> QED
  BY <1>1, <1>2, SliceType DEF Draft, Pending

\* No ring, nothing running, no copy under way.
LEMMA InitRun == Init => RunInv
  BY DEF Init, RunInv

\* Every step keeps the host's words and its two positions together.
LEMMA StepRun == IInv /\ RunInv /\ [Next]_vars => RunInv'
<1> SUFFICES ASSUME IInv, RunInv, [Next]_vars PROVE RunInv'
  OBVIOUS
<1>1. /\ head \in Positions /\ tail \in Positions /\ cur \in Positions
      /\ 0 \in Positions
  BY VenusRingAssumption DEF IInv, TypeOK, Positions
<1>2. CASE Register
  <2>1. Distance(0, 0) = 0
    BY <1>1, DistanceZero
  <2>2. running = <<>> /\ running' = running /\ pc' = "idle" /\ ~protocol_ready
    BY <1>2 DEF Register, IInv, HostInv
  <2>3. protocol_ready' => head' = 0 /\ cur' = 0
    BY <1>2, <2>2 DEF Register
  <2> QED
    BY <2>1, <2>2, <2>3 DEF RunInv, Distance
<1>3. CASE WriteCheck
  <2>1. /\ UNCHANGED <<protocol_ready, head, cur, running>>
        /\ pc' = "copy" => chunk' \in Chunks
    BY <1>3 DEF WriteCheck, sharedVars, hostVars
  <2>2. <<>> \notin Chunks
    BY VenusRingAssumption DEF Chunks
  <2> QED
    BY <2>1, <2>2 DEF RunInv, Distance
<1>4. CASE WriteCopy \/ FlushStore \/ FlushNotify \/ Wait \/ HostSleep
  <2>1. /\ UNCHANGED <<protocol_ready, head, cur, running>>
        /\ pc' = "copy" => pc = "copy" /\ chunk' = chunk
    BY <1>4 DEF WriteCopy, FlushStore, FlushNotify, Wait, HostSleep,
                guestVars, sharedVars, hostVars
  <2> QED
    BY <2>1 DEF RunInv, Distance
<1>5. CASE Unregister
  BY <1>5 DEF Unregister, RunInv
<1>6. CASE HostRead
  <2>1. /\ protocol_ready /\ head = cur /\ head' = head /\ cur' = tail
        /\ running' = Slice(cur, Distance(cur, tail))
        /\ UNCHANGED <<pc, chunk>>
    BY <1>6 DEF HostRead, guestVars, sharedVars, IInv, HostInv
  <2>2. Len(Slice(cur, Distance(cur, tail))) = Distance(cur, tail)
    BY <2>1, Lengths DEF Pending
  <2> QED
    BY <2>1, <2>2 DEF RunInv, Distance
<1>7. CASE HostStoreHead
  <2>1. /\ running' = <<>> /\ head' = cur /\ cur' = cur /\ UNCHANGED <<pc, chunk>>
    BY <1>7 DEF HostStoreHead, guestVars
  <2>2. Distance(cur, cur) = 0
    BY <1>1, DistanceZero
  <2> QED
    BY <2>1, <2>2 DEF RunInv, Distance
<1>8. CASE UNCHANGED vars
  BY <1>8 DEF RunInv, Distance, vars, guestVars, sharedVars, hostVars
<1> QED
  BY <1>2, <1>3, <1>4, <1>5, <1>6, <1>7, <1>8 DEF Next, GuestNext, HostNext

\* A step that leaves the shared memory and the positions alone leaves the words alone.
LEMMA SameWords ==
  ASSUME UNCHANGED <<protocol_ready, buf, tail, cur, cur_tail>>
  PROVE  Draft' = Draft /\ Pending' = Pending
  BY DEF Draft, Pending, Slice, Distance

\* A registration opens an empty stream, or fails and leaves it closed.
LEMMA RegisterRefines ==
  ASSUME IInv, Register
  PROVE  Stream!Open \/ UNCHANGED <<protocol_ready, chunk, Draft, Pending, running>>
<1>1. /\ ~protocol_ready /\ protocol_ready \in BOOLEAN /\ head' = 0 /\ tail' = 0
      /\ UNCHANGED <<chunk, running>>
      /\ Draft = <<>> /\ Pending = <<>>
  BY DEF Register, Draft, Pending, IInv, TypeOK
<1>2. CASE protocol_ready' = TRUE /\ cur_tail' = 0 /\ cur' = 0
  <2>1. 0 \in Positions
    BY VenusRingAssumption DEF Positions
  <2>2. Distance(0, 0) = 0
    BY <2>1, DistanceZero
  <2>3. Slice(0, 0)' = <<>>
    BY DEF Slice
  <2>4. Draft' = <<>> /\ Pending' = <<>>
    BY <1>1, <1>2, <2>2, <2>3 DEF Draft, Pending, Distance, Slice
  <2> QED
    BY <1>1, <1>2, <2>4 DEF Stream!Open, Draft, Pending
<1>3. CASE UNCHANGED <<protocol_ready, cur_tail, cur>>
  <2>1. Draft' = <<>> /\ Pending' = <<>>
    BY <1>1, <1>3 DEF Draft, Pending
  <2> QED
    BY <1>1, <1>3, <2>1
<1> QED
  BY <1>2, <1>3 DEF Register

\* The space cmd_write finds is space of the stream, whatever the host takes meanwhile.
LEMMA WriteCheckRefines ==
  ASSUME IInv, RunInv, WriteCheck
  PROVE  Stream!Offer \/ UNCHANGED <<protocol_ready, chunk, Draft, Pending, running>>
<1>1. /\ protocol_ready /\ chunk = <<>>
      /\ UNCHANGED <<protocol_ready, cur_tail, buf, head, tail, cur, running>>
  BY DEF WriteCheck, sharedVars, hostVars, IInv, CallInv
<1>2. Draft' = Draft /\ Pending' = Pending
  BY <1>1, SameWords
<1>3. PICK d \in Chunks : chunk' = chunk \/ (chunk' = d /\ ~(Len(d) > Avail))
  BY DEF WriteCheck
<1>4. CASE chunk' = chunk
  BY <1>1, <1>2, <1>4
<1>5. CASE chunk' = d /\ ~(Len(d) > Avail)
  <2>1. PICK n \in 1..MaxLen : d \in [1..n -> Data]
    BY DEF Chunks
  <2>2. /\ head \in Positions /\ cur_tail \in Positions /\ cur \in Positions
        /\ tail \in Positions /\ BufSize \in Nat
    BY VenusRingAssumption DEF IInv, TypeOK
  <2>3. /\ Distance(head, cur) \in Nat /\ Distance(cur, tail) \in Nat
        /\ Distance(tail, cur_tail) \in Nat /\ Distance(head, cur_tail) \in Nat
        /\ Len(d) \in Nat
    BY <2>2, DistanceZero, ChunkLength
  <2>4. /\ Len(running) = Distance(head, cur)
        /\ Len(Draft) = Distance(tail, cur_tail) /\ Len(Pending) = Distance(cur, tail)
    BY <1>1, Lengths DEF RunInv
  <2>5. Distance(head, cur) + Distance(cur, tail) + Distance(tail, cur_tail)
          = Distance(head, cur_tail)
    BY <1>1 DEF IInv, CountersOrdered
  <2>6. Len(Draft) + Len(Pending) + Len(running) + Len(d) <= BufSize
    BY <1>5, <2>2, <2>3, <2>4, <2>5 DEF Avail
  <2>7. Stream!OfferWords(d)
    BY <1>1, <1>2, <1>5, <2>6 DEF Stream!OfferWords, Draft, Pending
  <2> QED
    BY <2>1, <2>7 DEF Stream!Offer
<1> QED
  BY <1>3, <1>4, <1>5

\* The copies of cmd_write add the data, all of it, behind the words not yet flushed, and
\* touch neither those nor the published ones.
LEMMA WriteCopyRefines ==
  ASSUME IInv, RunInv, WriteCopy
  PROVE  Stream!Write
<1> DEFINE D == Distance(tail, cur_tail)
           L == Len(chunk)
<1>1. /\ protocol_ready /\ chunk # <<>> /\ chunk' = <<>>
      /\ buf' = Copied(cur_tail % BufSize, chunk)
      /\ cur_tail' = Advance(cur_tail, L)
      /\ UNCHANGED <<protocol_ready, head, tail, cur, running>>
  BY DEF WriteCopy, hostVars, IInv, CallInv, RunInv
<1>2. /\ TypeOK
      /\ head \in Positions /\ cur_tail \in Positions /\ cur \in Positions
      /\ tail \in Positions /\ tail \in Nat
      /\ BufSize \in Nat /\ CounterMod \in Nat /\ BufSize < CounterMod
  BY VenusRingAssumption DEF IInv, TypeOK, Positions
<1>3. chunk \in Seq(Data) /\ L \in Nat
  <2>1. chunk \in Chunks
    BY <1>1, <1>2 DEF TypeOK
  <2>2. PICK n \in 1..MaxLen : chunk \in [1..n -> Data]
    BY <2>1 DEF Chunks
  <2> QED
    BY <2>2, VenusRingAssumption
<1>4. /\ Distance(head, cur) \in Nat /\ Distance(cur, tail) \in Nat
      /\ D \in Nat /\ Distance(head, cur_tail) \in Nat
  BY <1>2, DistanceZero
<1>5. /\ Distance(head, cur) + Distance(cur, tail) + D = Distance(head, cur_tail)
      /\ Distance(head, cur_tail) + L <= BufSize
  BY <1>1 DEF IInv, CountersOrdered
<1>6. /\ D + L <= BufSize /\ Distance(cur, tail) + D + L <= BufSize /\ L <= BufSize
      /\ D + L < CounterMod
  <2> DEFINE a == Distance(head, cur)
             e == Distance(cur, tail)
             f == Distance(head, cur_tail)
  <2>1. /\ a \in Nat /\ e \in Nat /\ D \in Nat /\ f \in Nat /\ L \in Nat
        /\ BufSize \in Nat /\ CounterMod \in Nat /\ BufSize < CounterMod
    BY <1>2, <1>3, <1>4
  <2>2. a + e + D = f /\ f + L <= BufSize
    BY <1>5
  <2> HIDE DEF a, e, f, D, L
  <2>3. D + L <= BufSize /\ e + D + L <= BufSize /\ L <= BufSize /\ D + L < CounterMod
    BY ONLY <2>1, <2>2
  <2> QED
    BY <2>3 DEF e
<1>7. Distance(tail, cur_tail)' = D + L
  <2>1. Distance(tail, cur_tail') = D + L
    BY <1>1, <1>2, <1>3, <1>6, DistanceAdvance
  <2> QED
    BY <1>1, <2>1 DEF Distance
<1>8. Draft \in Seq(Data) /\ Len(Draft) = D /\ Len(Pending) = Distance(cur, tail)
  BY <1>1, Lengths
<1>9. Draft' = [i \in 1..(D + L) |-> buf'[(tail + i - 1) % BufSize]]
  BY <1>1, <1>7 DEF Draft, Slice
<1>10. /\ Draft \o chunk \in Seq(Data) /\ Len(Draft \o chunk) = D + L
       /\ \A i \in 1..(D + L) :
            (Draft \o chunk)[i] = IF i <= D THEN Draft[i] ELSE chunk[i - D]
  <2> HIDE DEF D
  <2> QED
    BY <1>3, <1>4, <1>8, ConcatProperties
<1>11. \A i \in 1..D : buf'[(tail + i - 1) % BufSize] = buf[(tail + i - 1) % BufSize]
  <2>1. D <= Distance(tail, cur_tail)
    BY <1>4
  <2> QED
    BY <1>1, <1>2, <1>3, <1>4, <1>6, <2>1, CopyLeavesWords
<1>12. \A j \in 1..L : buf'[(cur_tail + j - 1) % BufSize] = chunk[j]
  BY <1>1, <1>2, <1>3, <1>6, CopyWrites
<1>13. ASSUME NEW i \in 1..(D + L)
       PROVE  buf'[(tail + i - 1) % BufSize] = (Draft \o chunk)[i]
  <2>1. CASE i <= D
    <3>1. i \in 1..D
      BY <1>4, <2>1
    <3>2. Draft[i] = buf[(tail + i - 1) % BufSize]
      BY <1>1, <3>1 DEF Draft, Slice
    <3> QED
      BY <1>10, <1>11, <2>1, <3>1, <3>2
  <2>2. CASE ~(i <= D)
    <3>1. i - D \in 1..L /\ i - D - 1 \in Nat
      BY <1>3, <1>4, <2>2
    <3>2. buf'[(cur_tail + (i - D) - 1) % BufSize] = chunk[i - D]
      BY <1>12, <3>1
    <3>3. (cur_tail + (i - D - 1)) % BufSize = (tail + D + (i - D - 1)) % BufSize
      BY <1>2, <3>1, OffsetAhead
    <3>4. /\ cur_tail + (i - D) - 1 = cur_tail + (i - D - 1)
          /\ tail + D + (i - D - 1) = tail + i - 1
      BY <1>2, <1>4 DEF Positions
    <3> QED
      BY <1>10, <2>2, <3>2, <3>3, <3>4
  <2> QED
    BY <2>1, <2>2
<1>14. Draft' = Draft \o chunk
  <2> DEFINE s == [i \in 1..(D + L) |-> buf'[(tail + i - 1) % BufSize]]
             t == Draft \o chunk
  <2>1. t \in Seq(Data) /\ Len(t) = D + L /\ D + L \in Nat
    BY <1>3, <1>4, <1>10
  <2>2. \A i \in 1..(D + L) : s[i] = t[i] /\ t[i] \in Data
    <3>1. \A i \in 1..(D + L) : s[i] = t[i]
      BY <1>13
    <3> HIDE DEF s, t
    <3> QED
      BY <2>1, <3>1
  <2>3. s \in Seq(Data) /\ Len(s) = D + L
    <3>1. \A i \in 1..(D + L) : buf'[(tail + i - 1) % BufSize] \in Data
      BY <2>2
    <3> HIDE DEF t
    <3> QED
      BY <2>1, <3>1
  <2>4. s = t
    <3> HIDE DEF s, t, D, L
    <3> QED
      BY <2>1, <2>2, <2>3, SeqEqual
  <2> QED
    BY <1>9, <2>4
<1>15. Pending' = Pending
  <2>1. Distance(cur, cur_tail) = Distance(cur, tail) + D
    BY <1>2, <1>3, <1>4, <1>6, DistanceChain
  <2>2. /\ Distance(cur, tail) <= Distance(cur, cur_tail)
        /\ Distance(cur, cur_tail) + L <= BufSize
    BY <1>3, <1>4, <1>6, <2>1
  <2>3. \A i \in 1..Distance(cur, tail) :
          buf'[(cur + i - 1) % BufSize] = buf[(cur + i - 1) % BufSize]
    BY <1>1, <1>2, <1>3, <1>4, <2>2, CopyLeavesWords
  <2>4. /\ Pending = [i \in 1..Distance(cur, tail) |-> buf[(cur + i - 1) % BufSize]]
        /\ Pending' = [i \in 1..Distance(cur, tail) |-> buf'[(cur + i - 1) % BufSize]]
    BY <1>1 DEF Pending, Slice, Distance
  <2> QED
    BY <2>3, <2>4
<1> QED
  BY <1>1, <1>14, <1>15 DEF Stream!Write, Draft, Pending

\* Storing the tail publishes the unflushed words behind those the host has not read.
LEMMA FlushStoreRefines ==
  ASSUME IInv, FlushStore
  PROVE  Stream!Publish
<1>1. /\ protocol_ready /\ chunk = <<>> /\ tail' = cur_tail
      /\ UNCHANGED <<protocol_ready, chunk, buf, cur_tail, cur, running>>
  BY DEF FlushStore, hostVars, IInv, CallInv
<1>2. /\ head \in Positions /\ cur_tail \in Positions /\ cur \in Positions
      /\ tail \in Positions /\ buf \in [0..(BufSize - 1) -> Data]
      /\ BufSize \in Nat /\ CounterMod \in Nat /\ BufSize < CounterMod
  BY VenusRingAssumption DEF IInv, TypeOK
<1>3. /\ Distance(head, cur) \in Nat /\ Distance(cur, tail) \in Nat
      /\ Distance(tail, cur_tail) \in Nat /\ Distance(head, cur_tail) \in Nat
      /\ Len(chunk) = 0
  BY <1>1, <1>2, DistanceZero
<1>4. /\ Distance(head, cur) + Distance(cur, tail) + Distance(tail, cur_tail)
           = Distance(head, cur_tail)
      /\ Distance(head, cur_tail) + Len(chunk) <= BufSize
  BY <1>1 DEF IInv, CountersOrdered
<1>5. Distance(cur, tail) + Distance(tail, cur_tail) < CounterMod
  BY <1>2, <1>3, <1>4
<1>6. Distance(cur, cur_tail) = Distance(cur, tail) + Distance(tail, cur_tail)
  BY <1>2, <1>5, DistanceChain
<1>7. Slice(cur, Distance(cur, cur_tail)) = Pending \o Draft
  <2>1. Slice(cur, Distance(cur, tail) + Distance(tail, cur_tail))
          = Slice(cur, Distance(cur, tail)) \o Slice(tail, Distance(tail, cur_tail))
    <3> DEFINE n == Distance(tail, cur_tail)
    <3>1. n \in Nat
      BY <1>3
    <3> HIDE DEF n
    <3>2. Slice(cur, Distance(cur, tail) + n) = Slice(cur, Distance(cur, tail)) \o Slice(tail, n)
      BY <1>2, <3>1, SliceAppend
    <3> QED
      BY <3>2 DEF n
  <2> QED
    BY <1>1, <1>6, <2>1 DEF Pending, Draft
<1>8. Pending' = Slice(cur, Distance(cur, cur_tail))
  BY <1>1 DEF Pending, Slice, Distance
<1>9. Draft' = <<>>
  <2>1. Distance(cur_tail, cur_tail) = 0
    BY <1>2, DistanceZero
  <2>2. Distance(tail, cur_tail)' = 0
    BY <1>1, <2>1 DEF Distance
  <2> QED
    BY <1>1, <2>2 DEF Draft, Slice
<1> QED
  BY <1>1, <1>7, <1>8, <1>9 DEF Stream!Publish, Draft, Pending

\* The host takes all that is published.
LEMMA HostReadRefines ==
  ASSUME IInv, HostRead
  PROVE  Stream!Take
<1>1. /\ protocol_ready /\ running = <<>> /\ tail # cur /\ cur' = tail
      /\ running' = Slice(cur, Distance(cur, tail))
      /\ UNCHANGED <<protocol_ready, chunk, buf, cur_tail, tail>>
  BY DEF HostRead, guestVars, sharedVars, IInv, HostInv
<1>2. tail \in Positions /\ cur \in Positions
  BY DEF IInv, TypeOK
<1>3. Pending \in Seq(Data) /\ Len(Pending) = Distance(cur, tail)
  BY <1>1, Lengths
<1> DEFINE n == Len(Pending)
<1>4. n \in 1..Len(Pending)
  BY <1>1, <1>2, <1>3, DistanceZero
<1>5. running' = SubSeq(Pending, 1, n)
  <2>1. running' = Pending
    BY <1>1 DEF Pending
  <2> QED
    BY <1>3, <2>1, SubSeqFull
<1>6. Pending' = SubSeq(Pending, n + 1, Len(Pending))
  <2>1. SubSeq(Pending, n + 1, Len(Pending)) = <<>>
    BY <1>4, SubSeqEmpty
  <2>2. Distance(tail, tail) = 0
    BY <1>2, DistanceZero
  <2>3. Distance(cur, tail)' = 0
    BY <1>1, <2>2 DEF Distance
  <2>4. Pending' = <<>>
    BY <1>1, <2>3 DEF Pending, Slice
  <2> QED
    BY <2>1, <2>4
<1>7. Draft' = Draft
  BY <1>1 DEF Draft, Slice, Distance
<1> QED
  BY <1>1, <1>4, <1>5, <1>6, <1>7 DEF Stream!Take, Draft, Pending

\* Every step is a step of the stream or leaves it alone.
LEMMA StepRefines == IInv /\ RunInv /\ [Next]_vars => [Stream!Next]_(Stream!vars)
<1> SUFFICES ASSUME IInv, RunInv, [Next]_vars
             PROVE  Stream!Next \/ UNCHANGED Stream!vars
  OBVIOUS
<1>1. Stream!vars = <<protocol_ready, chunk, Draft, Pending, running>>
  BY DEF Stream!vars, Draft, Pending
<1>2. (UNCHANGED <<protocol_ready, chunk, Draft, Pending, running>>) => UNCHANGED Stream!vars
  BY DEF Stream!vars, Draft, Pending
<1>3. CASE Register
  BY <1>2, <1>3, RegisterRefines DEF Stream!Next
<1>4. CASE WriteCheck
  BY <1>2, <1>4, WriteCheckRefines DEF Stream!Next
<1>5. CASE WriteCopy
  BY <1>5, WriteCopyRefines DEF Stream!Next
<1>6. CASE FlushStore
  BY <1>6, FlushStoreRefines DEF Stream!Next
<1>7. CASE FlushNotify \/ Wait \/ HostSleep \/ UNCHANGED vars
  <2>1. UNCHANGED <<protocol_ready, chunk, buf, tail, cur, cur_tail, running>>
    BY <1>7 DEF FlushNotify, Wait, HostSleep, vars, guestVars, sharedVars, hostVars
  <2> QED
    BY <1>2, <2>1, SameWords
<1>8. CASE HostRead
  BY <1>8, HostReadRefines DEF Stream!Next
<1>9. CASE HostStoreHead
  <2>1. /\ running' = <<>>
        /\ UNCHANGED <<protocol_ready, chunk, buf, tail, cur, cur_tail>>
    BY <1>9 DEF HostStoreHead, guestVars
  <2>2. Draft' = Draft /\ Pending' = Pending
    BY <2>1, SameWords
  <2>3. Stream!Complete
    BY <2>1, <2>2 DEF Stream!Complete, Draft, Pending
  <2> QED
    BY <2>3 DEF Stream!Next
<1>10. CASE Unregister
  <2>1. /\ protocol_ready /\ chunk = <<>> /\ protocol_ready' = FALSE
        /\ running' = <<>> /\ chunk' = chunk
    BY <1>10 DEF Unregister, IInv, CallInv
  <2>2. Draft' = <<>> /\ Pending' = <<>>
    BY <2>1 DEF Draft, Pending
  <2>3. Stream!Close
    BY <2>1, <2>2 DEF Stream!Close, Draft, Pending
  <2> QED
    BY <2>3 DEF Stream!Next
<1> QED
  BY <1>3, <1>4, <1>5, <1>6, <1>7, <1>8, <1>9, <1>10 DEF Next, GuestNext, HostNext

\* The ring in protocol mode is the bounded stream of command words it promises:
\* what lies between its counters is what was written, in order and once, across
\* wrapping counters, copies around the end of the buffer and a host that reads
\* while the guest writes.
THEOREM RingIsStream == Spec => ImplementsStream
<1>1. Init => Stream!Init
  BY DEF Init, Stream!Init
<1> QED
  BY <1>1, InitIInv, NextIInv, InitRun, StepRun, StepRefines, PTL
     DEF Spec, ImplementsStream, Stream!Spec

=============================================================================
