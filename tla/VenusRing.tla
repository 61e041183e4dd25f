------------------------------ MODULE VenusRing ------------------------------
(***************************************************************************)
(* The Venus command ring in protocol mode (venus_init.c:                  *)
(* uk_venus_ring_register, _cmd_write, _cmd_flush, _cmd_wait, _load_head,  *)
(* _unregister).  Guest and host share a blob: a circular buffer, a tail   *)
(* the guest stores and a head the host stores, both wrapping counters.    *)
(* One guest thread drives a ring; the host's ring thread (virglrenderer,  *)
(* outside the repository) runs beside it.                                 *)
(*                                                                         *)
(* The counters are uint32_t in the code and wrap at 2^32; here they wrap  *)
(* at CounterMod, a small multiple of the buffer size, so that TLC meets   *)
(* the wrap.  A position is a word; the bytes of a word are not told apart.*)
(***************************************************************************)
EXTENDS Integers, Sequences

CONSTANTS Data,        (* command words                                  *)
          BufSize,     (* ring->buf_size                                 *)
          CounterMod,  (* 2^32: where cur_tail, head and tail wrap       *)
          MaxLen       (* bound: words in one cmd_write                  *)

\* buf_size is a power of two (venus_prev_pow2) below 2^32.
ASSUME VenusRingAssumption ==
  /\ BufSize \in Nat \ {0}
  /\ CounterMod \in Nat
  /\ CounterMod > BufSize
  /\ CounterMod % BufSize = 0
  /\ MaxLen \in Nat \ {0}
  /\ Data # {}

VARIABLES
  protocol_ready,  \* ring->protocol_ready
  cur_tail,        \* ring->cur_tail: the guest's own tail
  pc,              \* where the guest is: "idle", in cmd_write, in cmd_flush
  chunk,           \* the data of the cmd_write under way
  result,          \* what the last call returned
  buf,             \* shared memory: the circular buffer
  head,            \* shared memory: stored by the host
  tail,            \* shared memory: stored by the guest
  ring_thread,     \* the host's thread: "none", "awake", "asleep"
  cur,             \* its own read position
  running          \* the words it has copied out and is executing

guestVars == <<protocol_ready, cur_tail, pc, chunk, result>>
sharedVars == <<buf, head, tail>>
hostVars == <<ring_thread, cur, running>>
vars == <<guestVars, sharedVars, hostVars>>

Positions == 0..(CounterMod - 1)
Chunks == UNION {[1..n -> Data] : n \in 1..MaxLen}
Results == {"none", "write_ok", "write_ENOSPC", "flush_ok", "flush_error",
            "wait_ok", "wait_ETIMEDOUT", "register_error"}

-----------------------------------------------------------------------------
\* Mutated forms of the definitions below, one per property: the bug in the code
\* that the property is there to notice.

\* Space measured from the shared tail: unflushed words forgotten
\* (CountersOrdered).
AvailUnflushed == BufSize - ((tail - head) % CounterMod)

\* The second memcpy around the end starts at `data` (ImplementsStream).
CopiedRestart(offset, d) ==
  [i \in 0..(BufSize - 1) |->
     IF i \in offset..(offset + Len(d) - 1) THEN d[i - offset + 1]
     ELSE IF i < offset + Len(d) - BufSize THEN d[i + 1] ELSE buf[i]]

\* The head is compared with the published tail (WaitMeansExecuted).
WaitPublished ==
  /\ pc = "idle"
  /\ protocol_ready
  /\ result' = IF head = tail THEN "wait_ok" ELSE "wait_ETIMEDOUT"
  /\ UNCHANGED <<protocol_ready, cur_tail, pc, chunk, sharedVars, hostVars>>

\* No notification when the ring held words before (FlushReachesHost).
FlushNotifyIfIdle ==
  /\ pc = "notify"
  /\ result' = "flush_ok"
  /\ ring_thread' = IF head = tail THEN "awake" ELSE ring_thread
  /\ pc' = "idle"
  /\ UNCHANGED <<protocol_ready, cur_tail, chunk, sharedVars, cur, running>>

-----------------------------------------------------------------------------

\* uint32_t subtraction and addition.
Distance(a, b) == (b - a) % CounterMod
Advance(a, n) == (a + n) % CounterMod

\* A new blob holds anything; the words are left to a single choice.
Init ==
  /\ protocol_ready = FALSE
  /\ cur_tail = 0
  /\ pc = "idle"
  /\ chunk = <<>>
  /\ result = "none"
  /\ \E d \in Data : buf = [i \in 0..(BufSize - 1) |-> d]
  /\ head \in Positions
  /\ tail \in Positions
  /\ ring_thread = "none"
  /\ cur = 0
  /\ running = <<>>

-----------------------------------------------------------------------------
\* The guest

\* uk_venus_ring_register: clear the control fields, then vkCreateRingMESA,
\* whose handler on the host starts the thread.
Register ==
  /\ pc = "idle"
  /\ ~protocol_ready
  /\ head' = 0
  /\ tail' = 0
  /\ \/ /\ protocol_ready' = TRUE
        /\ cur_tail' = 0
        /\ ring_thread' = "awake"
        /\ cur' = 0
        /\ result' = "none"
     \/ /\ result' = "register_error"
        /\ UNCHANGED <<protocol_ready, cur_tail, ring_thread, cur>>
  /\ UNCHANGED <<pc, chunk, buf, running>>

\* Free space for a write, from the head the host last stored.
Avail == BufSize - Distance(head, cur_tail)

\* The space test of uk_venus_ring_cmd_write.
WriteCheck ==
  /\ pc = "idle"
  /\ protocol_ready
  /\ \E d \in Chunks :
       IF Len(d) > Avail
       THEN /\ result' = "write_ENOSPC"
            /\ UNCHANGED <<pc, chunk>>
       ELSE /\ pc' = "copy"
            /\ chunk' = d
            /\ result' = "none"
  /\ UNCHANGED <<protocol_ready, cur_tail, sharedVars, hostVars>>

\* The buffer after copying d to offset: one memcpy, or two around the end.
Copied(offset, d) ==
  [i \in 0..(BufSize - 1) |->
     IF offset + Len(d) <= BufSize
     THEN IF i \in offset..(offset + Len(d) - 1) THEN d[i - offset + 1] ELSE buf[i]
     ELSE LET first == BufSize - offset IN
          IF i >= offset THEN d[i - offset + 1]
          ELSE IF i < Len(d) - first THEN d[first + i + 1] ELSE buf[i]]

\* The copies of uk_venus_ring_cmd_write.
WriteCopy ==
  /\ pc = "copy"
  /\ buf' = Copied(cur_tail % BufSize, chunk)
  /\ cur_tail' = Advance(cur_tail, Len(chunk))
  /\ chunk' = <<>>
  /\ result' = "write_ok"
  /\ pc' = "idle"
  /\ UNCHANGED <<protocol_ready, head, tail, hostVars>>

\* uk_venus_ring_cmd_flush: the store of the tail.
FlushStore ==
  /\ pc = "idle"
  /\ protocol_ready
  /\ tail' = cur_tail
  /\ result' = "none"
  /\ pc' = "notify"
  /\ UNCHANGED <<protocol_ready, cur_tail, chunk, buf, head, hostVars>>

\* uk_venus_ring_cmd_flush: vkNotifyRingMESA, whose submission may fail.
FlushNotify ==
  /\ pc = "notify"
  /\ \/ result' = "flush_ok" /\ ring_thread' = "awake"
     \/ result' = "flush_error" /\ UNCHANGED ring_thread
  /\ pc' = "idle"
  /\ UNCHANGED <<protocol_ready, cur_tail, chunk, sharedVars, cur, running>>

\* uk_venus_ring_cmd_wait: a poll finds the head at cur_tail, or the iterations
\* run out at one that does not.
Wait ==
  /\ pc = "idle"
  /\ protocol_ready
  /\ result' = IF head = cur_tail THEN "wait_ok" ELSE "wait_ETIMEDOUT"
  /\ UNCHANGED <<protocol_ready, cur_tail, pc, chunk, sharedVars, hostVars>>

\* uk_venus_ring_unregister: vkDestroyRingMESA stops the thread.  A failing
\* submission is ignored, and the blob is then destroyed with the ring.
Unregister ==
  /\ pc = "idle"
  /\ protocol_ready
  /\ protocol_ready' = FALSE
  /\ cur_tail' = 0
  /\ result' = "none"
  /\ ring_thread' = "none"
  /\ running' = <<>>
  /\ UNCHANGED <<pc, chunk, sharedVars, cur>>

-----------------------------------------------------------------------------
\* The host's ring thread

\* The words from position `from` on, n of them.
Slice(from, n) == [i \in 1..n |-> buf[(from + i - 1) % BufSize]]

\* It copies out all that is published ...
HostRead ==
  /\ ring_thread = "awake"
  /\ running = <<>>
  /\ tail # cur
  /\ running' = Slice(cur, Distance(cur, tail))
  /\ cur' = tail
  /\ UNCHANGED <<guestVars, sharedVars, ring_thread>>

\* ... and stores the head when it has executed it.
HostStoreHead ==
  /\ running # <<>>
  /\ head' = cur
  /\ running' = <<>>
  /\ UNCHANGED <<guestVars, buf, tail, ring_thread, cur>>

\* With nothing to read it goes to sleep until it is notified.
HostSleep ==
  /\ ring_thread = "awake"
  /\ running = <<>>
  /\ tail = cur
  /\ ring_thread' = "asleep"
  /\ UNCHANGED <<guestVars, sharedVars, cur, running>>

-----------------------------------------------------------------------------

GuestNext == \/ Register \/ WriteCheck \/ WriteCopy \/ FlushStore \/ FlushNotify
             \/ Wait \/ Unregister
HostNext == HostRead \/ HostStoreHead \/ HostSleep

Next == GuestNext \/ HostNext

Spec == Init /\ [][Next]_vars

\* A guest in the middle of a call goes on, and the host's thread, while it is
\* awake, reads and completes.  Nobody has to call, nor to go to sleep.
FairSpec == Spec /\ WF_vars(WriteCopy \/ FlushNotify)
                 /\ WF_vars(HostRead \/ HostStoreHead)

-----------------------------------------------------------------------------
\* Properties

\* Types of the guest's, the shared and the host's state.
TypeOK ==
  /\ protocol_ready \in BOOLEAN
  /\ cur_tail \in Positions
  /\ pc \in {"idle", "copy", "notify"}
  /\ chunk \in Chunks \cup {<<>>}
  /\ result \in Results
  /\ buf \in [0..(BufSize - 1) -> Data]
  /\ head \in Positions
  /\ tail \in Positions
  /\ ring_thread \in {"none", "awake", "asleep"}
  /\ cur \in Positions
  /\ running \in Seq(Data)

\* The four counters keep their order around the circle, head, cur, tail,
\* cur_tail, and never span more than the buffer: the subtraction in cmd_write
\* never wraps below zero and a write under way still has its space.
CountersOrdered ==
  protocol_ready =>
    /\ Distance(head, cur) + Distance(cur, tail) + Distance(tail, cur_tail)
         = Distance(head, cur_tail)
    /\ Distance(head, cur_tail) + Len(chunk) <= BufSize

\* cmd_wait returns 0 only when the host has executed every word written,
\* flushed or not.
WaitMeansExecuted ==
  result = "wait_ok" => running = <<>> /\ cur = cur_tail

\* The ring is the stream it promises: what is between head, tail and cur_tail
\* is what was written, the host takes it in order, once, unharmed by wrapping
\* counters and by writes that overtake its reading.
Stream == INSTANCE CommandStream WITH
  Capacity <- BufSize,
  open     <- protocol_ready,
  offer    <- chunk,
  draft    <- IF protocol_ready THEN Slice(tail, Distance(tail, cur_tail)) ELSE <<>>,
  pending  <- IF protocol_ready THEN Slice(cur, Distance(cur, tail)) ELSE <<>>

ImplementsStream == Stream!Spec

\* A flush that returned 0 is not lost on a host that was going to sleep: the
\* host reads up to the tail, unless the ring is unregistered.
FlushReachesHost ==
  result = "flush_ok" ~> (cur = tail \/ ~protocol_ready)
=============================================================================
