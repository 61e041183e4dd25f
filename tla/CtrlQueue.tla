------------------------------ MODULE CtrlQueue ------------------------------
(***************************************************************************)
(* The control virtqueue of libukvirtio_gpu and the fence counters that    *)
(* live beside it (virtio_gpu_real.c: hdr_init, cmd_submit,                *)
(* cmd_submit_locked, gpu_resp_errno, uk_virtio_gpu_fence_wait).           *)
(*                                                                         *)
(* Every operation of the driver builds a request and a response buffer,   *)
(* takes a fence id outside any lock, and hands both to cmd_submit, which  *)
(* serialises the threads on g_ctrlq_lock and polls for the completion.    *)
(* The queue identifies a command by its cookie, the ADDRESS of the        *)
(* request: once a command has timed out its descriptor stays in the       *)
(* queue, its buffers go back to the stack or to the heap, and a later     *)
(* command may be given the very same addresses.                           *)
(*                                                                         *)
(* The device (QEMU and virglrenderer) is outside the repository.  It runs *)
(* commands in the order of the queue; an unfenced command or a failed one *)
(* is answered at once, a fenced one when its fence retires, so fenced     *)
(* answers may come late and out of order.                                 *)
(***************************************************************************)
EXTENDS Integers, Sequences, FiniteSets

CONSTANTS Threads,    (* application threads that enter the driver            *)
          ReqAddrs,   (* addresses a request buffer may have (the cookie)     *)
          RespAddrs,  (* addresses a response buffer may have                 *)
          NoThread,   (* g_ctrlq_lock is free                                 *)
          NoAddr,     (* the buffer addresses of a thread outside the driver  *)
          QueueSize,  (* commands the virtqueue has descriptors for           *)
          MaxCalls    (* bound: calls of the driver in a behaviour            *)

ASSUME CtrlQueueAssumption ==
  /\ NoThread \notin Threads
  /\ NoAddr \notin ReqAddrs \cup RespAddrs
  /\ QueueSize \in Nat \ {0}
  /\ MaxCalls \in Nat

\* What the call passes to hdr_init and to cmd_submit: "fenced" a fence to
\* both, "ctx_create" to hdr_init only, the others none.
Kinds == {"plain", "fenced", "ctx_create", "ctx_destroy"}

HasFence(k) == k \in {"fenced", "ctx_create"}

\* The kinds whose all-zero response header counts as success.
AcceptsZero(k) == k \in {"ctx_create", "ctx_destroy"}

\* Response headers: the expected type, a header left zeroed, or anything
\* gpu_resp_errno or the comparison with `expect` turns into an error.
RespTypes == {"ok", "zero", "error"}

ZeroHdr == [type |-> "zero", fence |-> 0]

\* Where cmd_submit_locked returns; every value but "ok" is a negative errno
\* (both EIO sites return -EIO).
ReturnCodes == {"ok", "ENOSPC", "ETIMEDOUT", "EIO_cookie", "EIO_resp"}

VARIABLES
  next_fence,       \* d->next_fence
  completed_fence,  \* d->completed_fence
  owner,            \* holder of g_ctrlq_lock
  pc,               \* where each thread is in its call
  call,             \* per thread: the arguments and locals of its call
  cmds,             \* the commands ever enqueued, in order; a command is its index
  avail,            \* commands the device has not fetched yet
  fenceq,           \* commands the device ran and whose fence has not retired
  used,             \* completions the driver has not dequeued, oldest first
  hdr,              \* memory: the header at each response address
  executed,         \* history: commands the device ran successfully
  retired,          \* history: fenced commands the device answered
  succeeded,        \* history: commands cmd_submit returned 0 for
  reused,           \* history: commands enqueued at an address still in flight
  timeouts,         \* history: number of -ETIMEDOUT returns
  calls             \* history: number of calls begun

queueVars  == <<cmds, avail, fenceq, used, hdr>>
hostVars   == <<executed, retired>>
fenceVars  == <<next_fence, completed_fence>>
historyVars == <<succeeded, reused, timeouts, calls>>
vars == <<fenceVars, owner, pc, call, queueVars, hostVars, historyVars>>

-----------------------------------------------------------------------------

\* The locals of a thread that is outside the driver.
NoCall == [kind |-> "plain", req |-> NoAddr, resp |-> NoAddr,
           fence |-> 0, cid |-> 0, rc |-> "ok"]

Init ==
  /\ next_fence = 1
  /\ completed_fence = 0
  /\ owner = NoThread
  /\ pc = [t \in Threads |-> "idle"]
  /\ call = [t \in Threads |-> NoCall]
  /\ cmds = <<>>
  /\ avail = {}
  /\ fenceq = {}
  /\ used = <<>>
  /\ hdr = [a \in RespAddrs |-> ZeroHdr]
  /\ executed = {}
  /\ retired = {}
  /\ succeeded = {}
  /\ reused = {}
  /\ timeouts = 0
  /\ calls = 0

\* Commands whose descriptors are still in the queue or at the device.
Outstanding == avail \cup fenceq \cup {used[i] : i \in 1..Len(used)}

\* How many descriptors those commands hold.
Backlog == Cardinality(avail) + Cardinality(fenceq) + Len(used)

Busy == {t \in Threads : pc[t] # "idle"}
Polling == {t \in Threads : pc[t] = "poll"}

-----------------------------------------------------------------------------
\* Mutated forms of the definitions below, one per property: the bug in the code
\* that the property is there to notice.

\* The cookie is not compared (SuccessIsReal).
ResultOfAnyCookie(t, c) ==
  LET h == hdr[call[t].resp] IN
  IF h.type = "ok" \/ (h.type = "zero" /\ AcceptsZero(call[t].kind))
  THEN "ok" ELSE "EIO_resp"

\* The lock is taken whoever holds it (ImplementsService).
LockUnguarded(t) ==
  /\ pc[t] = "lock"
  /\ owner' = t
  /\ pc' = [pc EXCEPT ![t] = "enqueue"]
  /\ UNCHANGED <<fenceVars, call, queueVars, hostVars, historyVars>>

\* The fence of the response is stored, whichever it is (CompletedFenceGrows).
FenceAfterResponse(t, rc) ==
  IF rc = "ok" THEN hdr[call[t].resp].fence ELSE completed_fence

\* A timed-out command is enqueued once more (BacklogIsTimeouts).
TimeoutRetries(t) ==
  /\ pc[t] = "poll"
  /\ used = <<>>
  /\ pc' = [pc EXCEPT ![t] = "enqueue"]
  /\ UNCHANGED <<fenceVars, owner, call, queueVars, hostVars, historyVars>>

\* An early return that skips uk_mutex_unlock (CallReturns).
TimeoutKeepsLock(t) ==
  /\ pc[t] = "poll"
  /\ used = <<>>
  /\ timeouts' = timeouts + 1
  /\ call' = [call EXCEPT ![t] = NoCall]
  /\ pc' = [pc EXCEPT ![t] = "idle"]
  /\ UNCHANGED <<fenceVars, owner, queueVars, hostVars, succeeded, reused, calls>>

\* `<` for `<=` (SubmittedFenceDoneInOrder).
FenceWaitStrict(f) == f # 0 /\ f < completed_fence

-----------------------------------------------------------------------------
\* The driver

\* An operation starts: its buffers are the stack's or the allocator's, at
\* addresses no live call uses, and hdr_init reads d->next_fence.  The read and
\* the write of next_fence++ are two steps, since no lock covers them.
Begin(t) ==
  /\ pc[t] = "idle"
  /\ calls < MaxCalls
  /\ \E k \in Kinds, a \in ReqAddrs, b \in RespAddrs :
       /\ \A u \in Busy : call[u].req # a /\ call[u].resp # b
       /\ call' = [call EXCEPT ![t] =
                     [kind |-> k, req |-> a, resp |-> b,
                      fence |-> IF HasFence(k) THEN next_fence ELSE 0,
                      cid |-> 0, rc |-> "ok"]]
  /\ pc' = [pc EXCEPT ![t] = "hdr_init"]
  /\ calls' = calls + 1
  /\ UNCHANGED <<fenceVars, owner, queueVars, hostVars, succeeded, reused,
                 timeouts>>

\* The rest of hdr_init, and memset(&resp, 0, sizeof(resp)).
HdrInit(t) ==
  /\ pc[t] = "hdr_init"
  /\ next_fence' = IF HasFence(call[t].kind) THEN call[t].fence + 1
                                             ELSE next_fence
  /\ hdr' = [hdr EXCEPT ![call[t].resp] = ZeroHdr]
  /\ pc' = [pc EXCEPT ![t] = "lock"]
  /\ UNCHANGED <<completed_fence, owner, call, cmds, avail, fenceq, used,
                 hostVars, historyVars>>

\* cmd_submit: uk_mutex_lock(&g_ctrlq_lock).
Lock(t) ==
  /\ pc[t] = "lock"
  /\ owner = NoThread
  /\ owner' = t
  /\ pc' = [pc EXCEPT ![t] = "enqueue"]
  /\ UNCHANGED <<fenceVars, call, queueVars, hostVars, historyVars>>

\* virtqueue_buffer_enqueue and virtqueue_host_notify.
Enqueue(t) ==
  /\ pc[t] = "enqueue"
  /\ Backlog < QueueSize
  /\ LET c == Len(cmds) + 1 IN
       /\ cmds' = Append(cmds, [kind |-> call[t].kind, req |-> call[t].req,
                                resp |-> call[t].resp, fence |-> call[t].fence])
       /\ avail' = avail \cup {c}
       /\ call' = [call EXCEPT ![t].cid = c]
       /\ reused' = IF \E d \in Outstanding : \/ cmds[d].req = call[t].req
                                              \/ cmds[d].resp = call[t].resp
                    THEN reused \cup {c} ELSE reused
  /\ pc' = [pc EXCEPT ![t] = "poll"]
  /\ UNCHANGED <<fenceVars, owner, fenceq, used, hdr, hostVars, succeeded,
                 timeouts, calls>>

\* A queue without free descriptors: cmd_submit_locked returns its error.
EnqueueFails(t) ==
  /\ pc[t] = "enqueue"
  /\ Backlog >= QueueSize
  /\ call' = [call EXCEPT ![t].rc = "ENOSPC"]
  /\ pc' = [pc EXCEPT ![t] = "unlock"]
  /\ UNCHANGED <<fenceVars, owner, queueVars, hostVars, historyVars>>

\* What cmd_submit_locked returns for the completion of command c: the cookie
\* is compared first, then the header found in the caller's own buffer.
ResultOf(t, c) ==
  LET h == hdr[call[t].resp] IN
  CASE cmds[c].req # call[t].req -> "EIO_cookie"
    [] cmds[c].req = call[t].req /\ h.type = "zero" /\ AcceptsZero(call[t].kind) -> "ok"
    [] cmds[c].req = call[t].req /\ h.type = "ok" -> "ok"
    [] OTHER -> "EIO_resp"

\* The response carries the fence this call passed.
FenceMatches(t) ==
  /\ call[t].kind = "fenced"
  /\ hdr[call[t].resp] = [type |-> "ok", fence |-> call[t].fence]

\* completed_fence after a command that ends with rc.
FenceAfter(t, rc) ==
  IF rc = "ok" /\ FenceMatches(t) THEN call[t].fence ELSE completed_fence

\* The poll loop finds a completion: dequeue it, compare, decode the header
\* and record the fence.
Dequeue(t) ==
  /\ pc[t] = "poll"
  /\ used # <<>>
  /\ LET rc == ResultOf(t, Head(used)) IN
       /\ call' = [call EXCEPT ![t].rc = rc]
       /\ completed_fence' = FenceAfter(t, rc)
       /\ succeeded' = IF rc = "ok" THEN succeeded \cup {call[t].cid} ELSE succeeded
  /\ used' = Tail(used)
  /\ pc' = [pc EXCEPT ![t] = "unlock"]
  /\ UNCHANGED <<next_fence, owner, cmds, avail, fenceq, hdr, hostVars, reused,
                 timeouts, calls>>

\* The poll loop finds nothing (-ENOMSG) after the deadline.  The descriptor is
\* left in the queue.
Timeout(t) ==
  /\ pc[t] = "poll"
  /\ used = <<>>
  /\ call' = [call EXCEPT ![t].rc = "ETIMEDOUT"]
  /\ timeouts' = timeouts + 1
  /\ pc' = [pc EXCEPT ![t] = "unlock"]
  /\ UNCHANGED <<fenceVars, owner, queueVars, hostVars, succeeded, reused, calls>>

\* cmd_submit: uk_mutex_unlock and return; the operation's buffers are free.
Unlock(t) ==
  /\ pc[t] = "unlock"
  /\ owner' = NoThread
  /\ call' = [call EXCEPT ![t] = NoCall]
  /\ pc' = [pc EXCEPT ![t] = "idle"]
  /\ UNCHANGED <<fenceVars, queueVars, hostVars, historyVars>>

\* uk_virtio_gpu_fence_wait: it compares and never waits, nor changes state.
FenceWaitOk(f) == f # 0 /\ f <= completed_fence

-----------------------------------------------------------------------------
\* The device

\* The device writes the header at the command's response address, whoever owns
\* that memory by now, and returns the descriptor.
Respond(c, type) ==
  /\ hdr' = [hdr EXCEPT ![cmds[c].resp] =
               [type |-> type, fence |-> IF type = "zero" THEN 0 ELSE cmds[c].fence]]
  /\ used' = Append(used, c)
  /\ retired' = IF HasFence(cmds[c].kind) THEN retired \cup {c} ELSE retired

\* The device fetches the oldest command, runs it or refuses it, and answers
\* unless the answer waits for a fence.
DeviceRun ==
  \E c \in avail :
    /\ \A d \in avail : c <= d
    /\ avail' = avail \ {c}
    /\ \E type \in RespTypes :
         /\ executed' = IF type = "error" THEN executed ELSE executed \cup {c}
         /\ IF type = "ok" /\ HasFence(cmds[c].kind)
            THEN /\ fenceq' = fenceq \cup {c}
                 /\ UNCHANGED <<hdr, used, retired>>
            ELSE /\ Respond(c, type)
                 /\ UNCHANGED fenceq
    /\ UNCHANGED <<fenceVars, owner, pc, call, cmds, historyVars>>

\* A fence retires: the command that carried it is answered.
DeviceRetire ==
  \E c \in fenceq :
    /\ fenceq' = fenceq \ {c}
    /\ Respond(c, "ok")
    /\ UNCHANGED <<fenceVars, owner, pc, call, cmds, avail, executed, historyVars>>

-----------------------------------------------------------------------------

ThreadStep(t) == \/ HdrInit(t) \/ Lock(t) \/ Enqueue(t) \/ EnqueueFails(t)
                 \/ Dequeue(t) \/ Timeout(t) \/ Unlock(t)

Next ==
  \/ \E t \in Threads : Begin(t) \/ ThreadStep(t)
  \/ DeviceRun
  \/ DeviceRetire

Spec == Init /\ [][Next]_vars

\* A thread that has entered the driver keeps running; nothing is assumed of the
\* device, which may never answer, nor of the application, which may never call.
FairSpec == Spec /\ \A t \in Threads : WF_vars(ThreadStep(t))

-----------------------------------------------------------------------------
\* Properties

Commands == 1..Len(cmds)

CallType == [kind : Kinds, req : ReqAddrs \cup {NoAddr},
             resp : RespAddrs \cup {NoAddr}, fence : Nat, cid : Nat,
             rc : ReturnCodes]

\* Types of the driver's state, of the queue and of the histories.
TypeOK ==
  /\ next_fence \in Nat \ {0}
  /\ completed_fence \in Nat
  /\ owner \in Threads \cup {NoThread}
  /\ pc \in [Threads -> {"idle", "hdr_init", "lock", "enqueue", "poll", "unlock"}]
  /\ call \in [Threads -> CallType]
  /\ \A t \in Busy : call[t].req \in ReqAddrs /\ call[t].resp \in RespAddrs
  /\ \A t \in Polling : call[t].cid \in Commands
  /\ cmds \in Seq([kind : Kinds, req : ReqAddrs, resp : RespAddrs, fence : Nat])
  /\ avail \in SUBSET Commands
  /\ fenceq \in SUBSET Commands
  /\ used \in Seq(Commands)
  /\ hdr \in [RespAddrs -> [type : RespTypes, fence : Nat]]
  /\ executed \in SUBSET Commands
  /\ retired \in SUBSET Commands
  /\ succeeded \in SUBSET Commands
  /\ reused \in SUBSET Commands
  /\ timeouts \in Nat
  /\ calls \in Nat

\* g_ctrlq_lock does what its comment asks for: as long as no command has timed
\* out, the completion a thread dequeues is that of its own command, so no call
\* ends at the `done != cookie` return.
MismatchOnlyAfterTimeout ==
  \A t \in Threads : pc[t] = "unlock" /\ call[t].rc = "EIO_cookie" => timeouts > 0

\* The descriptor a timed-out command leaves behind is never recovered: besides
\* the command being polled for, the queue holds one descriptor per timeout.
\* A later call that dequeues an old completion leaves its own in its place.
BacklogIsTimeouts == Backlog = timeouts + Cardinality(Polling)

\* Hence enqueueing fails only when timeouts have used the queue up.
NoSpaceOnlyAfterTimeouts ==
  \A t \in Threads : pc[t] = "unlock" /\ call[t].rc = "ENOSPC" => timeouts >= QueueSize

\* A call that returned 0 had its own command run by the device, unless the
\* command was enqueued at an address an earlier, timed-out command still used.
SuccessIsReal == succeeded \subseteq executed \cup reused

\* What the callers of cmd_submit may rely on, whatever times out and whatever the
\* device answers late: commands are taken in order and once, a success is that of a
\* command that was carried out, and a failure is final until something times out.
Service == INSTANCE CommandService WITH
             waiting <- Polling, sent <- Len(cmds), done <- executed,
             refused <- Commands \ (avail \cup executed), doubtful <- reused,
             late <- timeouts > 0
ImplementsService == Service!Spec

\* completed_fence is always a fence the device has answered: a late answer to
\* an old command never marks the fence of the command that took its buffers.
CompletedFenceIsReal ==
  completed_fence # 0 => \E c \in retired : cmds[c].fence = completed_fence

\* The fenced commands were enqueued in the order in which hdr_init numbered them:
\* so it is when no two threads overtake each other between hdr_init and the lock.
InFenceOrder ==
  \A c, d \in Commands :
    c < d /\ cmds[c].kind = "fenced" /\ cmds[d].kind = "fenced"
      => cmds[c].fence <= cmds[d].fence

\* fence_wait's `fence <= completed_fence` presumes that the counter only grows.
\* That takes no more of the threads than the order of their fences, whatever
\* times out and whatever the device answers late.
CompletedFenceGrows ==
  [][InFenceOrder' => completed_fence' >= completed_fence]_completed_fence

\* What the dispatch library says of a fenced submit: once it has returned 0,
\* the fence is marked done.  Two threads that take their fences in one order
\* and the lock in the other break it ...
SubmittedFenceDone ==
  \A c \in succeeded \ reused : cmds[c].kind = "fenced" => FenceWaitOk(cmds[c].fence)

\* ... and nothing else does.
SubmittedFenceDoneInOrder == InFenceOrder => SubmittedFenceDone

\* The deadline bounds every call: whatever the device does, a thread that
\* entered cmd_submit leaves it.
CallReturns == \A t \in Threads : pc[t] # "idle" ~> pc[t] = "idle"

=============================================================================
