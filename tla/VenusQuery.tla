------------------------------ MODULE VenusQuery ------------------------------
(***************************************************************************)
(* The query round trip of libukvulkan_venus (venus_init.c,                *)
(* uk_venus_query_roundtrip) and its callers in the Vulkan dispatch.       *)
(*                                                                         *)
(* A query clears the one reply blob, submits a command that names the     *)
(* blob as its reply stream, spins on the first word of the blob for a     *)
(* bounded time, and copies what it finds.  Nothing but the barrier        *)
(* (uk_dispatch_gpu_barrier) holds a lock meanwhile, and the blob itself   *)
(* is made by whoever queries first.                                       *)
(*                                                                         *)
(* The host (virglrenderer) runs the submitted commands in order, at any   *)
(* later time or never, and writes a reply in one piece.  A submission     *)
(* that failed may still be run: cmd_submit leaves a timed-out command in  *)
(* the queue.  The blob calls are those of BlobLayer.                      *)
(***************************************************************************)
EXTENDS Integers, Sequences, FiniteSets

CONSTANTS Threads,     (* threads that call the Vulkan API              *)
          Main,        (* the one that creates the device               *)
          NoThread,    (* g_disp_lock is free                           *)
          MaxQueries,  (* bound: queries in a behaviour                 *)
          MaxRes       (* bound: resource ids given out                 *)

ASSUME VenusQueryAssumption ==
  /\ Main \in Threads /\ NoThread \notin Threads
  /\ MaxQueries \in Nat /\ MaxRes \in Nat

\* The device name, the memory properties, vkCreateDevice and vkQueueWaitIdle.
\* The first two are asked once and kept; the last does not look at its reply.
Cached == {"name", "mem"}
Kinds == Cached \cup {"device", "idle"}

\* Where a thread is: making the reply blob and undoing that, or the query.
Setup == {"create", "map", "attach", "undo_unmap", "undo_destroy"}
Steps == {"idle", "clear", "submit", "look", "poll", "copy"} \cup Setup

VARIABLES
  g_reply_blob,        \* resource, mapped and address of the blob object
  g_reply_blob_ready,
  gpu,                 \* BlobLayer's state
  next_res,            \* BlobLayer's next
  mem,                 \* the query whose reply each resource's memory holds
  known,               \* real_name_state and real_mp_state
  g_device_created,
  g_disp_lock,
  pc,                  \* per thread
  cur,                 \* per thread: its query, and the pointer it spins on
  stream,              \* commands the host has accepted and not run
  queries,             \* history: the kinds of the queries begun
  ran,                 \* history: queries the host has run
  succeeded,           \* history: queries that returned 0
  troubled,            \* history: queries something went wrong with (see Trouble)
  raced,               \* history: two threads made the blob at once
  failed               \* history: resource ids an unmap or destroy of which failed

blobVars == <<g_reply_blob, g_reply_blob_ready, gpu, next_res>>
callerVars == <<known, g_device_created, g_disp_lock>>
hostVars == <<stream, ran>>
historyVars == <<queries, succeeded, troubled, raced, failed>>
vars == <<blobVars, mem, callerVars, pc, cur, hostVars, historyVars>>

Layer == INSTANCE BlobLayer WITH state <- gpu, next <- next_res

ResIds == 1..MaxRes
QueryIds == 1..Len(queries)

\* Resource 0 is a blob that is not created, address 0 is NULL, query 0 no reply.
Blob(r, isMapped, a) == [res |-> r, mapped |-> isMapped, addr |-> a]
NoBlob == Blob(0, FALSE, 0)
NoQuery == [q |-> 0, ptr |-> 0]

Init ==
  /\ g_reply_blob = NoBlob
  /\ g_reply_blob_ready = FALSE
  /\ Layer!Init
  /\ mem = [r \in ResIds |-> 0]
  /\ known = [k \in Cached |-> "untried"]
  /\ g_device_created = FALSE
  /\ g_disp_lock = NoThread
  /\ pc = [t \in Threads |-> "idle"]
  /\ cur = [t \in Threads |-> NoQuery]
  /\ stream = <<>>
  /\ queries = <<>>
  /\ ran = {}
  /\ succeeded = {}
  /\ troubled = {}
  /\ raced = FALSE
  /\ failed = {}

Busy == {t \in Threads : pc[t] # "idle"}
Kind(t) == queries[cur[t].q]
Goto(t, step) == pc' = [pc EXCEPT ![t] = step]

\* What the properties excuse: a query that overlapped another, that found a
\* command of an earlier one still to be run, that gave up, a call of which failed,
\* or that uses a blob two threads made at once (which may be wiped for good).
Trouble(t) == troubled' = troubled \cup {cur[t].q}

\* The state of the blob in the driver's table, and a call that leaves it in s.
TableState == IF g_reply_blob.res = 0 THEN "none" ELSE gpu[g_reply_blob.res]
Moves(s) ==
  /\ gpu' = IF g_reply_blob.res = 0 THEN gpu ELSE [gpu EXCEPT ![g_reply_blob.res] = s]
  /\ UNCHANGED next_res

-----------------------------------------------------------------------------
\* Mutated forms of the definitions below, one per property: the bug in the code
\* that the property is there to notice.

\* The reply's command type is not compared (AnswerIsReal).
AcceptsAny(t, q) == q # 0 \/ Kind(t) = "idle"

\* The blob is not cleared before a query (IdleMeansDrained).
ClearSkipped(t) ==
  /\ pc[t] = "clear"
  /\ troubled' = IF stream # <<>> \/ raced THEN troubled \cup {cur[t].q} ELSE troubled
  /\ Goto(t, "submit")
  /\ UNCHANGED <<blobVars, mem, callerVars, cur, hostVars, queries, succeeded, raced, failed>>

\* The fence is taken for the reply (FallbackMeansFailure).
LandedAtOnce(t) == TRUE

\* A failed attach goes straight to the destroy (SetupLeavesNothing).
UnmapSkipped(t) ==
  /\ pc[t] = "undo_unmap"
  /\ Goto(t, "undo_destroy")
  /\ UNCHANGED <<blobVars, mem, callerVars, cur, hostVars, historyVars>>

\* The loop has no bound (QueryReturns).
GiveUpNever(t) == pc[t] = "poll" /\ FALSE /\ UNCHANGED vars

-----------------------------------------------------------------------------
\* The callers

\* A query begins.  Without a blob it wipes the object and makes one.
Start(t, k) ==
  /\ pc[t] = "idle"
  /\ Len(queries) < MaxQueries
  /\ queries' = Append(queries, k)
  /\ cur' = [cur EXCEPT ![t] = [q |-> Len(queries) + 1, ptr |-> 0]]
  /\ troubled' = IF Busy = {} THEN troubled
                 ELSE troubled \cup {Len(queries) + 1} \cup {cur[u].q : u \in Busy}
  /\ IF g_reply_blob_ready
     THEN /\ Goto(t, "clear")
          /\ UNCHANGED <<g_reply_blob, raced>>
     ELSE /\ Goto(t, "create")
          /\ g_reply_blob' = NoBlob
          /\ raced' = (raced \/ \E u \in Threads : pc[u] \in Setup)
  /\ UNCHANGED <<g_reply_blob_ready, gpu, next_res, mem, known, hostVars, succeeded, failed>>

\* stub_vkGetPhysicalDeviceProperties, stub_vkGetPhysicalDeviceMemoryProperties:
\* a query only as long as its answer is neither kept nor known to fail
GetProperties(t) ==
  \E k \in Cached :
    /\ known[k] = "untried"
    /\ Start(t, k)
    /\ UNCHANGED <<g_device_created, g_disp_lock>>

\* stub_vkCreateDevice
CreateDevice(t) ==
  /\ t = Main
  /\ ~g_device_created
  /\ g_device_created' = TRUE
  /\ Start(t, "device")
  /\ UNCHANGED g_disp_lock

\* The application has its VkQueue once vkCreateDevice has returned.
DeviceReturned == g_device_created /\ ~(pc[Main] # "idle" /\ Kind(Main) = "device")

\* uk_dispatch_gpu_barrier
Barrier(t) ==
  /\ DeviceReturned
  /\ g_disp_lock = NoThread
  /\ g_disp_lock' = t
  /\ Start(t, "idle")
  /\ UNCHANGED g_device_created

\* uk_disp_unlock, of the caller that took the lock
Released(t) == IF g_disp_lock = t THEN NoThread ELSE g_disp_lock

\* The query ends; a cached answer is kept, and so is a failure.
Finish(t, ok) ==
  /\ succeeded' = IF ok THEN succeeded \cup {cur[t].q} ELSE succeeded
  /\ known' = IF Kind(t) \in Cached
              THEN [known EXCEPT ![Kind(t)] = IF ok THEN "real" ELSE "failed"] ELSE known
  /\ g_disp_lock' = Released(t)
  /\ cur' = [cur EXCEPT ![t] = NoQuery]
  /\ Goto(t, "idle")
  /\ UNCHANGED <<g_device_created, queries>>

-----------------------------------------------------------------------------
\* Making the reply blob

CreateBlob(t) ==
  /\ pc[t] = "create"
  /\ \/ /\ g_reply_blob.res = 0
        /\ Layer!Take
        /\ gpu'[next_res] = "made"
        /\ g_reply_blob' = Blob(next_res, FALSE, 0)
        /\ Goto(t, "map")
        /\ UNCHANGED <<callerVars, cur, queries, succeeded, troubled>>
     \/ /\ \/ Layer!Take /\ gpu' = gpu
           \/ UNCHANGED <<gpu, next_res>>
        /\ UNCHANGED g_reply_blob
        /\ Trouble(t)
        /\ Finish(t, FALSE)
  /\ UNCHANGED <<g_reply_blob_ready, mem, hostVars, raced, failed>>

MapBlob(t) ==
  /\ pc[t] = "map"
  /\ \E s \in Layer!MapResults(TableState) :
       LET done == s = "mapped" /\ TableState = "made"
           half == s = "half" /\ TableState = "made" IN
       /\ Moves(s)
       /\ g_reply_blob' = IF done THEN Blob(g_reply_blob.res, TRUE, g_reply_blob.res)
                          ELSE IF half THEN Blob(g_reply_blob.res, TRUE, g_reply_blob.addr)
                          ELSE g_reply_blob
       /\ failed' = IF half THEN failed \cup {g_reply_blob.res} ELSE failed
       /\ IF done THEN Goto(t, "attach") /\ UNCHANGED troubled
                  ELSE Goto(t, "undo_destroy") /\ Trouble(t)
  /\ UNCHANGED <<g_reply_blob_ready, mem, callerVars, cur, hostVars, queries, succeeded, raced>>

Attach(t) ==
  /\ pc[t] = "attach"
  /\ \/ /\ g_reply_blob_ready' = TRUE
        /\ Goto(t, "clear")
        /\ UNCHANGED troubled
     \/ /\ Goto(t, "undo_unmap")
        /\ Trouble(t)
        /\ UNCHANGED g_reply_blob_ready
  /\ UNCHANGED <<g_reply_blob, gpu, next_res, mem, callerVars, cur, hostVars, queries,
                 succeeded, raced, failed>>

UndoUnmap(t) ==
  /\ pc[t] = "undo_unmap"
  /\ \E s \in Layer!UnmapResults(TableState) :
       /\ Moves(s)
       /\ g_reply_blob' = IF s = "made" /\ TableState # "made"
                          THEN Blob(g_reply_blob.res, FALSE, 0) ELSE g_reply_blob
       /\ failed' = IF s \in {"half", "mapped"} THEN failed \cup {g_reply_blob.res} ELSE failed
  /\ Goto(t, "undo_destroy")
  /\ UNCHANGED <<g_reply_blob_ready, mem, callerVars, cur, hostVars, queries, succeeded,
                 troubled, raced>>

\* blob_destroy, which refuses a mapped blob, and memset(reply)
UndoDestroy(t) ==
  /\ pc[t] = "undo_destroy"
  /\ \E s \in IF g_reply_blob.mapped THEN {TableState} ELSE Layer!DestroyResults(TableState) :
       /\ Moves(s)
       /\ failed' = IF s = "made" /\ ~g_reply_blob.mapped
                    THEN failed \cup {g_reply_blob.res} ELSE failed
  /\ g_reply_blob' = NoBlob
  /\ Finish(t, FALSE)
  /\ UNCHANGED <<g_reply_blob_ready, mem, hostVars, troubled, raced>>

-----------------------------------------------------------------------------
\* The round trip.  The fields of the blob are read at each step anew.

\* memset(reply->mapped_addr, 0, reply->mapped_size)
Clear(t) ==
  /\ pc[t] = "clear"
  /\ mem' = IF g_reply_blob.addr = 0 THEN mem ELSE [mem EXCEPT ![g_reply_blob.addr] = 0]
  /\ troubled' = IF stream # <<>> \/ raced THEN troubled \cup {cur[t].q} ELSE troubled
  /\ Goto(t, "submit")
  /\ UNCHANGED <<blobVars, callerVars, cur, hostVars, queries, succeeded, raced, failed>>

\* uk_virtio_gpu_gl_context_submit: accepted, refused, or run although it failed
Submit(t) ==
  /\ pc[t] = "submit"
  /\ \E sent, ok \in BOOLEAN :
       /\ ok => sent
       /\ stream' = IF sent THEN Append(stream, [q |-> cur[t].q, res |-> g_reply_blob.res])
                            ELSE stream
       /\ IF ok THEN Goto(t, "look") /\ UNCHANGED <<callerVars, cur, queries, succeeded, troubled>>
                ELSE Trouble(t) /\ Finish(t, FALSE)
  /\ UNCHANGED <<blobVars, mem, ran, raced, failed>>

\* The fence wait, whose result is not looked at, and ctp = reply->mapped_addr
Look(t) ==
  /\ pc[t] = "look"
  /\ cur' = [cur EXCEPT ![t] = [q |-> cur[t].q, ptr |-> g_reply_blob.addr]]
  /\ Goto(t, "poll")
  /\ UNCHANGED <<blobVars, mem, callerVars, hostVars, historyVars>>

\* *ctp; what stands at NULL is anything
Words(t) == IF cur[t].ptr = 0 THEN {0, cur[t].q} ELSE {mem[cur[t].ptr]}

Landed(t) == \E w \in Words(t) : w # 0

Answered(t) ==
  /\ pc[t] = "poll"
  /\ Landed(t)
  /\ Goto(t, "copy")
  /\ UNCHANGED <<blobVars, mem, callerVars, cur, hostVars, historyVars>>

\* The spin count is used up.
GiveUp(t) ==
  /\ pc[t] = "poll"
  /\ 0 \in Words(t)
  /\ Trouble(t)
  /\ Goto(t, "copy")
  /\ UNCHANGED <<blobVars, mem, callerVars, cur, hostVars, queries, succeeded, raced, failed>>

\* What the caller makes of a copy of the reply to query q (0: of a cleared blob,
\* or of none at all): all but vkQueueWaitIdle compare the command type.
Accepts(t, q) == Kind(t) = "idle" \/ (q # 0 /\ queries[q] = Kind(t))

\* memcpy(reply_out, reply->mapped_addr, n), and the caller
Copy(t) ==
  /\ pc[t] = "copy"
  /\ Finish(t, Accepts(t, IF g_reply_blob.addr = 0 THEN 0 ELSE mem[g_reply_blob.addr]))
  /\ UNCHANGED <<blobVars, mem, hostVars, troubled, raced, failed>>

-----------------------------------------------------------------------------
\* The host runs the next command.  One whose reply stream is no resource ends the
\* context: nothing after it is run.
HostRun ==
  /\ stream # <<>>
  /\ LET c == Head(stream) IN
       /\ c.res # 0 /\ gpu[c.res] # "none"
       /\ mem' = [mem EXCEPT ![c.res] = c.q]
       /\ ran' = ran \cup {c.q}
  /\ stream' = Tail(stream)
  /\ UNCHANGED <<blobVars, callerVars, pc, cur, historyVars>>

-----------------------------------------------------------------------------

Call(t) == GetProperties(t) \/ CreateDevice(t) \/ Barrier(t)
SetupStep(t) == CreateBlob(t) \/ MapBlob(t) \/ Attach(t) \/ UndoUnmap(t) \/ UndoDestroy(t)
QueryStep(t) == Clear(t) \/ Submit(t) \/ Look(t) \/ Answered(t) \/ GiveUp(t) \/ Copy(t)

Next == (\E t \in Threads : Call(t) \/ SetupStep(t) \/ QueryStep(t)) \/ HostRun

Spec == Init /\ [][Next]_vars

\* A thread inside a query keeps running; nothing is assumed of the host.
FairSpec == Spec /\ \A t \in Threads : WF_vars(SetupStep(t) \/ QueryStep(t))

-----------------------------------------------------------------------------
\* Properties

\* Types, and the owner of the lock is inside the barrier.
TypeOK ==
  /\ g_reply_blob \in [res : 0..MaxRes, mapped : BOOLEAN, addr : 0..MaxRes]
  /\ g_reply_blob_ready \in BOOLEAN
  /\ gpu \in [ResIds -> Layer!States]
  /\ next_res \in 1..(MaxRes + 1)
  /\ mem \in [ResIds -> {0} \cup QueryIds]
  /\ known \in [Cached -> {"untried", "real", "failed"}]
  /\ g_device_created \in BOOLEAN
  /\ g_disp_lock \in Threads \cup {NoThread}
  /\ pc \in [Threads -> Steps]
  /\ cur \in [Threads -> [q : {0} \cup QueryIds, ptr : 0..MaxRes]]
  /\ stream \in Seq([q : QueryIds, res : 0..MaxRes])
  /\ queries \in Seq(Kinds)
  /\ ran \in SUBSET QueryIds
  /\ succeeded \in SUBSET QueryIds
  /\ troubled \in SUBSET QueryIds
  /\ raced \in BOOLEAN
  /\ failed \in SUBSET ResIds
  /\ \A t \in Busy : cur[t].q # 0
  /\ g_disp_lock # NoThread => pc[g_disp_lock] # "idle" /\ Kind(g_disp_lock) = "idle"

\* Whatever else is going on with the blob, a caller that checks its reply accepts
\* only what the host wrote for a query like its own; vkCreateDevice's is its own.
AnswerIsReal ==
  \A q \in succeeded : queries[q] # "idle" => \E p \in ran : queries[p] = queries[q]

\* "this returns precisely when the GPU is done" (uk_venus_wait_queue_idle): as it
\* does not check its reply, that the queue was idle when the barrier returned takes
\* a query that was alone, ran into no command of an earlier one and did not give up.
IdleMeansDrained ==
  \A q \in succeeded \ troubled : queries[q] = "idle" => q \in ran

\* The application is told of a placeholder device, or of made-up memory types, only
\* when something went wrong with a query of that kind.
FallbackMeansFailure ==
  \A k \in Cached : known[k] = "failed" => \E q \in troubled : queries[q] = k

\* Making the blob leaves no entry in the driver's table but that of the reply blob,
\* unless a call of the undo failed or two threads made it at once.
SetupLeavesNothing ==
  ~raced => \A r \in ResIds : gpu[r] # "none" => r = g_reply_blob.res \/ r \in failed

\* A host that never answers holds no thread for ever.
QueryReturns == \A t \in Threads : pc[t] # "idle" ~> pc[t] = "idle"
=============================================================================
