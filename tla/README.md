# virtio-gpu on Unikraft: a verification project

The repository gives a Unikraft guest Vulkan over virtio-gpu. An application
calls a static Vulkan dispatch, which encodes the calls as Venus commands; the
commands travel in SUBMIT_3D requests on the virtio control queue or through a
ring in shared memory; QEMU and virglrenderer execute them.

    application (llama.cpp, kmscube, vkmark)
      | C calls
    libs/libvulkan            uk_vulkan_dispatch.c: handles, recording, submission, fences, memory
      | encoded commands, VkMappedMemory
    libs/libukvulkan_venus    venus_init.c: contexts, command ring, query round trip
                              venus_cs.c: the encoder; venus_compute.c: the compute commands
      | struct uk_virtio_gpu_dev, fences, blobs
    libs/libukvirtio_gpu      virtio_gpu_real.c: control queue, resources, contexts, blobs
      | virtqueue, host-visible BAR
    QEMU, virglrenderer       (outside the repository)

    libs/libukvirtgpu_drm     the DRM ioctls of virtgpu on top of libukvirtio_gpu

Run from this directory:

    tlc -workers 4 -config CtrlQueueMC.cfg CtrlQueueMC     (any pair listed under "Runs")
    tlapm CtrlQueueProofs.tla                              (any *Proofs module)

## Inventory

| part | state | operations | what is hard | what makes it correct |
|---|---|---|---|---|
| control queue and fences (`virtio_gpu_real.c` 218-386, 544-552) | `g_ctrlq_lock`, `next_fence`, `completed_fence`, the virtqueue | every driver call ends in `cmd_submit` | threads meet at the lock; a timeout abandons a descriptor whose buffers are then reused; answers come late and out of order | a call takes its own completion; a completed fence was answered; calls return |
| resources, contexts, capsets (same file) | fixed tables, `next_res`, `next_ctx` | create, destroy, attach, transfer | one step of several fails; the table and the host disagree; two threads in `alloc_res` | the table and the host differ only where a command timed out |
| blobs (same file, 1010-1250) | blob objects, `next_blob_map_offset`, map flags | create, map, unmap, destroy | offsets never come back; a failed map is undone halfway | mappings are disjoint, pointers are mapped and inside the BAR |
| Venus ring (`venus_init.c` 94-676) | `struct uk_venus_ring`, shared `buf`, `head`, `tail`, `status` | register, write, flush, wait, unregister | a producer and a consumer on wrapping 32-bit counters, a kick that may fail, a consumer that sleeps | words are read once, in order, unharmed, and eventually |
| query round trip (`venus_init.c` 697-1077) | the reply blob | encode, submit, poll for the reply | a spin bound, one reply blob for all, a late reply | the reply read is the reply to this query; a query returns |
| Vulkan dispatch, encoding and submission (`uk_vulkan_dispatch.c`) | `g_disp_lock`, batch encoder, ring, recording flags | all `vk*` entry points | three ways for a command to travel (alone, batched, ring), several threads | the host gets a recording in order and before its submission, and no create is lost |
| Vulkan dispatch, sessions (same file, 318-450, 747-790, 1072-1110) | `g_disp_initialized`, `g_ctx`, `g_device_created`, `g_ring_tried`, `g_ring_ready` | init, instance, device, making and ending the ring, shutdown | state that outlives a shutdown; every command may be lost | the ring has its memory, the device is on the host, nothing is left behind |
| Vulkan dispatch, host memory (same file, 1169-1300) | `g_hv_mem` | allocate, map, free | a table claimed without a lock, four commands that fail one by one | a pointer leads to its own memory, a slot has one owner and comes back |
| DRM shim (`drm_virtgpu.c`, `drm_virtgpu_fdio.c`) | bo table, `next_bo_handle`, mmap table | 11 ioctls, open, map, mmap, close | handles counted without a lock and given back out of order; release that ignores failures | a handle names one live bo |
| encoders (`venus_cs.c`, `virgl_encoder.c`, `venus_compute.c`) | a cursor and an overflow flag | append words, strings, structures | capacity and padding | nothing is written past the end, an overflow sticks |

The parts interact by calls downward; there are no callbacks. Below the driver
the guest and the host share the virtqueue and the memory of blobs: the ring
and the reply blob. `PROJECT.json` lists every hazard at its line.

**Which threads.** The library comment at `virtio_gpu_real.c:268-280`,
`libukvirtio_gpu/Config.uk:23-24` and `uk_vulkan_dispatch.c:109-118` say that
ggml's pipeline-compile threads enter the library together, and
`kraft/Kraftfile.llama-vk-server:41-46` configures four CPUs.
`docs/plan-optimize.md:140` says that the build measured so far uses a
cooperative scheduler. The models interleave at every access to shared state,
as the SMP build can; a step between two such accesses is one action. Where a
module takes more than that as one step, "Assumptions" below says so.

## Modules

`*MC.tla` give the constants values for TLC; `*Proofs.tla` hold theorems. The modules form two stacks, each held together by an abstract
specification that the lower module implements and the upper ones are written
on, over the queue, which has one of its own:

    VulkanDispatch                          VulkanMemory  VulkanLifecycle  VenusQuery  DrmVirtgpu
       | Stream == INSTANCE CommandStream       | Layer == INSTANCE BlobLayer
    CommandStream                           BlobLayer
       ^ implemented by                         ^ implemented by
    VenusRing                               GpuResources

                      CommandService: how a command of any of them fares
                         ^ implemented by
                      CtrlQueue

**CtrlQueue** models `hdr_init`, `cmd_submit`, `cmd_submit_locked`,
`gpu_resp_errno` and `uk_virtio_gpu_fence_wait`. A thread's call is `Begin`
(the caller's buffers), `HdrInit` (`next_fence++`, outside the lock), `Lock`,
`Enqueue` or `EnqueueFails`, `Dequeue` or `Timeout`, `Unlock`. The cookie of a
command is the address of its request, drawn from `ReqAddrs`: an address may
be given again while an abandoned command still carries it, as a stack buffer
is. `DeviceRun` and `DeviceRetire` are the device: it executes commands, answers
unfenced ones at once and fenced ones when their fence retires, in any order,
or never. `executed`, `retired`, `succeeded`, `reused` and `timeouts` are
history that the properties refer to. **CommandService** is what the callers of
`cmd_submit` may rely on. One command is waited for at a time; the device takes
commands in the order sent, each once, and carries them out or not; the caller is
told of success only if its command was carried out, and of failure only if the
device has dealt with it, or else somebody has given up waiting (`late`): from
then on a failure says nothing, and a command may be sent from buffers still in
use (`doubtful`). CtrlQueue is shown to implement it by the mapping `Service`: a
command is its index, `waiting` the poller, `done` what the device executed,
`refused` what it fetched and did not execute. The other modules let a command
do what this one does, except that they never take a doubtful success: refused,
carried out, or carried out after its caller gave up.

**CommandStream** is the abstract ring: a bounded first-in first-out channel in
which an offer is written whole or refused, and a write shows only when it is
flushed. **VenusRing** models `uk_venus_ring_register`, `_cmd_write`,
`_cmd_flush`, `_cmd_wait`, `_load_head` and `_unregister` with the host's ring
thread. `cmd_write` is two steps (`WriteCheck` reads the head, `WriteCopy`
copies with the wrap), `cmd_flush` is two (`FlushStore`, `FlushNotify`), so
that the host moves between them. It is shown to implement CommandStream by
the mapping `Stream`. One guest thread drives a ring. A failing unregister
command is ignored as in the code; the ring goes with its blob, and a host
thread that survives it is not modelled here (VulkanLifecycle has it). Every
`Register` is on a fresh blob.

**GpuResources** models the tables of the driver next to what the device holds.
One call is one action (calls are synchronous). Each command is carried out and
answered, refused, or carried out after the caller was told `-ETIMEDOUT`
(`Outcomes`, a command of CommandService from `Send` to `Return`, with a late
one taken before the next is sent). `BlobMapBeyond` holds both commands of `blob_map` beyond the
region. `late` and `overflowed` are history. **BlobLayer** is what the blob
calls promise: each blob is "none", "made", "half" (beyond the region, and its
undo failed) or "mapped", and a call takes it to the state it is named for or
leaves it as a failing command does.

**VulkanDispatch** models `UK_ENC_BEGIN`/`UK_ENC_SUBMIT` and their immediate
forms, the batch, the ring window, `vkBeginCommandBuffer`,
`vkEndCommandBuffer`, `vkQueueSubmit`, `vkCmd*` and the creates of shaders,
layouts, pipelines, buffers and memory, for threads that record, compile and
allocate. Each command buffer has a recording thread of its own (also one
thread with two buffers open, as ggml's compute and transfer contexts are,
behaves so). It takes submissions to succeed (CtrlQueue says when they do not)
and the host to execute a SUBMIT_3D as one step. Of the ring it knows only
CommandStream's actions, and its own steps are shown to be steps of that
specification (`RingUsedAsStream`), so the stream may be read as VenusRing. The
host's run over the commands of a submission (`HostRuns`) is a recursive
function; `RecordedInOrder` says of its log that it lists what was accepted in
order up to some command (`ListsUpTo`). A ring that fails or is
closed, fences and waits, `uk_vulkan_init` and `uk_vulkan_shutdown` are not in
it.

**VenusQuery** models `uk_venus_query_roundtrip` and its callers: the making of
the one reply blob by whoever queries first (`CreateBlob` to `UndoDestroy`),
`Clear`, `Submit`, `Look` (the fence wait and the read of the address), the
bounded poll (`Answered` or `GiveUp`) and `Copy`; `GetProperties`,
`CreateDevice` and `Barrier` are the callers, of which only the barrier holds
`g_disp_lock`. `HostRun` runs the submitted commands in order, at any time or
never, and writes a reply in one piece. `troubled` collects the queries that
something went wrong with.

**DrmVirtgpu** models the buffer objects of `drm_virtgpu.c` and the file layer
of `drm_virtgpu_fdio.c`. `next_bo_handle` is read, tested, incremented and
decremented without a lock, so a create is a step per access: `BoAlloc` reads
and tests the count, `BoAllocReads` is the increment's own read, should the
compiler make one, `BoAllocCounts` its write, and `BoAllocWipes` clears the
object and gives it its handle; then `CreateBlob`, or `CreateFails`,
`HandleBackReads` and `HandleBack`. Map, `gem_close`, the mmap lookup, open and
close are one step each. `at`, `creating` and `count` say where a thread is in
a create, which handle it means and what it has read. `held` and `given` are
what the application knows. `races` records what creates have done to each
other: "lost", one wrote a count that another had changed since it was read, or
"crossed", one took or gave back a handle that was not, by then, the next or the
last.

**VulkanLifecycle** models `uk_vulkan_init`, `vkCreateInstance`,
`vkCreateDevice`, the ring's making and unwinding (`uk_venus_ring_create`),
`uk_venus_ring_destroy` and `uk_vulkan_shutdown`, one action per command, over
two sessions. The host side is the contexts, their objects, attached resources
and rings; a wrong command ends the context and its rings without an answer.

**VulkanMemory** models `vkAllocateMemory` with its export (allocate, create,
map, attach, `use = 1`), its way out, `vkFreeMemory` and `vkMapMemory`, one
action per command. `origin` says which memory a resource was made of, `shared`
which memories were allocated in a slot that two threads took.

## Runs

| run | module, cfg | what it shows | result | states |
|---|---|---|---|---|
| `ctrlq` | CtrlQueueMC | what a timeout leaves behind, whose completion a call takes, what a success or a completed fence says of the device; the queue is the service it promises | holds | 1,256,615 |
| `ctrlq_returns` | CtrlQueueLive | every call returns, whatever the device does | holds | 47,185 |
| `ctrlq_fence_order` | CtrlQueueFence | a submitted fence is complete | violated | |
| `ring` | VenusRingMC | the ring is the stream it promises; its counters keep their order; a wait that returned 0 saw everything executed; a flush reaches the host | holds | 49,154 |
| `resources` | GpuResourcesMC | tables, blob objects and device agree whatever fails; the blob calls keep BlobLayer's promises | holds | 322,234 |
| `dispatch` | VulkanDispatchMC | what the host gets and in which order, in all three modes; the ring is used as the stream it promises to be | holds | 1,173,784 |
| `dispatch_two_open` | VulkanDispatchTwoOpen | no lookup on the host fails | violated | |
| `dispatch_ring_submit` | VulkanDispatchOvertake | a submission runs after its recording | violated | |
| `query` | VenusQueryMC | which answers are real, when the barrier's is, what a failed set-up leaves; every query returns | holds | 360,979 |
| `drm` | DrmVirtgpuMC | what the count says, what handles and offsets lead to and what creates, closes and failures leave in the tables | holds | 2,409,996 |
| `lifecycle` | VulkanLifecycle | what the host has of what the dispatch and the application believe in, through ring, shutdown and a second session | holds | 470,177 |
| `memory` | VulkanMemoryMC | whose bytes a pointer leads to, and what is left in the tables | holds | 262,789 |

Symmetry is used only in runs of invariants, over threads, addresses or
blob objects that the module treats alike. The type invariants of CtrlQueue,
VenusRing, GpuResources, VulkanDispatch, VenusQuery, DrmVirtgpu, VulkanLifecycle
and VulkanMemory are proved and therefore not run again, and so are `NoEntryLost` of GpuResources
and `CountInTable` of DrmVirtgpu.

### Bounds

- `ctrlq`: 2 threads, 2 request and 2 response addresses, 2 descriptors, 3
  calls. Two threads meet at the lock, a third call reuses an address a timed
  out one left, and two timeouts fill the queue. The run of liveness has one
  descriptor and two calls: the wait for the lock and the full queue both
  occur.
- `ring`: 4 words, counters modulo 8, writes of up to 3 words of 2 kinds. Every
  write length wraps the buffer at some position, the counters wrap while words
  are unread, and a write is refused. The counters are bounded because they
  wrap, so nothing cuts a behaviour short.
- `resources`: 2 blob objects, 2 table slots, 3 resource ids, 1 context slot, 2
  context ids, alignment 2, sizes 1, 3 and 7, a region of 4 and offsets modulo
  8. A size needs rounding, a blob fits, lies beyond the region, or overflows
  the offset; the table fills; an id is retired and a new one taken.
- `dispatch`: 1 command buffer recorded twice (a second recording follows a
  submission), 1 compiler with four calls, 1 allocator, batch limit 3 and a ring
  of 2, so that the batch is flushed early and the ring is full. Two command
  buffers already fail (`dispatch_two_open`), so that one is the case in which
  the promises can hold. The inductive invariant was checked at the same bounds,
  and the part of it that holds for any number of command buffers with two
  (170,055 states without a ring; with one, 20 million states without an error,
  not exhausted).
- `query`: 2 threads, of which one creates the device, 3 queries, 2 resource
  ids: two queries meet at the blob, a third finds what they left, and the blob
  is made a second time after a failure.
- `drm`: 2 threads, 3 handles, 3 mmap entries, 2 resource ids, a page of 2, and
  counts and sizes of 3 bits, with sizes 3 and 8: one needs rounding, one wraps to 0.
  Creates fail as often as they like, so the handles run out, two creates take
  the last one, an increment or a decrement is lost, and the count wraps below
  zero. The table of handles ends before the numbers of the count do, as in the
  source (256 and 2^32), which is what `DrmVirtgpuAssumption` says.
- `lifecycle`: 2 contexts and 2 resources. `g_ring_tried` is never reset, so
  there is one attempt at a ring in the life of the program; with room for two
  resources the bound is not what stops a second. The inductive invariant was
  also checked with 3 contexts (19,459,209 states).
- `memory`: 2 threads, 2 slots, 3 memories, 3 resources: two threads take one
  slot, and a third allocation comes after a free. The inductive invariant was
  also checked with 3 threads (543,526 states).

Only VenusRing runs for ever. The other configurations say `CHECK_DEADLOCK
FALSE` because their bounds on calls, ids and rounds let a behaviour end.

### What the properties leave out, and why

Several properties name the cases the code does not protect. They are written
so that the exception is no larger than the cause, which history variables
record:

- `IdleMeansDrained` holds for a barrier whose query was alone, met no command
  of an earlier one and did not give up. `uk_venus_wait_queue_idle` does not
  look at its reply and returns 0 after its spin bound, so nothing more is true.
- `AnswerIsReal` says of two threads that ask the same question at once only
  that a question like it was answered.
- `FailuresCostNoHandle` holds until a write of `next_bo_handle` has undone that
  of another create ("lost" in `races`); it does not mind two creates that take
  one handle and count it twice. `CountInTable`, `HeldHandlesResolve`,
  `BlobsHaveHandles` and `MmapResolves` hold until two creates have taken one
  handle, or a failing one has given back that of a later one, as well
  (`Ordered`). `MmapNeverStale` and `MapFindsEntry` have no such exception.
- `BlobsHaveHandles` excepts resources whose release failed, and `MmapResolves`
  sizes that do not fit the 32 bits `EntrySize` takes them through.
- `PointerIsOwn`, `EntriesAccounted` and `SlotsComeBack` except memory
  allocated in a slot two threads took (`shared`).
- `DeviceIsOnHost` and `ContextDiesForAReason` except contexts something went
  wrong with. One kind of trouble is "reopened": `uk_vulkan_shutdown` keeps
  `g_device_created`, so a context opened after it is never given a device.
- `EntriesAccounted`, `NothingLeftBehind` and `SetupLeavesNothing` except
  resources whose unmap or destroy failed: the code ignores these results.

### Fairness

CtrlQueue's `FairSpec` has weak fairness on each thread's own steps, which
includes the timeout of the poll (a loop on the clock) and taking the lock, and
none on the device. A mutex gives no stronger promise; with the number of calls
bounded a waiting thread cannot be passed for ever, so the run shows that no
call of the driver blocks the others for good, not that the lock is fair.
VenusRing's `FairSpec` has weak fairness on the guest finishing a call it began
and on a host thread that is awake: both are straight code. It does not assume
that the guest calls again or that a sleeping host wakes by itself.
VenusQuery's `FairSpec` has weak fairness on each thread inside a query, whose
every step is straight code or the bounded spin, and none on the host:
`QueryReturns` is about a host that never answers while the barrier holds
`g_disp_lock`.

### Assumptions

- The host writes a reply in one piece (VenusQuery).
- One thread creates the device (VenusQuery), and one thread initialises and
  shuts down (VulkanLifecycle); no call is under way in another thread then.
- The application does not use one buffer object from two threads at once, does
  not map two objects at once (the search for an mmap entry and its filling are
  one step), nor closes the file under a call (DrmVirtgpu).
- Calls on a handle that two creates took are one step each: the second create's
  clearing of the object comes before or after such a call, not in the middle.
  Only `MmapNeverStale` and `MapFindsEntry` rest on this: the others except the
  case, or are about the count, which no such call changes. A file whose
  count creates have taken beyond the table is not closed: `uk_drm_virtgpu_close`
  would then leave the array, and the model ends there. The numbers of blobs
  (`next_blob_id++`) tell no property anything and are left out.
- GpuResources, and with it BlobLayer, takes one call at a time: `alloc_res` has
  no lock (see its hazard).
- The device takes commands in order, so a command that is carried out late is
  carried out before the next (VulkanLifecycle).

### Findings

The violated runs are disagreements between the code and its own comments;
`PROJECT.json` quotes both sides.

1. `completed_fence` is assigned, not raised, and fences are numbered before
   the lock is taken: it can go back, and `uk_virtio_gpu_fence_wait` then
   answers `-ETIMEDOUT` for a fence whose submission returned 0.
2. `vkBeginCommandBuffer` discards the batch of a recording that is still open.
3. In ring mode `vkQueueSubmit` overtakes the recording it submits.

## Proofs

Eight modules prove what the runs show on small instances, for every value of
the constants the assumptions allow (any number of threads, addresses, blobs,
handles, slots and ids, any size of queue, ring, region and counter). Each proof
has an inductive invariant; that `Init` implies it and that every action keeps
it are lemmas, and the theorems follow with PTL. `PROJECT.json` lists the
theorems with the property each one states.

- **CtrlQueueProofs.** `IInv` is TypeOK, LockInv, DeviceSets, PolledCommand,
  BacklogIsTimeouts, MismatchOnlyAfterTimeout and NoSpaceOnlyAfterTimeouts.
  The lock (LockInv: a thread past it owns it) leaves at most one polled
  command; PolledCommand says that it is in the queue until its completion is
  taken; DeviceSets that the places a command can be in are disjoint and
  finite. So the queue holds one descriptor per timeout besides that command,
  and a cookie mismatch needs a timeout before.
  `FInv` adds to it what a completion says. The
  poller's command is the last one enqueued, and unless it was enqueued at an
  address still in flight it is alone at its addresses: a completion with its cookie
  is its own, and its header is what the device wrote. From this a success was
  executed (`SuccessIsEarned`), a completed fence was answered
  (`CompletedFenceAnswered`), and, while commands are enqueued in the
  order of their fences, a submitted fence is complete and the counter only grows
  (`SubmittedFencesDone`, `FenceCounterGrows`).
  `ServesCommands`: CtrlQueue implements CommandService. `Enqueue` is a `Send`,
  and doubtful only if the queue held something, which without a poller takes a
  timeout (BacklogIsTimeouts); `Dequeue` is a `Return`, whose failure before any
  timeout is that of a command the device has taken, since the one descriptor
  that BacklogIsTimeouts then allows is the completion at hand; `Timeout` gives
  up; `DeviceRun` takes, and never the same command twice (TakenOnce, the one
  conjunct added to `FInv`); nothing else shows.
- **VenusRingProofs.** `IInv` is TypeOK, CallInv, HostInv, CountersOrdered,
  WaitInv and WaitMeansExecuted. The lemmas on distances between wrapping
  counters (`DistanceIs`, `DistanceZero`, `DistanceAdvance`, `DistanceChain`)
  carry the arithmetic: `CountersOrdered` says that head, the host's position,
  tail and `cur_tail` follow each other within one buffer. `RingIsStream`:
  VenusRing implements CommandStream. The words between two counters, read off
  the buffer at wrapping positions, are the abstract queues: a copy within the
  free space adds its words at the end of the draft and changes no word before
  them (`CopyWrites`, `CopyLeavesWords`), `FlushStore` joins draft to pending,
  and `HostRead` takes from pending. `RunInv` adds that the host has taken as
  many words as lie between the head and where it reads.
- **GpuResourcesProofs.** `IInv` is TypeOK, `TablesInv` (entries have old ids,
  blobs in the table lie below the next offset and apart, objects and entries
  agree, none is lost, an object with an address is mapped) and `HostInv`
  (every mapping of the device is an entry of the table, at its place; the
  differences between table and device are accounted for; pointers are mapped).
  `MappingsDisjoint` is not inductive by itself: it follows from every mapping
  being an entry and every two entries lying apart.
  `Refines`: GpuResources implements BlobLayer. A blob's abstract
  state is read off the table and the objects; the initial states map to the
  abstract one, and every action is one call of BlobLayer or a stutter, given
  `IInv`: that an object's entry is the only one with its id is what makes a
  step of one blob leave the states of the others alone.
- **VenusQueryProofs.** `IInv` is TypeOK, BlobInv (where a thread is in the
  making of the blob and what the table has of it, while no two made it at
  once), CalmInv (a query that nothing disturbed: its command is the only one
  outstanding, and the word in the blob is its own) and Outcomes (what the
  answers kept so far rest on).
- **DrmVirtgpuProofs.** For the handles, `IInv` is TypeOK,
  FailuresCostNoHandle (the count), CountBound, CountInTable, ResourcesAreBlobs,
  HandlesInv, HeldHandlesResolve and BlobsHaveHandles. CountBound is why a count
  that has lost no write does not wrap: it is at most the number of handles, and
  one more for each thread that read it when there was room; with the assumption
  `MaxHandles + Cardinality(Threads) <= Width` the increment is then exact. HandlesInv says
  that while creates are in turn (`Ordered`) those under way have handles of
  their own, within the count, which no object the application holds has
  (CreatorsApart), and that objects beyond the count have no resource
  (FreeBeyond): a create that writes the count takes the first of those. Once
  creates have raced, TypeOK is what is left: the handle each means is on the
  table, since the test and the handle go by the same read. For the mmap
  entries a second invariant links each entry to a mapped object and bounds the
  entries by the handles; the assumption `MaxHandles <= MaxMmaps` is that of
  the source's two constants. A third, OffsetsInv, says that the
  entries' ranges of offsets are whole pages, apart and below the next offset,
  and, while creates are in turn, that each entry is that of an object the application
  holds and each offset it was given that of such an entry. The lookup over such
  a table finds the one entry (`MmapLeadsToObject`).
- **VulkanMemoryProofs.** `IInv` says which slots threads work in and that two
  who are not sharing work apart (Apart, Occupied, Working), what each step of a
  call has of its blob (Stages, Entries, Freeing, HasSlot, SlotExported), that
  new resources are fresh, and that every entry of the driver's table is
  accounted for. The lemmas `WorkStep`, `LeaveOthers` and `LeaveAccounted` say
  once what a step in one's own slot keeps for everyone else.
- **VulkanLifecycleProofs.** `IInv` is TypeOK, SessionInv (what the static
  variables say of the session the thread is in), FreshContexts (contexts not
  yet made have nothing on the host), RingFlagsInv and RingBlobInv (how far the
  making or unwinding of the ring is, by the flags and by what the driver has of
  its blob), HostRingInv (the host runs the ring in use unless its context died, and
  no other but one whose own command was lost), NothingLeftBehind,
  ContextDiesForAReason and CalmInv (in a context nothing went wrong with the
  host has made exactly what the application was told). The last two need each
  other: no context ends while it is calm, because a command sent in its turn
  names what is there and makes what is not, and that is what CalmInv says of a
  context that has not ended.
- **VulkanDispatchProofs.** `CallInv` holds for any number of command buffers:
  TypeOK; LockInv (a thread that has encoded owns `g_disp_lock`); CallsInv (where
  each call is, and that the numbers a recording may use suffice); EncInv (a
  thread's encoder is its command behind the batch as it is now, or alone: this
  is what the lock is for); OfferInv (the writer's offer is that encoder, and
  fits the ring). `RecordInv` is about `Future`, the host as it will be once
  everything on its way has arrived, what it took, what was published, what was
  written and the batch, in this order. A command that joins the way, or arrives
  when nothing is on it, takes `Future` one step further; a flush, the host's
  ring thread and a publication leave it as it is; a create that goes past the
  batch finds what it names on the host, and what it makes is there in the end,
  because the batch holds no create of a kind that bypasses it and destroys only
  shaders of compilers that are done (Harmless). Order says
  that `Future` has recorded exactly what was accepted, in order, Made that it
  has what the creates that returned made. The properties follow because the
  host's log is the beginning of that of `Future` and a lookup that failed stays
  failed. Running several commands is an induction over a sequence; it is done by
  minimal counterexample (`StepByStep`), which needs no induction scheme.
  `RecordInv` assumes `OneRecorder`: there is one command buffer. With two it is
  false, and so are the properties: `dispatch_two_open` shows it.

The assumptions are those named in the modules, such as `VenusRingAssumption`
(the counter's modulus is a multiple of the buffer's size, as 2^32 is of a power
of two). TLC evaluates them in the runs.

Only model-checked: `CallReturns`, `FlushReachesHost` and `QueryReturns`, which are
liveness under fairness and out of the prover's reach. Every invariant and every
action property that a passing run checks is the statement of a theorem.

## What is left

The two stacks stand from the control queue to the dispatch. What would add to
them, in this order:

1. In VulkanDispatch: submissions that fail (their result is ignored at every
   call, `uk_vulkan_dispatch.c:235`), `ring_lazy_init` by two threads (line
   378) and the ring's flush outside `g_disp_lock` (line 1831).
2. `vkWaitForFences`, which waits for the handle of a VkFence as if it were a
   fence id of the driver and drops the result, on top of CtrlQueue.
3. Two threads in `alloc_res` and `alloc_ctx`, which are outside every lock: the
   creates would have to be taken apart into their accesses to the table,
   `next_res` and `next_blob_map_offset`.
4. In VulkanDispatchProofs: two command buffers whose recordings do not overlap,
   by an assumption on the behaviour in place of `OneRecorder`.

Hazards of the code that no property covers, besides the two noted in
`PROJECT.json`: `vkAllocateMemory` reports success when the host's allocation
failed, `vkFreeMemory` frees nothing on the host, the result of
`vkCreateDevice`'s query is not looked at, and a batch is bounded by a threshold
plus one command, whatever that command's size.

## Not modelled

By far the most lines of `src/` are `libukvulkan_venus/generated/`, the
serialisation code generated from the Vulkan registry: functions that write
their arguments to the encoder one after the other, without state and without
control beyond the presence of a pointer. A specification of it would restate
the registry; the modules take what it produces as one opaque command. The
share of the repository's lines that the modules stand for is small for that
reason: what they model is the hand-written driver, Venus library, DRM shim and
dispatch.

Also not modelled: the encoders (`venus_cs.c`, `venus_compute.c`,
`virgl_encoder.c`), sequential functions that append words under a cursor and
an overflow flag and whose overflow is a submission that fails;
`venus_driver.c` and `vn_ring_shim.c` (forwarding); the patches to Unikraft (the
virtio-pci transport, taken as a virtqueue) and the host (external, as the
driver uses it); tests, applications, scripts and documentation. Within the
modelled parts: display, EDID and capset queries, which keep no state; the
probes; the DRM ioctls that forward to operations modelled below them; the
Vulkan calls that answer from constants or do nothing; what is written to the
staging buffer.
