----------------------------- MODULE VulkanMemory -----------------------------
(***************************************************************************)
(* Host-visible device memory in the Vulkan dispatch                       *)
(* (uk_vulkan_dispatch.c): vkAllocateMemory allocates the memory on the    *)
(* host, exports it as a blob whose blob_id is the memory's handle, maps   *)
(* the blob and enters it into g_hv_mem; vkMapMemory finds the mapping     *)
(* there or falls back to one local staging buffer; vkFreeMemory takes the *)
(* entry out again.  None of this holds a lock: the slot is claimed last,  *)
(* after four commands that each wait for the host.                        *)
(*                                                                         *)
(* Each command is one action.  The blob calls are those of BlobLayer,     *)
(* which GpuResources implements.                                          *)
(***************************************************************************)
EXTENDS Integers, FiniteSets

CONSTANTS Threads,   (* threads that allocate and free memory     *)
          HvMax,     (* UK_HV_MEM_MAX                             *)
          MaxMem,    (* bound: memory handles given out           *)
          MaxRes     (* bound: resource ids given out             *)

ASSUME VulkanMemoryAssumption ==
  HvMax \in Nat \ {0} /\ MaxMem \in Nat /\ MaxRes \in Nat

Slots == 1..HvMax
Handles == 1..MaxMem

\* The step a thread takes next: of vkAllocateMemory, of its way out when the
\* export fails, of vkFreeMemory.
Steps == {"idle", "submit", "create", "map", "attach", "commit",
          "undo_unmap", "undo_destroy", "free_unmap", "free_destroy"}

\* What the application knows of a handle: "plain" memory was sent to the host
\* by an ordinary command, "staged" memory could not be exported.
Lives == {"none", "pending", "exported", "staged", "plain", "freeing", "freed"}

VARIABLES
  g_hv_mem,   \* the table: used, handle and blob of each slot
  gpu,        \* BlobLayer's state
  next_res,   \* BlobLayer's next
  life,       \* per handle
  pc,         \* per thread
  cur,        \* per thread: the handle and the slot it works on
  origin,     \* history: per resource id, the memory it was made of
  shared,     \* history: handles allocated in a slot another thread was in
  failed      \* history: resource ids an unmap or destroy of which failed

threadVars == <<pc, cur>>
historyVars == <<origin, shared, failed>>
gpuVars == <<gpu, next_res>>
vars == <<g_hv_mem, gpuVars, life, threadVars, historyVars>>

Layer == INSTANCE BlobLayer WITH state <- gpu, next <- next_res

ResIds == 1..MaxRes

\* The blob of a slot: resource 0 is one that is not created, address 0 is NULL,
\* any other address that of the resource's mapping.
AsBlob(r, mapped, addr) == [res |-> r, mapped |-> mapped, addr |-> addr]
AsSlot(used, h, b) == [used |-> used, handle |-> h, blob |-> b]
NoBlob == AsBlob(0, FALSE, 0)
FreeSlot == AsSlot(FALSE, 0, NoBlob)
NoWork == [handle |-> 0, slot |-> 0]

Init ==
  /\ g_hv_mem = [i \in Slots |-> FreeSlot]
  /\ Layer!Init
  /\ life = [h \in Handles |-> "none"]
  /\ pc = [t \in Threads |-> "idle"]
  /\ cur = [t \in Threads |-> NoWork]
  /\ origin = [r \in ResIds |-> 0]
  /\ shared = {}
  /\ failed = {}

Blob(t) == g_hv_mem[cur[t].slot].blob

\* A slot, and the table with the thread's slot, holding another blob.
Holding(slot, b) == AsSlot(slot.used, slot.handle, b)
WithBlob(t, b) == [g_hv_mem EXCEPT ![cur[t].slot] = Holding(g_hv_mem[cur[t].slot], b)]

Goto(t, step) == pc' = [pc EXCEPT ![t] = step]

\* The state of the thread's blob in the driver's table.
TableState(t) == IF Blob(t).res = 0 THEN "none" ELSE gpu[Blob(t).res]

\* The call leaves the thread's blob in state s of the table.
Moves(t, s) ==
  /\ gpu' = IF Blob(t).res = 0 THEN gpu ELSE [gpu EXCEPT ![Blob(t).res] = s]
  /\ UNCHANGED next_res

\* A thread that is done with its call.
Return(t, h, l) ==
  /\ life' = [life EXCEPT ![h] = l]
  /\ cur' = [cur EXCEPT ![t] = NoWork]
  /\ Goto(t, "idle")

-----------------------------------------------------------------------------
\* Mutated forms of the definitions below, one per property: the bug in the code
\* that the property is there to notice.

\* The way out destroys without unmapping first (EntriesAccounted).
UnmapSkipped(t) == UNCHANGED <<g_hv_mem, gpuVars, failed>>

\* The search ends at the last slot, used or not (PointerIsOwn).
FirstFreeOrLast(i) ==
  /\ ~g_hv_mem[i].used \/ i = HvMax
  /\ \A j \in 1..(i - 1) : g_hv_mem[j].used

\* vkFreeMemory keeps the slot (SlotsComeBack).
ReleaseKeepsSlot(slot, b) == Holding(slot, b)

-----------------------------------------------------------------------------
\* vkAllocateMemory

\* uk_vk_alloc_handle: handles are taken in order.
NewHandle(h) == life[h] = "none" /\ \A g \in 1..(h - 1) : life[g] # "none"

\* The first slot that is not used.
FirstFree(i) == ~g_hv_mem[i].used /\ \A j \in 1..(i - 1) : g_hv_mem[j].used

\* The handles threads are working on in a slot, from the search for it on.
WorkedOn(i) == {cur[t].handle : t \in {u \in Threads : cur[u].slot = i}}

\* The search for a slot and memset(b).  The slot is not marked.
Allocate(t) ==
  \E h \in Handles, i \in Slots :
    /\ pc[t] = "idle"
    /\ NewHandle(h) /\ FirstFree(i)
    /\ life' = [life EXCEPT ![h] = "pending"]
    /\ cur' = [cur EXCEPT ![t] = [handle |-> h, slot |-> i]]
    /\ g_hv_mem' = [g_hv_mem EXCEPT ![i] = Holding(g_hv_mem[i], NoBlob)]
    /\ shared' = IF WorkedOn(i) = {} THEN shared ELSE shared \cup WorkedOn(i) \cup {h}
    /\ Goto(t, "submit")
    /\ UNCHANGED <<gpuVars, origin, failed>>

\* Memory that is not host-visible, of a command buffer being recorded, or for
\* which there is no slot: an ordinary encode and submit.
AllocatePlain(t) ==
  \E h \in Handles :
    /\ pc[t] = "idle"
    /\ NewHandle(h)
    /\ life' = [life EXCEPT ![h] = "plain"]
    /\ UNCHANGED <<g_hv_mem, gpuVars, threadVars, historyVars>>

\* 1. vkAllocateMemory on the host, by a submission that may fail
SubmitAllocate(t) ==
  /\ pc[t] = "submit"
  /\ \E ok \in BOOLEAN : Goto(t, IF ok THEN "create" ELSE "undo_unmap")
  /\ UNCHANGED <<g_hv_mem, gpuVars, life, cur, historyVars>>

\* 2. the blob of that memory
CreateBlob(t) ==
  /\ pc[t] = "create"
  /\ \/ /\ Blob(t).res = 0
        /\ Layer!Take
        /\ IF gpu'[next_res] = "made"
           THEN /\ g_hv_mem' = WithBlob(t, AsBlob(next_res, FALSE, 0))
                /\ origin' = [origin EXCEPT ![next_res] = cur[t].handle]
                /\ Goto(t, "map")
           ELSE /\ UNCHANGED <<g_hv_mem, origin>>
                /\ Goto(t, "undo_unmap")
     \/ /\ Goto(t, "undo_unmap")
        /\ UNCHANGED <<g_hv_mem, gpuVars, origin>>
  /\ UNCHANGED <<life, cur, shared, failed>>

\* 3. its mapping: only a mapping inside the region leaves an address
MapBlob(t) ==
  /\ pc[t] = "map"
  /\ \E s \in Layer!MapResults(TableState(t)) :
       LET moved == s # TableState(t) IN
       /\ Moves(t, s)
       /\ g_hv_mem' = CASE moved /\ s = "mapped" ->
                             WithBlob(t, AsBlob(Blob(t).res, TRUE, Blob(t).res))
                        [] moved /\ s = "half" ->
                             WithBlob(t, AsBlob(Blob(t).res, TRUE, Blob(t).addr))
                        [] OTHER -> g_hv_mem
       /\ Goto(t, IF moved /\ s = "mapped" THEN "attach" ELSE "undo_unmap")
  /\ UNCHANGED <<life, cur, historyVars>>

\* 4. attaching it to the context: nothing of the guest's changes
Attach(t) ==
  /\ pc[t] = "attach"
  /\ \E ok \in BOOLEAN : Goto(t, IF ok /\ Blob(t).addr # 0 THEN "commit" ELSE "undo_unmap")
  /\ UNCHANGED <<g_hv_mem, gpuVars, life, cur, historyVars>>

\* The slot is claimed and vkAllocateMemory returns.  The address is looked at
\* once more: a thread in the same slot may have cleared it.
Commit(t) ==
  /\ pc[t] = "commit"
  /\ IF Blob(t).addr # 0
     THEN /\ g_hv_mem' = [g_hv_mem EXCEPT ![cur[t].slot] = AsSlot(TRUE, cur[t].handle, Blob(t))]
          /\ Return(t, cur[t].handle, "exported")
     ELSE /\ Goto(t, "undo_unmap")
          /\ UNCHANGED <<g_hv_mem, life, cur>>
  /\ UNCHANGED <<gpuVars, historyVars>>

-----------------------------------------------------------------------------
\* Taking a blob down, on the way out of a failed export and in vkFreeMemory.
\* A call that fails is not repeated.

Unmapped(b) == AsBlob(b.res, FALSE, 0)

\* uk_virtio_gpu_gl_blob_unmap, if the blob is mapped
Unmap(t) ==
  IF Blob(t).mapped
  THEN \E s \in Layer!UnmapResults(TableState(t)) :
         /\ Moves(t, s)
         /\ g_hv_mem' = IF s = "made" /\ s # TableState(t)
                        THEN WithBlob(t, Unmapped(Blob(t))) ELSE g_hv_mem
         /\ failed' = IF s # "made" THEN failed \cup {Blob(t).res} ELSE failed
  ELSE UNCHANGED <<g_hv_mem, gpuVars, failed>>

\* uk_virtio_gpu_gl_blob_destroy, if the blob is created; it refuses a mapped one.
DestroyOutcomes(t) ==
  IF Blob(t).mapped THEN {TableState(t)} ELSE Layer!DestroyResults(TableState(t))

BlobLeft(t, s) == IF s = "none" THEN NoBlob ELSE Blob(t)

\* It ends in state s of the table, and the caller leaves the slot as given.
Destroyed(t, s, slot) ==
  /\ Moves(t, s)
  /\ g_hv_mem' = [g_hv_mem EXCEPT ![cur[t].slot] = slot]
  /\ failed' = IF s = "made" /\ ~Blob(t).mapped THEN failed \cup {Blob(t).res} ELSE failed

UndoUnmap(t) ==
  /\ pc[t] = "undo_unmap"
  /\ Unmap(t)
  /\ Goto(t, "undo_destroy")
  /\ UNCHANGED <<life, cur, origin, shared>>

\* memset(b)
Cleared(slot) == Holding(slot, NoBlob)

UndoDestroy(t) ==
  /\ pc[t] = "undo_destroy"
  /\ \E s \in DestroyOutcomes(t) : Destroyed(t, s, Cleared(g_hv_mem[cur[t].slot]))
  /\ Return(t, cur[t].handle, "staged")
  /\ UNCHANGED <<origin, shared>>

-----------------------------------------------------------------------------
\* vkFreeMemory and vkMapMemory

\* uk_hv_mem_find
EntriesOf(h) == {i \in Slots : g_hv_mem[i].used /\ g_hv_mem[i].handle = h}
First(S) == CHOOSE i \in S : \A j \in S : i <= j

\* Memory without an entry is dropped without a word to the host; for the rest
\* the detach changes nothing of the guest's.
Free(t) ==
  \E h \in Handles :
    /\ pc[t] = "idle"
    /\ life[h] \in {"exported", "staged", "plain"}
    /\ IF EntriesOf(h) = {}
       THEN /\ life' = [life EXCEPT ![h] = "freed"]
            /\ UNCHANGED threadVars
       ELSE /\ life' = [life EXCEPT ![h] = "freeing"]
            /\ cur' = [cur EXCEPT ![t] = [handle |-> h, slot |-> First(EntriesOf(h))]]
            /\ Goto(t, "free_unmap")
    /\ UNCHANGED <<g_hv_mem, gpuVars, historyVars>>

FreeUnmap(t) ==
  /\ pc[t] = "free_unmap"
  /\ Unmap(t)
  /\ Goto(t, "free_destroy")
  /\ UNCHANGED <<life, cur, origin, shared>>

\* hv->used = 0
Released(slot, b) == AsSlot(FALSE, slot.handle, b)

FreeDestroy(t) ==
  /\ pc[t] = "free_destroy"
  /\ \E s \in DestroyOutcomes(t) :
       Destroyed(t, s, Released(g_hv_mem[cur[t].slot], BlobLeft(t, s)))
  /\ Return(t, cur[t].handle, "freed")
  /\ UNCHANGED <<origin, shared>>

\* vkMapMemory: the resource whose mapping the application gets, 0 for the
\* staging buffer.
MapMemory(h) == IF EntriesOf(h) = {} THEN 0 ELSE g_hv_mem[First(EntriesOf(h))].blob.addr

-----------------------------------------------------------------------------

AllocateStep(t) == Allocate(t) \/ AllocatePlain(t) \/ SubmitAllocate(t) \/ CreateBlob(t)
                     \/ MapBlob(t) \/ Attach(t) \/ Commit(t)
                     \/ UndoUnmap(t) \/ UndoDestroy(t)
FreeStep(t) == Free(t) \/ FreeUnmap(t) \/ FreeDestroy(t)

Next == \E t \in Threads : AllocateStep(t) \/ FreeStep(t)

Spec == Init /\ [][Next]_vars

-----------------------------------------------------------------------------
\* Properties

Busy == {t \in Threads : pc[t] # "idle"}
Live == {h \in Handles : life[h] \in {"exported", "staged", "plain"}}

\* Types of the table, of the threads' state and of the histories.
TypeOK ==
  /\ g_hv_mem \in [Slots -> [used : BOOLEAN, handle : 0..MaxMem,
                             blob : [res : 0..MaxRes, mapped : BOOLEAN, addr : 0..MaxRes]]]
  /\ gpu \in [ResIds -> Layer!States]
  /\ next_res \in 1..(MaxRes + 1)
  /\ life \in [Handles -> Lives]
  /\ pc \in [Threads -> Steps]
  /\ cur \in [Threads -> [handle : 0..MaxMem, slot : 0..HvMax]]
  /\ \A t \in Busy : cur[t].handle \in Handles /\ cur[t].slot \in Slots
  /\ origin \in [ResIds -> 0..MaxMem]
  /\ shared \in SUBSET Handles
  /\ failed \in SUBSET ResIds

\* The pointer vkMapMemory returns for a live memory leads into the mapping of
\* the blob that was made of that very memory, and the blob is mapped; memory that
\* was exported never turns into staging memory.  Memory allocated in a slot two
\* threads took at once is excepted.
PointerIsOwn ==
  \A h \in Live \ shared :
    /\ life[h] = "exported" => MapMemory(h) # 0
    /\ MapMemory(h) # 0 => origin[MapMemory(h)] = h /\ gpu[MapMemory(h)] = "mapped"

\* An entry of the driver's resource table that was made here is that of a slot
\* in use or being filled, unless a command to take it down failed or two threads
\* shared the slot.
EntriesAccounted ==
  \A r \in ResIds : gpu[r] # "none" =>
    \/ r \in failed
    \/ origin[r] \in shared
    \/ \E i \in Slots : g_hv_mem[i].blob.res = r /\ (g_hv_mem[i].used \/ WorkedOn(i) # {})

\* A slot is in use for one memory the application has not freed, whatever fails:
\* the table runs full only of live memory.
SlotsComeBack ==
  \A i \in Slots : g_hv_mem[i].used =>
    \/ g_hv_mem[i].handle \in shared
    \/ /\ life[g_hv_mem[i].handle] \in {"exported", "freeing"}
       /\ EntriesOf(g_hv_mem[i].handle) = {i}
=============================================================================
