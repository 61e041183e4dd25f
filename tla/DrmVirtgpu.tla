------------------------------ MODULE DrmVirtgpu ------------------------------
(***************************************************************************)
(* The DRM shim (libukvirtgpu_drm): buffer objects under GEM handles over  *)
(* the blob calls of the driver (drm_virtgpu.c), and the file facade that  *)
(* gives each mapped object an offset and resolves offsets for mmap        *)
(* (drm_virtgpu_fdio.c).                                                   *)
(*                                                                         *)
(* The shim takes no lock.  A create takes its handle by reading the count *)
(* next_bo_handle and writing it back one larger, clears the object, has   *)
(* the blob made, and when that fails reads and writes the count again, so *)
(* it is a step per access here.  The other calls are one step each, which *)
(* assumes of the application that it does not use one object from two     *)
(* threads at once, does not map two objects at once (the search and the   *)
(* filling of an mmap entry), nor close the file under a call.  Calls on a *)
(* handle that two creates took are still one step each.                   *)
(* The blob calls are those of BlobLayer.                                  *)
(***************************************************************************)
EXTENDS Integers, FiniteSets

CONSTANTS Threads,     (* threads that call the shim                        *)
          MaxHandles,  (* UK_DRM_VIRTGPU_MAX_HANDLES                        *)
          MaxMmaps,    (* UK_DRM_VIRTGPU_FDIO_MAX_MMAPS                     *)
          Sizes,       (* sizes of buffer objects                           *)
          Page,        (* UK_DRM_VIRTGPU_PAGE_SIZE                          *)
          Width,       (* 2^32, the values of a uint32_t                    *)
          MaxRes       (* bound: resource ids given out                     *)

ASSUME DrmVirtgpuAssumption ==
  /\ MaxHandles \in Nat \ {0} /\ MaxMmaps \in Nat /\ MaxHandles <= MaxMmaps
  /\ IsFiniteSet(Threads) /\ MaxHandles + Cardinality(Threads) <= Width
  /\ Sizes \subseteq Nat \ {0}
  /\ Page \in Nat \ {0} /\ Width \in Nat \ {0}
  /\ MaxRes \in Nat

Handles == 1..MaxHandles
Slots == 1..MaxMmaps
ResIds == 1..MaxRes

VARIABLES
  opened,          \* file->opened
  bo,              \* dev->handles, by the handle of the place
  next_bo_handle,
  mmaps,           \* file->mmaps
  next_offset,
  gpu,             \* BlobLayer's state
  next_res,        \* BlobLayer's next
  at,              \* per thread: what the create it is in does next, or "idle"
  creating,        \* per thread: the handle it is creating an object for, or 0
  count,           \* per thread: next_bo_handle as it has read it to write it back
  held,            \* the application: per handle the resource it got with it
  given,           \* the application: per handle the offset it got from MAP
  made,            \* history: creates that returned 0 since the file was opened
  races,           \* history: what creates have done to each other (below)
  failed           \* history: resource ids an unmap or destroy of which failed

boVars == <<bo, next_bo_handle>>
mmapVars == <<mmaps, next_offset>>
gpuVars == <<gpu, next_res>>
threadVars == <<at, creating, count>>
appVars == <<held, given>>
historyVars == <<made, races, failed>>
vars == <<opened, boVars, mmapVars, gpuVars, threadVars, appVars, historyVars>>

\* Where a thread may be: idle; about to write the count it has read (29), to clear
\* the object (31), to have the blob made (186), to read the count for a handle to
\* give back and to write it (190).
Places == {"idle", "count", "wipe", "blob", "undo", "back"}

\* Creates that got into each other's way: one wrote a count that another had changed
\* since it was read; one took or gave back a handle that was not, by then, the next or
\* the last.
Races == {"lost", "crossed"}

Layer == INSTANCE BlobLayer WITH state <- gpu, next <- next_res

\* Resource 0 is a blob that is not created, pointer 0 is NULL, any other pointer
\* the address of that resource's mapping.
NewBo(h) == [bo_handle |-> h, is_blob |-> FALSE, size |-> 0, res |-> 0,
             blob_mapped |-> FALSE, mapped |-> 0]
NoBo == NewBo(0)
NoEntry == [bo_handle |-> 0, offset |-> 0, size |-> 0, ptr |-> 0]
Base == Page

Init ==
  /\ opened = FALSE
  /\ bo = [h \in Handles |-> NoBo]
  /\ next_bo_handle = 0
  /\ mmaps = [i \in Slots |-> NoEntry]
  /\ next_offset = Base
  /\ Layer!Init
  /\ at = [t \in Threads |-> "idle"]
  /\ creating = [t \in Threads |-> 0]
  /\ count = [t \in Threads |-> 0]
  /\ held = [h \in Handles |-> 0]
  /\ given = [h \in Handles |-> 0]
  /\ made = 0
  /\ races = {}
  /\ failed = {}

\* The threads that have written the count for a handle of theirs and have not
\* written it back.
Creators == {t \in Threads : at[t] \in {"wipe", "blob", "undo", "back"}}

\* The first slot of some, for the searches that end at it.
FirstOf(S) == {i \in S : \A j \in S : i <= j}

-----------------------------------------------------------------------------
\* Mutated forms of the definitions below, one per property: the bug in the code
\* that the property is there to notice.

\* A failed create keeps its handle (FailuresCostNoHandle).
HandleKept(n) == n

\* The bound of the lookup is taken for that of a 0-based index (HeldHandlesResolve).
ResolvesBelow(h) == h < next_bo_handle /\ bo[h].bo_handle = h

\* Closing stops one object short (BlobsHaveHandles).
TakenButLast == 1..(next_bo_handle - 1)

\* Each entry is given one page of offsets (MmapResolves).
MovedOnePage(off, size) == off + Page

\* GEM_CLOSE leaves the entry (MmapNeverStale).
EntriesKept(h) == mmaps

\* MAP enters an object each time (MapFindsEntry).
EntriesNone(h) == {}

-----------------------------------------------------------------------------
\* drm_virtgpu.c

\* bo_lookup
Resolves(h) == h <= next_bo_handle /\ bo[h].bo_handle = h

HasRoom(n) == n < MaxHandles

\* next_bo_handle++ and next_bo_handle--
CountUp(n) == (n + 1) % Width
CountDown(n) == (n - 1) % Width

\* The write of a count by thread t, when the handle it takes or gives back should be h
Lost(t) == IF count[t] # next_bo_handle THEN {"lost"} ELSE {}
Crossed(t, h) == IF creating[t] # h THEN {"crossed"} ELSE {}

\* bo_alloc: h = dev->next_bo_handle, and the test of h
BoAlloc(t) ==
  /\ opened
  /\ at[t] = "idle"
  /\ HasRoom(next_bo_handle)
  /\ at' = [at EXCEPT ![t] = "count"]
  /\ creating' = [creating EXCEPT ![t] = next_bo_handle + 1]
  /\ count' = [count EXCEPT ![t] = next_bo_handle]
  /\ UNCHANGED <<opened, boVars, mmapVars, gpuVars, appVars, historyVars>>

\* ... the increment may take the value from memory once more
BoAllocReads(t) ==
  /\ at[t] = "count"
  /\ count[t] # next_bo_handle
  /\ count' = [count EXCEPT ![t] = next_bo_handle]
  /\ UNCHANGED <<opened, boVars, mmapVars, gpuVars, at, creating, appVars, historyVars>>

\* ... its write
BoAllocCounts(t) ==
  /\ at[t] = "count"
  /\ next_bo_handle' = CountUp(count[t])
  /\ races' = races \cup Lost(t) \cup Crossed(t, next_bo_handle + 1)
  /\ at' = [at EXCEPT ![t] = "wipe"]
  /\ count' = [count EXCEPT ![t] = 0]
  /\ UNCHANGED <<opened, bo, mmapVars, gpuVars, creating, appVars, made, failed>>

\* ... and the object, cleared and given its handle
BoAllocWipes(t) ==
  /\ at[t] = "wipe"
  /\ bo' = [bo EXCEPT ![creating[t]] = NewBo(creating[t])]
  /\ at' = [at EXCEPT ![t] = "blob"]
  /\ UNCHANGED <<opened, next_bo_handle, mmapVars, gpuVars, creating, count, appVars,
                 historyVars>>

\* An object made a blob, forgotten by a failed create, and after a map call.
AsBlob(b, size, r) == [bo_handle |-> b.bo_handle, is_blob |-> TRUE, size |-> size, res |-> r,
                       blob_mapped |-> b.blob_mapped, mapped |-> b.mapped]
Forgotten(b) == [bo_handle |-> 0, is_blob |-> b.is_blob, size |-> b.size, res |-> b.res,
                 blob_mapped |-> b.blob_mapped, mapped |-> b.mapped]
AfterMap(b, half, m) == [bo_handle |-> b.bo_handle, is_blob |-> b.is_blob, size |-> b.size,
                         res |-> b.res, blob_mapped |-> half, mapped |-> m]

\* The rest of uk_drm_virtgpu_resource_create_blob when the blob came to be
CreateBlob(t) ==
  /\ at[t] = "blob"
  /\ LET h == creating[t] IN
       /\ bo[h].res = 0
       /\ Layer!Take
       /\ gpu'[next_res] = "made"
       /\ \E size \in Sizes :
            bo' = [bo EXCEPT ![h] = AsBlob(bo[h], size, next_res)]
       /\ held' = [held EXCEPT ![h] = next_res]
       /\ given' = [given EXCEPT ![h] = 0]
  /\ made' = made + 1
  /\ at' = [at EXCEPT ![t] = "idle"]
  /\ creating' = [creating EXCEPT ![t] = 0]
  /\ UNCHANGED <<opened, next_bo_handle, mmapVars, count, races, failed>>

\* ... and when it did not: the object is forgotten
CreateFails(t) ==
  /\ at[t] = "blob"
  /\ \/ UNCHANGED gpuVars
     \/ bo[creating[t]].res = 0 /\ Layer!Take /\ gpu' = gpu
  /\ bo' = [bo EXCEPT ![creating[t]] = Forgotten(bo[creating[t]])]
  /\ at' = [at EXCEPT ![t] = "undo"]
  /\ UNCHANGED <<opened, next_bo_handle, mmapVars, creating, count, appVars, historyVars>>

\* ... dev->next_bo_handle--, its read
HandleBackReads(t) ==
  /\ at[t] = "undo"
  /\ count' = [count EXCEPT ![t] = next_bo_handle]
  /\ at' = [at EXCEPT ![t] = "back"]
  /\ UNCHANGED <<opened, boVars, mmapVars, gpuVars, creating, appVars, historyVars>>

\* ... and its write
HandleBack(t) ==
  /\ at[t] = "back"
  /\ next_bo_handle' = CountDown(count[t])
  /\ races' = races \cup Lost(t) \cup Crossed(t, next_bo_handle)
  /\ at' = [at EXCEPT ![t] = "idle"]
  /\ creating' = [creating EXCEPT ![t] = 0]
  /\ count' = [count EXCEPT ![t] = 0]
  /\ UNCHANGED <<opened, bo, mmapVars, gpuVars, appVars, made, failed>>

\* bo_release: the states it may leave the object's resource in.  A failed unmap
\* makes the destroy refuse; either way the object is forgotten.
Releases(h) ==
  UNION {IF s = "made" THEN Layer!DestroyResults(s) ELSE {s} :
           s \in IF bo[h].blob_mapped THEN Layer!UnmapResults(gpu[bo[h].res])
                                      ELSE {gpu[bo[h].res]}}

\* bo_release of the objects in H, gpu' and failed' included
Blobs(H) == {h \in H : bo[h].is_blob /\ bo[h].res # 0}
ResOf(H) == {bo[h].res : h \in Blobs(H)}
Owner(H, r) == CHOOSE h \in Blobs(H) : bo[h].res = r
ReleaseAll(H) ==
  /\ \E left \in [ResOf(H) -> Layer!States] :
       /\ \A r \in ResOf(H) : left[r] \in Releases(Owner(H, r))
       /\ gpu' = [r \in ResIds |-> IF r \in ResOf(H) THEN left[r] ELSE gpu[r]]
       /\ failed' = failed \cup {r \in ResOf(H) : left[r] # "none"}
  /\ UNCHANGED next_res

-----------------------------------------------------------------------------
\* drm_virtgpu_fdio.c

\* mmap_lookup_handle
EntriesOf(h) == {i \in Slots : mmaps[i].bo_handle = h /\ mmaps[i].ptr # 0}

\* mmap_alloc
FreeEntries == {i \in Slots : mmaps[i].bo_handle = 0}

AlignUp(n) == ((n + Page - 1) \div Page) * Page

\* The size of the entry, by way of uk_drm_virtgpu_resource_info's 32 bits.
EntrySize(h) == AlignUp(bo[h].size % Width)

\* next_offset after an entry at off
Moved(off, size) == AlignUp(off + (IF size = 0 THEN Page ELSE size))

\* DRM_IOCTL_VIRTGPU_MAP of an object that has an entry
MapAgain(t, h) ==
  /\ \E i \in FirstOf(EntriesOf(h)) : given' = [given EXCEPT ![h] = mmaps[i].offset]
  /\ UNCHANGED <<opened, boVars, mmapVars, gpuVars, threadVars, held, historyVars>>

\* ... of one whose mapping, if it is not mapped yet, fails: it may end half mapped
MapFails(t, h) ==
  /\ EntriesOf(h) = {}
  /\ Resolves(h) /\ bo[h].is_blob /\ bo[h].mapped = 0
  /\ \E s \in Layer!MapResults(gpu[bo[h].res]) \ {"mapped"} :
       /\ gpu' = [gpu EXCEPT ![bo[h].res] = s]
       /\ bo' = [bo EXCEPT ![h] = AfterMap(bo[h], s = "half", 0)]
  /\ UNCHANGED <<opened, next_bo_handle, mmapVars, next_res, threadVars, appVars, historyVars>>

\* ... of one that is mapped, or is mapped now: it is entered if there is room
MapEnters(t, h) ==
  /\ EntriesOf(h) = {}
  /\ Resolves(h) /\ bo[h].is_blob
  /\ \/ bo[h].mapped # 0 /\ UNCHANGED <<bo, gpu>>
     \/ /\ bo[h].mapped = 0 /\ gpu[bo[h].res] = "made"
        /\ gpu' = [gpu EXCEPT ![bo[h].res] = "mapped"]
        /\ bo' = [bo EXCEPT ![h] = AfterMap(bo[h], TRUE, bo[h].res)]
  /\ IF FreeEntries = {}
     THEN UNCHANGED <<mmapVars, given>>
     ELSE /\ \E i \in FirstOf(FreeEntries) :
               mmaps' = [mmaps EXCEPT ![i] =
                           [bo_handle |-> h, offset |-> next_offset, size |-> EntrySize(h),
                            ptr |-> bo'[h].mapped]]
          /\ next_offset' = Moved(next_offset, EntrySize(h))
          /\ given' = [given EXCEPT ![h] = next_offset]
  /\ UNCHANGED <<opened, next_bo_handle, next_res, threadVars, held, historyVars>>

\* mmap_remove_handle
EntriesWithout(h) ==
  [i \in Slots |-> IF mmaps[i].bo_handle = h THEN NoEntry ELSE mmaps[i]]

\* DRM_IOCTL_GEM_CLOSE: the release, and the entry with it
GemClose(t, h) ==
  /\ Resolves(h) /\ bo[h].is_blob
  /\ ReleaseAll({h})
  /\ bo' = [bo EXCEPT ![h] = NoBo]
  /\ mmaps' = EntriesWithout(h)
  /\ held' = [held EXCEPT ![h] = 0]
  /\ given' = [given EXCEPT ![h] = 0]
  /\ UNCHANGED <<opened, next_bo_handle, next_offset, next_res, threadVars, made, races>>

\* uk_drm_virtgpu_file_mmap: the resource and the place in it that offset leads to,
\* or resource 0
FileMmap(offset, len) ==
  LET hits == {i \in Slots : /\ mmaps[i].bo_handle # 0 /\ mmaps[i].ptr # 0
                             /\ offset >= mmaps[i].offset
                             /\ offset < mmaps[i].offset + mmaps[i].size}
      e == mmaps[CHOOSE i \in FirstOf(hits) : TRUE]
  IN IF hits = {} \/ offset % Page # 0 \/ len > e.size - (offset - e.offset)
     THEN [res |-> 0, at |-> 0] ELSE [res |-> e.ptr, at |-> offset - e.offset]

\* uk_drm_virtgpu_file_open
FileOpen ==
  /\ ~opened
  /\ opened' = TRUE
  /\ UNCHANGED <<boVars, mmapVars, gpuVars, threadVars, appVars, historyVars>>

\* The objects uk_drm_virtgpu_close goes through
Taken == 1..next_bo_handle

\* uk_drm_virtgpu_file_close.  With a count that races have taken beyond the table
\* uk_drm_virtgpu_close would leave the array: there the model ends (CountInTable).
FileClose ==
  /\ opened
  /\ \A t \in Threads : at[t] = "idle"
  /\ next_bo_handle <= MaxHandles
  /\ ReleaseAll(Taken)
  /\ opened' = FALSE
  /\ bo' = [h \in Handles |-> NoBo]
  /\ next_bo_handle' = 0
  /\ mmaps' = [i \in Slots |-> NoEntry]
  /\ next_offset' = Base
  /\ held' = [h \in Handles |-> 0]
  /\ given' = [h \in Handles |-> 0]
  /\ made' = 0
  /\ UNCHANGED <<next_res, threadVars, races>>

-----------------------------------------------------------------------------

CreateStep(t) ==
  \/ BoAlloc(t) \/ BoAllocReads(t) \/ BoAllocCounts(t) \/ BoAllocWipes(t)
  \/ CreateBlob(t)
  \/ CreateFails(t) \/ HandleBackReads(t) \/ HandleBack(t)

\* An ioctl on an object the application holds
ObjectStep(t) ==
  \E h \in Handles :
    /\ opened /\ at[t] = "idle" /\ held[h] # 0
    /\ MapAgain(t, h) \/ MapFails(t, h) \/ MapEnters(t, h) \/ GemClose(t, h)

Next == (\E t \in Threads : CreateStep(t) \/ ObjectStep(t)) \/ FileOpen \/ FileClose

Spec == Init /\ [][Next]_vars

-----------------------------------------------------------------------------
\* Properties

\* Types of the tables, of what the application knows and of the histories.
TypeOK ==
  /\ opened \in BOOLEAN
  /\ bo \in [Handles -> [bo_handle : 0..MaxHandles, is_blob : BOOLEAN, size : {0} \cup Sizes,
                         res : 0..MaxRes, blob_mapped : BOOLEAN, mapped : 0..MaxRes]]
  /\ next_bo_handle \in 0..(Width - 1)
  /\ mmaps \in [Slots -> [bo_handle : 0..MaxHandles, offset : Nat, size : Nat, ptr : 0..MaxRes]]
  /\ next_offset \in Nat
  /\ gpu \in [ResIds -> Layer!States]
  /\ next_res \in 1..(MaxRes + 1)
  /\ at \in [Threads -> Places]
  /\ creating \in [Threads -> 0..MaxHandles]
  /\ \A t \in Threads : at[t] # "idle" => creating[t] # 0
  /\ count \in [Threads -> 0..(Width - 1)]
  /\ held \in [Handles -> 0..MaxRes]
  /\ given \in [Handles -> Nat]
  /\ made \in Nat
  /\ races \in SUBSET Races
  /\ failed \in SUBSET ResIds

\* No create has written the count over another's, nor taken or given back a handle
\* out of turn.
Ordered == races = {}

\* Failed creates use no handle up, in whichever order they come: the handles taken
\* are those of the objects created since the file was opened and of the creates
\* under way, unless the write of one create has undone that of another.
FailuresCostNoHandle == "lost" \notin races => next_bo_handle = made + Cardinality(Creators)

\* The count stays one of the table's, which is what closing goes by, unless creates
\* got in each other's way.
CountInTable == Ordered => next_bo_handle <= MaxHandles

\* A handle the application holds leads to the object it got it with, whatever
\* other creates failed, unless creates got in each other's way.
HeldHandlesResolve ==
  Ordered => \A h \in Handles : held[h] # 0 => Resolves(h) /\ bo[h].res = held[h]

\* Every resource of the driver's table that came to be here belongs to an object,
\* unless its release failed or creates got in each other's way.
BlobsHaveHandles ==
  Ordered => \A r \in ResIds : gpu[r] # "none" =>
               r \in failed \/ \E h \in Handles : Resolves(h) /\ bo[h].res = r

\* The offset MAP returned leads, over the object's whole size and a page at a time,
\* to the mapping of that very object, as long as its size fits 32 bits.
MmapResolves ==
  Ordered => \A h \in Handles : given[h] # 0 /\ bo[h].size < Width =>
    \A place \in {k * Page : k \in 0..((bo[h].size - 1) \div Page)} :
      FileMmap(given[h] + place, bo[h].size - place) = [res |-> held[h], at |-> place]

\* Nothing mmap resolves leads to a mapping that is gone.
MmapNeverStale ==
  \A offset \in Base..next_offset :
    FileMmap(offset, 1).res # 0 => gpu[FileMmap(offset, 1).res] = "mapped"

\* MAP of an object finds a free entry: the table, as large as that of the handles,
\* never holds two entries of an object, nor one of an object that is gone.
MapFindsEntry == \A h \in Handles : held[h] # 0 /\ EntriesOf(h) = {} => FreeEntries # {}
=============================================================================
