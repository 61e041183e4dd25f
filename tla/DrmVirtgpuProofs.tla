--------------------------- MODULE DrmVirtgpuProofs ---------------------------
(***************************************************************************)
(* Proofs about DrmVirtgpu, for any threads, numbers of handles and of     *)
(* mmap entries, sizes and page: the handles that creates take and give    *)
(* back without a lock, and what an object's handle leads to.              *)
(*                                                                         *)
(* As long as no write of the count has undone another, the handles it     *)
(* counts are those of the objects made and of the creates under way       *)
(* (FailuresCostNoHandle); it does not wrap, since no more threads can     *)
(* have read it than there are (CountBound).  As long as no create takes   *)
(* or gives back a handle out of turn either, the creates under way have   *)
(* handles of their own, which no object the application holds has, and    *)
(* the objects beyond the count have no resource (HandlesInv).             *)
(*                                                                         *)
(* Entries lead to mapped resources of one object each (LinksInv), at      *)
(* offsets whole pages apart and of the sizes of objects that are held     *)
(* (OffsetsInv): what mmap makes of an offset follows.                     *)
(***************************************************************************)
EXTENDS DrmVirtgpu, FiniteSetTheorems, WellFoundedInduction, TLAPS

\* What a single object is.
BoSet == [bo_handle : 0..MaxHandles, is_blob : BOOLEAN, size : {0} \cup Sizes,
          res : 0..MaxRes, blob_mapped : BOOLEAN, mapped : 0..MaxRes]
EntrySet == [bo_handle : 0..MaxHandles, offset : Nat, size : Nat, ptr : 0..MaxRes]

\* Only blobs have a resource.
ResourcesAreBlobs == \A h \in Handles : bo[h].res # 0 => bo[h].is_blob

\* The threads that have read the count and not written it back larger.
Readers == {t \in Threads : at[t] = "count"}

\* A count that has lost no write is at most that of the handles, and one more per
\* thread that read it when there was room.
CountBound ==
  "lost" \notin races =>
    next_bo_handle + Cardinality(Readers) <= MaxHandles + Cardinality(Threads) - 1

\* The creates under way have handles of their own, without a resource yet.
CreatorsApart ==
  /\ \A t \in Creators : /\ creating[t] <= next_bo_handle
                         /\ held[creating[t]] = 0
                         /\ bo[creating[t]].res = 0
  /\ \A t \in Creators : at[t] = "blob" => bo[creating[t]].bo_handle = creating[t]
  /\ \A t, u \in Creators : t # u => creating[t] # creating[u]

\* Objects beyond the count have no resource.
FreeBeyond == \A h \in Handles : h > next_bo_handle => bo[h].res = 0

HandlesInv == Ordered => CreatorsApart /\ FreeBeyond

IInv == /\ TypeOK
        /\ FailuresCostNoHandle
        /\ CountBound
        /\ CountInTable
        /\ ResourcesAreBlobs
        /\ HandlesInv
        /\ HeldHandlesResolve
        /\ BlobsHaveHandles

-----------------------------------------------------------------------------
(* Types *)

\* Sizes and offsets stay natural numbers.
LEMMA AlignUpType ==
  ASSUME NEW n \in Nat
  PROVE  AlignUp(n) \in Nat
<1>1. Page \in Nat /\ Page > 0
  BY DrmVirtgpuAssumption
<1>2. (n + Page - 1) \div Page \in Nat
  BY <1>1
<1>3. QED
  BY <1>1, <1>2, SMT DEF AlignUp

LEMMA MovedType ==
  ASSUME NEW off \in Nat, NEW size \in Nat
  PROVE  Moved(off, size) \in Nat
<1>1. Page \in Nat
  BY DrmVirtgpuAssumption
<1>2. off + (IF size = 0 THEN Page ELSE size) \in Nat
  BY <1>1
<1>3. QED
  BY <1>2, AlignUpType DEF Moved

\* Types in the form the steps below use.
LEMMA Typed ==
  ASSUME TypeOK
  PROVE  /\ opened \in BOOLEAN /\ races \in SUBSET Races /\ made \in Nat
         /\ bo \in [Handles -> BoSet]
         /\ \A h \in Handles : bo[h] \in BoSet /\ h \in 1..MaxHandles /\ h # 0
         /\ next_bo_handle \in 0..(Width - 1) /\ next_bo_handle \in Nat
         /\ mmaps \in [Slots -> EntrySet]
         /\ next_offset \in Nat
         /\ gpu \in [ResIds -> Layer!States] /\ Layer!ResIds = ResIds
         /\ next_res \in 1..(MaxRes + 1)
         /\ creating \in [Threads -> 0..MaxHandles]
         /\ at \in [Threads -> Places] /\ count \in [Threads -> 0..(Width - 1)]
         /\ \A t \in Threads : count[t] \in Nat
         /\ \A t \in Threads : at[t] # "idle" => creating[t] \in Handles
         /\ held \in [Handles -> 0..MaxRes]
         /\ given \in [Handles -> Nat]
         /\ failed \in SUBSET ResIds
         /\ MaxHandles \in Nat /\ MaxRes \in Nat /\ IsFiniteSet(Threads)
         /\ Width \in Nat /\ Width > 0
<1>1. MaxHandles \in Nat /\ MaxRes \in Nat /\ IsFiniteSet(Threads) /\ Width \in Nat /\ Width > 0
  BY DrmVirtgpuAssumption
<1>7. /\ next_bo_handle \in Nat
      /\ \A t \in Threads : count[t] \in Nat
  BY <1>1 DEF TypeOK
<1>2. bo \in [Handles -> BoSet] /\ mmaps \in [Slots -> EntrySet]
  BY Zenon DEF TypeOK, BoSet, EntrySet
<1>3. Layer!ResIds = ResIds
  BY DEF ResIds, Layer!ResIds
<1>4. \A t \in Threads : at[t] # "idle" => creating[t] \in Handles
  BY <1>1 DEF TypeOK, Handles
<1>5. \A h \in Handles : bo[h] \in BoSet /\ h \in 1..MaxHandles /\ h # 0
  BY <1>1, <1>2 DEF Handles
<1>6. QED
  BY <1>1, <1>2, <1>3, <1>4, <1>5, <1>7, Zenon DEF TypeOK

LEMMA EntrySizeType ==
  ASSUME TypeOK, NEW h \in Handles
  PROVE  EntrySize(h) \in Nat
<1>1. bo[h] \in BoSet /\ Width \in Nat /\ Width > 0
  BY Typed, DrmVirtgpuAssumption
<1>4. bo[h].size \in Nat
  <2>1. \A s \in Sizes : s \in Nat
    BY DrmVirtgpuAssumption
  <2>2. bo[h].size \in {0} \cup Sizes
    BY <1>1 DEF BoSet
  <2> QED
    BY <2>1, <2>2
<1>2. bo[h].size % Width \in Nat
  BY <1>1, <1>4
<1>3. QED
  BY <1>2, AlignUpType DEF EntrySize

\* The objects the steps put into the table.
LEMMA BoTypes ==
  ASSUME NEW b \in BoSet, NEW h \in 0..MaxHandles, NEW size \in Sizes, NEW r \in 0..MaxRes,
         NEW half \in BOOLEAN, MaxRes \in Nat, MaxHandles \in Nat
  PROVE  /\ NewBo(h) \in BoSet /\ NoBo \in BoSet
         /\ AsBlob(b, size, r) \in BoSet /\ Forgotten(b) \in BoSet
         /\ AfterMap(b, half, r) \in BoSet
  BY DEF BoSet, NewBo, NoBo, AsBlob, Forgotten, AfterMap

\* A blob call leaves a blob in one of its states.
LEMMA ResultTypes ==
  ASSUME NEW s \in Layer!States
  PROVE  /\ Layer!MapResults(s) \subseteq Layer!States
         /\ Layer!UnmapResults(s) \subseteq Layer!States
         /\ Layer!DestroyResults(s) \subseteq Layer!States
  BY DEF Layer!MapResults, Layer!UnmapResults, Layer!DestroyResults, Layer!States

\* A resource id taken.
LEMMA TakeTypes ==
  ASSUME TypeOK, Layer!Take
  PROVE  /\ next_res \in ResIds /\ next_res' \in 1..(MaxRes + 1)
         /\ gpu' \in [ResIds -> Layer!States]
         /\ \A r \in ResIds : r # next_res => gpu'[r] = gpu[r]
<1>1. /\ next_res \in ResIds /\ next_res' = next_res + 1
      /\ gpu' = gpu \/ gpu' = [gpu EXCEPT ![next_res] = "made"]
  BY Typed DEF Layer!Take
<1>2. "made" \in Layer!States
  BY DEF Layer!States
<1>3. gpu \in [ResIds -> Layer!States] /\ MaxRes \in Nat
  BY Typed
<1>4. QED
  BY <1>1, <1>2, <1>3 DEF ResIds

\* A release.
LEMMA ReleaseTypes ==
  ASSUME TypeOK, NEW H, H \subseteq Handles, ReleaseAll(H)
  PROVE  /\ gpu' \in [ResIds -> Layer!States]
         /\ next_res' = next_res
         /\ failed' \in SUBSET ResIds
         /\ failed \subseteq failed'
         /\ \A r \in ResIds :
              \/ gpu'[r] = gpu[r]
              \/ gpu'[r] = "none"
              \/ r \in failed'
         /\ \A r \in ResIds, h \in H :
              bo[h].is_blob /\ bo[h].res = r => gpu'[r] = "none" \/ r \in failed'
         /\ \A r \in ResIds : gpu'[r] = gpu[r] \/ \E h \in H : bo[h].res = r
<1>2. PICK left \in [ResOf(H) -> Layer!States] :
        /\ gpu' = [r \in ResIds |-> IF r \in ResOf(H) THEN left[r] ELSE gpu[r]]
        /\ failed' = failed \cup {r \in ResOf(H) : left[r] # "none"}
        /\ next_res' = next_res
  BY DEF ReleaseAll
<1>3. ResOf(H) \subseteq ResIds
  BY Typed DEF BoSet, ResIds, ResOf, Blobs
<1>4. \A r \in ResIds, h \in H : bo[h].is_blob /\ bo[h].res = r => r \in ResOf(H)
  BY Typed DEF ResIds, ResOf, Blobs
<1>5. \A r \in ResIds : gpu'[r] = IF r \in ResOf(H) THEN left[r] ELSE gpu[r]
  BY <1>2
<1>6. gpu' \in [ResIds -> Layer!States]
  BY <1>2, <1>3, Typed
<1>7. \A r \in ResOf(H) : \E h \in H : bo[h].res = r
  BY DEF ResOf, Blobs
<1>8. QED
  BY <1>2, <1>3, <1>4, <1>5, <1>6, <1>7, Typed

-----------------------------------------------------------------------------
(* Handles taken and given back *)

LEMMA ThreadsFinite ==
  ASSUME NEW S, S \subseteq Threads
  PROVE  /\ IsFiniteSet(S)
         /\ Cardinality(S) \in Nat /\ Cardinality(Threads) \in Nat
         /\ Cardinality(S) <= Cardinality(Threads)
         /\ \A t \in S : Cardinality(S) >= 1
<1>1. IsFiniteSet(Threads)
  BY DrmVirtgpuAssumption
<1>2. IsFiniteSet(S) /\ Cardinality(S) <= Cardinality(Threads)
  BY <1>1, FS_Subset
<1>3. Cardinality(S) \in Nat /\ Cardinality(Threads) \in Nat
  BY <1>1, <1>2, FS_CardinalityType
<1>4. \A t \in S : Cardinality(S) # 0
  BY <1>2, FS_EmptySet
<1>5. QED
  BY <1>2, <1>3, <1>4

\* A thread joins a set of threads, or leaves it.
LEMMA ThreadJoins ==
  ASSUME NEW S, S \subseteq Threads, NEW t \in Threads, t \notin S
  PROVE  Cardinality(S \cup {t}) = Cardinality(S) + 1 /\ Cardinality(S) \in Nat
  BY ThreadsFinite, FS_AddElement

LEMMA ThreadLeaves ==
  ASSUME NEW S, S \subseteq Threads, NEW t \in S
  PROVE  /\ Cardinality(S \ {t}) = Cardinality(S) - 1
         /\ Cardinality(S) >= 1 /\ Cardinality(S) \in Nat
  BY ThreadsFinite, FS_RemoveElement

\* What a step from one place of a create to another does to the two sets.
LEMMA Moves ==
  ASSUME TypeOK, NEW t \in Threads, NEW p \in Places, at' = [at EXCEPT ![t] = p]
  PROVE  /\ p \in {"wipe", "blob", "undo", "back"} => Creators' = Creators \cup {t}
         /\ p \in {"idle", "count"} => Creators' = Creators \ {t}
         /\ p = "count" => Readers' = Readers \cup {t}
         /\ p # "count" => Readers' = Readers \ {t}
         /\ at' \in [Threads -> Places] /\ at'[t] = p
         /\ \A u \in Threads : u # t => at'[u] = at[u]
<1>1. at \in [Threads -> Places]
  BY Typed
<1>2. at' \in [Threads -> Places] /\ \A u \in Threads : at'[u] = IF u = t THEN p ELSE at[u]
  BY <1>1
<1>3. /\ p \in {"wipe", "blob", "undo", "back"} => Creators' = Creators \cup {t}
      /\ p \in {"idle", "count"} => Creators' = Creators \ {t}
  BY <1>2 DEF Creators
<1>4. /\ p = "count" => Readers' = Readers \cup {t}
      /\ p # "count" => Readers' = Readers \ {t}
  BY <1>2 DEF Readers
<1> QED
  BY <1>2, <1>3, <1>4

\* Counting stays within 32 bits, and is exact where it does not wrap.
LEMMA Counting ==
  ASSUME NEW n \in 0..(Width - 1)
  PROVE  /\ CountUp(n) \in 0..(Width - 1) /\ CountDown(n) \in 0..(Width - 1)
         /\ n + 1 < Width => CountUp(n) = n + 1
         /\ n >= 1 => CountDown(n) = n - 1
<1>1. Width \in Nat /\ Width > 0
  BY DrmVirtgpuAssumption
<1>2. \A m \in Int : m % Width \in 0..(Width - 1)
  BY <1>1
<1>3. \A m \in 0..(Width - 1) : m % Width = m
  BY <1>1
<1>4. CountUp(n) \in 0..(Width - 1) /\ CountDown(n) \in 0..(Width - 1)
  BY <1>1, <1>2 DEF CountUp, CountDown
<1>5. ASSUME n + 1 < Width PROVE CountUp(n) = n + 1
  BY <1>1, <1>3, <1>5 DEF CountUp
<1>6. ASSUME n >= 1 PROVE CountDown(n) = n - 1
  <2>1. n - 1 \in 0..(Width - 1)
    BY <1>1, <1>6
  <2> QED
    BY <1>3, <2>1 DEF CountDown
<1> QED
  BY <1>4, <1>5, <1>6

\* What the write of a count leaves among the races.
LEMMA RacesGrow ==
  ASSUME TypeOK, NEW t \in Threads, NEW h, races' = races \cup Lost(t) \cup Crossed(t, h)
  PROVE  /\ races' \in SUBSET Races
         /\ "lost" \notin races' => "lost" \notin races /\ count[t] = next_bo_handle
         /\ Ordered' => Ordered /\ count[t] = next_bo_handle /\ creating[t] = h
<1>1. races \in SUBSET Races
  BY Typed
<1>2. races' \in SUBSET Races
  BY <1>1 DEF Races, Lost, Crossed
<1>3. "lost" \notin races' => "lost" \notin races /\ count[t] = next_bo_handle
  BY DEF Lost
<1>4. Ordered' => Ordered /\ count[t] = next_bo_handle /\ creating[t] = h
  BY DEF Ordered, Lost, Crossed
<1> QED
  BY <1>2, <1>3, <1>4

-----------------------------------------------------------------------------
(* The steps *)

\* What the steps of a create do to the parts of the invariant that count.
LEMMA CountsKept ==
  ASSUME IInv, Creators' = Creators, Readers' = Readers, UNCHANGED <<next_bo_handle, made, races>>
  PROVE  FailuresCostNoHandle' /\ CountBound' /\ CountInTable'
  BY DEF IInv, FailuresCostNoHandle, CountBound, CountInTable, Ordered

\* A create reads the count, once or twice: nothing of the tables changes.
LEMMA BoAllocStep ==
  ASSUME IInv, NEW t \in Threads, BoAlloc(t)
  PROVE  IInv'
<1> USE DEF IInv
<1>1. /\ at[t] = "idle" /\ next_bo_handle < MaxHandles
      /\ at' = [at EXCEPT ![t] = "count"]
      /\ creating' = [creating EXCEPT ![t] = next_bo_handle + 1]
      /\ count' = [count EXCEPT ![t] = next_bo_handle]
      /\ UNCHANGED <<opened, bo, next_bo_handle, mmaps, next_offset, gpu, next_res, held, given,
                     made, races, failed>>
  BY DEF BoAlloc, HasRoom, boVars, mmapVars, gpuVars, appVars, historyVars
<1>2. /\ at' \in [Threads -> Places] /\ at'[t] = "count"
      /\ \A u \in Threads : u # t => at'[u] = at[u] /\ creating'[u] = creating[u]
      /\ t \notin Creators /\ t \notin Readers
      /\ Creators' = Creators /\ Readers' = Readers \cup {t}
  <2>1. "count" \in Places
    BY DEF Places
  <2>2. t \notin Creators /\ t \notin Readers
    BY <1>1 DEF Creators, Readers
  <2>3. /\ at' \in [Threads -> Places] /\ at'[t] = "count"
        /\ \A u \in Threads : u # t => at'[u] = at[u]
        /\ Creators' = Creators \ {t} /\ Readers' = Readers \cup {t}
    BY <1>1, <2>1, Moves
  <2>4. \A u \in Threads : u # t => creating'[u] = creating[u]
    BY <1>1, Typed
  <2> QED
    BY <2>2, <2>3, <2>4
<1>3. TypeOK'
  <2>1. /\ next_bo_handle + 1 \in 1..MaxHandles /\ next_bo_handle + 1 # 0
    BY <1>1, Typed
  <2>2. /\ creating' \in [Threads -> 0..MaxHandles]
        /\ count' \in [Threads -> 0..(Width - 1)]
        /\ creating'[t] # 0
    BY <1>1, <2>1, Typed
  <2>3. \A u \in Threads : at'[u] # "idle" => creating'[u] # 0
    BY <1>2, <2>2 DEF TypeOK
  <2> QED
    BY <1>1, <1>2, <2>2, <2>3, Zenon DEF TypeOK
<1>4. FailuresCostNoHandle' /\ CountInTable'
  BY <1>1, <1>2 DEF FailuresCostNoHandle, CountInTable, Ordered
<1>5. CountBound'
  <2>1. Readers \subseteq Threads /\ Readers \cup {t} \subseteq Threads
    BY DEF Readers
  <2>2. /\ Cardinality(Readers \cup {t}) = Cardinality(Readers) + 1
        /\ Cardinality(Readers) \in Nat
    BY <1>2, <2>1, ThreadJoins
  <2>3. Cardinality(Readers \cup {t}) <= Cardinality(Threads) /\ Cardinality(Threads) \in Nat
    BY <2>1, ThreadsFinite
  <2> QED
    BY <1>1, <1>2, <2>2, <2>3, Typed DEF CountBound
<1>6. HandlesInv'
  <2>1. \A u \in Creators : creating'[u] = creating[u] /\ at'[u] = at[u]
    BY <1>2 DEF Creators
  <2> QED
    BY <1>1, <1>2, <2>1 DEF HandlesInv, CreatorsApart, FreeBeyond, Ordered
<1>7. ResourcesAreBlobs' /\ HeldHandlesResolve' /\ BlobsHaveHandles'
  BY <1>1 DEF ResourcesAreBlobs, HeldHandlesResolve, BlobsHaveHandles, Resolves, Ordered
<1> QED
  BY <1>3, <1>4, <1>5, <1>6, <1>7

\* A create reads the count: once more before it counts, or before it counts back.
LEMMA CountReadStep ==
  ASSUME IInv, NEW t \in Threads, BoAllocReads(t) \/ HandleBackReads(t)
  PROVE  IInv'
<1> USE DEF IInv
<1>1. /\ count' = [count EXCEPT ![t] = next_bo_handle]
      /\ \/ at[t] = "count" /\ at' = at
         \/ at[t] = "undo" /\ at' = [at EXCEPT ![t] = "back"]
      /\ UNCHANGED <<opened, bo, next_bo_handle, mmaps, next_offset, gpu, next_res, creating, held,
                     given, made, races, failed>>
  BY DEF BoAllocReads, HandleBackReads, boVars, mmapVars, gpuVars, appVars, historyVars
<1>2. /\ at' \in [Threads -> Places]
      /\ \A u \in Threads : at'[u] = at[u] \/ (at[u] = "undo" /\ at'[u] = "back")
  <2>1. "back" \in Places
    BY DEF Places
  <2> QED
    BY <1>1, <2>1, Typed
<1>3. Creators' = Creators /\ Readers' = Readers
  BY <1>2 DEF Creators, Readers
<1>4. TypeOK'
  <2>1. count' \in [Threads -> 0..(Width - 1)]
    BY <1>1, Typed
  <2>2. \A u \in Threads : at'[u] # "idle" => creating'[u] # 0
    BY <1>1, <1>2 DEF TypeOK
  <2> QED
    BY <1>1, <1>2, <2>1, <2>2, Zenon DEF TypeOK
<1>5. FailuresCostNoHandle' /\ CountBound' /\ CountInTable'
  BY <1>1, <1>3, CountsKept
<1>6. HandlesInv'
  <2>1. \A u \in Creators : at'[u] = "blob" => at[u] = "blob"
    BY <1>2 DEF Creators
  <2> QED
    BY <1>1, <1>3, <2>1 DEF HandlesInv, CreatorsApart, FreeBeyond, Ordered
<1>7. ResourcesAreBlobs' /\ HeldHandlesResolve' /\ BlobsHaveHandles'
  BY <1>1 DEF ResourcesAreBlobs, HeldHandlesResolve, BlobsHaveHandles, Resolves, Ordered
<1> QED
  BY <1>4, <1>5, <1>6, <1>7

\* A create writes the count: the handle is its own from here on.
LEMMA BoAllocCountsStep ==
  ASSUME IInv, NEW t \in Threads, BoAllocCounts(t)
  PROVE  IInv'
<1> USE DEF IInv
<1>1. /\ at[t] = "count"
      /\ next_bo_handle' = CountUp(count[t])
      /\ races' = races \cup Lost(t) \cup Crossed(t, next_bo_handle + 1)
      /\ at' = [at EXCEPT ![t] = "wipe"]
      /\ count' = [count EXCEPT ![t] = 0]
      /\ UNCHANGED <<opened, bo, mmaps, next_offset, gpu, next_res, creating, held, given, made,
                     failed>>
  BY DEF BoAllocCounts, mmapVars, gpuVars, appVars
<1>2. /\ races' \in SUBSET Races
      /\ "lost" \notin races' => "lost" \notin races /\ count[t] = next_bo_handle
      /\ Ordered' => /\ Ordered
                     /\ count[t] = next_bo_handle /\ creating[t] = next_bo_handle + 1
  BY <1>1, RacesGrow
<1>3. /\ at' \in [Threads -> Places] /\ at'[t] = "wipe"
      /\ \A u \in Threads : u # t => at'[u] = at[u]
      /\ t \notin Creators /\ t \in Readers
      /\ Creators' = Creators \cup {t} /\ Readers' = Readers \ {t}
  <2>1. "wipe" \in Places
    BY DEF Places
  <2>2. t \notin Creators /\ t \in Readers
    BY <1>1 DEF Creators, Readers
  <2>3. /\ at' \in [Threads -> Places] /\ at'[t] = "wipe"
        /\ \A u \in Threads : u # t => at'[u] = at[u]
        /\ Creators' = Creators \cup {t} /\ Readers' = Readers \ {t}
    BY <1>1, <2>1, Moves
  <2> QED
    BY <2>2, <2>3
<1>4. /\ next_bo_handle' \in 0..(Width - 1)
      /\ count[t] + 1 < Width => next_bo_handle' = count[t] + 1
  <2>1. count[t] \in 0..(Width - 1)
    BY Typed
  <2> QED
    BY <1>1, <2>1, Counting
<1>5. TypeOK'
  <2>1. 0 \in 0..(Width - 1)
    BY Typed
  <2>2. count' \in [Threads -> 0..(Width - 1)]
    BY <1>1, <2>1, Typed
  <2>3. \A u \in Threads : at'[u] # "idle" => creating'[u] # 0
    BY <1>1, <1>3 DEF TypeOK
  <2> QED
    BY <1>1, <1>2, <1>3, <1>4, <2>2, <2>3, Zenon DEF TypeOK
<1>6. ASSUME "lost" \notin races'
      PROVE  /\ next_bo_handle' = next_bo_handle + 1
             /\ next_bo_handle' = made' + Cardinality(Creators')
             /\ next_bo_handle' + Cardinality(Readers')
                  <= MaxHandles + Cardinality(Threads) - 1
  <2>1. /\ next_bo_handle = made + Cardinality(Creators)
        /\ next_bo_handle + Cardinality(Readers) <= MaxHandles + Cardinality(Threads) - 1
    BY <1>2, <1>6 DEF FailuresCostNoHandle, CountBound
  <2>2. Creators \subseteq Threads /\ Readers \subseteq Threads
    BY DEF Creators, Readers
  <2>3. Cardinality(Creators') = Cardinality(Creators) + 1 /\ Cardinality(Creators) \in Nat
    BY <1>3, <2>2, ThreadJoins
  <2>4. /\ Cardinality(Readers') = Cardinality(Readers) - 1
        /\ Cardinality(Readers) >= 1 /\ Cardinality(Readers) \in Nat
    BY <1>3, <2>2, ThreadLeaves
  <2>5. Cardinality(Threads) \in Nat /\ MaxHandles + Cardinality(Threads) <= Width
    BY <2>2, ThreadsFinite, DrmVirtgpuAssumption
  <2>6. next_bo_handle + 1 < Width
    BY <2>1, <2>4, <2>5, Typed
  <2>7. next_bo_handle' = next_bo_handle + 1
    BY <1>2, <1>4, <1>6, <2>6
  <2> QED
    BY <1>1, <2>1, <2>3, <2>4, <2>5, <2>7, Typed
<1>7. FailuresCostNoHandle' /\ CountBound'
  BY <1>6 DEF FailuresCostNoHandle, CountBound
<1>8. ResourcesAreBlobs'
  BY <1>1 DEF ResourcesAreBlobs
<1>9. CountInTable' /\ HandlesInv' /\ HeldHandlesResolve' /\ BlobsHaveHandles'
  <2> SUFFICES ASSUME Ordered'
               PROVE  /\ next_bo_handle' <= MaxHandles
                      /\ CreatorsApart' /\ FreeBeyond'
                      /\ HeldHandlesResolve' /\ BlobsHaveHandles'
    BY DEF CountInTable, HandlesInv, HeldHandlesResolve, BlobsHaveHandles
  <2>1. /\ Ordered /\ CreatorsApart /\ FreeBeyond
        /\ creating[t] = next_bo_handle + 1
    BY <1>2 DEF HandlesInv
  <2>2. "lost" \notin races'
    BY DEF Ordered
  <2>3. next_bo_handle' = next_bo_handle + 1 /\ creating[t] \in Handles
    BY <1>1, <1>6, <2>2, Typed
  <2>4. next_bo_handle' <= MaxHandles
    BY <2>1, <2>3 DEF Handles
  <2>5. bo[creating[t]].res = 0 /\ held[creating[t]] = 0
    <3>1. creating[t] > next_bo_handle
      BY <2>1, Typed
    <3>2. ~Resolves(creating[t])
      BY <2>3, <3>1, Typed DEF Resolves, Handles
    <3> QED
      BY <2>1, <2>3, <3>1, <3>2 DEF FreeBeyond, HeldHandlesResolve
  <2>6. CreatorsApart'
    <3>1. \A u \in Creators : u \in Threads /\ creating[u] <= next_bo_handle /\ u # t
                               /\ at'[u] = at[u]
      BY <1>3, <2>1 DEF CreatorsApart, Creators
    <3>2. \A u \in Creators : creating[u] <= next_bo_handle' /\ creating[u] # creating[t]
      BY <2>1, <2>3, <3>1, Typed
    <3>3. \A u \in Creators' : /\ creating'[u] <= next_bo_handle'
                                /\ held'[creating'[u]] = 0 /\ bo'[creating'[u]].res = 0
      BY <1>1, <1>3, <2>1, <2>3, <2>5, <3>2, Typed DEF CreatorsApart
    <3>4. \A u \in Creators' : at'[u] = "blob" => bo'[creating'[u]].bo_handle = creating'[u]
      BY <1>1, <1>3, <2>1, <3>1 DEF CreatorsApart
    <3>5. \A u, v \in Creators' : u # v => creating'[u] # creating'[v]
      BY <1>1, <1>3, <2>1, <3>2 DEF CreatorsApart
    <3> QED
      BY <3>3, <3>4, <3>5 DEF CreatorsApart
  <2>7. FreeBeyond'
    BY <1>1, <2>1, <2>3, Typed DEF FreeBeyond, Handles
  <2>8. \A x \in Handles : Resolves(x) => Resolves(x)'
    BY <1>1, <2>3, Typed DEF Resolves, Handles
  <2>9. HeldHandlesResolve'
    BY <1>1, <2>1, <2>8 DEF HeldHandlesResolve
  <2>10. BlobsHaveHandles'
    BY <1>1, <2>1, <2>8 DEF BlobsHaveHandles
  <2> QED
    BY <2>4, <2>6, <2>7, <2>9, <2>10
<1> QED
  BY <1>5, <1>7, <1>8, <1>9

\* A create clears the object of its handle.
LEMMA BoAllocWipesStep ==
  ASSUME IInv, NEW t \in Threads, BoAllocWipes(t)
  PROVE  IInv'
<1> DEFINE h == creating[t]
<1> USE DEF IInv
<1>1. /\ at[t] = "wipe"
      /\ bo' = [bo EXCEPT ![h] = NewBo(h)]
      /\ at' = [at EXCEPT ![t] = "blob"]
      /\ UNCHANGED <<opened, next_bo_handle, mmaps, next_offset, gpu, next_res, creating, count,
                     held, given, made, races, failed>>
  BY DEF BoAllocWipes, mmapVars, gpuVars, appVars, historyVars
<1>2. h \in Handles /\ t \in Creators
  BY <1>1, Typed DEF Creators
<1>3. NewBo(h) \in BoSet /\ NewBo(h).res = 0 /\ NewBo(h).bo_handle = h
  BY <1>2, Typed DEF NewBo, BoSet, Handles
<1>4. /\ at' \in [Threads -> Places]
      /\ \A u \in Threads : u # t => at'[u] = at[u]
      /\ Creators' = Creators /\ Readers' = Readers
  <2>1. "blob" \in Places
    BY DEF Places
  <2>2. t \notin Readers
    BY <1>1 DEF Readers
  <2>3. /\ at' \in [Threads -> Places] /\ at'[t] = "blob"
        /\ \A u \in Threads : u # t => at'[u] = at[u]
        /\ Creators' = Creators \cup {t} /\ Readers' = Readers \ {t}
    BY <1>1, <2>1, Moves
  <2> QED
    BY <1>2, <2>2, <2>3
<1>5. /\ \A x \in Handles : x # h => bo'[x] = bo[x]
      /\ bo'[h].res = 0 /\ bo'[h].bo_handle = h
  BY <1>1, <1>2, <1>3, Typed
<1>6. TypeOK'
  <2>1. bo' \in [Handles -> BoSet]
    BY <1>1, <1>2, <1>3, Typed
  <2>2. \A u \in Threads : at'[u] # "idle" => creating'[u] # 0
    BY <1>1, <1>4 DEF TypeOK
  <2> QED
    BY <1>1, <1>4, <2>1, <2>2, Zenon DEF TypeOK, BoSet
<1>7. FailuresCostNoHandle' /\ CountBound' /\ CountInTable'
  BY <1>1, <1>4, CountsKept
<1>8. ResourcesAreBlobs'
  BY <1>5 DEF ResourcesAreBlobs
<1>9. HandlesInv' /\ HeldHandlesResolve' /\ BlobsHaveHandles'
  <2> SUFFICES ASSUME Ordered
               PROVE  CreatorsApart' /\ FreeBeyond' /\ HeldHandlesResolve' /\ BlobsHaveHandles'
    BY <1>1 DEF HandlesInv, HeldHandlesResolve, BlobsHaveHandles, Ordered
  <2>1. /\ CreatorsApart /\ FreeBeyond
        /\ held[h] = 0 /\ bo[h].res = 0
    BY <1>2 DEF HandlesInv, CreatorsApart
  <2>2. \A u \in Creators : u \in Threads /\ creating[u] \in Handles
                             /\ (u # t => creating[u] # h)
    BY <1>2, <2>1, Typed DEF CreatorsApart, Creators
  <2>3. \A u \in Creators : bo'[creating[u]].res = 0
    BY <1>5, <2>1, <2>2 DEF CreatorsApart
  <2>4. \A u \in Creators : at'[u] = "blob" => bo'[creating[u]].bo_handle = creating[u]
    BY <1>4, <1>5, <2>1, <2>2 DEF CreatorsApart
  <2>5. CreatorsApart'
    BY <1>1, <1>4, <2>1, <2>3, <2>4 DEF CreatorsApart
  <2>6. FreeBeyond'
    BY <1>1, <1>5, <2>1 DEF FreeBeyond
  <2>7. HeldHandlesResolve'
    BY <1>1, <1>5, <2>1 DEF HeldHandlesResolve, Resolves
  <2>8. \A x \in Handles : bo[x].res # 0 => x # h
    BY <2>1
  <2>9. BlobsHaveHandles'
    <3> SUFFICES ASSUME NEW r \in ResIds, gpu[r] # "none", r \notin failed
                 PROVE  \E x \in Handles : Resolves(x)' /\ bo'[x].res = r
      BY <1>1 DEF BlobsHaveHandles, ResIds
    <3>1. PICK x \in Handles : Resolves(x) /\ bo[x].res = r
      BY DEF BlobsHaveHandles
    <3>2. r # 0
      BY Typed DEF ResIds
    <3> QED
      BY <1>1, <1>5, <2>8, <3>1, <3>2 DEF Resolves
  <2> QED
    BY <2>5, <2>6, <2>7, <2>9
<1> QED
  BY <1>6, <1>7, <1>8, <1>9

\* A create comes to its end with a blob.
LEMMA CreateBlobStep ==
  ASSUME IInv, NEW t \in Threads, CreateBlob(t)
  PROVE  IInv'
<1> DEFINE h == creating[t]
<1> USE DEF IInv
<1>12. h \in Handles
  BY Typed DEF CreateBlob
<1>1. PICK size \in Sizes :
      /\ at[t] = "blob" /\ h \in Handles
      /\ Layer!Take
      /\ bo[h].res = 0
      /\ bo' = [bo EXCEPT ![h] = AsBlob(bo[h], size, next_res)]
      /\ held' = [held EXCEPT ![h] = next_res]
      /\ given' = [given EXCEPT ![h] = 0]
      /\ made' = made + 1
      /\ at' = [at EXCEPT ![t] = "idle"]
      /\ creating' = [creating EXCEPT ![t] = 0]
      /\ UNCHANGED <<opened, next_bo_handle, mmaps, next_offset, count, races, failed>>
  BY <1>12 DEF CreateBlob, mmapVars
<1>2. /\ next_res \in ResIds /\ next_res \in 0..MaxRes /\ next_res' \in 1..(MaxRes + 1)
      /\ gpu' \in [ResIds -> Layer!States]
      /\ \A r \in ResIds : r # next_res => gpu'[r] = gpu[r]
  BY <1>1, TakeTypes, Typed DEF ResIds
<1>3. AsBlob(bo[h], size, next_res) \in BoSet
  BY <1>1, <1>2, Typed DEF AsBlob, BoSet
<1>4. AsBlob(bo[h], size, next_res).res = next_res /\ AsBlob(bo[h], size, next_res).is_blob
      /\ AsBlob(bo[h], size, next_res).bo_handle = bo[h].bo_handle
  BY DEF AsBlob
<1>5. \A x \in Handles : x # h => bo'[x] = bo[x] /\ held'[x] = held[x]
  BY <1>1, Typed
<1>6. bo'[h].res = next_res /\ bo'[h].is_blob /\ bo'[h].bo_handle = bo[h].bo_handle
      /\ held'[h] = next_res
  BY <1>1, <1>4, Typed
<1>11. /\ at' \in [Threads -> Places] /\ at'[t] = "idle"
       /\ \A u \in Threads : u # t => at'[u] = at[u] /\ creating'[u] = creating[u]
       /\ t \in Creators
       /\ Creators' = Creators \ {t} /\ Readers' = Readers
  <2>1. "idle" \in Places
    BY DEF Places
  <2>2. t \in Creators /\ t \notin Readers
    BY <1>1 DEF Creators, Readers
  <2>3. /\ at' \in [Threads -> Places] /\ at'[t] = "idle"
        /\ \A u \in Threads : u # t => at'[u] = at[u]
        /\ Creators' = Creators \ {t} /\ Readers' = Readers \ {t}
    BY <1>1, <2>1, Moves
  <2>4. \A u \in Threads : u # t => creating'[u] = creating[u]
    BY <1>1, Typed
  <2> QED
    BY <2>2, <2>3, <2>4
<1>7. TypeOK'
  <2>1. bo' \in [Handles -> BoSet]
    BY <1>1, <1>3, Typed
  <2>2. creating' \in [Threads -> 0..MaxHandles] /\ held' \in [Handles -> 0..MaxRes]
        /\ given' \in [Handles -> Nat] /\ made' \in Nat
    BY <1>1, <1>2, Typed
  <2>3. \A u \in Threads : at'[u] # "idle" => creating'[u] # 0
    BY <1>11 DEF TypeOK
  <2> QED
    BY <1>1, <1>2, <1>11, <2>1, <2>2, <2>3, Zenon DEF TypeOK, BoSet
<1>8. FailuresCostNoHandle' /\ CountBound' /\ CountInTable'
  <2>1. Creators \subseteq Threads
    BY DEF Creators
  <2>2. /\ Cardinality(Creators') = Cardinality(Creators) - 1
        /\ Cardinality(Creators) >= 1 /\ Cardinality(Creators) \in Nat
    BY <1>11, <2>1, ThreadLeaves
  <2>3. FailuresCostNoHandle'
    BY <1>1, <2>2, Typed DEF FailuresCostNoHandle
  <2> QED
    BY <1>1, <1>11, <2>3 DEF CountBound, CountInTable, Ordered
<1>9. ResourcesAreBlobs'
  BY <1>5, <1>6 DEF ResourcesAreBlobs
<1>10. HandlesInv' /\ HeldHandlesResolve' /\ BlobsHaveHandles'
  <2> SUFFICES ASSUME Ordered
               PROVE  CreatorsApart' /\ FreeBeyond' /\ HeldHandlesResolve' /\ BlobsHaveHandles'
    BY <1>1 DEF HandlesInv, HeldHandlesResolve, BlobsHaveHandles, Ordered
  <2>1. /\ CreatorsApart /\ FreeBeyond
        /\ h <= next_bo_handle /\ bo[h].bo_handle = h
    BY <1>1, <1>11 DEF HandlesInv, CreatorsApart
  <2>2. \A u \in Creators' : /\ u \in Creators /\ u # t /\ u \in Threads
                              /\ creating'[u] = creating[u] /\ at'[u] = at[u]
                              /\ creating[u] # h /\ creating[u] \in Handles
    BY <1>11, <2>1, Typed DEF CreatorsApart, Creators
  <2>3. CreatorsApart'
    BY <1>1, <1>5, <2>1, <2>2 DEF CreatorsApart
  <2>4. FreeBeyond'
    BY <1>1, <1>5, <2>1, Typed DEF FreeBeyond, Handles
  <2>5. HeldHandlesResolve'
    BY <1>1, <1>5, <1>6, <2>1 DEF HeldHandlesResolve, Resolves
  <2>6. BlobsHaveHandles'
    BY <1>1, <1>2, <1>5, <1>6, <2>1 DEF BlobsHaveHandles, Resolves, ResIds
  <2> QED
    BY <2>3, <2>4, <2>5, <2>6
<1> QED
  BY <1>7, <1>8, <1>9, <1>10

\* A create comes to its end without one, and forgets the object.
LEMMA CreateFailsStep ==
  ASSUME IInv, NEW t \in Threads, CreateFails(t)
  PROVE  IInv'
<1> DEFINE h == creating[t]
<1> USE DEF IInv
<1>1. /\ at[t] = "blob" /\ h \in Handles
      /\ UNCHANGED gpuVars \/ (Layer!Take /\ gpu' = gpu)
      /\ bo' = [bo EXCEPT ![h] = Forgotten(bo[h])]
      /\ at' = [at EXCEPT ![t] = "undo"]
      /\ UNCHANGED <<opened, next_bo_handle, mmaps, next_offset, creating, count, held, given,
                     made, races, failed>>
  BY Typed DEF CreateFails, mmapVars, appVars, historyVars
<1>2. gpu' = gpu /\ next_res' \in 1..(MaxRes + 1)
  BY <1>1, TakeTypes, Typed DEF gpuVars
<1>3. Forgotten(bo[h]) \in BoSet
  BY <1>1, Typed DEF Forgotten, BoSet
<1>4. Forgotten(bo[h]).res = bo[h].res /\ Forgotten(bo[h]).is_blob = bo[h].is_blob
  BY DEF Forgotten
<1>5. \A x \in Handles : x # h => bo'[x] = bo[x]
  BY <1>1, Typed
<1>6. /\ bo'[h].res = bo[h].res /\ bo'[h].is_blob = bo[h].is_blob
      /\ \A x \in Handles : bo'[x].res = bo[x].res /\ bo'[x].is_blob = bo[x].is_blob
  BY <1>1, <1>4, <1>5, Typed
<1>7. /\ at' \in [Threads -> Places] /\ at'[t] = "undo"
      /\ \A u \in Threads : u # t => at'[u] = at[u]
      /\ t \in Creators
      /\ Creators' = Creators /\ Readers' = Readers
  <2>1. "undo" \in Places
    BY DEF Places
  <2>2. t \in Creators /\ t \notin Readers
    BY <1>1 DEF Creators, Readers
  <2>3. /\ at' \in [Threads -> Places] /\ at'[t] = "undo"
        /\ \A u \in Threads : u # t => at'[u] = at[u]
        /\ Creators' = Creators \cup {t} /\ Readers' = Readers \ {t}
    BY <1>1, <2>1, Moves
  <2> QED
    BY <2>2, <2>3
<1>8. TypeOK'
  <2>1. bo' \in [Handles -> BoSet]
    BY <1>1, <1>3, Typed
  <2>2. \A u \in Threads : at'[u] # "idle" => creating'[u] # 0
    BY <1>1, <1>7 DEF TypeOK
  <2> QED
    BY <1>1, <1>2, <1>7, <2>1, <2>2, Zenon DEF TypeOK, BoSet
<1>9. FailuresCostNoHandle' /\ CountBound' /\ CountInTable'
  BY <1>1, <1>7, CountsKept
<1>10. ResourcesAreBlobs'
  BY <1>6, Zenon DEF ResourcesAreBlobs
<1>11. HandlesInv' /\ HeldHandlesResolve' /\ BlobsHaveHandles'
  <2> SUFFICES ASSUME Ordered
               PROVE  CreatorsApart' /\ FreeBeyond' /\ HeldHandlesResolve' /\ BlobsHaveHandles'
    BY <1>1 DEF HandlesInv, HeldHandlesResolve, BlobsHaveHandles, Ordered
  <2>1. CreatorsApart /\ FreeBeyond /\ held[h] = 0 /\ bo[h].res = 0
    BY <1>7 DEF HandlesInv, CreatorsApart
  <2>2. \A u \in Creators : u \in Threads /\ creating[u] \in Handles
                             /\ (u # t => creating[u] # h)
    BY <1>7, <2>1, Typed DEF CreatorsApart, Creators
  <2>3. \A u \in Creators : at'[u] = "blob" => bo'[creating[u]].bo_handle = creating[u]
    BY <1>5, <1>7, <2>1, <2>2 DEF CreatorsApart
  <2>4. CreatorsApart'
    BY <1>1, <1>6, <1>7, <2>1, <2>2, <2>3 DEF CreatorsApart
  <2>5. FreeBeyond'
    BY <1>1, <1>6, <2>1 DEF FreeBeyond
  <2>6. \A x \in Handles : x # h /\ Resolves(x) => Resolves(x)'
    BY <1>1, <1>5 DEF Resolves
  <2>7. HeldHandlesResolve'
    BY <1>1, <1>5, <2>1, <2>6 DEF HeldHandlesResolve
  <2>8. BlobsHaveHandles'
    <3> SUFFICES ASSUME NEW r \in ResIds, gpu[r] # "none", r \notin failed
                 PROVE  \E x \in Handles : Resolves(x)' /\ bo'[x].res = r
      BY <1>1, <1>2 DEF BlobsHaveHandles, ResIds
    <3>1. PICK x \in Handles : Resolves(x) /\ bo[x].res = r
      BY DEF BlobsHaveHandles
    <3>2. r # 0
      BY DEF ResIds
    <3>3. x # h
      BY <2>1, <3>1, <3>2
    <3> QED
      BY <1>6, <2>6, <3>1, <3>3
  <2> QED
    BY <2>4, <2>5, <2>7, <2>8
<1> QED
  BY <1>8, <1>9, <1>10, <1>11

\* ... and gives its handle back.
LEMMA HandleBackStep ==
  ASSUME IInv, NEW t \in Threads, HandleBack(t)
  PROVE  IInv'
<1> DEFINE h == creating[t]
<1> USE DEF IInv
<1>1. /\ at[t] = "back" /\ h \in Handles
      /\ next_bo_handle' = CountDown(count[t])
      /\ races' = races \cup Lost(t) \cup Crossed(t, next_bo_handle)
      /\ at' = [at EXCEPT ![t] = "idle"]
      /\ creating' = [creating EXCEPT ![t] = 0]
      /\ count' = [count EXCEPT ![t] = 0]
      /\ UNCHANGED <<opened, bo, mmaps, next_offset, gpu, next_res, held, given, made, failed>>
  BY Typed DEF HandleBack, mmapVars, gpuVars, appVars
<1>2. /\ races' \in SUBSET Races
      /\ "lost" \notin races' => "lost" \notin races /\ count[t] = next_bo_handle
      /\ Ordered' => Ordered /\ count[t] = next_bo_handle /\ h = next_bo_handle
  BY <1>1, RacesGrow
<1>3. /\ at' \in [Threads -> Places] /\ at'[t] = "idle"
      /\ \A u \in Threads : u # t => at'[u] = at[u] /\ creating'[u] = creating[u]
      /\ t \in Creators
      /\ Creators' = Creators \ {t} /\ Readers' = Readers
  <2>1. "idle" \in Places
    BY DEF Places
  <2>2. t \in Creators /\ t \notin Readers
    BY <1>1 DEF Creators, Readers
  <2>3. /\ at' \in [Threads -> Places] /\ at'[t] = "idle"
        /\ \A u \in Threads : u # t => at'[u] = at[u]
        /\ Creators' = Creators \ {t} /\ Readers' = Readers \ {t}
    BY <1>1, <2>1, Moves
  <2>4. \A u \in Threads : u # t => creating'[u] = creating[u]
    BY <1>1, Typed
  <2> QED
    BY <2>2, <2>3, <2>4
<1>4. /\ next_bo_handle' \in 0..(Width - 1)
      /\ count[t] >= 1 => next_bo_handle' = count[t] - 1
  <2>1. count[t] \in 0..(Width - 1)
    BY Typed
  <2> QED
    BY <1>1, <2>1, Counting
<1>5. TypeOK'
  <2>1. 0 \in 0..(Width - 1) /\ 0 \in 0..MaxHandles
    BY Typed
  <2>2. count' \in [Threads -> 0..(Width - 1)] /\ creating' \in [Threads -> 0..MaxHandles]
    BY <1>1, <2>1, Typed
  <2>3. \A u \in Threads : at'[u] # "idle" => creating'[u] # 0
    BY <1>3 DEF TypeOK
  <2> QED
    BY <1>1, <1>2, <1>3, <1>4, <2>2, <2>3, Zenon DEF TypeOK
<1>6. ASSUME "lost" \notin races'
      PROVE  /\ next_bo_handle' = next_bo_handle - 1
             /\ next_bo_handle' = made' + Cardinality(Creators')
             /\ next_bo_handle' + Cardinality(Readers')
                  <= MaxHandles + Cardinality(Threads) - 1
  <2>1. /\ next_bo_handle = made + Cardinality(Creators)
        /\ next_bo_handle + Cardinality(Readers) <= MaxHandles + Cardinality(Threads) - 1
    BY <1>2, <1>6 DEF FailuresCostNoHandle, CountBound
  <2>2. Creators \subseteq Threads /\ Readers \subseteq Threads
    BY DEF Creators, Readers
  <2>3. /\ Cardinality(Creators') = Cardinality(Creators) - 1
        /\ Cardinality(Creators) >= 1 /\ Cardinality(Creators) \in Nat
    BY <1>3, <2>2, ThreadLeaves
  <2>4. Cardinality(Readers) \in Nat /\ Cardinality(Threads) \in Nat
    BY <2>2, ThreadsFinite
  <2>5. next_bo_handle >= 1
    BY <2>1, <2>3, Typed
  <2>6. next_bo_handle' = next_bo_handle - 1
    BY <1>2, <1>4, <1>6, <2>5
  <2> QED
    BY <1>1, <1>3, <2>1, <2>3, <2>4, <2>6, Typed
<1>7. FailuresCostNoHandle' /\ CountBound'
  BY <1>6 DEF FailuresCostNoHandle, CountBound
<1>8. ResourcesAreBlobs'
  BY <1>1 DEF ResourcesAreBlobs
<1>9. CountInTable' /\ HandlesInv' /\ HeldHandlesResolve' /\ BlobsHaveHandles'
  <2> SUFFICES ASSUME Ordered'
               PROVE  /\ next_bo_handle' <= MaxHandles
                      /\ CreatorsApart' /\ FreeBeyond'
                      /\ HeldHandlesResolve' /\ BlobsHaveHandles'
    BY DEF CountInTable, HandlesInv, HeldHandlesResolve, BlobsHaveHandles
  <2>1. /\ Ordered /\ CreatorsApart /\ FreeBeyond /\ h = next_bo_handle
        /\ held[h] = 0 /\ bo[h].res = 0
    BY <1>2, <1>3 DEF HandlesInv, CreatorsApart
  <2>2. next_bo_handle' = next_bo_handle - 1
    <3>1. "lost" \notin races'
      BY DEF Ordered
    <3> QED
      BY <1>6, <3>1
  <2>3. next_bo_handle' <= MaxHandles
    BY <2>1, <2>2, Typed DEF CountInTable
  <2>4. \A u \in Creators' : /\ u \in Creators /\ u # t /\ u \in Threads
                              /\ creating'[u] = creating[u] /\ at'[u] = at[u]
                              /\ creating[u] # h /\ creating[u] \in Handles
    BY <1>3, <2>1, Typed DEF CreatorsApart, Creators
  <2>5. \A u \in Creators' : creating'[u] <= next_bo_handle'
    <3>1. \A u \in Creators' : creating[u] <= next_bo_handle
      BY <2>1, <2>4 DEF CreatorsApart
    <3> QED
      BY <2>1, <2>2, <2>4, <3>1, Typed DEF Handles
  <2>6. CreatorsApart'
    BY <1>1, <2>1, <2>4, <2>5 DEF CreatorsApart
  <2>7. FreeBeyond'
    BY <1>1, <2>1, <2>2, Typed DEF FreeBeyond, Handles
  <2>8. \A x \in Handles : Resolves(x) /\ x # h => Resolves(x)'
    BY <1>1, <2>1, <2>2, Typed DEF Resolves, Handles
  <2>9. HeldHandlesResolve'
    BY <1>1, <2>1, <2>8 DEF HeldHandlesResolve
  <2>10. BlobsHaveHandles'
    <3> SUFFICES ASSUME NEW r \in ResIds, gpu[r] # "none", r \notin failed
                 PROVE  \E x \in Handles : Resolves(x)' /\ bo[x].res = r
      BY <1>1 DEF BlobsHaveHandles, ResIds
    <3>1. PICK x \in Handles : Resolves(x) /\ bo[x].res = r
      BY <2>1 DEF BlobsHaveHandles
    <3>2. r # 0
      BY DEF ResIds
    <3>3. x # h
      BY <2>1, <3>1, <3>2
    <3> QED
      BY <2>8, <3>1, <3>3
  <2> QED
    BY <2>3, <2>6, <2>7, <2>9, <2>10
<1> QED
  BY <1>5, <1>7, <1>8, <1>9

\* A step that leaves the handles and what they lead to as they are, and makes no
\* resource but an object's.
LEMMA ObjectsKept ==
  ASSUME IInv, TypeOK',
         UNCHANGED <<next_bo_handle, at, creating, held, made, races, failed>>,
         \A x \in Handles : /\ bo'[x].bo_handle = bo[x].bo_handle
                            /\ bo'[x].res = bo[x].res /\ bo'[x].is_blob = bo[x].is_blob,
         \A r \in ResIds : gpu'[r] # "none" =>
           gpu[r] # "none" \/ \E x \in Handles : Resolves(x) /\ bo[x].res = r
  PROVE  IInv'
<1>7. Creators' = Creators /\ Readers' = Readers
  BY DEF Creators, Readers
<1>1. FailuresCostNoHandle' /\ CountBound' /\ CountInTable'
  BY <1>7, CountsKept
<1>2. ResourcesAreBlobs'
  BY Zenon DEF IInv, ResourcesAreBlobs
<1>3. HandlesInv'
  <2>1. \A u \in Creators : creating[u] \in Handles
    BY Typed DEF IInv, Creators
  <2> QED
    BY <1>7, <2>1 DEF IInv, HandlesInv, CreatorsApart, FreeBeyond, Ordered
<1>4. \A x \in Handles : Resolves(x)' <=> Resolves(x)
  BY DEF Resolves
<1>5. HeldHandlesResolve'
  BY <1>4 DEF IInv, HeldHandlesResolve, Ordered
<1>6. BlobsHaveHandles'
  BY <1>4 DEF IInv, BlobsHaveHandles, Ordered
<1> QED
  BY <1>1, <1>2, <1>3, <1>5, <1>6 DEF IInv

\* What a map call that is not refused does to the object and to its resource.
LEMMA Mapped ==
  ASSUME IInv, NEW h \in Handles, Resolves(h), NEW s \in Layer!States, NEW half \in BOOLEAN,
         NEW m \in 0..MaxRes,
         gpu' = [gpu EXCEPT ![bo[h].res] = s], bo' = [bo EXCEPT ![h] = AfterMap(bo[h], half, m)]
  PROVE  /\ gpu' \in [ResIds -> Layer!States]
         /\ bo' \in [Handles -> BoSet]
         /\ bo'[h].mapped = m
         /\ \A x \in Handles : /\ bo'[x].bo_handle = bo[x].bo_handle
                               /\ bo'[x].res = bo[x].res /\ bo'[x].is_blob = bo[x].is_blob
         /\ \A r \in ResIds : gpu'[r] # "none" =>
              gpu[r] # "none" \/ \E x \in Handles : Resolves(x) /\ bo[x].res = r
<1> USE DEF IInv
<1>1. AfterMap(bo[h], half, m) \in BoSet
  BY Typed DEF AfterMap, BoSet
<1>2. /\ AfterMap(bo[h], half, m).bo_handle = bo[h].bo_handle
      /\ AfterMap(bo[h], half, m).res = bo[h].res
      /\ AfterMap(bo[h], half, m).is_blob = bo[h].is_blob
      /\ AfterMap(bo[h], half, m).mapped = m
  BY DEF AfterMap
<1>3. gpu' \in [ResIds -> Layer!States] /\ bo' \in [Handles -> BoSet]
  BY <1>1, Typed
<1>4. \A x \in Handles : bo'[x] = IF x = h THEN AfterMap(bo[h], half, m) ELSE bo[x]
  BY Typed
<1>5. \A r \in ResIds : r # bo[h].res => gpu'[r] = gpu[r]
  BY Typed
<1> QED
  BY <1>2, <1>3, <1>4, <1>5

LEMMA MapAgainStep ==
  ASSUME IInv, NEW t \in Threads, NEW h \in Handles, MapAgain(t, h)
  PROVE  IInv'
<1> USE DEF IInv
<1>1. PICK i \in Slots :
      /\ given' = [given EXCEPT ![h] = mmaps[i].offset]
      /\ UNCHANGED <<opened, bo, next_bo_handle, mmaps, next_offset, gpu, next_res, at, creating,
                     count, held, made, races, failed>>
  BY DEF MapAgain, FirstOf, EntriesOf, boVars, mmapVars, gpuVars, threadVars, historyVars
<1>2. given' \in [Handles -> Nat]
  BY <1>1, Typed DEF EntrySet
<1>3. TypeOK'
  BY <1>1, <1>2, Zenon DEF TypeOK
<1> QED
  BY <1>1, <1>3, ObjectsKept

LEMMA MapFailsStep ==
  ASSUME IInv, NEW t \in Threads, NEW h \in Handles, MapFails(t, h)
  PROVE  IInv'
<1> USE DEF IInv
<1>1. PICK s \in Layer!MapResults(gpu[bo[h].res]) \ {"mapped"} :
      /\ Resolves(h)
      /\ gpu' = [gpu EXCEPT ![bo[h].res] = s]
      /\ bo' = [bo EXCEPT ![h] = AfterMap(bo[h], s = "half", 0)]
      /\ UNCHANGED <<opened, next_bo_handle, mmaps, next_offset, next_res, at, creating, count,
                     held, given, made, races, failed>>
  BY DEF MapFails, mmapVars, threadVars, appVars, historyVars
<1>2. bo[h] \in BoSet /\ bo[h].res \in 0..MaxRes /\ 0 \in 0..MaxRes
  BY Typed DEF BoSet
<1>3. (s = "half") \in BOOLEAN
  OBVIOUS
<1>4. PICK u \in Layer!States : gpu' = [gpu EXCEPT ![bo[h].res] = u]
  <2>1. CASE bo[h].res \in ResIds
    <3>1. s \in Layer!States
      BY <2>1, <1>1, Typed, ResultTypes
    <3> QED
      BY <1>1, <3>1
  <2>2. CASE bo[h].res \notin ResIds
    <3>1. gpu' = gpu /\ [gpu EXCEPT ![bo[h].res] = "none"] = gpu
      BY <2>2, <1>1, Typed
    <3>2. "none" \in Layer!States
      BY DEF Layer!States
    <3> QED
      BY <3>1, <3>2
  <2> QED
    BY <2>1, <2>2
<1>5. /\ gpu' \in [ResIds -> Layer!States]
      /\ bo' \in [Handles -> BoSet]
      /\ \A x \in Handles : /\ bo'[x].bo_handle = bo[x].bo_handle
                            /\ bo'[x].res = bo[x].res /\ bo'[x].is_blob = bo[x].is_blob
      /\ \A r \in ResIds : gpu'[r] # "none" =>
           gpu[r] # "none" \/ \E x \in Handles : Resolves(x) /\ bo[x].res = r
  BY <1>1, <1>2, <1>3, <1>4, Mapped
<1>6. TypeOK'
  BY <1>1, <1>5, Zenon DEF TypeOK, BoSet
<1> QED
  BY <1>1, <1>5, <1>6, ObjectsKept

LEMMA MapEntersStep ==
  ASSUME IInv, NEW t \in Threads, NEW h \in Handles, MapEnters(t, h)
  PROVE  IInv'
<1> USE DEF IInv
<1>1. /\ Resolves(h)
      /\ \/ bo[h].mapped # 0 /\ UNCHANGED <<bo, gpu>>
         \/ /\ gpu' = [gpu EXCEPT ![bo[h].res] = "mapped"]
            /\ bo' = [bo EXCEPT ![h] = AfterMap(bo[h], TRUE, bo[h].res)]
      /\ UNCHANGED <<opened, next_bo_handle, next_res, at, creating, count, held, made, races,
                     failed>>
  BY DEF MapEnters, threadVars, historyVars
<1>2. bo[h].res \in 0..MaxRes /\ "mapped" \in Layer!States /\ TRUE \in BOOLEAN
  BY Typed DEF BoSet, Layer!States
<1>3. /\ gpu' \in [ResIds -> Layer!States]
      /\ bo' \in [Handles -> BoSet]
      /\ \A x \in Handles : /\ bo'[x].bo_handle = bo[x].bo_handle
                            /\ bo'[x].res = bo[x].res /\ bo'[x].is_blob = bo[x].is_blob
      /\ \A r \in ResIds : gpu'[r] # "none" =>
           gpu[r] # "none" \/ \E x \in Handles : Resolves(x) /\ bo[x].res = r
  <2>1. CASE UNCHANGED <<bo, gpu>>
    BY <2>1, Typed
  <2>2. CASE /\ gpu' = [gpu EXCEPT ![bo[h].res] = "mapped"]
             /\ bo' = [bo EXCEPT ![h] = AfterMap(bo[h], TRUE, bo[h].res)]
    BY <1>1, <1>2, <2>2, Mapped
  <2> QED
    BY <1>1, <2>1, <2>2
<1>4. /\ mmaps' \in [Slots -> EntrySet] /\ next_offset' \in Nat
      /\ given' \in [Handles -> Nat]
  <2>1. CASE UNCHANGED <<mmapVars, given>>
    BY <2>1, Typed DEF mmapVars
  <2>2. ASSUME NEW i \in Slots,
               mmaps' = [mmaps EXCEPT ![i] =
                           [bo_handle |-> h, offset |-> next_offset, size |-> EntrySize(h),
                            ptr |-> bo'[h].mapped]],
               next_offset' = Moved(next_offset, EntrySize(h)),
               given' = [given EXCEPT ![h] = next_offset]
        PROVE  /\ mmaps' \in [Slots -> EntrySet] /\ next_offset' \in Nat
               /\ given' \in [Handles -> Nat]
    <3>1. EntrySize(h) \in Nat /\ next_offset' \in Nat
      BY <2>2, EntrySizeType, MovedType, Typed
    <3>2. bo'[h].mapped \in 0..MaxRes /\ h \in 0..MaxHandles
      <4>1. bo'[h] \in BoSet
        BY <1>3
      <4>2. bo'[h].mapped \in 0..MaxRes
        BY <4>1 DEF BoSet
      <4>3. h \in 0..MaxHandles
        BY Typed
      <4> QED
        BY <4>2, <4>3
    <3>3. [bo_handle |-> h, offset |-> next_offset, size |-> EntrySize(h),
           ptr |-> bo'[h].mapped] \in EntrySet
      BY <3>1, <3>2, Typed DEF EntrySet
    <3> QED
      BY <2>2, <3>1, <3>3, Typed
  <2>3. \/ UNCHANGED <<mmapVars, given>>
        \/ \E i \in Slots :
             /\ mmaps' = [mmaps EXCEPT ![i] =
                           [bo_handle |-> h, offset |-> next_offset, size |-> EntrySize(h),
                            ptr |-> bo'[h].mapped]]
             /\ next_offset' = Moved(next_offset, EntrySize(h))
             /\ given' = [given EXCEPT ![h] = next_offset]
    BY Zenon DEF MapEnters, FirstOf, FreeEntries
  <2> QED
    BY <2>1, <2>2, <2>3
<1>5. TypeOK'
  BY <1>1, <1>3, <1>4, Zenon DEF TypeOK, BoSet, EntrySet
<1> QED
  BY <1>1, <1>3, <1>5, ObjectsKept

LEMMA EntriesWithoutType ==
  ASSUME TypeOK, NEW h \in Handles
  PROVE  EntriesWithout(h) \in [Slots -> EntrySet]
<1>1. NoEntry \in EntrySet
  BY Typed DEF NoEntry, EntrySet
<1> QED
  BY <1>1, Typed DEF EntriesWithout

\* An object the application holds is closed.
LEMMA GemCloseStep ==
  ASSUME IInv, NEW t \in Threads, NEW h \in Handles, held[h] # 0, GemClose(t, h)
  PROVE  IInv'
<1> USE DEF IInv
<1>1. /\ Resolves(h) /\ ReleaseAll({h})
      /\ bo' = [bo EXCEPT ![h] = NoBo]
      /\ mmaps' = EntriesWithout(h)
      /\ held' = [held EXCEPT ![h] = 0]
      /\ given' = [given EXCEPT ![h] = 0]
      /\ UNCHANGED <<opened, next_bo_handle, next_offset, at, creating, count, made, races>>
  BY DEF GemClose, threadVars
<1>2. /\ gpu' \in [ResIds -> Layer!States]
      /\ next_res' = next_res
      /\ failed' \in SUBSET ResIds /\ failed \subseteq failed'
      /\ \A r \in ResIds : gpu'[r] = gpu[r] \/ gpu'[r] = "none" \/ r \in failed'
      /\ \A r \in ResIds : bo[h].is_blob /\ bo[h].res = r => gpu'[r] = "none" \/ r \in failed'
  BY <1>1, ReleaseTypes
<1>3. NoBo \in BoSet /\ NoBo.res = 0
  BY Typed DEF NoBo, NewBo, BoSet
<1>4. bo' \in [Handles -> BoSet] /\ held' \in [Handles -> 0..MaxRes] /\ given' \in [Handles -> Nat]
  BY <1>1, <1>3, Typed
<1>5. /\ \A x \in Handles : x # h => bo'[x] = bo[x] /\ held'[x] = held[x]
      /\ bo'[h].res = 0 /\ held'[h] = 0
  BY <1>1, <1>3, Typed
<1>6. TypeOK'
  <2>1. mmaps' \in [Slots -> EntrySet]
    BY <1>1, EntriesWithoutType
  <2> QED
    BY <1>1, <1>2, <1>4, <2>1, Zenon DEF TypeOK, BoSet, EntrySet
<1>13. Creators' = Creators /\ Readers' = Readers
  BY <1>1 DEF Creators, Readers
<1>7. FailuresCostNoHandle' /\ CountBound' /\ CountInTable'
  BY <1>1, <1>13, CountsKept
<1>8. ResourcesAreBlobs'
  BY <1>5 DEF ResourcesAreBlobs
<1>9. HandlesInv'
  <2> SUFFICES ASSUME Ordered
               PROVE  CreatorsApart' /\ FreeBeyond'
    BY <1>1 DEF HandlesInv, Ordered
  <2>1. CreatorsApart /\ FreeBeyond
    BY DEF HandlesInv
  <2>2. Resolves(h) /\ bo[h].res # 0
    BY <1>1, Typed DEF HeldHandlesResolve
  <2>3. \A u \in Creators : u \in Threads /\ creating[u] \in Handles /\ creating[u] # h
    BY <2>1, <2>2, Typed DEF CreatorsApart, Creators
  <2>4. CreatorsApart'
    BY <1>1, <1>5, <1>13, <2>1, <2>3 DEF CreatorsApart
  <2>5. FreeBeyond'
    BY <1>1, <1>5, <2>1 DEF FreeBeyond
  <2> QED
    BY <2>4, <2>5
<1>10. \A x \in Handles : x # h => (Resolves(x)' <=> Resolves(x))
  BY <1>1, <1>5 DEF Resolves
<1>11. HeldHandlesResolve'
  BY <1>1, <1>5, <1>10 DEF HeldHandlesResolve, Ordered
<1>12. BlobsHaveHandles'
  <2> SUFFICES ASSUME Ordered, NEW r \in ResIds, gpu'[r] # "none", r \notin failed'
               PROVE  \E x \in Handles : Resolves(x)' /\ bo'[x].res = r
    BY <1>1 DEF BlobsHaveHandles, ResIds, Ordered
  <2>1. gpu[r] # "none" /\ r \notin failed /\ r # 0
    BY <1>2, Typed DEF ResIds
  <2>2. PICK x \in Handles : Resolves(x) /\ bo[x].res = r
    BY <1>1, <2>1 DEF BlobsHaveHandles
  <2>3. x # h
    BY <1>2, <2>1, <2>2 DEF ResourcesAreBlobs
  <2> QED
    BY <1>5, <1>10, <2>2, <2>3
<1> QED
  BY <1>6, <1>7, <1>8, <1>9, <1>11, <1>12

\* The file is closed: every object goes.
LEMMA FileCloseStep ==
  ASSUME IInv, FileClose
  PROVE  IInv'
<1> USE DEF IInv
<1>1. /\ \A t \in Threads : at[t] = "idle"
      /\ next_bo_handle <= MaxHandles /\ ReleaseAll(Taken)
      /\ opened' = FALSE
      /\ bo' = [h \in Handles |-> NoBo]
      /\ next_bo_handle' = 0 /\ made' = 0
      /\ mmaps' = [i \in Slots |-> NoEntry]
      /\ next_offset' = Base
      /\ held' = [h \in Handles |-> 0]
      /\ given' = [h \in Handles |-> 0]
      /\ UNCHANGED <<at, creating, count, races>>
  BY DEF FileClose, threadVars
<1>2. Taken \subseteq Handles
  BY <1>1, Typed DEF Taken, Handles
<1>3. /\ gpu' \in [ResIds -> Layer!States]
      /\ next_res' = next_res
      /\ failed' \in SUBSET ResIds /\ failed \subseteq failed'
      /\ \A r \in ResIds : gpu'[r] = gpu[r] \/ gpu'[r] = "none" \/ r \in failed'
      /\ \A r \in ResIds, h \in Taken :
           bo[h].is_blob /\ bo[h].res = r => gpu'[r] = "none" \/ r \in failed'
  BY <1>1, <1>2, ReleaseTypes
<1>4. TypeOK'
  <2>1. NoBo \in BoSet /\ NoEntry \in EntrySet /\ Base \in Nat
    BY Typed, DrmVirtgpuAssumption DEF NoBo, NewBo, BoSet, NoEntry, EntrySet, Base
  <2>2. bo' \in [Handles -> BoSet] /\ mmaps' \in [Slots -> EntrySet] /\ opened' \in BOOLEAN
    BY <1>1, <2>1, Zenon
  <2>3. next_bo_handle' \in 0..(Width - 1) /\ made' \in Nat /\ next_offset' \in Nat
    BY <1>1, <2>1, Typed
  <2>4. held' \in [Handles -> 0..MaxRes] /\ given' \in [Handles -> Nat]
    BY <1>1, Typed
  <2> QED
    BY <1>1, <1>3, <2>2, <2>3, <2>4, Zenon DEF TypeOK, BoSet, EntrySet
<1>9. Creators' = {} /\ Readers' = {} /\ Cardinality({}) = 0
  BY <1>1, FS_EmptySet DEF Creators, Readers
<1>5. FailuresCostNoHandle' /\ CountBound' /\ CountInTable'
  <2>1. Cardinality(Threads) \in Nat
    BY ThreadsFinite
  <2>2. MaxHandles \in Nat /\ MaxHandles >= 1
    BY DrmVirtgpuAssumption
  <2> QED
    BY <1>1, <1>9, <2>1, <2>2 DEF FailuresCostNoHandle, CountBound, CountInTable
<1>6. ResourcesAreBlobs'
  BY <1>1 DEF ResourcesAreBlobs, NoBo, NewBo
<1>7. HandlesInv' /\ HeldHandlesResolve'
  <2>1. \A h \in Handles : bo'[h].res = 0 /\ held'[h] = 0
    BY <1>1 DEF NoBo, NewBo
  <2> QED
    BY <1>9, <2>1 DEF HandlesInv, CreatorsApart, FreeBeyond, HeldHandlesResolve
<1>8. BlobsHaveHandles'
  <2> SUFFICES ASSUME Ordered, NEW r \in ResIds, gpu'[r] # "none", r \notin failed'
               PROVE  FALSE
    BY <1>1 DEF BlobsHaveHandles, ResIds, Ordered
  <2>1. gpu[r] # "none" /\ r \notin failed /\ r # 0
    BY <1>3, Typed DEF ResIds
  <2>2. PICK x \in Handles : Resolves(x) /\ bo[x].res = r
    BY <1>1, <2>1 DEF BlobsHaveHandles
  <2>3. x \in Taken /\ bo[x].is_blob
    BY <2>1, <2>2, Typed DEF Taken, Resolves, ResourcesAreBlobs, Handles
  <2> QED
    BY <1>3, <2>1, <2>2, <2>3
<1> QED
  BY <1>4, <1>5, <1>6, <1>7, <1>8

-----------------------------------------------------------------------------
(* The theorems *)

LEMMA InitHolds == Init => IInv
<1> SUFFICES ASSUME Init PROVE IInv
  OBVIOUS
<1>1. /\ MaxHandles \in Nat /\ MaxHandles >= 1 /\ MaxRes \in Nat /\ Base \in Nat
      /\ Width \in Nat /\ Width > 0
  BY DrmVirtgpuAssumption DEF Base
<1>2. NoBo \in BoSet /\ NoEntry \in EntrySet /\ "none" \in Layer!States
  BY <1>1 DEF NoBo, NewBo, BoSet, NoEntry, EntrySet, Layer!States
<1>3. bo \in [Handles -> BoSet] /\ mmaps \in [Slots -> EntrySet]
  BY <1>2, Zenon DEF Init
<1>10. /\ next_bo_handle \in 0..(Width - 1) /\ made \in Nat /\ next_offset \in Nat
       /\ next_res \in 1..(MaxRes + 1)
  BY <1>1 DEF Init, Layer!Init
<1>13. opened \in BOOLEAN /\ races \in SUBSET Races /\ failed \in SUBSET ResIds
  BY Zenon DEF Init
<1>11. held \in [Handles -> 0..MaxRes] /\ given \in [Handles -> Nat]
       /\ creating \in [Threads -> 0..MaxHandles] /\ count \in [Threads -> 0..(Width - 1)]
  BY <1>1 DEF Init
<1>5. at \in [Threads -> Places] /\ \A t \in Threads : at[t] = "idle"
  BY DEF Init, Places
<1>12. gpu \in [ResIds -> Layer!States]
  BY <1>2 DEF Init, Layer!Init, ResIds, Layer!ResIds
<1>4. TypeOK
  BY <1>3, <1>5, <1>10, <1>11, <1>12, <1>13, Zenon DEF TypeOK, BoSet, EntrySet
<1>6. Creators = {} /\ Readers = {} /\ Cardinality({}) = 0
  BY <1>5, FS_EmptySet DEF Creators, Readers
<1>14. Cardinality(Threads) \in Nat
  BY ThreadsFinite
<1>7. FailuresCostNoHandle /\ CountBound /\ CountInTable
  BY <1>1, <1>6, <1>14 DEF FailuresCostNoHandle, CountBound, CountInTable, Init
<1>8. ResourcesAreBlobs
  BY DEF Init, ResourcesAreBlobs, NoBo, NewBo
<1>9. HandlesInv /\ HeldHandlesResolve /\ BlobsHaveHandles
  <2>1. \A h \in Handles : bo[h].res = 0 /\ held[h] = 0
    BY DEF Init, NoBo, NewBo
  <2>2. \A r \in ResIds : gpu[r] = "none"
    BY DEF Init, Layer!Init, ResIds, Layer!ResIds
  <2> QED
    BY <1>6, <2>1, <2>2 DEF HandlesInv, CreatorsApart, FreeBeyond, HeldHandlesResolve,
                            BlobsHaveHandles
<1> QED
  BY <1>4, <1>7, <1>8, <1>9 DEF IInv

LEMMA StepHolds == IInv /\ [Next]_vars => IInv'
<1> SUFFICES ASSUME IInv, [Next]_vars PROVE IInv'
  OBVIOUS
<1>1. ASSUME NEW t \in Threads, CreateStep(t) PROVE IInv'
  BY <1>1, BoAllocStep, CountReadStep, BoAllocCountsStep, BoAllocWipesStep, CreateBlobStep,
     CreateFailsStep, HandleBackStep DEF CreateStep
<1>2. ASSUME NEW t \in Threads, ObjectStep(t) PROVE IInv'
  BY <1>2, MapAgainStep, MapFailsStep, MapEntersStep, GemCloseStep DEF ObjectStep
<1>3. CASE FileOpen
  <2>1. /\ opened' = TRUE
        /\ UNCHANGED <<bo, next_bo_handle, mmaps, next_offset, gpu, next_res, at, creating,
                       count, held, given, made, races, failed>>
    BY <1>3 DEF FileOpen, boVars, mmapVars, gpuVars, threadVars, appVars, historyVars
  <2>2. TypeOK'
    BY <2>1, Zenon DEF IInv, TypeOK
  <2> QED
    BY <2>1, <2>2, ObjectsKept
<1>4. CASE FileClose
  BY <1>4, FileCloseStep
<1>5. CASE UNCHANGED vars
  <2>1. UNCHANGED <<opened, bo, next_bo_handle, mmaps, next_offset, gpu, next_res, at, creating,
                    count, held, given, made, races, failed>>
    BY <1>5 DEF vars, boVars, mmapVars, gpuVars, threadVars, appVars, historyVars
  <2>2. TypeOK'
    BY <2>1, Zenon DEF IInv, TypeOK
  <2> QED
    BY <2>1, <2>2, ObjectsKept
<1> QED
  BY <1>1, <1>2, <1>3, <1>4, <1>5 DEF Next

LEMMA Invariant == Spec => []IInv
<1> QED
  BY InitHolds, StepHolds, PTL DEF Spec

-----------------------------------------------------------------------------
(* What entries and objects lead to                                         *)

\* A blob's resource is an old one, and what it is mapped at is its own mapping.
ObjectLinks ==
  \A h \in Handles :
    /\ bo[h].res < next_res
    /\ bo[h].is_blob => bo[h].res # 0
    /\ bo[h].mapped # 0 => bo[h].mapped = bo[h].res /\ gpu[bo[h].res] = "mapped"

OwnResources == \A h, g \in Handles : bo[h].res # 0 /\ bo[h].res = bo[g].res => h = g

\* An entry leads to a mapping, and no object but that of its handle has it.
EntryLinks ==
  \A i \in Slots : mmaps[i].bo_handle # 0 =>
    /\ mmaps[i].ptr # 0 /\ mmaps[i].ptr < next_res
    /\ gpu[mmaps[i].ptr] = "mapped"
    /\ \A h \in Handles : bo[h].res = mmaps[i].ptr => h = mmaps[i].bo_handle

OneEntry ==
  \A i, j \in Slots :
    mmaps[i].bo_handle # 0 /\ mmaps[i].bo_handle = mmaps[j].bo_handle => i = j

LinksInv == ObjectLinks /\ OwnResources /\ EntryLinks /\ OneEntry

\* Types of resources and pointers.
LEMMA LinkTypes ==
  ASSUME TypeOK
  PROVE  /\ \A h \in Handles : bo[h].res \in 0..MaxRes /\ bo[h].mapped \in 0..MaxRes
         /\ \A i \in Slots : mmaps[i].ptr \in 0..MaxRes /\ mmaps[i].bo_handle \in 0..MaxHandles
         /\ \A r \in 0..MaxRes : r # 0 => r \in ResIds
         /\ next_res \in Nat /\ MaxRes \in Nat
<1>1. MaxRes \in Nat /\ next_res \in Nat
  BY Typed
<1>2. \A h \in Handles : bo[h].res \in 0..MaxRes /\ bo[h].mapped \in 0..MaxRes
  BY Typed DEF BoSet
<1>3. \A i \in Slots : mmaps[i].ptr \in 0..MaxRes /\ mmaps[i].bo_handle \in 0..MaxHandles
  <2>1. \A i \in Slots : mmaps[i] \in EntrySet
    BY Typed
  <2> QED
    BY <2>1 DEF EntrySet
<1>4. \A r \in 0..MaxRes : r # 0 => r \in ResIds
  BY <1>1 DEF ResIds
<1> QED
  BY <1>1, <1>2, <1>3, <1>4

\* A step that enters nothing and unmaps nothing.
LEMMA LinksKept ==
  ASSUME TypeOK, LinksInv, UNCHANGED mmaps, next_res' \in Nat, next_res' >= next_res,
         \A h \in Handles :
           \/ bo'[h].res = 0 /\ ~bo'[h].is_blob /\ bo'[h].mapped = 0
           \/ /\ bo'[h].res = bo[h].res /\ (bo'[h].is_blob => bo[h].is_blob)
              /\ bo'[h].mapped = 0 \/ bo'[h].mapped = bo[h].mapped,
         \A r \in ResIds : gpu[r] = "mapped" => gpu'[r] = "mapped"
  PROVE  LinksInv'
<1> USE DEF LinksInv
<1>1. ObjectLinks'
  <2> SUFFICES ASSUME NEW h \in Handles
               PROVE  /\ bo'[h].res < next_res'
                      /\ bo'[h].is_blob => bo'[h].res # 0
                      /\ bo'[h].mapped # 0 =>
                           bo'[h].mapped = bo'[h].res /\ gpu'[bo'[h].res] = "mapped"
    BY DEF ObjectLinks
  <2>1. bo[h].res < next_res /\ bo[h].res \in 0..MaxRes /\ next_res \in Nat
    BY LinkTypes DEF ObjectLinks
  <2>2. CASE bo'[h].res = 0 /\ ~bo'[h].is_blob /\ bo'[h].mapped = 0
    BY <2>1, <2>2
  <2>3. CASE /\ bo'[h].res = bo[h].res /\ (bo'[h].is_blob => bo[h].is_blob)
             /\ bo'[h].mapped = 0 \/ bo'[h].mapped = bo[h].mapped
    BY <2>1, <2>3, LinkTypes DEF ObjectLinks
  <2> QED
    BY <2>2, <2>3
<1>2. \A h \in Handles : bo'[h].res = bo[h].res \/ bo'[h].res = 0
  OBVIOUS
<1>3. OwnResources'
  BY <1>2 DEF OwnResources
<1>4. EntryLinks'
  BY <1>2, LinkTypes DEF EntryLinks
<1>5. OneEntry'
  BY DEF OneEntry
<1> QED
  BY <1>1, <1>3, <1>4, <1>5

\* A step that releases the objects of H, with their entries.
LEMMA LinksReleased ==
  ASSUME TypeOK, LinksInv, next_res' = next_res, NEW H, H \subseteq Handles,
         \A r \in ResIds : gpu'[r] = gpu[r] \/ \E h \in H : bo[h].res = r,
         \A h \in Handles :
           \/ bo'[h].res = 0 /\ ~bo'[h].is_blob /\ bo'[h].mapped = 0
           \/ h \notin H /\ bo'[h] = bo[h],
         \A i \in Slots :
           \/ mmaps'[i].bo_handle = 0
           \/ mmaps'[i] = mmaps[i] /\ mmaps[i].bo_handle \notin H
  PROVE  LinksInv'
<1> USE DEF LinksInv
<1>1. \A h \in Handles \ H : bo[h].res # 0 => gpu'[bo[h].res] = gpu[bo[h].res]
  BY LinkTypes DEF OwnResources
<1>2. ObjectLinks'
  BY <1>1, LinkTypes DEF ObjectLinks
<1>3. \A h \in Handles : bo'[h].res = bo[h].res \/ bo'[h].res = 0
  OBVIOUS
<1>4. OwnResources'
  BY <1>3 DEF OwnResources
<1>5. \A i \in Slots : mmaps[i].bo_handle # 0 /\ mmaps[i].bo_handle \notin H =>
                        gpu'[mmaps[i].ptr] = "mapped"
  BY LinkTypes DEF EntryLinks
<1>6. EntryLinks'
  BY <1>3, <1>5, LinkTypes DEF EntryLinks
<1>7. OneEntry'
  BY DEF OneEntry
<1> QED
  BY <1>2, <1>4, <1>6, <1>7

\* The blob a create makes is new to the tables.
LEMMA CreateBlobLinks ==
  ASSUME IInv, LinksInv, NEW t \in Threads, CreateBlob(t)
  PROVE  LinksInv'
<1> DEFINE h == creating[t]
<1> USE DEF IInv, LinksInv
<1>1. PICK size \in Sizes :
      /\ h \in Handles
      /\ Layer!Take
      /\ bo[h].res = 0
      /\ bo' = [bo EXCEPT ![h] = AsBlob(bo[h], size, next_res)]
      /\ UNCHANGED mmaps
  BY Typed DEF CreateBlob, mmapVars
<1>2. /\ next_res \in ResIds /\ next_res # 0 /\ next_res' = next_res + 1
      /\ \A r \in ResIds : r # next_res => gpu'[r] = gpu[r]
  BY <1>1, TakeTypes, Typed DEF Layer!Take, ResIds
<1>3. \A x \in Handles : x # h => bo'[x] = bo[x]
  BY <1>1, Typed
<1>4. bo[h].mapped = 0
  BY <1>1 DEF ObjectLinks
<1>5. bo'[h].res = next_res /\ bo'[h].mapped = 0
  BY <1>1, <1>4, Typed DEF AsBlob
<1>6. \A x \in Handles : bo[x].res < next_res /\ bo[x].res # next_res
  BY LinkTypes DEF ObjectLinks
<1>7. ObjectLinks'
  <2>1. bo'[h].res < next_res' /\ bo'[h].res # 0
    BY <1>2, <1>5, LinkTypes
  <2>2. \A x \in Handles \ {h} : bo'[x].res < next_res'
    BY <1>2, <1>3, <1>6, LinkTypes
  <2>3. \A x \in Handles : bo[x].res # 0 => gpu'[bo[x].res] = gpu[bo[x].res]
    BY <1>2, <1>6, LinkTypes
  <2> QED
    BY <1>3, <1>5, <2>1, <2>2, <2>3, LinkTypes DEF ObjectLinks
<1>8. OwnResources'
  BY <1>3, <1>5, <1>6 DEF OwnResources
<1>9. EntryLinks'
  <2> SUFFICES ASSUME NEW i \in Slots, mmaps[i].bo_handle # 0
               PROVE  /\ mmaps[i].ptr # 0 /\ mmaps[i].ptr < next_res'
                      /\ gpu'[mmaps[i].ptr] = "mapped"
                      /\ \A x \in Handles : bo'[x].res = mmaps[i].ptr => x = mmaps[i].bo_handle
    BY <1>1 DEF EntryLinks
  <2>1. mmaps[i].ptr # 0 /\ mmaps[i].ptr < next_res /\ gpu[mmaps[i].ptr] = "mapped"
        /\ mmaps[i].ptr \in ResIds
    BY LinkTypes DEF EntryLinks
  <2>2. mmaps[i].ptr # next_res /\ mmaps[i].ptr < next_res'
    BY <1>2, <2>1, LinkTypes
  <2> QED
    BY <1>2, <1>3, <1>5, <2>1, <2>2 DEF EntryLinks
<1>10. OneEntry'
  BY <1>1 DEF OneEntry
<1> QED
  BY <1>7, <1>8, <1>9, <1>10

\* MAP enters the mapping of the object itself, and the object has no entry yet.
LEMMA MapEntersLinks ==
  ASSUME IInv, LinksInv, NEW t \in Threads, NEW h \in Handles, MapEnters(t, h)
  PROVE  LinksInv'
<1> USE DEF IInv, LinksInv
<1>1. /\ EntriesOf(h) = {} /\ bo[h].is_blob
      /\ \/ bo[h].mapped # 0 /\ UNCHANGED <<bo, gpu>>
         \/ /\ gpu' = [gpu EXCEPT ![bo[h].res] = "mapped"]
            /\ bo' = [bo EXCEPT ![h] = AfterMap(bo[h], TRUE, bo[h].res)]
      /\ next_res' = next_res
  BY DEF MapEnters
<1>2. bo[h].res # 0 /\ bo[h].res \in ResIds /\ bo[h].res < next_res
  BY <1>1, LinkTypes DEF ObjectLinks
<1>3. /\ \A x \in Handles : bo'[x].res = bo[x].res /\ bo'[x].is_blob = bo[x].is_blob
      /\ \A x \in Handles : x # h => bo'[x].mapped = bo[x].mapped
      /\ bo'[h].mapped = bo[h].res
      /\ gpu'[bo[h].res] = "mapped"
      /\ \A r \in ResIds : gpu[r] = "mapped" => gpu'[r] = "mapped"
  <2>1. CASE bo[h].mapped # 0 /\ UNCHANGED <<bo, gpu>>
    BY <2>1 DEF ObjectLinks
  <2>2. CASE /\ gpu' = [gpu EXCEPT ![bo[h].res] = "mapped"]
             /\ bo' = [bo EXCEPT ![h] = AfterMap(bo[h], TRUE, bo[h].res)]
    <3>1. \A x \in Handles : bo'[x] = IF x = h THEN AfterMap(bo[h], TRUE, bo[h].res) ELSE bo[x]
      BY <2>2, Typed
    <3>2. \A r \in ResIds : gpu'[r] = IF r = bo[h].res THEN "mapped" ELSE gpu[r]
      BY <2>2, <1>2, Typed
    <3>3. /\ AfterMap(bo[h], TRUE, bo[h].res).res = bo[h].res
          /\ AfterMap(bo[h], TRUE, bo[h].res).is_blob = bo[h].is_blob
          /\ AfterMap(bo[h], TRUE, bo[h].res).mapped = bo[h].res
      BY DEF AfterMap
    <3> QED
      BY <1>2, <3>1, <3>2, <3>3
  <2> QED
    BY <1>1, <2>1, <2>2
<1>4. ObjectLinks'
  BY <1>1, <1>2, <1>3, LinkTypes DEF ObjectLinks
<1>5. OwnResources'
  BY <1>3 DEF OwnResources
<1>6. CASE UNCHANGED <<mmapVars, given>>
  <2>1. UNCHANGED mmaps
    BY <1>6 DEF mmapVars
  <2>2. EntryLinks'
    BY <1>1, <1>3, <2>1, LinkTypes DEF EntryLinks
  <2>3. OneEntry'
    BY <2>1 DEF OneEntry
  <2> QED
    BY <1>4, <1>5, <2>2, <2>3
<1>7. ASSUME NEW i \in Slots,
             mmaps' = [mmaps EXCEPT ![i] =
                         [bo_handle |-> h, offset |-> next_offset, size |-> EntrySize(h),
                          ptr |-> bo'[h].mapped]]
      PROVE  LinksInv'
  <2>1. /\ mmaps'[i].bo_handle = h /\ mmaps'[i].ptr = bo[h].res
        /\ \A j \in Slots : j # i => mmaps'[j] = mmaps[j]
    BY <1>3, <1>7, Typed
  <2>2. \A j \in Slots : mmaps[j].bo_handle # h
    BY <1>1, Typed DEF EntriesOf, EntryLinks
  <2>3. EntryLinks'
    <3>1. \A x \in Handles : bo'[x].res = bo[h].res => x = h
      BY <1>2, <1>3 DEF OwnResources
    <3>2. \A j \in Slots \ {i} : mmaps'[j].bo_handle # 0 =>
            /\ mmaps'[j].ptr # 0 /\ mmaps'[j].ptr < next_res'
            /\ gpu'[mmaps'[j].ptr] = "mapped"
            /\ \A x \in Handles : bo'[x].res = mmaps'[j].ptr => x = mmaps'[j].bo_handle
      BY <1>1, <1>3, <2>1, LinkTypes DEF EntryLinks
    <3> QED
      BY <1>1, <1>2, <1>3, <2>1, <3>1, <3>2 DEF EntryLinks
  <2>4. OneEntry'
    BY <2>1, <2>2 DEF OneEntry
  <2> QED
    BY <1>4, <1>5, <2>3, <2>4
<1>8. \/ UNCHANGED <<mmapVars, given>>
      \/ \E i \in Slots :
           mmaps' = [mmaps EXCEPT ![i] =
                       [bo_handle |-> h, offset |-> next_offset, size |-> EntrySize(h),
                        ptr |-> bo'[h].mapped]]
  BY Zenon DEF MapEnters, FirstOf, FreeEntries
<1> QED
  BY <1>6, <1>7, <1>8

\* A mapping that fails leaves what is mapped mapped.
LEMMA MapFailsLinks ==
  ASSUME IInv, LinksInv, NEW t \in Threads, NEW h \in Handles, MapFails(t, h)
  PROVE  LinksInv'
<1> USE DEF IInv
<1>1. PICK s \in Layer!MapResults(gpu[bo[h].res]) \ {"mapped"} :
      /\ gpu' = [gpu EXCEPT ![bo[h].res] = s]
      /\ bo' = [bo EXCEPT ![h] = AfterMap(bo[h], s = "half", 0)]
      /\ UNCHANGED <<mmaps, next_res>>
  BY DEF MapFails, mmapVars
<1>2. \A r \in ResIds : gpu[r] = "mapped" => gpu'[r] = "mapped"
  <2> SUFFICES ASSUME NEW r \in ResIds, gpu[r] = "mapped"
               PROVE  gpu'[r] = "mapped"
    OBVIOUS
  <2>1. r # bo[h].res
    BY <1>1 DEF Layer!MapResults
  <2> QED
    BY <1>1, <2>1, Typed
<1>3. \A x \in Handles : bo'[x] = IF x = h THEN AfterMap(bo[h], s = "half", 0) ELSE bo[x]
  BY <1>1, Typed
<1>4. /\ AfterMap(bo[h], s = "half", 0).res = bo[h].res
      /\ AfterMap(bo[h], s = "half", 0).is_blob = bo[h].is_blob
      /\ AfterMap(bo[h], s = "half", 0).mapped = 0
  BY DEF AfterMap
<1>5. next_res' \in Nat /\ next_res' >= next_res
  BY <1>1, LinkTypes
<1>6. \A x \in Handles :
        /\ bo'[x].res = bo[x].res /\ (bo'[x].is_blob => bo[x].is_blob)
        /\ bo'[x].mapped = 0 \/ bo'[x].mapped = bo[x].mapped
  BY <1>3, <1>4
<1> QED
  BY <1>1, <1>2, <1>5, <1>6, LinksKept

LEMMA LinksStep == IInv /\ LinksInv /\ [Next]_vars => LinksInv'
<1> SUFFICES ASSUME IInv, LinksInv, [Next]_vars PROVE LinksInv'
  OBVIOUS
<1> USE DEF IInv
<1>1. ASSUME NEW t \in Threads, BoAllocWipes(t) PROVE LinksInv'
  <2>1. /\ creating[t] \in Handles
        /\ bo' = [bo EXCEPT ![creating[t]] = NewBo(creating[t])]
        /\ UNCHANGED <<mmaps, gpu, next_res>>
    BY <1>1, Typed DEF BoAllocWipes, mmapVars, gpuVars
  <2>2. \A h \in Handles : bo'[h] = bo[h] \/ bo'[h] = NewBo(h)
    BY <2>1, Typed
  <2>3. next_res' \in Nat /\ next_res' >= next_res
    BY <2>1, LinkTypes
  <2>4. \A h \in Handles :
          \/ bo'[h].res = 0 /\ ~bo'[h].is_blob /\ bo'[h].mapped = 0
          \/ bo'[h] = bo[h]
    <3>1. \A h \in Handles : NewBo(h).res = 0 /\ ~NewBo(h).is_blob /\ NewBo(h).mapped = 0
      BY DEF NewBo
    <3> QED
      BY <2>2, <3>1
  <2> QED
    BY <2>1, <2>3, <2>4, LinksKept
<1>2. ASSUME NEW t \in Threads, CreateFails(t) PROVE LinksInv'
  <2>1. /\ creating[t] \in Handles
        /\ bo' = [bo EXCEPT ![creating[t]] = Forgotten(bo[creating[t]])]
        /\ UNCHANGED mmaps
        /\ UNCHANGED gpuVars \/ (Layer!Take /\ gpu' = gpu)
    BY <1>2, Typed DEF CreateFails, mmapVars
  <2>2. gpu' = gpu /\ next_res' \in Nat /\ next_res' >= next_res
    BY <2>1, LinkTypes DEF gpuVars, Layer!Take
  <2>3. \A h \in Handles : bo'[h] = bo[h] \/ bo'[h] = Forgotten(bo[h])
    BY <2>1, Typed
  <2>4. \A h \in Handles : /\ bo'[h].res = bo[h].res /\ (bo'[h].is_blob => bo[h].is_blob)
                           /\ bo'[h].mapped = bo[h].mapped
    <3>1. \A h \in Handles : /\ Forgotten(bo[h]).res = bo[h].res
                             /\ Forgotten(bo[h]).is_blob = bo[h].is_blob
                             /\ Forgotten(bo[h]).mapped = bo[h].mapped
      BY DEF Forgotten
    <3> QED
      BY <2>3, <3>1
  <2> QED
    BY <2>1, <2>2, <2>4, LinksKept
<1>3. ASSUME UNCHANGED <<bo, mmaps, gpu, next_res>> PROVE LinksInv'
  BY <1>3, LinkTypes, LinksKept
<1>4. ASSUME NEW t \in Threads, NEW h \in Handles, held[h] # 0, GemClose(t, h) PROVE LinksInv'
  <2>1. ReleaseAll({h}) /\ bo' = [bo EXCEPT ![h] = NoBo] /\ mmaps' = EntriesWithout(h)
    BY <1>4 DEF GemClose
  <2>2. /\ next_res' = next_res
        /\ \A r \in ResIds : gpu'[r] = gpu[r] \/ \E x \in {h} : bo[x].res = r
    BY <2>1, ReleaseTypes
  <2>3. \A x \in Handles :
          \/ bo'[x].res = 0 /\ ~bo'[x].is_blob /\ bo'[x].mapped = 0
          \/ x \notin {h} /\ bo'[x] = bo[x]
    BY <2>1, Typed DEF NoBo, NewBo
  <2>4. \A i \in Slots : \/ mmaps'[i].bo_handle = 0
                         \/ mmaps'[i] = mmaps[i] /\ mmaps[i].bo_handle \notin {h}
    BY <2>1 DEF EntriesWithout, NoEntry
  <2> QED
    BY <2>2, <2>3, <2>4, LinksReleased
<1>5. CASE FileClose
  <2>1. /\ ReleaseAll(Taken) /\ bo' = [h \in Handles |-> NoBo]
        /\ mmaps' = [i \in Slots |-> NoEntry]
    BY <1>5 DEF FileClose
  <2>2. Taken \subseteq Handles
    BY <1>5, Typed DEF FileClose, Taken, Handles
  <2>3. /\ next_res' = next_res
        /\ \A r \in ResIds : gpu'[r] = gpu[r] \/ \E x \in Taken : bo[x].res = r
    BY <2>1, <2>2, ReleaseTypes
  <2>4. /\ \A x \in Handles : bo'[x].res = 0 /\ ~bo'[x].is_blob /\ bo'[x].mapped = 0
        /\ \A i \in Slots : mmaps'[i].bo_handle = 0
    BY <2>1 DEF NoBo, NewBo, NoEntry
  <2> QED
    BY <2>2, <2>3, <2>4, LinksReleased
<1>6. ASSUME NEW t \in Threads, CreateStep(t) PROVE LinksInv'
  <2>1. BoAlloc(t) \/ BoAllocReads(t) \/ BoAllocCounts(t) \/ HandleBackReads(t) \/ HandleBack(t)
          => UNCHANGED <<bo, mmaps, gpu, next_res>>
    BY DEF BoAlloc, BoAllocReads, BoAllocCounts, HandleBackReads, HandleBack, boVars, mmapVars,
           gpuVars
  <2> QED
    BY <1>1, <1>2, <1>3, <1>6, <2>1, CreateBlobLinks DEF CreateStep
<1>7. ASSUME NEW t \in Threads, ObjectStep(t) PROVE LinksInv'
  <2>1. ASSUME NEW h \in Handles, MapAgain(t, h) PROVE LinksInv'
    BY <2>1, <1>3 DEF MapAgain, boVars, mmapVars, gpuVars
  <2> QED
    BY <1>4, <1>7, <2>1, MapFailsLinks, MapEntersLinks DEF ObjectStep
<1>8. CASE FileOpen \/ UNCHANGED vars
  BY <1>3, <1>8 DEF FileOpen, vars, boVars, mmapVars, gpuVars
<1> QED
  BY <1>5, <1>6, <1>7, <1>8 DEF Next

LEMMA LinksInvariant == Spec => [](IInv /\ LinksInv)
<1>1. Init => LinksInv
  BY DEF Init, LinksInv, ObjectLinks, OwnResources, EntryLinks, OneEntry, NoBo, NewBo, NoEntry,
         Layer!Init
<1> QED
  BY <1>1, InitHolds, StepHolds, LinksStep, PTL DEF Spec

\* Of some slots there is a first.
LEMMA FirstExists ==
  ASSUME NEW S, S \subseteq Slots, S # {}
  PROVE  FirstOf(S) # {}
<1> DEFINE R == OpToRel(<, Nat)
<1>1. IsWellFoundedOn(R, Nat)
  BY NatLessThanWellFounded, Zenon
<1>2. \A x, y \in Nat : x < y => <<x, y>> \in R
  BY DEF OpToRel
<1> HIDE DEF R
<1>3. S \subseteq Nat
  BY DrmVirtgpuAssumption DEF Slots
<1>4. PICK i \in S : \A j \in S : <<j, i>> \notin R
  BY <1>1, <1>3, WFMin
<1>5. \A j \in S : ~(j < i)
  BY <1>2, <1>3, <1>4, Zenon
<1>6. \A j \in S : i <= j
  BY <1>3, <1>5
<1> QED
  BY <1>6 DEF FirstOf

\* The tables, the objects and the histories keep their types, whatever creates do to
\* each other: no handle a create takes is off the table, though the count is but a
\* 32-bit number (drm_virtgpu.c, drm_virtgpu_fdio.c).
THEOREM TypeCorrect == Spec => []TypeOK
<1>1. IInv => TypeOK
  BY DEF IInv
<1> QED
  BY <1>1, Invariant, PTL

\* The handles taken are those of the objects made since the file was opened and of
\* the creates under way, in whatever order creates fail, as long as none of them wrote
\* a count that another had changed since it was read (bo_alloc and the undo of
\* uk_drm_virtgpu_resource_create_blob).
THEOREM HandlesCounted == Spec => []FailuresCostNoHandle
<1>1. IInv => FailuresCostNoHandle
  BY DEF IInv
<1> QED
  BY <1>1, Invariant, PTL

\* As long as creates take and give back handles in turn, the count is one of the
\* table's, which bo_alloc's unlocked test alone does not make it: closing the file
\* goes through no object that is not there (uk_drm_virtgpu_close).
THEOREM CountWithinTable == Spec => []CountInTable
<1>1. IInv => CountInTable
  BY DEF IInv
<1> QED
  BY <1>1, Invariant, PTL

\* A handle the application holds resolves to its own object, whichever creates fail,
\* unless a create wrote over another's count, took a handle that another took, or
\* gave back that of a later one (bo_alloc, bo_lookup).
THEOREM HandlesResolve == Spec => []HeldHandlesResolve
<1>1. IInv => HeldHandlesResolve
  BY DEF IInv
<1> QED
  BY <1>1, Invariant, PTL

\* With the same exceptions, a resource created through the shim is an object's until
\* it is released, or its release failed (bo_release, uk_drm_virtgpu_close).
THEOREM BlobsKeepHandles == Spec => []BlobsHaveHandles
<1>1. IInv => BlobsHaveHandles
  BY DEF IInv
<1> QED
  BY <1>1, Invariant, PTL

\* No offset leads to a mapping that is gone, whichever creates failed and whatever
\* the releases left (mmap_remove_handle, uk_drm_virtgpu_file_mmap).
THEOREM NoStaleMmap == Spec => []MmapNeverStale
<1>1. IInv /\ LinksInv => MmapNeverStale
  <2> SUFFICES ASSUME IInv, LinksInv, NEW offset \in Base..next_offset, FileMmap(offset, 1).res # 0
               PROVE  gpu[FileMmap(offset, 1).res] = "mapped"
    BY DEF MmapNeverStale
  <2> DEFINE hits == {i \in Slots : /\ mmaps[i].bo_handle # 0 /\ mmaps[i].ptr # 0
                                    /\ offset >= mmaps[i].offset
                                    /\ offset < mmaps[i].offset + mmaps[i].size}
             first == CHOOSE i \in FirstOf(hits) : TRUE
  <2>1. hits # {} /\ FileMmap(offset, 1).res = mmaps[first].ptr
    <3>1. FileMmap(offset, 1).res # 0
      OBVIOUS
    <3> QED
      BY ONLY <3>1 DEF FileMmap
  <2>2. first \in hits
    BY <2>1, FirstExists DEF FirstOf
  <2> QED
    BY <2>1, <2>2 DEF LinksInv, EntryLinks
<1> QED
  BY <1>1, LinksInvariant, PTL

\* The mmap table, as large as that of the handles, has room for every object that
\* has no entry (mmap_alloc).
THEOREM MmapTableSuffices == Spec => []MapFindsEntry
<1>1. IInv /\ LinksInv => MapFindsEntry
  <2> SUFFICES ASSUME IInv, LinksInv, NEW h \in Handles, EntriesOf(h) = {}, FreeEntries = {}
               PROVE  FALSE
    BY DEF MapFindsEntry
  <2> DEFINE f == [i \in Slots |-> mmaps[i].bo_handle]
             T == Handles \ {h}
  <2>1. f \in [Slots -> T]
    <3>1. \A i \in Slots : mmaps[i].bo_handle \in 0..MaxHandles /\ mmaps[i].bo_handle # 0
      BY LinkTypes DEF IInv, FreeEntries
    <3>2. \A i \in Slots : mmaps[i].bo_handle # h
      BY <3>1 DEF EntriesOf, LinksInv, EntryLinks
    <3> QED
      BY <3>1, <3>2 DEF Handles
  <2>2. /\ IsFiniteSet(Slots) /\ Cardinality(Slots) = MaxMmaps
        /\ IsFiniteSet(Handles) /\ Cardinality(Handles) = MaxHandles
        /\ MaxHandles \in Nat /\ MaxMmaps \in Nat /\ MaxHandles <= MaxMmaps
    BY FS_Interval, DrmVirtgpuAssumption DEF Slots, Handles
  <2>3. IsFiniteSet(T) /\ Cardinality(T) = Cardinality(Handles) - 1
    BY <2>2, FS_RemoveElement
  <2>4. Cardinality(T) < Cardinality(Slots)
    BY <2>2, <2>3
  <2>7. \A i \in Slots : f[i] = mmaps[i].bo_handle
    OBVIOUS
  <2> HIDE DEF T, f
  <2>5. PICK i, j \in Slots : i # j /\ f[i] = f[j]
    BY <2>1, <2>2, <2>3, <2>4, FS_PigeonHole
  <2>6. mmaps[i].bo_handle = mmaps[j].bo_handle /\ mmaps[i].bo_handle # 0
    BY <2>5, <2>7 DEF FreeEntries
  <2> QED
    BY <2>5, <2>6 DEF LinksInv, OneEntry
<1> QED
  BY <1>1, LinksInvariant, PTL

-----------------------------------------------------------------------------
(* Offsets *)

\* The entries' ranges of offsets are of whole pages, below the next offset and apart.
Aligned(n) == \E k \in Nat : n = Page * k

RangesApart ==
  /\ Aligned(next_offset)
  /\ \A i \in Slots : mmaps[i].bo_handle # 0 =>
       /\ Aligned(mmaps[i].offset)
       /\ mmaps[i].offset + mmaps[i].size <= next_offset
  /\ \A i, j \in Slots : i # j /\ mmaps[i].bo_handle # 0 /\ mmaps[j].bo_handle # 0 =>
       \/ mmaps[i].offset + mmaps[i].size <= mmaps[j].offset
       \/ mmaps[j].offset + mmaps[j].size <= mmaps[i].offset

\* An entry is that of an object the application holds, of its size; the offset the
\* application has got of an object is that of such an entry.
EntriesHeld ==
  /\ \A i \in Slots : mmaps[i].bo_handle # 0 =>
       /\ held[mmaps[i].bo_handle] # 0
       /\ mmaps[i].ptr = held[mmaps[i].bo_handle]
       /\ mmaps[i].size = EntrySize(mmaps[i].bo_handle)
  /\ \A h \in Handles : given[h] # 0 =>
       \E i \in Slots : mmaps[i].bo_handle = h /\ mmaps[i].offset = given[h]

OffsetsInv == RangesApart /\ (Ordered => EntriesHeld)

\* A multiple of the page.
LEMMA AlignedMod ==
  ASSUME NEW k \in Nat
  PROVE  (Page * k) % Page = 0
<1> DEFINE n == Page * k
           r == n % Page
           q == n \div Page
<1>1. Page \in Nat /\ Page > 0
  BY DrmVirtgpuAssumption
<1>2. n \in Nat /\ n = Page * k
  BY <1>1
<1>3. n = Page * q + r /\ r \in 0..(Page - 1) /\ q \in Nat
  <2> HIDE DEF n
  <2> QED
    BY <1>1, <1>2
<1> DEFINE d == k - q
<1> HIDE DEF r, q, n
<1>4. d \in Int /\ Page * d = r
  <2>1. Page * d = Page * k - Page * q
    BY <1>1, <1>3
  <2> QED
    BY <1>1, <1>2, <1>3, <2>1
<1> HIDE DEF d
<1>5. CASE d >= 1
  <2>1. Page * d = Page + Page * (d - 1) /\ Page * (d - 1) >= 0
    BY <1>1, <1>4, <1>5
  <2> QED
    BY <1>1, <1>3, <1>4, <2>1
<1>6. CASE d <= -1
  <2>1. Page * d = Page * (d + 1) - Page /\ Page * (-(d + 1)) >= 0
    BY <1>1, <1>4, <1>6
  <2>2. Page * (d + 1) <= 0
    BY <1>1, <1>4, <2>1
  <2> QED
    BY <1>1, <1>3, <1>4, <2>1, <2>2
<1>7. CASE d = 0
  BY <1>1, <1>4, <1>7 DEF r, n
<1> QED
  BY <1>4, <1>5, <1>6, <1>7

\* Rounding up to whole pages loses nothing.
LEMMA AlignUpIs ==
  ASSUME NEW n \in Nat
  PROVE  AlignUp(n) >= n /\ Aligned(AlignUp(n)) /\ AlignUp(n) \in Nat
<1> DEFINE m == n + Page - 1
           q == m \div Page
<1>1. Page \in Nat /\ Page > 0 /\ m \in Nat
  BY DrmVirtgpuAssumption
<1>2. q \in Nat /\ m = Page * q + (m % Page) /\ m % Page < Page /\ m % Page \in Nat
  <2> HIDE DEF m
  <2> QED
    BY <1>1
<1>3. AlignUp(n) = Page * q
  <2>1. AlignUp(n) = q * Page
    BY DEF AlignUp
  <2> HIDE DEF q
  <2> QED
    BY <1>1, <1>2, <2>1
<1>4. Page * q >= n
  <2> HIDE DEF q
  <2> QED
    BY <1>1, <1>2
<1> HIDE DEF q
<1> QED
  BY <1>1, <1>2, <1>3, <1>4 DEF Aligned

\* The next offset is past the entry and whole pages.
LEMMA MovedIs ==
  ASSUME NEW off \in Nat, NEW size \in Nat
  PROVE  Moved(off, size) >= off + size /\ Aligned(Moved(off, size)) /\ Moved(off, size) \in Nat
<1> DEFINE n == off + (IF size = 0 THEN Page ELSE size)
<1>1. n \in Nat /\ n >= off + size
  BY DrmVirtgpuAssumption
<1>2. Moved(off, size) = AlignUp(n)
  BY DEF Moved
<1> HIDE DEF n
<1>3. AlignUp(n) >= n /\ Aligned(AlignUp(n)) /\ AlignUp(n) \in Nat
  BY <1>1, AlignUpIs
<1> QED
  BY <1>1, <1>2, <1>3

\* A step that enters nothing: entries stay or go, and those that stay are held as
\* they were.
LEMMA OffsetsKept ==
  ASSUME TypeOK, OffsetsInv, next_offset' = next_offset, Ordered' => Ordered,
         \A i \in Slots : mmaps'[i] = mmaps[i] \/ mmaps'[i].bo_handle = 0,
         Ordered => \A i \in Slots : mmaps'[i].bo_handle # 0 =>
           /\ held'[mmaps[i].bo_handle] = held[mmaps[i].bo_handle]
           /\ bo'[mmaps[i].bo_handle].size = bo[mmaps[i].bo_handle].size,
         Ordered => \A h \in Handles : given'[h] # 0 =>
           \E i \in Slots : mmaps'[i].bo_handle = h /\ mmaps'[i].offset = given'[h]
  PROVE  OffsetsInv'
<1>1. RangesApart'
  BY DEF OffsetsInv, RangesApart, Aligned
<1>2. ASSUME Ordered' PROVE EntriesHeld'
  <2>1. Ordered /\ EntriesHeld
    BY <1>2 DEF OffsetsInv
  <2>2. ASSUME NEW i \in Slots, mmaps'[i].bo_handle # 0
        PROVE  /\ held'[mmaps'[i].bo_handle] # 0
               /\ mmaps'[i].ptr = held'[mmaps'[i].bo_handle]
               /\ mmaps'[i].size = EntrySize(mmaps[i].bo_handle)'
    <3>1. mmaps'[i] = mmaps[i]
      BY <2>2
    <3>2. EntrySize(mmaps[i].bo_handle)' = EntrySize(mmaps[i].bo_handle)
      BY <2>1, <2>2, <3>1 DEF EntrySize, AlignUp
    <3> QED
      BY <2>1, <2>2, <3>1, <3>2 DEF EntriesHeld
  <2> QED
    BY <2>1, <2>2 DEF EntriesHeld
<1> QED
  BY <1>1, <1>2 DEF OffsetsInv

\* MAP enters an object it holds at the next offset, behind all other entries.
LEMMA MapEntersOffsets ==
  ASSUME IInv, LinksInv, OffsetsInv, NEW t \in Threads, NEW h \in Handles, held[h] # 0,
         MapEnters(t, h)
  PROVE  OffsetsInv'
<1> USE DEF IInv
<1>1. /\ EntriesOf(h) = {} /\ Resolves(h) /\ bo[h].is_blob
      /\ \/ bo[h].mapped # 0 /\ UNCHANGED <<bo, gpu>>
         \/ bo' = [bo EXCEPT ![h] = AfterMap(bo[h], TRUE, bo[h].res)]
      /\ UNCHANGED <<held, races>>
  BY DEF MapEnters, historyVars
<1>2. \A x \in Handles : bo'[x].size = bo[x].size
  <2>1. AfterMap(bo[h], TRUE, bo[h].res).size = bo[h].size
    BY DEF AfterMap
  <2> QED
    BY <1>1, <2>1, Typed
<1>3. bo'[h].mapped = bo[h].res
  <2>1. AfterMap(bo[h], TRUE, bo[h].res).mapped = bo[h].res
    BY DEF AfterMap
  <2>2. bo[h].mapped # 0 => bo[h].mapped = bo[h].res
    BY DEF LinksInv, ObjectLinks
  <2> QED
    BY <1>1, <2>1, <2>2, Typed
<1>4. CASE UNCHANGED <<mmapVars, given>>
  <2>1. UNCHANGED <<mmaps, next_offset, given>>
    BY <1>4 DEF mmapVars
  <2>2. \A i \in Slots : mmaps[i].bo_handle # 0 => mmaps[i].bo_handle \in Handles
    BY LinkTypes DEF Handles
  <2>3. Ordered => \A x \in Handles : given[x] # 0 =>
          \E i \in Slots : mmaps[i].bo_handle = x /\ mmaps[i].offset = given[x]
    BY DEF OffsetsInv, EntriesHeld
  <2> QED
    BY <1>1, <1>2, <2>1, <2>2, <2>3, OffsetsKept DEF Ordered
<1>5. ASSUME NEW i \in Slots, mmaps[i].bo_handle = 0,
             mmaps' = [mmaps EXCEPT ![i] =
                         [bo_handle |-> h, offset |-> next_offset, size |-> EntrySize(h),
                          ptr |-> bo'[h].mapped]],
             next_offset' = Moved(next_offset, EntrySize(h)),
             given' = [given EXCEPT ![h] = next_offset]
      PROVE  OffsetsInv'
  <2>1. /\ mmaps'[i].bo_handle = h /\ mmaps'[i].offset = next_offset
        /\ mmaps'[i].size = EntrySize(h) /\ mmaps'[i].ptr = bo[h].res
        /\ \A j \in Slots : j # i => mmaps'[j] = mmaps[j]
    BY <1>3, <1>5, Typed
  <2>2. EntrySize(h) \in Nat /\ next_offset \in Nat
    BY EntrySizeType, Typed
  <2>3. /\ next_offset' >= next_offset + EntrySize(h) /\ Aligned(next_offset')
        /\ next_offset' \in Nat
    BY <1>5, <2>2, MovedIs
  <2>4. \A j \in Slots : mmaps[j].offset \in Nat /\ mmaps[j].size \in Nat
    BY Typed DEF EntrySet
  <2>5. RangesApart
    BY DEF OffsetsInv
  <2>6. \A j \in Slots : mmaps'[j].bo_handle # 0 =>
          /\ Aligned(mmaps'[j].offset)
          /\ mmaps'[j].offset + mmaps'[j].size <= next_offset'
    <3>1. Aligned(next_offset)
      BY <2>5 DEF RangesApart
    <3>2. \A j \in Slots \ {i} : mmaps'[j].bo_handle # 0 =>
            /\ Aligned(mmaps[j].offset)
            /\ mmaps[j].offset + mmaps[j].size <= next_offset
      BY <2>1, <2>5 DEF RangesApart
    <3>3. \A j \in Slots \ {i} : mmaps'[j].bo_handle # 0 =>
            mmaps[j].offset + mmaps[j].size <= next_offset'
      BY <2>2, <2>3, <2>4, <3>2
    <3> QED
      BY <2>1, <2>3, <3>1, <3>2, <3>3
  <2>7. \A j, k \in Slots : j # k /\ mmaps'[j].bo_handle # 0 /\ mmaps'[k].bo_handle # 0 =>
          \/ mmaps'[j].offset + mmaps'[j].size <= mmaps'[k].offset
          \/ mmaps'[k].offset + mmaps'[k].size <= mmaps'[j].offset
    <3>1. \A j \in Slots \ {i} : mmaps'[j].bo_handle # 0 =>
            mmaps'[j].offset + mmaps'[j].size <= mmaps'[i].offset
      BY <2>1, <2>5 DEF RangesApart
    <3>2. \A j, k \in Slots \ {i} : j # k /\ mmaps'[j].bo_handle # 0 /\ mmaps'[k].bo_handle # 0 =>
            \/ mmaps'[j].offset + mmaps'[j].size <= mmaps'[k].offset
            \/ mmaps'[k].offset + mmaps'[k].size <= mmaps'[j].offset
      BY <2>1, <2>5 DEF RangesApart
    <3> QED
      BY <3>1, <3>2
  <2>8. RangesApart'
    BY <2>3, <2>6, <2>7 DEF RangesApart, Aligned
  <2>9. ASSUME Ordered' PROVE EntriesHeld'
    <3>1. Ordered /\ EntriesHeld
      BY <1>1, <2>9 DEF OffsetsInv, Ordered
    <3>2. bo[h].res = held[h]
      BY <3>1 DEF HeldHandlesResolve
    <3>3. \A x \in Handles : EntrySize(x)' = EntrySize(x)
      BY <1>2 DEF EntrySize, AlignUp
    <3>4. \A j \in Slots : mmaps[j].bo_handle # 0 => mmaps[j].bo_handle \in Handles
      BY LinkTypes DEF Handles
    <3>5. ASSUME NEW j \in Slots, mmaps'[j].bo_handle # 0
          PROVE  /\ held'[mmaps'[j].bo_handle] # 0
                 /\ mmaps'[j].ptr = held'[mmaps'[j].bo_handle]
                 /\ mmaps'[j].size = EntrySize(mmaps[j].bo_handle)'
      <4>1. CASE j = i
        <5>1. EntrySize(mmaps[j].bo_handle)' = EntrySize(h)'
          BY <2>1, <4>1 DEF EntrySize
        <5> QED
          BY <1>1, <2>1, <3>2, <3>3, <4>1, <5>1
      <4>2. CASE j # i
        <5>1. mmaps'[j] = mmaps[j] /\ mmaps[j].bo_handle \in Handles
          BY <2>1, <3>4, <3>5, <4>2
        <5>2. EntrySize(mmaps[j].bo_handle)' = EntrySize(mmaps[j].bo_handle)
          BY <3>3, <5>1 DEF EntrySize
        <5> QED
          BY <1>1, <3>1, <3>5, <5>1, <5>2 DEF EntriesHeld
      <4> QED
        BY <4>1, <4>2
    <3>6. ASSUME NEW x \in Handles, given'[x] # 0
          PROVE  \E j \in Slots : mmaps'[j].bo_handle = x /\ mmaps'[j].offset = given'[x]
      <4>1. CASE x = h
        BY <1>5, <2>1, <4>1, Typed
      <4>2. CASE x # h
        <5>1. given'[x] = given[x]
          BY <1>5, <4>2, Typed
        <5>2. PICK j \in Slots : mmaps[j].bo_handle = x /\ mmaps[j].offset = given[x]
          BY <3>1, <3>6, <5>1 DEF EntriesHeld
        <5>3. j # i
          BY <1>5, <5>2, Typed
        <5> QED
          BY <2>1, <5>1, <5>2, <5>3
      <4> QED
        BY <4>1, <4>2
    <3> QED
      BY <3>5, <3>6 DEF EntriesHeld
  <2> QED
    BY <2>8, <2>9 DEF OffsetsInv
<1>6. \/ UNCHANGED <<mmapVars, given>>
      \/ \E i \in FreeEntries :
           /\ mmaps' = [mmaps EXCEPT ![i] =
                         [bo_handle |-> h, offset |-> next_offset, size |-> EntrySize(h),
                          ptr |-> bo'[h].mapped]]
           /\ next_offset' = Moved(next_offset, EntrySize(h))
           /\ given' = [given EXCEPT ![h] = next_offset]
  BY Zenon DEF MapEnters, FirstOf
<1>7. \A i \in FreeEntries : i \in Slots /\ mmaps[i].bo_handle = 0
  BY DEF FreeEntries
<1> QED
  BY <1>4, <1>5, <1>6, <1>7

\* A create touches the objects of no entry, unless handles have been mixed up.
LEMMA CreateOffsets ==
  ASSUME IInv, OffsetsInv, NEW t \in Threads, CreateStep(t)
  PROVE  OffsetsInv'
<1> USE DEF IInv
<1> DEFINE Entered == \A i \in Slots : mmaps[i].bo_handle # 0 => mmaps[i].bo_handle \in Handles
<1>1. Entered
  BY LinkTypes DEF Handles
<1>2. Ordered => /\ \A h \in Handles : given[h] # 0 =>
                     \E i \in Slots : mmaps[i].bo_handle = h /\ mmaps[i].offset = given[h]
                /\ \A i \in Slots : mmaps[i].bo_handle # 0 => held[mmaps[i].bo_handle] # 0
  BY DEF OffsetsInv, EntriesHeld
<1>3. CASE BoAllocWipes(t)
  <2> DEFINE h == creating[t]
  <2>1. /\ h \in Handles /\ t \in Creators
        /\ bo' = [bo EXCEPT ![h] = NewBo(h)]
        /\ UNCHANGED <<mmaps, next_offset, held, given, races>>
    BY <1>3, Typed DEF BoAllocWipes, Creators, mmapVars, appVars, historyVars
  <2>2. Ordered => held[h] = 0
    BY <2>1 DEF HandlesInv, CreatorsApart
  <2> HIDE DEF h
  <2>3. \A x \in Handles : x # h => bo'[x] = bo[x]
    BY <2>1, Typed
  <2>4. Ordered => \A i \in Slots : mmaps'[i].bo_handle # 0 =>
          /\ held'[mmaps[i].bo_handle] = held[mmaps[i].bo_handle]
          /\ bo'[mmaps[i].bo_handle].size = bo[mmaps[i].bo_handle].size
    BY <1>1, <1>2, <2>1, <2>2, <2>3
  <2> QED
    BY <1>2, <2>1, <2>4, OffsetsKept DEF Ordered
<1>4. CASE CreateBlob(t)
  <2> DEFINE h == creating[t]
  <2>1. PICK size \in Sizes :
        /\ h \in Handles /\ t \in Creators
        /\ bo' = [bo EXCEPT ![h] = AsBlob(bo[h], size, next_res)]
        /\ held' = [held EXCEPT ![h] = next_res]
        /\ given' = [given EXCEPT ![h] = 0]
        /\ UNCHANGED <<mmaps, next_offset, races>>
    BY <1>4, Typed DEF CreateBlob, Creators, mmapVars
  <2>2. Ordered => held[h] = 0
    BY <2>1 DEF HandlesInv, CreatorsApart
  <2> HIDE DEF h
  <2>3. /\ \A x \in Handles : x # h => bo'[x] = bo[x] /\ held'[x] = held[x] /\ given'[x] = given[x]
        /\ given'[h] = 0
    BY <2>1, Typed
  <2>4. Ordered => \A i \in Slots : mmaps'[i].bo_handle # 0 =>
          /\ held'[mmaps[i].bo_handle] = held[mmaps[i].bo_handle]
          /\ bo'[mmaps[i].bo_handle].size = bo[mmaps[i].bo_handle].size
    BY <1>1, <1>2, <2>1, <2>2, <2>3
  <2>5. Ordered => \A x \in Handles : given'[x] # 0 =>
          \E i \in Slots : mmaps'[i].bo_handle = x /\ mmaps'[i].offset = given'[x]
    BY <1>2, <2>1, <2>3
  <2> QED
    BY <2>1, <2>4, <2>5, OffsetsKept DEF Ordered
<1>5. CASE CreateFails(t)
  <2> DEFINE h == creating[t]
  <2>1. /\ h \in Handles
        /\ bo' = [bo EXCEPT ![h] = Forgotten(bo[h])]
        /\ UNCHANGED <<mmaps, next_offset, held, given, races>>
    BY <1>5, Typed DEF CreateFails, mmapVars, appVars, historyVars
  <2> HIDE DEF h
  <2>2. Forgotten(bo[h]).size = bo[h].size
    BY DEF Forgotten
  <2>3. \A x \in Handles : bo'[x].size = bo[x].size
    BY <2>1, <2>2, Typed
  <2> QED
    BY <1>1, <1>2, <2>1, <2>3, OffsetsKept DEF Ordered
<1>6. CASE UNCHANGED <<bo, mmaps, next_offset, held, given>> /\ (Ordered' => Ordered)
  BY <1>1, <1>2, <1>6, OffsetsKept
<1>7. CASE BoAllocCounts(t) \/ HandleBack(t)
  <2>1. UNCHANGED <<bo, mmaps, next_offset, held, given>>
    BY <1>7 DEF BoAllocCounts, HandleBack, mmapVars, appVars
  <2>2. Ordered' => Ordered
    BY <1>7 DEF BoAllocCounts, HandleBack, Ordered
  <2> QED
    BY <1>6, <2>1, <2>2
<1>8. CASE BoAlloc(t) \/ BoAllocReads(t) \/ HandleBackReads(t)
  <2>1. UNCHANGED <<bo, mmaps, next_offset, held, given, races>>
    BY <1>8 DEF BoAlloc, BoAllocReads, HandleBackReads, boVars, mmapVars, appVars, historyVars
  <2> QED
    BY <1>6, <2>1 DEF Ordered
<1> QED
  BY <1>3, <1>4, <1>5, <1>7, <1>8 DEF CreateStep

\* An ioctl on an object that is held.
LEMMA ObjectOffsets ==
  ASSUME IInv, LinksInv, OffsetsInv, NEW t \in Threads, NEW h \in Handles, held[h] # 0,
         MapAgain(t, h) \/ MapFails(t, h) \/ GemClose(t, h)
  PROVE  OffsetsInv'
<1> USE DEF IInv
<1>1. \A i \in Slots : mmaps[i].bo_handle # 0 => mmaps[i].bo_handle \in Handles
  BY LinkTypes DEF Handles
<1>2. Ordered => \A x \in Handles : given[x] # 0 =>
        \E i \in Slots : mmaps[i].bo_handle = x /\ mmaps[i].offset = given[x]
  BY DEF OffsetsInv, EntriesHeld
<1>3. CASE MapAgain(t, h)
  <2>1. PICK i \in Slots : mmaps[i].bo_handle = h /\ given' = [given EXCEPT ![h] = mmaps[i].offset]
    BY <1>3 DEF MapAgain, FirstOf, EntriesOf
  <2>2. UNCHANGED <<bo, mmaps, next_offset, held, races>>
    BY <1>3 DEF MapAgain, boVars, mmapVars, historyVars
  <2>3. \A x \in Handles : given'[x] = IF x = h THEN mmaps[i].offset ELSE given[x]
    BY <2>1, Typed
  <2>4. Ordered => \A x \in Handles : given'[x] # 0 =>
          \E j \in Slots : mmaps'[j].bo_handle = x /\ mmaps'[j].offset = given'[x]
    BY <1>2, <2>1, <2>2, <2>3
  <2> QED
    BY <1>1, <2>2, <2>4, OffsetsKept DEF Ordered
<1>4. CASE MapFails(t, h)
  <2>1. PICK half \in BOOLEAN : bo' = [bo EXCEPT ![h] = AfterMap(bo[h], half, 0)]
    BY <1>4 DEF MapFails
  <2>2. UNCHANGED <<mmaps, next_offset, held, given, races>>
    BY <1>4 DEF MapFails, mmapVars, appVars, historyVars
  <2>3. AfterMap(bo[h], half, 0).size = bo[h].size
    BY DEF AfterMap
  <2>4. \A x \in Handles : bo'[x].size = bo[x].size
    BY <2>1, <2>3, Typed
  <2> QED
    BY <1>1, <1>2, <2>2, <2>4, OffsetsKept DEF Ordered
<1>5. CASE GemClose(t, h)
  <2>1. /\ bo' = [bo EXCEPT ![h] = NoBo]
        /\ mmaps' = EntriesWithout(h)
        /\ held' = [held EXCEPT ![h] = 0]
        /\ given' = [given EXCEPT ![h] = 0]
        /\ UNCHANGED <<next_offset, races>>
    BY <1>5 DEF GemClose
  <2>2. /\ \A x \in Handles : x # h => bo'[x] = bo[x] /\ held'[x] = held[x] /\ given'[x] = given[x]
        /\ given'[h] = 0
    BY <2>1, Typed
  <2>3. \A i \in Slots : mmaps'[i] = IF mmaps[i].bo_handle = h THEN NoEntry ELSE mmaps[i]
    BY <2>1 DEF EntriesWithout
  <2>4. NoEntry.bo_handle = 0
    BY DEF NoEntry
  <2>5. \A i \in Slots : mmaps'[i].bo_handle # 0 =>
          /\ held'[mmaps[i].bo_handle] = held[mmaps[i].bo_handle]
          /\ bo'[mmaps[i].bo_handle].size = bo[mmaps[i].bo_handle].size
    BY <1>1, <2>2, <2>3, <2>4
  <2>6. Ordered => \A x \in Handles : given'[x] # 0 =>
          \E j \in Slots : mmaps'[j].bo_handle = x /\ mmaps'[j].offset = given'[x]
    BY <1>2, <2>2, <2>3
  <2>7. \A i \in Slots : mmaps'[i] = mmaps[i] \/ mmaps'[i].bo_handle = 0
    BY <2>3, <2>4
  <2> QED
    BY <2>1, <2>5, <2>6, <2>7, OffsetsKept DEF Ordered
<1> QED
  BY <1>3, <1>4, <1>5

\* Every step keeps the ranges apart and the entries those of held objects.
LEMMA OffsetsStep == IInv /\ LinksInv /\ OffsetsInv /\ [Next]_vars => OffsetsInv'
<1> SUFFICES ASSUME IInv, LinksInv, OffsetsInv, [Next]_vars PROVE OffsetsInv'
  OBVIOUS
<1>1. ASSUME NEW t \in Threads, ObjectStep(t) PROVE OffsetsInv'
  BY <1>1, ObjectOffsets, MapEntersOffsets DEF ObjectStep
<1>2. CASE FileOpen \/ UNCHANGED vars
  <2>1. UNCHANGED <<bo, mmaps, next_offset, held, given, races>>
    BY <1>2 DEF FileOpen, vars, boVars, mmapVars, appVars, historyVars
  <2> QED
    BY <2>1 DEF OffsetsInv, RangesApart, EntriesHeld, EntrySize, Ordered
<1>3. CASE FileClose
  <2>1. /\ mmaps' = [i \in Slots |-> NoEntry] /\ next_offset' = Base
        /\ given' = [h \in Handles |-> 0]
    BY <1>3 DEF FileClose
  <2>2. \A i \in Slots : mmaps'[i].bo_handle = 0
    BY <2>1 DEF NoEntry
  <2>3. Aligned(next_offset')
    BY <2>1, DrmVirtgpuAssumption DEF Base, Aligned
  <2> QED
    BY <2>1, <2>2, <2>3 DEF OffsetsInv, RangesApart, EntriesHeld, Aligned
<1> QED
  BY <1>1, <1>2, <1>3, CreateOffsets DEF Next

\* The tables start empty.
LEMMA OffsetsInvariant == Spec => [](IInv /\ LinksInv /\ OffsetsInv)
<1>1. Init => OffsetsInv
  <2> SUFFICES ASSUME Init PROVE OffsetsInv
    OBVIOUS
  <2>1. /\ \A i \in Slots : mmaps[i].bo_handle = 0
        /\ \A h \in Handles : given[h] = 0
        /\ next_offset = Page * 1
    BY DrmVirtgpuAssumption DEF Init, NoEntry, Base
  <2> QED
    BY <2>1 DEF OffsetsInv, RangesApart, EntriesHeld, Aligned
<1>2. Init => LinksInv
  BY DEF Init, LinksInv, ObjectLinks, OwnResources, EntryLinks, OneEntry, NoBo, NewBo, NoEntry,
         Layer!Init
<1> QED
  BY <1>1, <1>2, InitHolds, StepHolds, LinksStep, OffsetsStep, PTL DEF Spec

\* The offset an object was given by MAP leads, a page at a time and over the object's
\* whole size, to its own mapping: entries are whole pages apart and their sizes those
\* of the objects, unless creates got in each other's way (mmap_alloc,
\* uk_drm_virtgpu_file_mmap).
THEOREM MmapLeadsToObject == Spec => []MmapResolves
<1>1. IInv /\ LinksInv /\ OffsetsInv => MmapResolves
  <2> SUFFICES ASSUME IInv, LinksInv, OffsetsInv, Ordered,
                      NEW h \in Handles, given[h] # 0, bo[h].size < Width,
                      NEW k \in 0..((bo[h].size - 1) \div Page)
               PROVE  FileMmap(given[h] + k * Page, bo[h].size - k * Page)
                        = [res |-> held[h], at |-> k * Page]
    BY DEF MmapResolves
  <2> DEFINE size == bo[h].size
             place == k * Page
             offset == given[h] + place
             len == size - place
  <2>1. Page \in Nat /\ Page > 0 /\ Width \in Nat /\ Width > 0 /\ size \in Nat
    <3>1. \A s \in Sizes : s \in Nat
      BY DrmVirtgpuAssumption
    <3>2. bo[h] \in BoSet
      BY Typed DEF IInv
    <3>3. bo[h].size \in {0} \cup Sizes
      BY <3>2 DEF BoSet
    <3>4. size \in Nat
      BY <3>1, <3>3
    <3> QED
      BY <3>4, DrmVirtgpuAssumption
  <2>2. k \in Nat /\ place \in Nat /\ place = Page * k /\ place < size
    <3> DEFINE m == size - 1
               q == m \div Page
    <3>1. q \in Int /\ k \in 0..q
      BY <2>1
    <3>2. k \in Nat /\ place \in Nat /\ place = Page * k
      BY <2>1
    <3>3. m >= 0
      <4> SUFFICES ASSUME size = 0 PROVE FALSE
        BY <2>1
      <4>1. (0 - 1) \div Page < 0
        BY <2>1
      <4> QED
        BY <3>1, <4>1
    <3>4. m = Page * q + (m % Page) /\ m % Page >= 0
      <4> HIDE DEF m
      <4>1. m \in Nat
        BY <2>1, <3>3 DEF m
      <4> QED
        BY <2>1, <4>1
    <3> HIDE DEF q
    <3>5. Page * (q - k) >= 0 /\ Page * (q - k) = Page * q - Page * k
      BY <2>1, <3>1, <3>2
    <3> DEFINE x == Page * k
               y == Page * q
               r == m % Page
    <3>6. r \in Int /\ m \in Int /\ m = size - 1 /\ size \in Int
      BY <2>1
    <3>7. x \in Int /\ y \in Int /\ y - x >= 0
      BY <2>1, <3>1, <3>2, <3>5
    <3>8. place = x /\ m = y + r /\ r >= 0
      BY <3>2, <3>4
    <3> HIDE DEF x, y, r, m
    <3>9. x < size
      BY ONLY <3>6, <3>7, <3>8
    <3> QED
      BY <3>2, <3>8, <3>9
  <2>3. PICK i \in Slots : mmaps[i].bo_handle = h /\ mmaps[i].offset = given[h]
    BY DEF OffsetsInv, EntriesHeld
  <2>4. h # 0 /\ \A j \in Slots : mmaps[j].offset \in Nat /\ mmaps[j].size \in Nat
    BY Typed DEF IInv, EntrySet
  <2>5. mmaps[i].ptr = held[h] /\ mmaps[i].ptr # 0 /\ mmaps[i].size = EntrySize(h)
    BY <2>3, <2>4 DEF OffsetsInv, EntriesHeld, LinksInv, EntryLinks
  <2>6. mmaps[i].size >= size
    <3>1. size % Width = size
      BY <2>1
    <3> HIDE DEF size
    <3>2. AlignUp(size) >= size
      BY <2>1, AlignUpIs
    <3> QED
      BY <2>5, <3>1, <3>2 DEF EntrySize, size
  <2> DEFINE hits == {j \in Slots : /\ mmaps[j].bo_handle # 0 /\ mmaps[j].ptr # 0
                                    /\ offset >= mmaps[j].offset
                                    /\ offset < mmaps[j].offset + mmaps[j].size}
             first == CHOOSE j \in FirstOf(hits) : TRUE
  <2> HIDE DEF size, place
  <2>7. offset \in Nat /\ offset >= mmaps[i].offset /\ offset < mmaps[i].offset + mmaps[i].size
        /\ offset - mmaps[i].offset = place
    BY <2>1, <2>2, <2>3, <2>4, <2>6
  <2>8. i \in hits
    BY <2>3, <2>4, <2>5, <2>7
  <2>9. \A j \in hits : j = i
    <3> SUFFICES ASSUME NEW j \in hits, j # i PROVE FALSE
      OBVIOUS
    <3>1. \/ mmaps[i].offset + mmaps[i].size <= mmaps[j].offset
          \/ mmaps[j].offset + mmaps[j].size <= mmaps[i].offset
      BY <2>3, <2>4 DEF OffsetsInv, RangesApart
    <3>2. offset >= mmaps[j].offset /\ offset < mmaps[j].offset + mmaps[j].size /\ j \in Slots
      OBVIOUS
    <3> HIDE DEF offset
    <3> QED
      BY <2>4, <2>7, <3>1, <3>2
  <2>10. hits \subseteq Slots /\ hits # {}
    BY <2>8
  <2>11. first = i
    <3>1. first \in FirstOf(hits)
      BY <2>10, FirstExists
    <3> QED
      BY <2>9, <3>1, Zenon DEF FirstOf
  <2>12. offset % Page = 0
    <3>1. PICK p \in Nat : given[h] = Page * p
      BY <2>3, <2>4 DEF OffsetsInv, RangesApart, Aligned
    <3>2. offset = Page * (p + k) /\ p + k \in Nat
      BY <2>1, <2>2, <3>1
    <3> HIDE DEF offset
    <3> QED
      BY <3>2, AlignedMod
  <2>13. ~(len > mmaps[first].size - (offset - mmaps[first].offset))
    <3>1. offset - mmaps[first].offset = place /\ mmaps[first].size >= size
      BY <2>6, <2>7, <2>11
    <3>2. mmaps[first].size \in Nat
      BY <2>4, <2>11
    <3> HIDE DEF first, offset
    <3> QED
      BY <2>1, <2>2, <3>1, <3>2
  <2>14. FileMmap(offset, len)
           = IF hits = {} \/ offset % Page # 0
                \/ len > mmaps[first].size - (offset - mmaps[first].offset)
             THEN [res |-> 0, at |-> 0]
             ELSE [res |-> mmaps[first].ptr, at |-> offset - mmaps[first].offset]
    BY DEF FileMmap
  <2> HIDE DEF hits, first, offset, len
  <2>15. FileMmap(offset, len) = [res |-> held[h], at |-> place]
    BY <2>5, <2>7, <2>10, <2>11, <2>12, <2>13, <2>14
  <2> QED
    BY <2>15 DEF offset, len, place, size
<1> QED
  BY <1>1, OffsetsInvariant, PTL
=============================================================================
