-------------------------- MODULE VulkanMemoryProofs --------------------------
(***************************************************************************)
(* Proofs about VulkanMemory, for any threads, number of slots, memories   *)
(* and resource ids: whose mapping a pointer leads to, and what the table  *)
(* and the driver's resources account for.                                 *)
(*                                                                         *)
(* The slot a thread fills is not marked until it is done.  What the proof *)
(* keeps is that two threads in one slot are both exempted (Apart), that a *)
(* slot in use is not another thread's unless both memories are exempted   *)
(* (Occupied), and that a memory that is not exempted takes its slot and   *)
(* its blob through the steps as if it were alone (Working).               *)
(***************************************************************************)
EXTENDS VulkanMemory, TLAPS

AllocSteps == {"submit", "create", "map", "attach", "commit", "undo_unmap", "undo_destroy"}
FreeSteps == {"free_unmap", "free_destroy"}

\* The state of a blob whose memory is h before step p, with the table g, the
\* origins o and the failures f.
Consistent(b, h, g, o) ==
  \/ b.res = 0 /\ ~b.mapped
  \/ /\ b.res # 0 /\ o[b.res] = h
     /\ \/ b.mapped /\ g[b.res] \in {"half", "mapped"}
        \/ ~b.mapped /\ g[b.res] = "made"

Exported(b, h, g, o) ==
  /\ b.res # 0 /\ b.mapped /\ b.addr = b.res
  /\ g[b.res] = "mapped" /\ o[b.res] = h

Fits(p, b, h, g, o, f) ==
  /\ p \in {"submit", "create"} => b.res = 0 /\ ~b.mapped
  /\ p = "map" => b.res # 0 /\ ~b.mapped /\ b.addr = 0 /\ g[b.res] = "made" /\ o[b.res] = h
  /\ p \in {"attach", "commit", "free_unmap"} => Exported(b, h, g, o)
  /\ p = "undo_unmap" => Consistent(b, h, g, o)
  /\ p \in {"undo_destroy", "free_destroy"} =>
       Consistent(b, h, g, o) /\ (b.mapped => b.res \in f)

-----------------------------------------------------------------------------
(* The inductive invariant *)

\* Threads work on different memories, and those in one slot are exempted.
Apart ==
  \A t, u \in Busy : t # u =>
    /\ cur[t].handle # cur[u].handle
    /\ cur[t].slot = cur[u].slot => cur[t].handle \in shared

\* A slot in use is that of the memory being freed, or exempted.
Occupied ==
  \A t \in Busy : g_hv_mem[cur[t].slot].used =>
    \/ pc[t] \in FreeSteps /\ cur[t].handle = g_hv_mem[cur[t].slot].handle
    \/ cur[t].handle \in shared /\ g_hv_mem[cur[t].slot].handle \in shared

\* What the application knows of the memory a thread works on.
Stages ==
  \A t \in Busy : /\ pc[t] \in AllocSteps => life[cur[t].handle] = "pending"
                  /\ pc[t] \in FreeSteps => life[cur[t].handle] = "freeing"

\* A slot in use has the handle of a memory that came to be, and no other slot has it.
Entries ==
  \A i \in Slots : g_hv_mem[i].used =>
    /\ g_hv_mem[i].handle \in Handles
    /\ life[g_hv_mem[i].handle] \notin {"none", "pending"}
    /\ \/ g_hv_mem[i].handle \in shared
       \/ life[g_hv_mem[i].handle] \in {"exported", "freeing"}
    /\ \A j \in Slots : g_hv_mem[j].used /\ g_hv_mem[j].handle = g_hv_mem[i].handle => i = j

\* A memory being freed still has its slot.
Freeing ==
  \A t \in Busy : pc[t] \in FreeSteps /\ cur[t].handle \notin shared =>
    g_hv_mem[cur[t].slot].used /\ g_hv_mem[cur[t].slot].handle = cur[t].handle

\* An exported memory has a slot, and the slot its blob.
HasSlot ==
  \A h \in Handles \ shared : life[h] = "exported" =>
    \E i \in Slots : g_hv_mem[i].used /\ g_hv_mem[i].handle = h

SlotExported ==
  \A i \in Slots :
    g_hv_mem[i].used /\ g_hv_mem[i].handle \notin shared
      /\ life[g_hv_mem[i].handle] = "exported" =>
      Exported(g_hv_mem[i].blob, g_hv_mem[i].handle, gpu, origin)

\* Resource ids are taken in order, no two slots have the same one, and a mapped
\* blob has one.
Fresh ==
  /\ \A i \in Slots : g_hv_mem[i].blob.res < next_res
  /\ \A r \in ResIds : r >= next_res => gpu[r] = "none"
  /\ \A i, j \in Slots :
       g_hv_mem[i].blob.res # 0 /\ g_hv_mem[i].blob.res = g_hv_mem[j].blob.res => i = j
  /\ \A i \in Slots : g_hv_mem[i].blob.mapped => g_hv_mem[i].blob.res # 0

Working ==
  \A t \in Busy : cur[t].handle \notin shared =>
    Fits(pc[t], g_hv_mem[cur[t].slot].blob, cur[t].handle, gpu, origin, failed)

\* Where a resource made here is accounted for.
Accounted ==
  \A r \in ResIds : gpu[r] # "none" =>
    \/ r \in failed
    \/ origin[r] \in shared
    \/ \E i \in Slots :
         /\ g_hv_mem[i].blob.res = r
         /\ \/ g_hv_mem[i].used /\ g_hv_mem[i].handle = origin[r]
            \/ \E t \in Busy : cur[t].slot = i /\ cur[t].handle = origin[r]

\* A thread that rests is in no slot.
Resting == \A t \in Threads : pc[t] = "idle" => cur[t].slot = 0

IInv == /\ TypeOK /\ Resting
        /\ Apart /\ Occupied /\ Stages
        /\ Entries /\ Freeing /\ HasSlot /\ SlotExported
        /\ Fresh /\ Working /\ Accounted

-----------------------------------------------------------------------------
(* Types *)

BlobSet == [res : 0..MaxRes, mapped : BOOLEAN, addr : 0..MaxRes]
SlotSet == [used : BOOLEAN, handle : 0..MaxMem, blob : BlobSet]
WorkSet == [handle : 0..MaxMem, slot : 0..HvMax]

\* Types in the form the steps below use.
LEMMA Typed ==
  ASSUME TypeOK
  PROVE  /\ MaxRes \in Nat /\ MaxMem \in Nat /\ HvMax \in Nat
         /\ g_hv_mem \in [Slots -> SlotSet]
         /\ gpu \in [ResIds -> Layer!States] /\ Layer!ResIds = ResIds
         /\ next_res \in 1..(MaxRes + 1) /\ next_res \in Nat
         /\ life \in [Handles -> Lives]
         /\ pc \in [Threads -> Steps]
         /\ cur \in [Threads -> WorkSet]
         /\ \A t \in Threads : pc[t] # "idle" => cur[t].handle \in Handles /\ cur[t].slot \in Slots
         /\ origin \in [ResIds -> 0..MaxMem]
         /\ shared \in SUBSET Handles
         /\ failed \in SUBSET ResIds
<1>1. MaxRes \in Nat /\ MaxMem \in Nat /\ HvMax \in Nat
  BY VulkanMemoryAssumption
<1>2. g_hv_mem \in [Slots -> SlotSet] /\ cur \in [Threads -> WorkSet]
  BY Zenon DEF TypeOK, SlotSet, BlobSet, WorkSet
<1>3. Layer!ResIds = ResIds
  BY DEF ResIds, Layer!ResIds
<1>4. next_res \in 1..(MaxRes + 1)
  BY DEF TypeOK
<1>5. next_res \in Nat
  BY <1>1, <1>4
<1>6. \A t \in Threads : pc[t] # "idle" => cur[t].handle \in Handles /\ cur[t].slot \in Slots
  BY DEF TypeOK, Busy
<1> QED
  BY <1>1, <1>2, <1>3, <1>4, <1>5, <1>6, Zenon DEF TypeOK

\* Types of the fields.
LEMMA Fields ==
  ASSUME TypeOK
  PROVE  /\ \A i \in Slots :
              /\ g_hv_mem[i].used \in BOOLEAN /\ g_hv_mem[i].handle \in 0..MaxMem
              /\ g_hv_mem[i].blob \in BlobSet
              /\ g_hv_mem[i].blob.res \in 0..MaxRes /\ g_hv_mem[i].blob.addr \in 0..MaxRes
              /\ g_hv_mem[i].blob.mapped \in BOOLEAN
              /\ i # 0
         /\ \A r \in 0..MaxRes : r # 0 => r \in ResIds
         /\ \A r \in ResIds : r # 0 /\ r \in 0..MaxRes
         /\ \A r \in ResIds : gpu[r] \in Layer!States
         /\ 0 \in 0..MaxRes /\ 0 \in 0..MaxMem /\ 0 \in 0..HvMax
         /\ \A t \in Threads : pc[t] # "idle" <=> pc[t] \in AllocSteps \cup FreeSteps
         /\ AllocSteps \cap FreeSteps = {}
<1>1. \A i \in Slots : g_hv_mem[i] \in SlotSet
  BY Typed
<1>2. \A i \in Slots : /\ g_hv_mem[i].used \in BOOLEAN /\ g_hv_mem[i].handle \in 0..MaxMem
                       /\ g_hv_mem[i].blob \in BlobSet
  BY <1>1 DEF SlotSet
<1>3. \A i \in Slots : /\ g_hv_mem[i].blob.res \in 0..MaxRes /\ g_hv_mem[i].blob.addr \in 0..MaxRes
                       /\ g_hv_mem[i].blob.mapped \in BOOLEAN
  BY <1>2 DEF BlobSet
<1>4. /\ \A i \in Slots : i # 0
      /\ \A r \in 0..MaxRes : r # 0 => r \in ResIds
      /\ \A r \in ResIds : r # 0 /\ r \in 0..MaxRes
      /\ 0 \in 0..MaxRes /\ 0 \in 0..MaxMem /\ 0 \in 0..HvMax
  BY VulkanMemoryAssumption DEF Slots, ResIds
<1>5. \A r \in ResIds : gpu[r] \in Layer!States
  BY Typed
<1>6. \A t \in Threads : pc[t] # "idle" <=> pc[t] \in AllocSteps \cup FreeSteps
  BY Typed DEF Steps, AllocSteps, FreeSteps
<1>7. AllocSteps \cap FreeSteps = {}
  BY DEF AllocSteps, FreeSteps
<1> QED
  BY <1>2, <1>3, <1>4, <1>5, <1>6, <1>7

\* What the steps put into the table.
LEMMA Made ==
  /\ \A r, m, a : /\ AsBlob(r, m, a).res = r /\ AsBlob(r, m, a).mapped = m
                  /\ AsBlob(r, m, a).addr = a
  /\ \A u, h, b : /\ AsSlot(u, h, b).used = u /\ AsSlot(u, h, b).handle = h
                  /\ AsSlot(u, h, b).blob = b
  /\ \A s, b : /\ Holding(s, b).used = s.used /\ Holding(s, b).handle = s.handle
               /\ Holding(s, b).blob = b
  /\ NoBlob.res = 0 /\ NoBlob.mapped = FALSE /\ NoBlob.addr = 0
  /\ \A r \in 0..MaxRes, a \in 0..MaxRes, m \in BOOLEAN : AsBlob(r, m, a) \in BlobSet
  /\ \A u \in BOOLEAN, h \in 0..MaxMem, b \in BlobSet : AsSlot(u, h, b) \in SlotSet
  BY DEF AsBlob, AsSlot, Holding, NoBlob, BlobSet, SlotSet

LEMMA NoBlobType == NoBlob \in BlobSet
<1>1. 0 \in 0..MaxRes
  BY VulkanMemoryAssumption
<1> QED
  BY <1>1 DEF NoBlob, AsBlob, BlobSet

\* The table with the thread's slot holding another blob.
LEMMA WithBlobIs ==
  ASSUME TypeOK, NEW t \in Threads, pc[t] # "idle", NEW b \in BlobSet
  PROVE  /\ WithBlob(t, b) \in [Slots -> SlotSet]
         /\ \A j \in Slots : /\ WithBlob(t, b)[j].used = g_hv_mem[j].used
                             /\ WithBlob(t, b)[j].handle = g_hv_mem[j].handle
                             /\ j # cur[t].slot => WithBlob(t, b)[j].blob = g_hv_mem[j].blob
         /\ WithBlob(t, b)[cur[t].slot].blob = b
<1> DEFINE i == cur[t].slot
           s == Holding(g_hv_mem[i], b)
<1>1. i \in Slots /\ g_hv_mem[i].used \in BOOLEAN /\ g_hv_mem[i].handle \in 0..MaxMem
  BY Typed, Fields
<1>2. s \in SlotSet
  BY <1>1, Made DEF Holding
<1>3. s.used = g_hv_mem[i].used /\ s.handle = g_hv_mem[i].handle /\ s.blob = b
  BY Made
<1>4. WithBlob(t, b) = [g_hv_mem EXCEPT ![i] = s]
  BY DEF WithBlob
<1> HIDE DEF s, i
<1>5. /\ WithBlob(t, b) \in [Slots -> SlotSet]
      /\ \A j \in Slots : WithBlob(t, b)[j] = IF j = i THEN s ELSE g_hv_mem[j]
  BY <1>1, <1>2, <1>4, Typed
<1> QED
  BY <1>1, <1>3, <1>5 DEF i

\* TypeOK after a step, from the types of what changed.
LEMMA TypeNext ==
  ASSUME g_hv_mem' \in [Slots -> SlotSet],
         gpu' \in [ResIds -> Layer!States],
         next_res' \in 1..(MaxRes + 1),
         life' \in [Handles -> Lives],
         pc' \in [Threads -> Steps],
         cur' \in [Threads -> WorkSet],
         \A t \in Threads : pc'[t] # "idle" => cur'[t].handle \in Handles /\ cur'[t].slot \in Slots,
         origin' \in [ResIds -> 0..MaxMem],
         shared' \in SUBSET Handles,
         failed' \in SUBSET ResIds
  PROVE  TypeOK'
<1>1. \A t \in Busy' : cur'[t].handle \in Handles /\ cur'[t].slot \in Slots
  BY DEF Busy
<1> QED
  BY <1>1, Zenon DEF TypeOK, SlotSet, BlobSet, WorkSet

-----------------------------------------------------------------------------
(* A step of a thread within its call *)

\* What holds of a blob before a step holds on with another table that agrees on it.
LEMMA FitsKept ==
  ASSUME NEW p, NEW b, NEW h, NEW g, NEW o, NEW f, NEW g2, NEW o2, NEW f2,
         b.res # 0 => g2[b.res] = g[b.res] /\ o2[b.res] = o[b.res],
         \A r : r \in f => r \in f2,
         Fits(p, b, h, g, o, f)
  PROVE  Fits(p, b, h, g2, o2, f2)
<1>1. Consistent(b, h, g, o) => Consistent(b, h, g2, o2)
  BY DEF Consistent
<1>2. Exported(b, h, g, o) => Exported(b, h, g2, o2)
  BY DEF Exported
<1>3. p = "map" => b.res # 0 /\ ~b.mapped /\ b.addr = 0 /\ g2[b.res] = "made" /\ o2[b.res] = h
  BY DEF Fits
<1> QED
  BY <1>1, <1>2, <1>3 DEF Fits

\* The thread stays in its slot: its blob keeps its resource or takes the next
\* one, and only that resource's entry changes.
LEMMA WorkStep ==
  ASSUME IInv, TypeOK',
         NEW t \in Threads, NEW p \in Steps,
         pc[t] # "idle", pc' = [pc EXCEPT ![t] = p],
         (pc[t] \in AllocSteps /\ p \in AllocSteps) \/ (pc[t] \in FreeSteps /\ p \in FreeSteps),
         UNCHANGED <<cur, life, shared>>,
         \A r : r \in failed => r \in failed',
         NEW i, i = cur[t].slot,
         \A j \in Slots : /\ g_hv_mem'[j].used = g_hv_mem[j].used
                          /\ g_hv_mem'[j].handle = g_hv_mem[j].handle
                          /\ j # i => g_hv_mem'[j].blob = g_hv_mem[j].blob,
         \/ g_hv_mem'[i].blob.res = g_hv_mem[i].blob.res
         \/ g_hv_mem[i].blob.res = 0 /\ g_hv_mem'[i].blob.res = next_res,
         g_hv_mem'[i].blob.mapped => g_hv_mem'[i].blob.res # 0,
         next_res <= next_res', g_hv_mem'[i].blob.res < next_res',
         \A r \in ResIds : r < next_res =>
           /\ origin'[r] = origin[r]
           /\ r # g_hv_mem[i].blob.res => gpu'[r] = gpu[r],
         \A r \in ResIds : gpu'[r] # "none" =>
           \/ gpu[r] # "none"
           \/ r = g_hv_mem'[i].blob.res /\ origin'[r] = cur[t].handle,
         cur[t].handle \notin shared =>
           Fits(p, g_hv_mem'[i].blob, cur[t].handle, gpu', origin', failed')
  PROVE  IInv'
<1> USE DEF IInv
<1>1. i \in Slots /\ t \in Busy /\ p # "idle"
  BY Typed DEF Busy, AllocSteps, FreeSteps
<1>2. \A u \in Threads : pc'[u] = IF u = t THEN p ELSE pc[u]
  BY Typed
<1>3. /\ \A u \in Threads : u \in Busy' <=> u \in Busy
      /\ \A u \in Threads : pc'[u] \in AllocSteps <=> pc[u] \in AllocSteps
      /\ \A u \in Threads : pc'[u] \in FreeSteps <=> pc[u] \in FreeSteps
  BY <1>1, <1>2, Fields DEF Busy
<1>4. \A u : u \in Busy' <=> u \in Busy
  BY <1>3 DEF Busy
<1>5. \A j \in Slots : g_hv_mem[j].blob.res \in 0..MaxRes /\ g_hv_mem[j].blob.res < next_res
  BY Fields DEF Fresh
<1>6. \A r \in ResIds : gpu[r] # "none" => r < next_res
  BY Typed DEF Fresh, ResIds
<1>7. ASSUME NEW j \in Slots, j # i, g_hv_mem[j].blob.res # 0
      PROVE  /\ gpu'[g_hv_mem[j].blob.res] = gpu[g_hv_mem[j].blob.res]
             /\ origin'[g_hv_mem[j].blob.res] = origin[g_hv_mem[j].blob.res]
  <2>1. g_hv_mem[j].blob.res \in ResIds /\ g_hv_mem[j].blob.res < next_res
    BY <1>5, <1>7, Fields
  <2>2. g_hv_mem[j].blob.res # g_hv_mem[i].blob.res
    BY <1>1, <1>7 DEF Fresh
  <2> QED
    BY <2>1, <2>2
<1>8. Resting'
  BY <1>2, <1>1 DEF Resting
<1>9. Apart'
  BY <1>4 DEF Apart
<1>10. Occupied'
  BY <1>3, <1>4, Typed DEF Occupied, Busy
<1>11. Stages'
  BY <1>3, <1>4 DEF Stages, Busy
<1>12. Entries'
  BY DEF Entries
<1>13. Freeing'
  BY <1>3, <1>4, Typed DEF Freeing, Busy
<1>14. HasSlot'
  BY DEF HasSlot
<1>15. SlotExported'
  <2> SUFFICES ASSUME NEW j \in Slots, g_hv_mem[j].used, g_hv_mem[j].handle \notin shared,
                      life[g_hv_mem[j].handle] = "exported"
               PROVE  Exported(g_hv_mem'[j].blob, g_hv_mem[j].handle, gpu', origin')
    BY DEF SlotExported
  <2>1. Exported(g_hv_mem[j].blob, g_hv_mem[j].handle, gpu, origin)
    BY DEF SlotExported
  <2>2. j # i
    BY <1>1, Fields DEF Occupied, Stages, Busy
  <2>3. g_hv_mem'[j].blob = g_hv_mem[j].blob
    BY <2>2
  <2> QED
    BY <2>1, <2>2, <2>3, <1>7 DEF Exported
<1>16. Fresh'
  <2>1. \A j \in Slots : g_hv_mem'[j].blob.res < next_res'
    <3>1. next_res' \in Nat /\ next_res \in Nat /\ \A j \in Slots : g_hv_mem[j].blob.res \in Nat
      BY <1>5, Typed DEF TypeOK
    <3>2. \A j \in Slots : j # i => g_hv_mem'[j].blob.res = g_hv_mem[j].blob.res
      OBVIOUS
    <3> QED
      BY <1>5, <3>1, <3>2
  <2>2. \A r \in ResIds : r >= next_res' => gpu'[r] = "none"
    <3> SUFFICES ASSUME NEW r \in ResIds, r >= next_res', gpu'[r] # "none"
                 PROVE  FALSE
      OBVIOUS
    <3>1. next_res' \in Nat /\ next_res \in Nat /\ r \in Nat
      BY Typed DEF TypeOK, ResIds
    <3>2. CASE gpu[r] # "none"
      BY <3>1, <3>2, <1>6
    <3>3. CASE r = g_hv_mem'[i].blob.res
      BY <3>1, <3>3
    <3> QED
      BY <3>2, <3>3
  <2>3. ASSUME NEW j \in Slots, NEW k \in Slots, g_hv_mem'[j].blob.res # 0,
               g_hv_mem'[j].blob.res = g_hv_mem'[k].blob.res
        PROVE  j = k
    <3>1. next_res \in Nat /\ \A m \in Slots : g_hv_mem[m].blob.res # next_res
      BY <1>5, Typed
    <3>2. \A m \in Slots : m # i => g_hv_mem'[m].blob.res = g_hv_mem[m].blob.res
      OBVIOUS
    <3>3. CASE g_hv_mem'[i].blob.res = g_hv_mem[i].blob.res
      BY <3>2, <3>3, <2>3 DEF Fresh
    <3>4. CASE g_hv_mem'[i].blob.res = next_res
      BY <3>1, <3>2, <3>4, <2>3 DEF Fresh
    <3> QED
      BY <3>3, <3>4
  <2>4. \A j \in Slots : g_hv_mem'[j].blob.mapped => g_hv_mem'[j].blob.res # 0
    BY DEF Fresh
  <2> QED
    BY <2>1, <2>2, <2>3, <2>4 DEF Fresh
<1>17. Working'
  <2> SUFFICES ASSUME NEW u \in Busy, cur[u].handle \notin shared
               PROVE  Fits(pc'[u], g_hv_mem'[cur[u].slot].blob, cur[u].handle, gpu', origin', failed')
    BY <1>4 DEF Working
  <2>1. CASE u = t
    BY <2>1, <1>2
  <2>2. CASE u # t
    <3>1. cur[u].slot # i /\ cur[u].slot \in Slots /\ u \in Threads
      BY <2>2, <1>1, Typed DEF Apart, Busy
    <3>2. Fits(pc[u], g_hv_mem[cur[u].slot].blob, cur[u].handle, gpu, origin, failed)
      BY DEF Working
    <3>3. Fits(pc[u], g_hv_mem[cur[u].slot].blob, cur[u].handle, gpu', origin', failed')
      BY <3>1, <3>2, <1>7, FitsKept
    <3> QED
      BY <2>2, <3>1, <3>3, <1>2
  <2> QED
    BY <2>1, <2>2
<1>18. Accounted'
  <2> SUFFICES ASSUME NEW r \in ResIds, gpu'[r] # "none", r \notin failed', origin'[r] \notin shared
               PROVE  \E j \in Slots :
                        /\ g_hv_mem'[j].blob.res = r
                        /\ \/ g_hv_mem[j].used /\ g_hv_mem[j].handle = origin'[r]
                           \/ \E u \in Busy : cur[u].slot = j /\ cur[u].handle = origin'[r]
    BY <1>4 DEF Accounted
  <2>1. CASE gpu[r] # "none"
    <3>1. r < next_res /\ origin'[r] = origin[r] /\ r # 0
      BY <2>1, <1>6, Fields
    <3>a. Accounted /\ r \in ResIds /\ gpu[r] # "none" /\ r \notin failed /\ origin[r] \notin shared
      BY <2>1, <3>1
    <3>2. PICK j \in Slots :
            /\ g_hv_mem[j].blob.res = r
            /\ \/ g_hv_mem[j].used /\ g_hv_mem[j].handle = origin[r]
               \/ \E u \in Busy : cur[u].slot = j /\ cur[u].handle = origin[r]
      BY ONLY <3>a DEF Accounted
    <3>3. g_hv_mem'[j].blob.res = r
      BY <3>1, <3>2
    <3> QED
      BY <3>1, <3>2, <3>3
  <2>2. CASE r = g_hv_mem'[i].blob.res /\ origin'[r] = cur[t].handle
    BY <2>2, <1>1
  <2> QED
    BY <2>1, <2>2
<1> QED
  BY <1>8, <1>9, <1>10, <1>11, <1>12, <1>13, <1>14, <1>15, <1>16, <1>17, <1>18

-----------------------------------------------------------------------------
(* The last step of a call *)

\* The thread leaves its slot: what holds of the others, whatever it leaves.
LEMMA LeaveOthers ==
  ASSUME IInv, TypeOK',
         NEW t \in Threads, NEW l \in Lives, pc[t] # "idle",
         Return(t, cur[t].handle, l),
         UNCHANGED <<next_res, origin, shared>>,
         \A r : r \in failed => r \in failed',
         NEW i, i = cur[t].slot,
         \A j \in Slots : j # i => g_hv_mem'[j] = g_hv_mem[j],
         g_hv_mem'[i].blob.res \in {0, g_hv_mem[i].blob.res},
         g_hv_mem'[i].blob.mapped => g_hv_mem'[i].blob.res # 0,
         \A r \in ResIds : /\ r # g_hv_mem[i].blob.res => gpu'[r] = gpu[r]
                           /\ gpu[r] = "none" => gpu'[r] = "none"
  PROVE  /\ i \in Slots /\ t \in Busy
         /\ \A u : u \in Busy' <=> u \in Busy /\ u # t
         /\ \A u \in Threads : u # t => pc'[u] = pc[u] /\ cur'[u] = cur[u]
         /\ \A u \in Busy : u # t => /\ cur[u].handle # cur[t].handle
                                     /\ cur[u].slot = i => /\ cur[u].handle \in shared
                                                           /\ cur[t].handle \in shared
         /\ \A h \in Handles : life'[h] = IF h = cur[t].handle THEN l ELSE life[h]
         /\ \A j \in Slots : j # i /\ g_hv_mem[j].blob.res # 0 =>
              gpu'[g_hv_mem[j].blob.res] = gpu[g_hv_mem[j].blob.res]
         /\ Resting' /\ Apart' /\ Stages' /\ Freeing' /\ Fresh' /\ Working'
<1> USE DEF IInv
<1>1. i \in Slots /\ t \in Busy
  BY Typed DEF Busy
<1>2. /\ \A u \in Threads : pc'[u] = IF u = t THEN "idle" ELSE pc[u]
      /\ \A u \in Threads : cur'[u] = IF u = t THEN NoWork ELSE cur[u]
      /\ \A h \in Handles : life'[h] = IF h = cur[t].handle THEN l ELSE life[h]
  BY Typed DEF Return, Goto
<1>3. \A u : u \in Busy' <=> u \in Busy /\ u # t
  BY <1>2 DEF Busy
<1>4. \A u \in Threads : u # t => pc'[u] = pc[u] /\ cur'[u] = cur[u]
  BY <1>2
<1>5. \A u \in Busy : u # t => /\ cur[u].handle # cur[t].handle
                               /\ cur[u].slot = i => /\ cur[u].handle \in shared
                                                     /\ cur[t].handle \in shared
  BY <1>1 DEF Apart
<1>6. \A u \in Busy : u \in Threads /\ cur[u].handle \in Handles /\ cur[u].slot \in Slots
  BY Typed DEF Busy
<1>7. \A j \in Slots : g_hv_mem[j].blob.res \in 0..MaxRes /\ g_hv_mem[j].blob.res < next_res
  BY Fields DEF Fresh
<1>8. ASSUME NEW j \in Slots, j # i, g_hv_mem[j].blob.res # 0
      PROVE  gpu'[g_hv_mem[j].blob.res] = gpu[g_hv_mem[j].blob.res]
  <2>1. g_hv_mem[j].blob.res \in ResIds
    BY <1>7, <1>8, Fields
  <2>2. g_hv_mem[j].blob.res # g_hv_mem[i].blob.res
    BY <1>1, <1>8 DEF Fresh
  <2> QED
    BY <2>1, <2>2
<1>9. Resting'
  BY <1>2 DEF Resting, NoWork
<1>10. Apart'
  BY <1>3, <1>4, <1>6 DEF Apart
<1>11. Stages'
  BY <1>2, <1>3, <1>4, <1>5, <1>6 DEF Stages
<1>12. Freeing'
  BY <1>3, <1>4, <1>5, <1>6 DEF Freeing
<1>13. Fresh'
  <2>1. \A j \in Slots : g_hv_mem'[j].blob.res \in {0, g_hv_mem[j].blob.res}
    OBVIOUS
  <2>2. \A j \in Slots : g_hv_mem'[j].blob.res < next_res'
    BY <2>1, <1>7, Typed
  <2>3. \A r \in ResIds : r >= next_res' => gpu'[r] = "none"
    BY DEF Fresh
  <2>4. ASSUME NEW j \in Slots, NEW k \in Slots, g_hv_mem'[j].blob.res # 0,
               g_hv_mem'[j].blob.res = g_hv_mem'[k].blob.res
        PROVE  j = k
    BY <2>1, <2>4 DEF Fresh
  <2>5. \A j \in Slots : g_hv_mem'[j].blob.mapped => g_hv_mem'[j].blob.res # 0
    BY DEF Fresh
  <2> QED
    BY <2>2, <2>3, <2>4, <2>5 DEF Fresh
<1>14. Working'
  <2> SUFFICES ASSUME NEW u \in Busy, u # t, cur[u].handle \notin shared
               PROVE  Fits(pc[u], g_hv_mem'[cur[u].slot].blob, cur[u].handle, gpu', origin', failed')
    BY <1>3, <1>4, <1>6 DEF Working
  <2>1. cur[u].slot # i /\ cur[u].slot \in Slots
    BY <1>5, <1>6
  <2>2. Fits(pc[u], g_hv_mem[cur[u].slot].blob, cur[u].handle, gpu, origin, failed)
    BY DEF Working
  <2>3. Fits(pc[u], g_hv_mem[cur[u].slot].blob, cur[u].handle, gpu', origin', failed')
    BY <2>1, <2>2, <1>8, FitsKept
  <2> QED
    BY <2>1, <2>3
<1> QED
  BY <1>1, <1>2, <1>3, <1>4, <1>5, <1>8, <1>9, <1>10, <1>11, <1>12, <1>13, <1>14

\* Resources outside the thread's slot stay accounted for.
LEMMA LeaveAccounted ==
  ASSUME IInv, TypeOK',
         NEW t \in Threads, pc[t] # "idle",
         \A u : u \in Busy' <=> u \in Busy /\ u # t,
         \A u \in Threads : u # t => cur'[u] = cur[u],
         UNCHANGED <<origin, shared>>,
         \A r : r \in failed => r \in failed',
         NEW i \in Slots, i = cur[t].slot,
         \A j \in Slots : j # i => g_hv_mem'[j] = g_hv_mem[j],
         \A r \in ResIds : gpu[r] = "none" => gpu'[r] = "none",
         \A r \in ResIds :
           gpu'[r] # "none" /\ g_hv_mem[i].blob.res = r /\ origin[r] = cur[t].handle =>
             \/ r \in failed' \/ origin[r] \in shared
             \/ g_hv_mem'[i].blob.res = r /\ g_hv_mem'[i].used /\ g_hv_mem'[i].handle = origin[r]
  PROVE  Accounted'
<1> USE DEF IInv
<1> SUFFICES ASSUME NEW r \in ResIds, gpu'[r] # "none", r \notin failed', origin[r] \notin shared
             PROVE  \E j \in Slots :
                      /\ g_hv_mem'[j].blob.res = r
                      /\ \/ g_hv_mem'[j].used /\ g_hv_mem'[j].handle = origin[r]
                         \/ \E u \in Busy' : cur'[u].slot = j /\ cur'[u].handle = origin[r]
  BY DEF Accounted
<1>1. PICK j \in Slots :
        /\ g_hv_mem[j].blob.res = r
        /\ \/ g_hv_mem[j].used /\ g_hv_mem[j].handle = origin[r]
           \/ \E u \in Busy : cur[u].slot = j /\ cur[u].handle = origin[r]
  BY DEF Accounted
<1>2. CASE j # i
  <2>1. g_hv_mem'[j] = g_hv_mem[j]
    BY <1>2
  <2>2. \A u \in Busy : cur[u].slot = j => u \in Busy' /\ cur'[u] = cur[u]
    BY <1>2 DEF Busy
  <2> QED
    BY <1>1, <2>1, <2>2
<1>3. CASE j = i
  <2>1. t \in Busy
    BY DEF Busy
  <2>2. origin[r] = cur[t].handle
    BY <1>1, <1>3, <2>1 DEF Occupied, Apart
  <2> QED
    BY <1>1, <1>3, <2>2
<1> QED
  BY <1>2, <1>3

-----------------------------------------------------------------------------
(* The steps of vkAllocateMemory and of the take-down *)

\* Facts about a busy thread.
LEMMA AtWork ==
  ASSUME IInv, NEW t \in Threads, pc[t] # "idle"
  PROVE  /\ TypeOK /\ t \in Busy /\ cur[t].slot \in Slots /\ cur[t].handle \in Handles
         /\ Blob(t) = g_hv_mem[cur[t].slot].blob
         /\ Blob(t) \in BlobSet /\ Blob(t) = AsBlob(Blob(t).res, Blob(t).mapped, Blob(t).addr)
         /\ Blob(t).res \in 0..MaxRes /\ Blob(t).addr \in 0..MaxRes
         /\ Blob(t).mapped \in BOOLEAN
         /\ Blob(t).res < next_res
         /\ Blob(t).mapped => Blob(t).res # 0
         /\ Blob(t).res # 0 => Blob(t).res \in ResIds /\ TableState(t) = gpu[Blob(t).res]
         /\ cur[t].handle \notin shared =>
              Fits(pc[t], Blob(t), cur[t].handle, gpu, origin, failed)
<1>1. TypeOK
  BY DEF IInv
<1>2. t \in Busy /\ cur[t].slot \in Slots /\ cur[t].handle \in Handles
  BY <1>1, Typed DEF Busy
<1>3. /\ Blob(t) = g_hv_mem[cur[t].slot].blob
      /\ Blob(t) \in BlobSet
      /\ Blob(t).res \in 0..MaxRes /\ Blob(t).addr \in 0..MaxRes
      /\ Blob(t).mapped \in BOOLEAN
  BY <1>1, <1>2, Fields DEF Blob
<1>4. Blob(t) = AsBlob(Blob(t).res, Blob(t).mapped, Blob(t).addr)
  BY <1>3 DEF BlobSet, AsBlob
<1>5. Blob(t).res < next_res /\ (Blob(t).mapped => Blob(t).res # 0)
  BY <1>2, <1>3 DEF IInv, Fresh
<1>6. Blob(t).res # 0 => Blob(t).res \in ResIds /\ TableState(t) = gpu[Blob(t).res]
  BY <1>1, <1>3, Fields DEF TableState
<1>7. cur[t].handle \notin shared => Fits(pc[t], Blob(t), cur[t].handle, gpu, origin, failed)
  BY <1>2, <1>3 DEF IInv, Working
<1> QED
  BY <1>1, <1>2, <1>3, <1>4, <1>5, <1>6, <1>7

\* Only the thread's step changes.
LEMMA GotoStep ==
  ASSUME IInv, NEW t \in Threads, pc[t] # "idle", NEW p \in Steps, Goto(t, p),
         (pc[t] \in AllocSteps /\ p \in AllocSteps) \/ (pc[t] \in FreeSteps /\ p \in FreeSteps),
         UNCHANGED <<g_hv_mem, gpuVars, life, cur, historyVars>>,
         cur[t].handle \notin shared =>
           Fits(p, Blob(t), cur[t].handle, gpu, origin, failed)
  PROVE  IInv'
<1>1. /\ TypeOK /\ cur[t].slot \in Slots /\ Blob(t) = g_hv_mem[cur[t].slot].blob
      /\ Blob(t).res < next_res /\ (Blob(t).mapped => Blob(t).res # 0)
  BY AtWork
<1>2. UNCHANGED <<g_hv_mem, gpu, next_res, life, cur, origin, shared, failed>>
  BY DEF gpuVars, historyVars
<1>3. pc' = [pc EXCEPT ![t] = p]
  BY DEF Goto
<1>4. next_res \in Nat
  BY <1>1, Typed
<1>5. TypeOK'
  BY <1>1, <1>2, <1>3, Typed, TypeNext
<1>6. cur[t].handle \notin shared =>
        Fits(p, g_hv_mem'[cur[t].slot].blob, cur[t].handle, gpu', origin', failed')
  BY <1>1, <1>2
<1>7. next_res <= next_res'
  BY <1>2, <1>4
<1>8. /\ g_hv_mem'[cur[t].slot].blob.res < next_res'
      /\ g_hv_mem'[cur[t].slot].blob.mapped => g_hv_mem'[cur[t].slot].blob.res # 0
  BY <1>1, <1>2
<1> QED
  BY <1>1, <1>2, <1>3, <1>5, <1>6, <1>7, <1>8, WorkStep

LEMMA SubmitAllocateStep ==
  ASSUME IInv, NEW t \in Threads, SubmitAllocate(t)
  PROVE  IInv'
<1>1. pc[t] = "submit" /\ pc[t] # "idle" /\ UNCHANGED <<g_hv_mem, gpuVars, life, cur, historyVars>>
  BY DEF SubmitAllocate
<1>2. PICK p \in {"create", "undo_unmap"} : Goto(t, p)
  BY DEF SubmitAllocate
<1>3. p \in Steps /\ p \in AllocSteps /\ pc[t] \in AllocSteps
  BY <1>1 DEF Steps, AllocSteps
<1>4. cur[t].handle \notin shared => Fits(p, Blob(t), cur[t].handle, gpu, origin, failed)
  BY <1>1, AtWork DEF Fits, Consistent
<1> QED
  BY <1>1, <1>2, <1>3, <1>4, GotoStep

LEMMA AttachStep ==
  ASSUME IInv, NEW t \in Threads, Attach(t)
  PROVE  IInv'
<1>1. pc[t] = "attach" /\ pc[t] # "idle" /\ UNCHANGED <<g_hv_mem, gpuVars, life, cur, historyVars>>
  BY DEF Attach
<1>2. PICK p \in {"commit", "undo_unmap"} : Goto(t, p)
  BY DEF Attach
<1>3. p \in Steps /\ p \in AllocSteps /\ pc[t] \in AllocSteps
  BY <1>1 DEF Steps, AllocSteps
<1>4. cur[t].handle \notin shared => Fits(p, Blob(t), cur[t].handle, gpu, origin, failed)
  BY <1>1, <1>2, AtWork DEF Fits, Consistent, Exported
<1> QED
  BY <1>1, <1>2, <1>3, <1>4, GotoStep

LEMMA CreateBlobStep ==
  ASSUME IInv, NEW t \in Threads, CreateBlob(t)
  PROVE  IInv'
<1> DEFINE h == cur[t].handle
           i == cur[t].slot
<1>1. pc[t] = "create" /\ pc[t] # "idle" /\ UNCHANGED <<life, cur, shared, failed>>
  BY DEF CreateBlob
<1>2. /\ TypeOK /\ t \in Busy /\ i \in Slots /\ h \in Handles /\ Blob(t) = g_hv_mem[i].blob
      /\ Blob(t).res < next_res /\ (Blob(t).mapped => Blob(t).res # 0)
      /\ h \notin shared => Fits("create", Blob(t), h, gpu, origin, failed)
  BY <1>1, AtWork
<1>3. "undo_unmap" \in Steps /\ "map" \in Steps /\ "undo_unmap" \in AllocSteps
      /\ "map" \in AllocSteps /\ pc[t] \in AllocSteps
  BY <1>1 DEF Steps, AllocSteps
<1>4. next_res \in Nat
  BY <1>2, Typed
<1>5. CASE Goto(t, "undo_unmap") /\ UNCHANGED <<g_hv_mem, gpuVars, origin>>
  <2>1. UNCHANGED <<g_hv_mem, gpuVars, life, cur, historyVars>>
    BY <1>1, <1>5 DEF historyVars
  <2>2. h \notin shared => Fits("undo_unmap", Blob(t), h, gpu, origin, failed)
    BY <1>2 DEF Fits, Consistent
  <2> QED
    BY <1>1, <1>3, <1>5, <2>1, <2>2, GotoStep
<1>6. CASE /\ Blob(t).res = 0 /\ Layer!Take /\ gpu'[next_res] = "made"
           /\ g_hv_mem' = WithBlob(t, AsBlob(next_res, FALSE, 0))
           /\ origin' = [origin EXCEPT ![next_res] = cur[t].handle]
           /\ Goto(t, "map")
  <2>1. next_res \in ResIds /\ next_res' = next_res + 1
    BY <1>2, <1>6, Typed DEF Layer!Take
  <2>2. gpu' \in [ResIds -> Layer!States]
    BY <1>2, <1>6, <2>1, Typed DEF Layer!Take, Layer!States
  <2>3. \A r \in ResIds : r # next_res => gpu'[r] = gpu[r]
    BY <1>2, <1>6, <2>1, Typed DEF Layer!Take
  <2>4. /\ \A r \in ResIds : r # next_res => origin'[r] = origin[r]
        /\ origin'[next_res] = h
    BY <1>2, <1>6, <2>1, Typed
  <2>5. next_res' \in 1..(MaxRes + 1)
    BY <2>1, VulkanMemoryAssumption DEF ResIds
  <2>6. AsBlob(next_res, FALSE, 0) \in BlobSet
    BY <1>2, <2>1, Made, Fields
  <2>7. /\ g_hv_mem' \in [Slots -> SlotSet]
        /\ \A j \in Slots : /\ g_hv_mem'[j].used = g_hv_mem[j].used
                            /\ g_hv_mem'[j].handle = g_hv_mem[j].handle
                            /\ j # i => g_hv_mem'[j].blob = g_hv_mem[j].blob
        /\ g_hv_mem'[i].blob = AsBlob(next_res, FALSE, 0)
    <3> DEFINE w == WithBlob(t, AsBlob(next_res, FALSE, 0))
    <3>1. /\ w \in [Slots -> SlotSet]
          /\ \A j \in Slots : /\ w[j].used = g_hv_mem[j].used
                              /\ w[j].handle = g_hv_mem[j].handle
                              /\ j # i => w[j].blob = g_hv_mem[j].blob
          /\ w[i].blob = AsBlob(next_res, FALSE, 0)
      BY <1>1, <1>2, <2>6, WithBlobIs
    <3>2. g_hv_mem' = w
      BY <1>6
    <3> QED
      BY <3>1, <3>2, Zenon
  <2>8. /\ g_hv_mem'[i].blob.res = next_res /\ ~g_hv_mem'[i].blob.mapped
        /\ g_hv_mem'[i].blob.addr = 0
    <3>1. LET b == AsBlob(next_res, FALSE, 0) IN b.res = next_res /\ b.mapped = FALSE /\ b.addr = 0
      BY DEF AsBlob
    <3> QED
      BY <2>7, <3>1
  <2>9. pc' = [pc EXCEPT ![t] = "map"]
    BY <1>6 DEF Goto
  <2>10. origin' \in [ResIds -> 0..MaxMem]
    <3>1. h \in 0..MaxMem
      BY <1>2, VulkanMemoryAssumption DEF Handles
    <3> QED
      BY <1>2, <1>6, <3>1, Typed
  <2>11. TypeOK'
    BY <1>1, <1>2, <1>3, <2>2, <2>5, <2>7, <2>9, <2>10, Typed, TypeNext
  <2>12. Fits("map", g_hv_mem'[i].blob, h, gpu', origin', failed')
    BY <1>6, <2>1, <2>4, <2>8, <1>2, Fields DEF Fits
  <2>13. \A r \in ResIds : r < next_res =>
           /\ origin'[r] = origin[r]
           /\ r # g_hv_mem[i].blob.res => gpu'[r] = gpu[r]
    BY <1>4, <2>3, <2>4
  <2>14. \A r \in ResIds : gpu'[r] # "none" =>
           \/ gpu[r] # "none"
           \/ r = g_hv_mem'[i].blob.res /\ origin'[r] = h
    BY <2>3, <2>4, <2>8
  <2>15. /\ next_res <= next_res' /\ g_hv_mem'[i].blob.res < next_res'
         /\ g_hv_mem'[i].blob.mapped => g_hv_mem'[i].blob.res # 0
    BY <1>4, <2>1, <2>8
  <2>16. g_hv_mem[i].blob.res = 0
    BY <1>2, <1>6
  <2>17. /\ \A r : r \in failed => r \in failed'
         /\ UNCHANGED <<cur, life, shared>>
    BY <1>1
  <2>18. \A j \in Slots : /\ g_hv_mem'[j].used = g_hv_mem[j].used
                          /\ g_hv_mem'[j].handle = g_hv_mem[j].handle
                          /\ j # i => g_hv_mem'[j].blob = g_hv_mem[j].blob
    BY <2>7
  <2>19. \/ g_hv_mem'[i].blob.res = g_hv_mem[i].blob.res
         \/ g_hv_mem[i].blob.res = 0 /\ g_hv_mem'[i].blob.res = next_res
    BY <2>8, <2>16
  <2>20. "map" \in Steps /\ (pc[t] \in AllocSteps /\ "map" \in AllocSteps)
    BY <1>3
  <2> QED
    BY <1>1, <2>9, <2>11, <2>12, <2>13, <2>14, <2>15, <2>17, <2>18, <2>19, <2>20, WorkStep, Zenon
<1>7. CASE /\ Blob(t).res = 0 /\ Layer!Take /\ gpu'[next_res] # "made"
           /\ UNCHANGED <<g_hv_mem, origin>> /\ Goto(t, "undo_unmap")
  <2>1. next_res \in ResIds /\ next_res' = next_res + 1 /\ gpu' = gpu
    BY <1>2, <1>7, Typed DEF Layer!Take
  <2>2. next_res' \in 1..(MaxRes + 1)
    BY <2>1, VulkanMemoryAssumption DEF ResIds
  <2>3. pc' = [pc EXCEPT ![t] = "undo_unmap"]
    BY <1>7 DEF Goto
  <2>4. TypeOK'
    BY <1>1, <1>2, <1>3, <1>7, <2>1, <2>2, <2>3, Typed, TypeNext
  <2>5. h \notin shared => Fits("undo_unmap", g_hv_mem'[i].blob, h, gpu', origin', failed')
    BY <1>1, <1>2, <1>7, <2>1 DEF Fits, Consistent
  <2>6. /\ next_res <= next_res' /\ g_hv_mem'[i].blob.res < next_res'
        /\ g_hv_mem'[i].blob.mapped => g_hv_mem'[i].blob.res # 0
    <3>1. g_hv_mem'[i].blob.res = 0 /\ ~g_hv_mem'[i].blob.mapped
      BY <1>2, <1>7
    <3> QED
      BY <1>4, <2>1, <3>1
  <2> QED
    BY <1>1, <1>3, <1>7, <2>1, <2>3, <2>4, <2>5, <2>6, WorkStep
<1> QED
  BY <1>5, <1>6, <1>7 DEF CreateBlob

\* A map or unmap takes the thread's blob to state s of the table and to b.
LEMMA BlobMoves ==
  ASSUME IInv, NEW t \in Threads, pc[t] # "idle", NEW p \in Steps, Goto(t, p),
         (pc[t] \in AllocSteps /\ p \in AllocSteps) \/ (pc[t] \in FreeSteps /\ p \in FreeSteps),
         UNCHANGED <<life, cur, origin, shared>>,
         NEW s \in Layer!States, Moves(t, s), TableState(t) = "none" => s = "none",
         NEW b \in BlobSet, b.res = Blob(t).res, b.mapped => b.res # 0,
         (g_hv_mem' = g_hv_mem /\ b = Blob(t)) \/ g_hv_mem' = WithBlob(t, b),
         failed' \in SUBSET ResIds, \A r : r \in failed => r \in failed',
         cur[t].handle \notin shared =>
           Fits(p, b, cur[t].handle, gpu', origin, failed')
  PROVE  IInv'
<1> DEFINE i == cur[t].slot
<1>1. /\ TypeOK /\ i \in Slots /\ Blob(t) = g_hv_mem[i].blob
      /\ Blob(t).res < next_res
      /\ Blob(t).res # 0 => Blob(t).res \in ResIds /\ TableState(t) = gpu[Blob(t).res]
  BY AtWork
<1>2. /\ g_hv_mem' \in [Slots -> SlotSet]
      /\ \A j \in Slots : /\ g_hv_mem'[j].used = g_hv_mem[j].used
                          /\ g_hv_mem'[j].handle = g_hv_mem[j].handle
                          /\ j # i => g_hv_mem'[j].blob = g_hv_mem[j].blob
      /\ g_hv_mem'[i].blob = b
  <2> DEFINE w == WithBlob(t, b)
  <2>1. CASE g_hv_mem' = g_hv_mem /\ b = Blob(t)
    BY <1>1, <2>1, Typed
  <2>2. CASE g_hv_mem' = w
    <3>1. /\ w \in [Slots -> SlotSet]
          /\ \A j \in Slots : /\ w[j].used = g_hv_mem[j].used
                              /\ w[j].handle = g_hv_mem[j].handle
                              /\ j # i => w[j].blob = g_hv_mem[j].blob
          /\ w[i].blob = b
      BY <1>1, WithBlobIs
    <3> QED
      BY <2>2, <3>1, Zenon
  <2> QED
    BY <2>1, <2>2
<1>3. /\ gpu' \in [ResIds -> Layer!States]
      /\ \A r \in ResIds : gpu'[r] = IF r = Blob(t).res THEN s ELSE gpu[r]
      /\ next_res' = next_res
  <2>1. CASE Blob(t).res = 0
    BY <1>1, <2>1, Typed, Fields DEF Moves
  <2>2. CASE Blob(t).res # 0
    BY <1>1, <2>2, Typed DEF Moves
  <2> QED
    BY <2>1, <2>2
<1>4. pc' = [pc EXCEPT ![t] = p]
  BY DEF Goto
<1>5. TypeOK'
  BY <1>1, <1>2, <1>3, <1>4, Typed, TypeNext
<1>6. /\ g_hv_mem'[i].blob.res = g_hv_mem[i].blob.res
      /\ g_hv_mem'[i].blob.mapped => g_hv_mem'[i].blob.res # 0
  BY <1>1, <1>2
<1>7. next_res <= next_res' /\ g_hv_mem'[i].blob.res < next_res'
  <2>1. next_res \in Nat
    BY <1>1, Typed
  <2> QED
    BY <1>1, <1>3, <1>6, <2>1
<1>8. \A r \in ResIds : r # g_hv_mem[i].blob.res => gpu'[r] = gpu[r]
  BY <1>1, <1>3
<1>9. \A r \in ResIds : gpu'[r] # "none" => gpu[r] # "none"
  <2>1. \A r \in ResIds : r # 0
    BY <1>1, Fields
  <2> QED
    BY <1>1, <1>3, <2>1
<1>10. cur[t].handle \notin shared =>
         Fits(p, g_hv_mem'[i].blob, cur[t].handle, gpu', origin', failed')
  BY <1>2
<1> QED
  BY <1>2, <1>4, <1>5, <1>6, <1>7, <1>8, <1>9, <1>10, WorkStep, Zenon

LEMMA MapBlobStep ==
  ASSUME IInv, NEW t \in Threads, MapBlob(t)
  PROVE  IInv'
<1> DEFINE h == cur[t].handle
           r == Blob(t).res
<1>1. pc[t] = "map" /\ pc[t] # "idle" /\ UNCHANGED <<life, cur, historyVars>>
  BY DEF MapBlob
<1>2. /\ TypeOK /\ Blob(t) \in BlobSet /\ r \in 0..MaxRes /\ Blob(t).addr \in 0..MaxRes
      /\ r # 0 => r \in ResIds /\ TableState(t) = gpu[r]
      /\ Blob(t).mapped => r # 0
      /\ h \notin shared => Fits("map", Blob(t), h, gpu, origin, failed)
  BY <1>1, AtWork
<1>3. /\ "attach" \in Steps /\ "undo_unmap" \in Steps
      /\ "attach" \in AllocSteps /\ "undo_unmap" \in AllocSteps /\ pc[t] \in AllocSteps
  BY <1>1 DEF Steps, AllocSteps
<1>4. PICK s \in Layer!MapResults(TableState(t)) :
        LET moved == s # TableState(t) IN
        /\ Moves(t, s)
        /\ g_hv_mem' = CASE moved /\ s = "mapped" -> WithBlob(t, AsBlob(r, TRUE, r))
                         [] moved /\ s = "half" -> WithBlob(t, AsBlob(r, TRUE, Blob(t).addr))
                         [] OTHER -> g_hv_mem
        /\ Goto(t, IF moved /\ s = "mapped" THEN "attach" ELSE "undo_unmap")
  BY DEF MapBlob
<1>5. TableState(t) \in Layer!States /\ (TableState(t) # "none" => r # 0)
  BY <1>2, Fields DEF TableState, Layer!States
<1>6. s \in Layer!States /\ (TableState(t) = "none" => s = "none")
      /\ (s # TableState(t) => r # 0)
  BY <1>4, <1>5 DEF Layer!MapResults, Layer!States
<1>7. UNCHANGED <<life, cur, origin, shared>> /\ failed' = failed
  BY <1>1 DEF historyVars
<1>8. failed' \in SUBSET ResIds /\ \A x : x \in failed => x \in failed'
  BY <1>2, <1>7, Typed
<1>9. h \notin shared => r # 0 /\ ~Blob(t).mapped /\ gpu[r] = "made" /\ origin[r] = h
  BY <1>2 DEF Fits
<1>10. h \notin shared => gpu'[r] = s
  BY <1>2, <1>4, <1>9, Typed DEF Moves
<1>11. CASE s # TableState(t) /\ s = "mapped"
  <2> DEFINE b == AsBlob(r, TRUE, r)
  <2>1. b \in BlobSet /\ b.res = r /\ b.mapped = TRUE /\ b.addr = r
    BY <1>2 DEF AsBlob, BlobSet
  <2>2. g_hv_mem' = WithBlob(t, b) /\ Goto(t, "attach") /\ Moves(t, s)
    BY <1>4, <1>11
  <2> HIDE DEF b
  <2>3. h \notin shared => Fits("attach", b, h, gpu', origin, failed')
    BY <2>1, <1>9, <1>10, <1>11 DEF Fits, Exported
  <2> QED
    BY <2>1, <2>2, <2>3, <1>1, <1>3, <1>6, <1>7, <1>8, <1>11, BlobMoves
<1>12. CASE s # TableState(t) /\ s = "half"
  <2> DEFINE b == AsBlob(r, TRUE, Blob(t).addr)
  <2>1. b \in BlobSet /\ b.res = r /\ b.mapped = TRUE
    BY <1>2 DEF AsBlob, BlobSet
  <2>2. g_hv_mem' = WithBlob(t, b) /\ Goto(t, "undo_unmap") /\ Moves(t, s)
    BY <1>4, <1>12
  <2> HIDE DEF b
  <2>3. h \notin shared => Fits("undo_unmap", b, h, gpu', origin, failed')
    BY <2>1, <1>9, <1>10, <1>12 DEF Fits, Consistent
  <2> QED
    BY <2>1, <2>2, <2>3, <1>1, <1>3, <1>6, <1>7, <1>8, <1>12, BlobMoves
<1>13. CASE ~(s # TableState(t) /\ s \in {"mapped", "half"})
  <2>1. g_hv_mem' = g_hv_mem /\ Goto(t, "undo_unmap") /\ Moves(t, s)
    BY <1>4, <1>13
  <2>2. h \notin shared => s = "made"
    BY <1>2, <1>4, <1>9, <1>13 DEF Layer!MapResults
  <2>3. h \notin shared => Fits("undo_unmap", Blob(t), h, gpu', origin, failed')
    BY <2>2, <1>9, <1>10 DEF Fits, Consistent
  <2> QED
    BY <2>1, <2>3, <1>1, <1>2, <1>3, <1>6, <1>7, <1>8, BlobMoves
<1> QED
  BY <1>11, <1>12, <1>13

\* uk_virtio_gpu_gl_blob_unmap, on the way out and in vkFreeMemory.
LEMMA UnmapStep ==
  ASSUME IInv, NEW t \in Threads, NEW p \in Steps,
         \/ pc[t] = "undo_unmap" /\ p = "undo_destroy"
         \/ pc[t] = "free_unmap" /\ p = "free_destroy",
         Unmap(t), Goto(t, p),
         UNCHANGED <<life, cur, origin, shared>>
  PROVE  IInv'
<1> DEFINE h == cur[t].handle
           r == Blob(t).res
<1>1. pc[t] # "idle"
  OBVIOUS
<1>2. /\ TypeOK /\ Blob(t) \in BlobSet /\ r \in 0..MaxRes
      /\ Blob(t).mapped \in BOOLEAN
      /\ Blob(t).mapped => r # 0
      /\ r # 0 => r \in ResIds /\ TableState(t) = gpu[r]
      /\ h \notin shared => Fits(pc[t], Blob(t), h, gpu, origin, failed)
  BY <1>1, AtWork
<1>3. (pc[t] \in AllocSteps /\ p \in AllocSteps) \/ (pc[t] \in FreeSteps /\ p \in FreeSteps)
  BY DEF AllocSteps, FreeSteps
<1>4. h \notin shared => Consistent(Blob(t), h, gpu, origin)
  BY <1>2 DEF Fits, Consistent, Exported
<1>5. CASE ~Blob(t).mapped
  <2>1. UNCHANGED <<g_hv_mem, gpuVars, life, cur, historyVars>>
    BY <1>5 DEF Unmap, historyVars
  <2>2. h \notin shared => Fits(p, Blob(t), h, gpu, origin, failed)
    BY <1>4, <1>5 DEF Fits
  <2> QED
    BY <1>1, <1>3, <2>1, <2>2, GotoStep
<1>6. CASE Blob(t).mapped
  <2>1. PICK s \in Layer!UnmapResults(TableState(t)) :
          /\ Moves(t, s)
          /\ g_hv_mem' = IF s = "made" /\ s # TableState(t)
                         THEN WithBlob(t, Unmapped(Blob(t))) ELSE g_hv_mem
          /\ failed' = IF s # "made" THEN failed \cup {r} ELSE failed
    BY <1>6 DEF Unmap
  <2>2. r # 0 /\ r \in ResIds /\ TableState(t) = gpu[r] /\ gpu[r] \in Layer!States
    BY <1>2, <1>6, Fields
  <2>3. s \in Layer!States /\ (TableState(t) = "none" => s = "none")
    BY <2>1, <2>2 DEF Layer!UnmapResults, Layer!States
  <2>4. failed' \in SUBSET ResIds /\ \A x : x \in failed => x \in failed'
    BY <1>2, <2>1, <2>2, Typed
  <2>5. gpu'[r] = s
    BY <1>2, <2>1, <2>2, Typed DEF Moves
  <2>6. h \notin shared => gpu[r] \in {"half", "mapped"} /\ origin[r] = h
    BY <1>4, <1>6 DEF Consistent
  <2>7. CASE s = "made" /\ s # TableState(t)
    <3> DEFINE b == Unmapped(Blob(t))
    <3>1. b \in BlobSet /\ b.res = r /\ b.mapped = FALSE
      BY <1>2, Fields DEF Unmapped, AsBlob, BlobSet
    <3>2. g_hv_mem' = WithBlob(t, b)
      BY <2>1, <2>7
    <3> HIDE DEF b
    <3>3. h \notin shared => Fits(p, b, h, gpu', origin, failed')
      BY <3>1, <2>2, <2>5, <2>6, <2>7 DEF Fits, Consistent
    <3> QED
      BY <3>1, <3>2, <3>3, <1>1, <1>3, <2>1, <2>3, <2>4, BlobMoves
  <2>8. CASE ~(s = "made" /\ s # TableState(t))
    <3>1. g_hv_mem' = g_hv_mem
      BY <2>1, <2>8
    <3>2. h \notin shared => s = gpu[r] /\ r \in failed'
      BY <2>1, <2>2, <2>6, <2>8 DEF Layer!UnmapResults
    <3>3. h \notin shared => Fits(p, Blob(t), h, gpu', origin, failed')
      BY <3>2, <1>6, <2>2, <2>5, <2>6 DEF Fits, Consistent
    <3> QED
      BY <3>1, <3>3, <1>1, <1>2, <1>3, <2>1, <2>3, <2>4, BlobMoves
  <2> QED
    BY <2>7, <2>8
<1> QED
  BY <1>2, <1>5, <1>6

\* uk_virtio_gpu_gl_blob_destroy and the return, leaving the slot as given.
LEMMA DestroyStep ==
  ASSUME IInv, NEW t \in Threads, NEW l \in Lives, NEW slot \in SlotSet,
         NEW s \in DestroyOutcomes(t),
         Destroyed(t, s, slot), Return(t, cur[t].handle, l),
         UNCHANGED <<origin, shared>>,
         slot.blob.res \in {0, Blob(t).res}, slot.blob.mapped => slot.blob.res # 0,
         slot.handle = g_hv_mem[cur[t].slot].handle,
         \/ /\ pc[t] = "undo_destroy" /\ l = "staged"
            /\ slot.used = g_hv_mem[cur[t].slot].used
         \/ pc[t] = "free_destroy" /\ l = "freed" /\ ~slot.used
  PROVE  IInv'
<1> DEFINE h == cur[t].handle
           i == cur[t].slot
           r == Blob(t).res
<1>1. /\ pc[t] # "idle"
      /\ pc[t] = "undo_destroy" => pc[t] \in AllocSteps /\ pc[t] \notin FreeSteps
      /\ pc[t] = "free_destroy" => pc[t] \in FreeSteps
  BY DEF AllocSteps, FreeSteps
<1>2. /\ TypeOK /\ t \in Busy /\ i \in Slots /\ h \in Handles
      /\ Blob(t) = g_hv_mem[i].blob
      /\ r \in 0..MaxRes
      /\ r # 0 => r \in ResIds /\ TableState(t) = gpu[r]
      /\ h \notin shared => Fits(pc[t], Blob(t), h, gpu, origin, failed)
  BY <1>1, AtWork
<1>3. /\ s \in Layer!States /\ (TableState(t) = "none" => s = "none")
      /\ s = "made" => TableState(t) # "none"
      /\ r = 0 => TableState(t) = "none"
  <2>1. TableState(t) \in Layer!States /\ (r = 0 => TableState(t) = "none")
    BY <1>2, Fields DEF TableState, Layer!States
  <2> QED
    BY <2>1 DEF DestroyOutcomes, Layer!DestroyResults, Layer!States
<1>4. /\ g_hv_mem' \in [Slots -> SlotSet]
      /\ \A j \in Slots : g_hv_mem'[j] = IF j = i THEN slot ELSE g_hv_mem[j]
  BY <1>2, Typed DEF Destroyed
<1>5. /\ gpu' \in [ResIds -> Layer!States] /\ next_res' = next_res
      /\ \A x \in ResIds : gpu'[x] = IF x = r THEN s ELSE gpu[x]
  <2>1. CASE r = 0
    BY <1>2, <2>1, Typed, Fields DEF Destroyed, Moves
  <2>2. CASE r # 0
    BY <1>2, <1>3, <2>2, Typed DEF Destroyed, Moves
  <2> QED
    BY <2>1, <2>2
<1>6. failed' \in SUBSET ResIds /\ \A x : x \in failed => x \in failed'
  BY <1>2, <1>3, Typed DEF Destroyed
<1>7. /\ pc' \in [Threads -> Steps] /\ life' \in [Handles -> Lives]
      /\ cur' \in [Threads -> WorkSet]
      /\ \A u \in Threads : pc'[u] # "idle" => cur'[u].handle \in Handles /\ cur'[u].slot \in Slots
  <2>1. "idle" \in Steps /\ NoWork \in WorkSet
    BY <1>2, Fields DEF Steps, NoWork, WorkSet
  <2> QED
    BY <1>2, <2>1, Typed DEF Return, Goto
<1>8. TypeOK'
  BY <1>2, <1>4, <1>5, <1>6, <1>7, Typed, TypeNext
<1>9. \A x \in ResIds : /\ x # g_hv_mem[i].blob.res => gpu'[x] = gpu[x]
                        /\ gpu[x] = "none" => gpu'[x] = "none"
  BY <1>2, <1>3, <1>5, Fields
<1>10. /\ \A u : u \in Busy' <=> u \in Busy /\ u # t
       /\ \A u \in Threads : u # t => pc'[u] = pc[u] /\ cur'[u] = cur[u]
       /\ \A u \in Busy : u # t => /\ cur[u].handle # h
                                   /\ cur[u].slot = i => cur[u].handle \in shared /\ h \in shared
       /\ \A k \in Handles : life'[k] = IF k = h THEN l ELSE life[k]
       /\ \A j \in Slots : j # i /\ g_hv_mem[j].blob.res # 0 =>
            gpu'[g_hv_mem[j].blob.res] = gpu[g_hv_mem[j].blob.res]
       /\ Resting' /\ Apart' /\ Stages' /\ Freeing' /\ Fresh' /\ Working'
  <2>1. g_hv_mem'[i].blob.res \in {0, g_hv_mem[i].blob.res}
        /\ (g_hv_mem'[i].blob.mapped => g_hv_mem'[i].blob.res # 0)
    BY <1>2, <1>4
  <2>2. \A j \in Slots : j # i => g_hv_mem'[j] = g_hv_mem[j]
    BY <1>4
  <2> QED
    BY <2>1, <2>2, <1>1, <1>5, <1>6, <1>8, <1>9, LeaveOthers
<1>11. Accounted'
  <2>1. \A x \in ResIds :
           gpu'[x] # "none" /\ g_hv_mem[i].blob.res = x /\ origin[x] = h =>
             x \in failed' \/ origin[x] \in shared
    <3> SUFFICES ASSUME s # "none", r \in ResIds, h \notin shared
                 PROVE  r \in failed'
      BY <1>2, <1>5
    <3>1. /\ Consistent(Blob(t), h, gpu, origin)
          /\ Blob(t).mapped => r \in failed
      BY <1>2 DEF Fits
    <3>2. CASE Blob(t).mapped
      BY <3>1, <3>2, <1>6
    <3>3. CASE ~Blob(t).mapped
      <4>1. r # 0 /\ gpu[r] = "made"
        BY <1>2, <3>1, <3>3, Fields DEF Consistent
      <4>2. s = "made"
        <5>1. TableState(t) = "made" /\ s \in DestroyOutcomes(t) /\ s # "none"
          BY <1>2, <4>1
        <5> QED
          BY ONLY <3>3, <5>1 DEF DestroyOutcomes, Layer!DestroyResults
      <4>3. failed' = IF s = "made" /\ ~Blob(t).mapped THEN failed \cup {r} ELSE failed
        BY ONLY Destroyed(t, s, slot) DEF Destroyed
      <4> QED
        BY ONLY <3>3, <4>2, <4>3, Zenon
    <3> QED
      BY <3>2, <3>3
  <2>2. \A j \in Slots : j # i => g_hv_mem'[j] = g_hv_mem[j]
    BY <1>4
  <2>3. \A x \in ResIds : gpu[x] = "none" => gpu'[x] = "none"
    BY <1>9
  <2>4. \A u \in Threads : u # t => cur'[u] = cur[u]
    BY <1>10
  <2>5. \A u : u \in Busy' <=> u \in Busy /\ u # t
    BY <1>10
  <2> QED
    BY <2>1, <2>2, <2>3, <2>4, <2>5, <1>1, <1>2, <1>6, <1>8, LeaveAccounted
<1>12. \A j \in Slots : g_hv_mem'[j].used => /\ g_hv_mem[j].used
                                             /\ g_hv_mem'[j].handle = g_hv_mem[j].handle
                                             /\ j = i => pc[t] = "undo_destroy"
  BY <1>2, <1>4
<1>13. Occupied'
  <2> SUFFICES ASSUME NEW u \in Busy, u # t, g_hv_mem'[cur[u].slot].used
               PROVE  \/ pc[u] \in FreeSteps /\ cur[u].handle = g_hv_mem'[cur[u].slot].handle
                      \/ cur[u].handle \in shared /\ g_hv_mem'[cur[u].slot].handle \in shared
    BY <1>10 DEF Occupied, Busy
  <2>1. cur[u].slot \in Slots
    BY <1>2, Typed DEF Busy
  <2> QED
    BY <2>1, <1>12 DEF IInv, Occupied
<1>14. g_hv_mem[i].used => \/ g_hv_mem[i].handle \in shared
                           \/ pc[t] = "free_destroy" /\ g_hv_mem[i].handle = h
  BY <1>1, <1>2 DEF IInv, Occupied
<1>15. Entries'
  <2> SUFFICES ASSUME NEW j \in Slots, g_hv_mem'[j].used
               PROVE  LET k == g_hv_mem[j].handle IN
                      /\ k \in Handles
                      /\ life'[k] \notin {"none", "pending"}
                      /\ k \in shared \/ life'[k] \in {"exported", "freeing"}
                      /\ \A m \in Slots : g_hv_mem'[m].used /\ g_hv_mem'[m].handle = k => j = m
    BY <1>12 DEF Entries
  <2> DEFINE k == g_hv_mem[j].handle
  <2>1. /\ g_hv_mem[j].used /\ k \in Handles /\ life[k] \notin {"none", "pending"}
        /\ k \in shared \/ life[k] \in {"exported", "freeing"}
        /\ \A m \in Slots : g_hv_mem[m].used /\ g_hv_mem[m].handle = k => j = m
    BY <1>12 DEF IInv, Entries
  <2>2. \A m \in Slots : g_hv_mem'[m].used /\ g_hv_mem'[m].handle = k => j = m
    BY <2>1, <1>12
  <2>3. CASE k # h
    BY <2>1, <2>2, <2>3, <1>10
  <2>4. CASE k = h
    <3>1. pc[t] = "free_destroy" /\ l = "freed"
      BY <1>1, <1>2, <2>1, <2>4 DEF IInv, Stages
    <3>2. k \in shared
      BY <1>1, <1>2, <1>12, <2>1, <2>4, <3>1 DEF IInv, Freeing
    <3>3. life'[k] = "freed"
      BY <1>10, <2>1, <2>4, <3>1
    <3> QED
      BY <2>1, <2>2, <3>2, <3>3
  <2> QED
    BY <2>3, <2>4
<1>16. HasSlot'
  <2> SUFFICES ASSUME NEW k \in Handles, k \notin shared, life'[k] = "exported"
               PROVE  \E j \in Slots : g_hv_mem'[j].used /\ g_hv_mem'[j].handle = k
    BY DEF HasSlot
  <2>1. k # h /\ life[k] = "exported"
    BY <1>10
  <2>2. PICK j \in Slots : g_hv_mem[j].used /\ g_hv_mem[j].handle = k
    BY <2>1 DEF IInv, HasSlot
  <2>3. j # i
    BY <2>1, <2>2, <1>14
  <2> QED
    BY <2>2, <2>3, <1>4
<1>17. SlotExported'
  <2> SUFFICES ASSUME NEW j \in Slots, g_hv_mem'[j].used, g_hv_mem[j].handle \notin shared,
                      life'[g_hv_mem[j].handle] = "exported"
               PROVE  Exported(g_hv_mem'[j].blob, g_hv_mem[j].handle, gpu', origin')
    BY <1>12 DEF SlotExported
  <2>1. g_hv_mem[j].used /\ g_hv_mem[j].handle \in Handles
    BY <1>12 DEF IInv, Entries
  <2>2. life[g_hv_mem[j].handle] = "exported"
    BY <2>1, <1>10
  <2>3. Exported(g_hv_mem[j].blob, g_hv_mem[j].handle, gpu, origin)
    BY <2>1, <2>2 DEF IInv, SlotExported
  <2>4. j # i
    BY <2>1, <1>12, <1>14
  <2>5. g_hv_mem'[j] = g_hv_mem[j]
    BY <2>4, <1>4
  <2> QED
    BY <2>3, <2>4, <2>5, <1>10 DEF Exported
<1> QED
  BY <1>8, <1>10, <1>11, <1>13, <1>15, <1>16, <1>17 DEF IInv

LEMMA UndoDestroyStep ==
  ASSUME IInv, NEW t \in Threads, UndoDestroy(t)
  PROVE  IInv'
<1> DEFINE slot == Cleared(g_hv_mem[cur[t].slot])
<1>1. /\ pc[t] = "undo_destroy" /\ pc[t] # "idle"
      /\ Return(t, cur[t].handle, "staged") /\ UNCHANGED <<origin, shared>>
  BY DEF UndoDestroy
<1>2. PICK s \in DestroyOutcomes(t) : Destroyed(t, s, slot)
  BY DEF UndoDestroy
<1>3. TypeOK /\ cur[t].slot \in Slots
  BY <1>1, AtWork
<1>4. /\ slot.used = g_hv_mem[cur[t].slot].used /\ slot.handle = g_hv_mem[cur[t].slot].handle
      /\ slot.blob = NoBlob /\ NoBlob.res = 0 /\ NoBlob.mapped = FALSE
      /\ slot \in SlotSet
  BY <1>3, Fields, NoBlobType DEF Cleared, Holding, AsSlot, NoBlob, AsBlob, SlotSet
<1>5. "staged" \in Lives
  BY DEF Lives
<1> HIDE DEF slot
<1> QED
  BY <1>1, <1>2, <1>4, <1>5, DestroyStep

LEMMA FreeDestroyStep ==
  ASSUME IInv, NEW t \in Threads, FreeDestroy(t)
  PROVE  IInv'
<1>1. /\ pc[t] = "free_destroy" /\ pc[t] # "idle"
      /\ Return(t, cur[t].handle, "freed") /\ UNCHANGED <<origin, shared>>
  BY DEF FreeDestroy
<1>2. PICK s \in DestroyOutcomes(t) :
        Destroyed(t, s, Released(g_hv_mem[cur[t].slot], BlobLeft(t, s)))
  BY DEF FreeDestroy
<1> DEFINE slot == Released(g_hv_mem[cur[t].slot], BlobLeft(t, s))
<1>3. /\ TypeOK /\ cur[t].slot \in Slots /\ Blob(t) \in BlobSet
      /\ Blob(t).mapped => Blob(t).res # 0
  BY <1>1, AtWork
<1>4. /\ BlobLeft(t, s) \in BlobSet /\ BlobLeft(t, s).res \in {0, Blob(t).res}
      /\ BlobLeft(t, s).mapped => BlobLeft(t, s).res # 0
  <2>1. NoBlob.res = 0 /\ NoBlob.mapped = FALSE
    BY Made
  <2> QED
    BY <1>3, <2>1, NoBlobType DEF BlobLeft
<1>5. /\ slot.used = FALSE /\ slot.handle = g_hv_mem[cur[t].slot].handle
      /\ slot.blob = BlobLeft(t, s)
      /\ slot \in SlotSet
  BY <1>3, <1>4, Fields DEF Released, AsSlot, SlotSet
<1>6. "freed" \in Lives
  BY DEF Lives
<1>7. Destroyed(t, s, slot)
  BY <1>2
<1> HIDE DEF slot
<1> QED
  BY <1>1, <1>4, <1>5, <1>6, <1>7, DestroyStep

\* The slot is claimed.
LEMMA CommitStep ==
  ASSUME IInv, NEW t \in Threads, Commit(t)
  PROVE  IInv'
<1> DEFINE h == cur[t].handle
           i == cur[t].slot
<1>1. /\ pc[t] = "commit" /\ pc[t] # "idle" /\ pc[t] \in AllocSteps /\ pc[t] \notin FreeSteps
      /\ UNCHANGED <<gpuVars, historyVars>>
  BY DEF Commit, AllocSteps, FreeSteps
<1>2. /\ TypeOK /\ t \in Busy /\ i \in Slots /\ h \in Handles
      /\ Blob(t) = g_hv_mem[i].blob /\ Blob(t) \in BlobSet
      /\ Blob(t).mapped => Blob(t).res # 0
      /\ h \notin shared => Fits("commit", Blob(t), h, gpu, origin, failed)
  BY <1>1, AtWork
<1>3. CASE Blob(t).addr = 0
  <2>1. Goto(t, "undo_unmap") /\ UNCHANGED <<g_hv_mem, gpuVars, life, cur, historyVars>>
    BY <1>1, <1>3 DEF Commit
  <2>2. "undo_unmap" \in Steps /\ "undo_unmap" \in AllocSteps
    BY DEF Steps, AllocSteps
  <2>3. h \notin shared => Fits("undo_unmap", Blob(t), h, gpu, origin, failed)
    BY <1>2 DEF Fits, Exported, Consistent
  <2> QED
    BY <1>1, <2>1, <2>2, <2>3, GotoStep
<1>4. CASE Blob(t).addr # 0
  <2> DEFINE slot == AsSlot(TRUE, h, Blob(t))
  <2>1. g_hv_mem' = [g_hv_mem EXCEPT ![i] = slot] /\ Return(t, h, "exported")
    BY <1>4 DEF Commit
  <2>2. slot.used = TRUE /\ slot.handle = h /\ slot.blob = Blob(t) /\ slot \in SlotSet
    <3>1. h \in 0..MaxMem
      BY <1>2, VulkanMemoryAssumption DEF Handles
    <3> QED
      BY <1>2, <3>1 DEF AsSlot, SlotSet
  <2> HIDE DEF slot
  <2>3. /\ g_hv_mem' \in [Slots -> SlotSet]
        /\ \A j \in Slots : g_hv_mem'[j] = IF j = i THEN slot ELSE g_hv_mem[j]
    BY <1>2, <2>1, <2>2, Typed
  <2>4. UNCHANGED <<gpu, next_res, origin, shared, failed>>
    BY <1>1 DEF gpuVars, historyVars
  <2>5. TypeOK'
    <3>1. "idle" \in Steps /\ NoWork \in WorkSet /\ "exported" \in Lives
      BY <1>2, Fields DEF Steps, NoWork, WorkSet, Lives
    <3>2. /\ pc' \in [Threads -> Steps] /\ life' \in [Handles -> Lives]
          /\ cur' \in [Threads -> WorkSet]
          /\ \A u \in Threads : pc'[u] # "idle" => cur'[u].handle \in Handles /\ cur'[u].slot \in Slots
      BY <1>2, <2>1, <3>1, Typed DEF Return, Goto
    <3> QED
      BY <1>2, <2>3, <2>4, <3>2, Typed, TypeNext
  <2>6. /\ \A u : u \in Busy' <=> u \in Busy /\ u # t
        /\ \A u \in Threads : u # t => pc'[u] = pc[u] /\ cur'[u] = cur[u]
        /\ \A u \in Busy : u # t => /\ cur[u].handle # h
                                    /\ cur[u].slot = i => cur[u].handle \in shared /\ h \in shared
        /\ \A k \in Handles : life'[k] = IF k = h THEN "exported" ELSE life[k]
        /\ Resting' /\ Apart' /\ Stages' /\ Freeing' /\ Fresh' /\ Working'
    <3>1. "exported" \in Lives
      BY DEF Lives
    <3>2. \A j \in Slots : j # i => g_hv_mem'[j] = g_hv_mem[j]
      BY <2>3
    <3>3. g_hv_mem'[i].blob.res \in {0, g_hv_mem[i].blob.res}
          /\ (g_hv_mem'[i].blob.mapped => g_hv_mem'[i].blob.res # 0)
      BY <1>2, <2>2, <2>3
    <3>4. \A r \in ResIds : /\ r # g_hv_mem[i].blob.res => gpu'[r] = gpu[r]
                            /\ gpu[r] = "none" => gpu'[r] = "none"
      BY <2>4
    <3> QED
      BY <1>1, <2>1, <2>4, <2>5, <3>1, <3>2, <3>3, <3>4, LeaveOthers
  <2>7. Accounted'
    <3>1. \A r \in ResIds :
            gpu'[r] # "none" /\ g_hv_mem[i].blob.res = r /\ origin[r] = h =>
              g_hv_mem'[i].blob.res = r /\ g_hv_mem'[i].used /\ g_hv_mem'[i].handle = origin[r]
      BY <1>2, <2>2, <2>3
    <3>2. \A j \in Slots : j # i => g_hv_mem'[j] = g_hv_mem[j]
      BY <2>3
    <3>3. /\ \A r \in ResIds : gpu[r] = "none" => gpu'[r] = "none"
          /\ \A r : r \in failed => r \in failed'
      BY <2>4
    <3>4. \A u \in Threads : u # t => cur'[u] = cur[u]
      BY <2>6
    <3>5. \A u : u \in Busy' <=> u \in Busy /\ u # t
      BY <2>6
    <3> QED
      BY <1>1, <1>2, <2>4, <2>5, <3>1, <3>2, <3>3, <3>4, <3>5, LeaveAccounted
  <2>8. \A j \in Slots : g_hv_mem[j].used => /\ g_hv_mem[j].handle # h
                                             /\ g_hv_mem[j].handle \in Handles
                                             /\ j = i => g_hv_mem[j].handle \in shared
    BY <1>1, <1>2 DEF IInv, Entries, Stages, Occupied
  <2>9. Occupied'
    <3> SUFFICES ASSUME NEW u \in Busy, u # t, g_hv_mem'[cur[u].slot].used
                 PROVE  \/ pc[u] \in FreeSteps /\ cur[u].handle = g_hv_mem'[cur[u].slot].handle
                        \/ cur[u].handle \in shared /\ g_hv_mem'[cur[u].slot].handle \in shared
      BY <2>4, <2>6 DEF Occupied, Busy
    <3>1. cur[u].slot \in Slots
      BY <1>2, Typed DEF Busy
    <3>2. CASE cur[u].slot = i
      BY <3>2, <1>2, <2>2, <2>3, <2>6
    <3>3. CASE cur[u].slot # i
      BY <3>1, <3>3, <2>3 DEF IInv, Occupied
    <3> QED
      BY <3>2, <3>3
  <2>10. Entries'
    <3> SUFFICES ASSUME NEW j \in Slots, g_hv_mem'[j].used
                 PROVE  LET k == g_hv_mem'[j].handle IN
                        /\ k \in Handles
                        /\ life'[k] \notin {"none", "pending"}
                        /\ k \in shared \/ life'[k] \in {"exported", "freeing"}
                        /\ \A m \in Slots : g_hv_mem'[m].used /\ g_hv_mem'[m].handle = k => j = m
      BY <2>4 DEF Entries
    <3>1. CASE j = i
      <4>1. g_hv_mem'[j].handle = h
        BY <2>2, <2>3, <3>1
      <4>2. life'[h] = "exported"
        BY <1>2, <2>6
      <4>3. \A m \in Slots : g_hv_mem'[m].used /\ g_hv_mem'[m].handle = h => j = m
        BY <2>3, <2>8, <3>1
      <4> QED
        BY <1>2, <4>1, <4>2, <4>3
    <3>2. CASE j # i
      <4> DEFINE k == g_hv_mem[j].handle
      <4>1. g_hv_mem'[j] = g_hv_mem[j] /\ g_hv_mem[j].used /\ k # h
        BY <2>3, <2>8, <3>2
      <4>2. /\ k \in Handles /\ life[k] \notin {"none", "pending"}
            /\ k \in shared \/ life[k] \in {"exported", "freeing"}
            /\ \A m \in Slots : g_hv_mem[m].used /\ g_hv_mem[m].handle = k => j = m
        BY <4>1 DEF IInv, Entries
      <4>3. life'[k] = life[k]
        BY <2>6, <4>1, <4>2
      <4>4. \A m \in Slots : g_hv_mem'[m].used /\ g_hv_mem'[m].handle = k => j = m
        BY <2>2, <2>3, <4>1, <4>2
      <4> QED
        BY <4>1, <4>2, <4>3, <4>4
    <3> QED
      BY <3>1, <3>2
  <2>11. HasSlot'
    <3> SUFFICES ASSUME NEW k \in Handles, k \notin shared, life'[k] = "exported"
                 PROVE  \E j \in Slots : g_hv_mem'[j].used /\ g_hv_mem'[j].handle = k
      BY <2>4 DEF HasSlot
    <3>1. CASE k = h
      BY <3>1, <1>2, <2>2, <2>3
    <3>2. CASE k # h
      <4>1. PICK j \in Slots : g_hv_mem[j].used /\ g_hv_mem[j].handle = k
        BY <3>2, <2>6 DEF IInv, HasSlot
      <4>2. j # i
        BY <4>1, <2>8
      <4> QED
        BY <4>1, <4>2, <2>3
    <3> QED
      BY <3>1, <3>2
  <2>12. SlotExported'
    <3> SUFFICES ASSUME NEW j \in Slots, g_hv_mem'[j].used, g_hv_mem'[j].handle \notin shared,
                        life'[g_hv_mem'[j].handle] = "exported"
                 PROVE  Exported(g_hv_mem'[j].blob, g_hv_mem'[j].handle, gpu, origin)
      BY <2>4 DEF SlotExported
    <3>1. CASE j = i
      <4>1. g_hv_mem'[j].handle = h /\ g_hv_mem'[j].blob = Blob(t)
        BY <2>2, <2>3, <3>1
      <4> QED
        BY <1>2, <4>1 DEF Fits
    <3>2. CASE j # i
      <4>1. g_hv_mem'[j] = g_hv_mem[j]
        BY <2>3, <3>2
      <4>2. life[g_hv_mem[j].handle] = "exported"
        BY <4>1, <2>6, <2>8
      <4> QED
        BY <4>1, <4>2 DEF IInv, SlotExported
    <3> QED
      BY <3>1, <3>2
  <2> QED
    BY <2>5, <2>6, <2>7, <2>9, <2>10, <2>11, <2>12 DEF IInv
<1> QED
  BY <1>3, <1>4

-----------------------------------------------------------------------------
(* The first step of a call *)

\* The entry of a memory that has one.
LEMMA EntryIs ==
  ASSUME TypeOK, Entries, NEW i \in Slots, NEW h, g_hv_mem[i].used, g_hv_mem[i].handle = h
  PROVE  EntriesOf(h) = {i} /\ First(EntriesOf(h)) = i
<1>1. EntriesOf(h) = {i}
  BY DEF EntriesOf, Entries
<1>2. i \in Nat
  BY Typed DEF Slots
<1>3. First({i}) = i
  BY <1>2 DEF First
<1> QED
  BY <1>1, <1>3

\* A slot is chosen and cleared; nobody else is told.
LEMMA AllocateStep1 ==
  ASSUME IInv, NEW t \in Threads, Allocate(t)
  PROVE  IInv'
<1>1. PICK h \in Handles, i \in Slots :
        /\ pc[t] = "idle" /\ NewHandle(h) /\ FirstFree(i)
        /\ life' = [life EXCEPT ![h] = "pending"]
        /\ cur' = [cur EXCEPT ![t] = [handle |-> h, slot |-> i]]
        /\ g_hv_mem' = [g_hv_mem EXCEPT ![i] = Holding(g_hv_mem[i], NoBlob)]
        /\ shared' = IF WorkedOn(i) = {} THEN shared ELSE shared \cup WorkedOn(i) \cup {h}
        /\ pc' = [pc EXCEPT ![t] = "submit"]
        /\ UNCHANGED <<gpuVars, origin, failed>>
  BY DEF Allocate, Goto
<1>2. TypeOK /\ UNCHANGED <<gpu, next_res, origin, failed>>
  BY <1>1 DEF IInv, gpuVars
<1>3. life[h] = "none" /\ ~g_hv_mem[i].used
  BY <1>1 DEF NewHandle, FirstFree
<1>4. /\ \A u \in Threads : pc'[u] = IF u = t THEN "submit" ELSE pc[u]
      /\ \A u \in Threads : u # t => cur'[u] = cur[u]
      /\ cur'[t].handle = h /\ cur'[t].slot = i
      /\ \A k \in Handles : life'[k] = IF k = h THEN "pending" ELSE life[k]
  BY <1>1, <1>2, Typed
<1>5. \A u : u \in Busy' <=> u \in Busy \/ u = t
  BY <1>4 DEF Busy
<1>6. \A u \in Busy : /\ u \in Threads /\ u # t
                      /\ cur[u].handle \in Handles /\ cur[u].slot \in Slots
                      /\ life[cur[u].handle] \in {"pending", "freeing"}
                      /\ cur[u].handle # h
  <2>1. \A u \in Busy : /\ u \in Threads /\ u # t
                        /\ cur[u].handle \in Handles /\ cur[u].slot \in Slots
                        /\ pc[u] \in AllocSteps \cup FreeSteps
    BY <1>1, <1>2, Typed, Fields DEF Busy
  <2> QED
    BY <2>1, <1>3 DEF IInv, Stages
<1>7. /\ shared' \in SUBSET Handles
      /\ \A x : x \in shared => x \in shared'
      /\ \A u \in Busy : cur[u].slot = i => cur[u].handle \in shared' /\ h \in shared'
  <2>1. \A x : x \in WorkedOn(i) => x \in Handles
    <3> SUFFICES ASSUME NEW u \in Threads, cur[u].slot = i PROVE cur[u].handle \in Handles
      BY DEF WorkedOn
    <3>1. u \in Busy
      BY <1>2, Fields DEF IInv, Resting, Busy
    <3> QED
      BY <3>1, <1>6
  <2>2. \A u \in Busy : cur[u].slot = i => cur[u].handle \in WorkedOn(i)
    BY <1>6 DEF WorkedOn
  <2>3. shared \in SUBSET Handles
    BY <1>2, Typed
  <2> QED
    BY <1>1, <2>1, <2>2, <2>3
<1>8. /\ g_hv_mem' \in [Slots -> SlotSet]
      /\ \A j \in Slots : /\ g_hv_mem'[j].used = g_hv_mem[j].used
                          /\ g_hv_mem'[j].handle = g_hv_mem[j].handle
                          /\ j # i => g_hv_mem'[j].blob = g_hv_mem[j].blob
      /\ g_hv_mem'[i].blob = NoBlob
  <2> DEFINE slot == Holding(g_hv_mem[i], NoBlob)
  <2>1. /\ slot.used = g_hv_mem[i].used /\ slot.handle = g_hv_mem[i].handle
        /\ slot.blob = NoBlob /\ slot \in SlotSet
    BY <1>2, Fields, NoBlobType DEF Holding, AsSlot, SlotSet
  <2>2. g_hv_mem' = [g_hv_mem EXCEPT ![i] = slot]
    BY <1>1
  <2> HIDE DEF slot
  <2> QED
    BY <1>2, <2>1, <2>2, Typed
<1>9. NoBlob.res = 0 /\ NoBlob.mapped = FALSE
  BY Made
<1>10. TypeOK'
  <2>1. "submit" \in Steps /\ "pending" \in Lives
    BY DEF Steps, Lives
  <2>2. [handle |-> h, slot |-> i] \in WorkSet
    BY <1>2, VulkanMemoryAssumption DEF WorkSet, Handles, Slots
  <2>3. /\ pc' \in [Threads -> Steps] /\ life' \in [Handles -> Lives]
        /\ cur' \in [Threads -> WorkSet]
    BY <1>1, <1>2, <2>1, <2>2, Typed
  <2>4. \A u \in Threads : pc'[u] # "idle" => cur'[u].handle \in Handles /\ cur'[u].slot \in Slots
    BY <1>2, <1>4, Typed
  <2> QED
    BY <1>2, <1>7, <1>8, <2>3, <2>4, Typed, TypeNext
<1>11. "submit" # "idle" /\ "submit" \in AllocSteps /\ "submit" \notin FreeSteps
  BY DEF AllocSteps, FreeSteps
<1>12. Resting'
  BY <1>4, <1>11 DEF IInv, Resting
<1>13. Apart'
  BY <1>4, <1>5, <1>6, <1>7 DEF IInv, Apart
<1>14. Occupied'
  BY <1>3, <1>4, <1>5, <1>6, <1>7, <1>8 DEF IInv, Occupied
<1>15. Stages'
  BY <1>4, <1>5, <1>6, <1>11 DEF IInv, Stages
<1>16. Entries'
  <2> SUFFICES ASSUME NEW j \in Slots, g_hv_mem[j].used
               PROVE  LET k == g_hv_mem[j].handle IN
                      /\ k \in Handles
                      /\ life'[k] \notin {"none", "pending"}
                      /\ k \in shared' \/ life'[k] \in {"exported", "freeing"}
                      /\ \A m \in Slots : g_hv_mem[m].used /\ g_hv_mem[m].handle = k => j = m
    BY <1>8 DEF Entries
  <2> QED
    BY <1>3, <1>4, <1>7 DEF IInv, Entries
<1>17. Freeing'
  BY <1>4, <1>5, <1>6, <1>7, <1>8, <1>11 DEF IInv, Freeing
<1>18. HasSlot'
  BY <1>4, <1>7, <1>8 DEF IInv, HasSlot
<1>19. SlotExported'
  <2> SUFFICES ASSUME NEW j \in Slots, g_hv_mem[j].used, g_hv_mem[j].handle \notin shared',
                      life'[g_hv_mem[j].handle] = "exported"
               PROVE  Exported(g_hv_mem'[j].blob, g_hv_mem[j].handle, gpu, origin)
    BY <1>2, <1>8 DEF SlotExported
  <2>1. g_hv_mem[j].handle \in Handles
    BY DEF IInv, Entries
  <2>2. life[g_hv_mem[j].handle] = "exported"
    BY <2>1, <1>4
  <2> QED
    BY <2>2, <1>3, <1>7, <1>8 DEF IInv, SlotExported
<1>20. Fresh'
  <2>1. \A j \in Slots : \/ g_hv_mem'[j].blob = g_hv_mem[j].blob
                         \/ j = i /\ g_hv_mem'[j].blob.res = 0 /\ ~g_hv_mem'[j].blob.mapped
    BY <1>8, <1>9
  <2>2. 0 < next_res
    BY <1>2, Typed
  <2> QED
    BY <1>2, <2>1, <2>2 DEF IInv, Fresh
<1>21. Working'
  <2> SUFFICES ASSUME NEW u, u \in Busy \/ u = t, cur'[u].handle \notin shared'
               PROVE  Fits(pc'[u], g_hv_mem'[cur'[u].slot].blob, cur'[u].handle, gpu, origin, failed)
    BY <1>2, <1>5 DEF Working
  <2>1. CASE u = t
    BY <2>1, <1>4, <1>8, <1>9 DEF Fits
  <2>2. CASE u \in Busy
    BY <2>2, <1>4, <1>6, <1>7, <1>8 DEF IInv, Working
  <2> QED
    BY <2>1, <2>2
<1>22. Accounted'
  <2> SUFFICES ASSUME NEW r \in ResIds, gpu[r] # "none", r \notin failed, origin[r] \notin shared'
               PROVE  \E j \in Slots :
                        /\ g_hv_mem'[j].blob.res = r
                        /\ \/ g_hv_mem[j].used /\ g_hv_mem[j].handle = origin[r]
                           \/ \E u \in Busy' : cur'[u].slot = j /\ cur'[u].handle = origin[r]
    BY <1>2, <1>8 DEF Accounted
  <2>1. PICK j \in Slots :
          /\ g_hv_mem[j].blob.res = r
          /\ \/ g_hv_mem[j].used /\ g_hv_mem[j].handle = origin[r]
             \/ \E u \in Busy : cur[u].slot = j /\ cur[u].handle = origin[r]
    BY <1>7 DEF IInv, Accounted
  <2>2. j # i
    BY <2>1, <1>3, <1>7
  <2>3. \A u \in Busy : u \in Busy' /\ cur'[u] = cur[u]
    BY <1>4, <1>5, <1>6
  <2> QED
    BY <2>1, <2>2, <2>3, <1>8
<1> QED
  BY <1>10, <1>12, <1>13, <1>14, <1>15, <1>16, <1>17, <1>18, <1>19, <1>20, <1>21, <1>22 DEF IInv

\* A memory without a slot comes to be or is dropped: only its life changes.
LEMMA LifeStep ==
  ASSUME IInv, NEW h \in Handles, NEW l \in {"plain", "freed"},
         life' = [life EXCEPT ![h] = l],
         UNCHANGED <<g_hv_mem, gpuVars, threadVars, historyVars>>,
         life[h] \notin {"pending", "freeing"},
         \A i \in Slots : g_hv_mem[i].used => g_hv_mem[i].handle # h
  PROVE  IInv'
<1>1. TypeOK /\ UNCHANGED <<g_hv_mem, gpu, next_res, pc, cur, origin, shared, failed>>
  BY DEF IInv, gpuVars, threadVars, historyVars
<1>2. \A k \in Handles : life'[k] = IF k = h THEN l ELSE life[k]
  BY <1>1, Typed
<1>3. TypeOK'
  <2>1. l \in Lives
    BY DEF Lives
  <2>2. life' \in [Handles -> Lives]
    BY <1>1, <2>1, Typed
  <2> QED
    BY <1>1, <2>2, Typed, TypeNext
<1>4. Busy' = Busy
  BY <1>1 DEF Busy
<1>5. Resting' /\ Apart' /\ Occupied' /\ Freeing' /\ Fresh' /\ Working' /\ Accounted'
  BY <1>1, <1>4 DEF IInv, Resting, Apart, Occupied, Freeing, Fresh, Working, Accounted
<1>6. Stages'
  <2>1. \A t \in Busy : cur[t].handle \in Handles
    BY <1>1, Typed DEF Busy
  <2> QED
    BY <1>1, <1>2, <1>4, <2>1 DEF IInv, Stages
<1>7. Entries'
  BY <1>1, <1>2 DEF IInv, Entries
<1>8. HasSlot' /\ SlotExported'
  BY <1>1, <1>2 DEF IInv, HasSlot, SlotExported, Entries
<1> QED
  BY <1>3, <1>5, <1>6, <1>7, <1>8 DEF IInv

LEMMA AllocatePlainStep ==
  ASSUME IInv, NEW t \in Threads, AllocatePlain(t)
  PROVE  IInv'
<1>1. PICK h \in Handles :
        /\ life[h] = "none" /\ life' = [life EXCEPT ![h] = "plain"]
        /\ UNCHANGED <<g_hv_mem, gpuVars, threadVars, historyVars>>
  BY DEF AllocatePlain, NewHandle
<1>2. \A i \in Slots : g_hv_mem[i].used => g_hv_mem[i].handle # h
  BY <1>1 DEF IInv, Entries
<1> QED
  BY <1>1, <1>2, LifeStep

\* vkFreeMemory finds the entry: a thread goes into a slot in use.
LEMMA FreeEntryStep ==
  ASSUME IInv, NEW t \in Threads, NEW h \in Handles, NEW i \in Slots,
         pc[t] = "idle", life[h] \in {"exported", "staged", "plain"},
         g_hv_mem[i].used, g_hv_mem[i].handle = h,
         life' = [life EXCEPT ![h] = "freeing"],
         cur' = [cur EXCEPT ![t] = [handle |-> h, slot |-> i]],
         pc' = [pc EXCEPT ![t] = "free_unmap"],
         UNCHANGED <<g_hv_mem, gpuVars, historyVars>>
  PROVE  IInv'
<1>1. TypeOK /\ UNCHANGED <<g_hv_mem, gpu, next_res, origin, shared, failed>>
  BY DEF IInv, gpuVars, historyVars
<1>2. /\ \A u \in Threads : pc'[u] = IF u = t THEN "free_unmap" ELSE pc[u]
      /\ \A u \in Threads : u # t => cur'[u] = cur[u]
      /\ cur'[t].handle = h /\ cur'[t].slot = i
      /\ \A k \in Handles : life'[k] = IF k = h THEN "freeing" ELSE life[k]
  BY <1>1, Typed
<1>3. \A u : u \in Busy' <=> u \in Busy \/ u = t
  BY <1>2 DEF Busy
<1>4. \A u \in Busy : /\ u \in Threads /\ u # t
                      /\ cur[u].handle \in Handles /\ cur[u].slot \in Slots
                      /\ cur[u].handle # h
  <2>1. \A u \in Busy : /\ u \in Threads /\ u # t
                        /\ cur[u].handle \in Handles /\ cur[u].slot \in Slots
                        /\ pc[u] \in AllocSteps \cup FreeSteps
    BY <1>1, Typed, Fields DEF Busy
  <2> QED
    BY <2>1 DEF IInv, Stages
<1>5. \A u \in Busy : cur[u].slot = i => cur[u].handle \in shared /\ h \in shared
  BY <1>4 DEF IInv, Occupied
<1>6. "free_unmap" # "idle" /\ "free_unmap" \notin AllocSteps /\ "free_unmap" \in FreeSteps
  BY DEF AllocSteps, FreeSteps
<1>7. TypeOK'
  <2>1. "free_unmap" \in Steps /\ "freeing" \in Lives
    BY DEF Steps, Lives
  <2>2. [handle |-> h, slot |-> i] \in WorkSet
    BY <1>1, VulkanMemoryAssumption DEF WorkSet, Handles, Slots
  <2>3. /\ pc' \in [Threads -> Steps] /\ life' \in [Handles -> Lives]
        /\ cur' \in [Threads -> WorkSet]
    BY <1>1, <2>1, <2>2, Typed
  <2>4. \A u \in Threads : pc'[u] # "idle" => cur'[u].handle \in Handles /\ cur'[u].slot \in Slots
    BY <1>1, <1>2, Typed
  <2> QED
    BY <1>1, <2>3, <2>4, Typed, TypeNext
<1>8. Resting'
  BY <1>2, <1>6 DEF IInv, Resting
<1>9. Apart'
  BY <1>1, <1>2, <1>3, <1>4, <1>5 DEF IInv, Apart
<1>10. Occupied'
  BY <1>1, <1>2, <1>3, <1>4, <1>6 DEF IInv, Occupied
<1>11. Stages'
  BY <1>2, <1>3, <1>4, <1>6 DEF IInv, Stages
<1>12. Entries'
  BY <1>1, <1>2 DEF IInv, Entries
<1>13. Freeing'
  BY <1>1, <1>2, <1>3, <1>4, <1>6 DEF IInv, Freeing
<1>14. HasSlot'
  BY <1>1, <1>2 DEF IInv, HasSlot
<1>15. SlotExported'
  BY <1>1, <1>2 DEF IInv, SlotExported, Entries
<1>16. Fresh'
  BY <1>1 DEF IInv, Fresh
<1>17. Working'
  <2> SUFFICES ASSUME NEW u, u \in Busy \/ u = t, cur'[u].handle \notin shared
               PROVE  Fits(pc'[u], g_hv_mem[cur'[u].slot].blob, cur'[u].handle, gpu, origin, failed)
    BY <1>1, <1>3 DEF Working
  <2>1. CASE u = t
    <3>1. life[h] = "exported"
      BY <2>1, <1>2 DEF IInv, Entries
    <3>2. Exported(g_hv_mem[i].blob, h, gpu, origin)
      BY <2>1, <3>1, <1>2 DEF IInv, SlotExported
    <3> QED
      BY <2>1, <3>2, <1>2 DEF Fits
  <2>2. CASE u \in Busy
    BY <2>2, <1>2, <1>4 DEF IInv, Working
  <2> QED
    BY <2>1, <2>2
<1>18. Accounted'
  <2>1. \A u \in Busy : u \in Busy' /\ cur'[u] = cur[u]
    BY <1>2, <1>3, <1>4
  <2> SUFFICES ASSUME NEW r \in ResIds, gpu[r] # "none", r \notin failed, origin[r] \notin shared
               PROVE  \E j \in Slots :
                        /\ g_hv_mem[j].blob.res = r
                        /\ \/ g_hv_mem[j].used /\ g_hv_mem[j].handle = origin[r]
                           \/ \E u \in Busy' : cur'[u].slot = j /\ cur'[u].handle = origin[r]
    BY <1>1 DEF Accounted
  <2>2. PICK j \in Slots :
          /\ g_hv_mem[j].blob.res = r
          /\ \/ g_hv_mem[j].used /\ g_hv_mem[j].handle = origin[r]
             \/ \E u \in Busy : cur[u].slot = j /\ cur[u].handle = origin[r]
    BY DEF IInv, Accounted
  <2> QED
    BY <2>1, <2>2
<1> QED
  BY <1>7, <1>8, <1>9, <1>10, <1>11, <1>12, <1>13, <1>14, <1>15, <1>16, <1>17, <1>18 DEF IInv

LEMMA FreeStep1 ==
  ASSUME IInv, NEW t \in Threads, Free(t)
  PROVE  IInv'
<1>1. PICK h \in Handles :
        /\ pc[t] = "idle" /\ life[h] \in {"exported", "staged", "plain"}
        /\ IF EntriesOf(h) = {}
           THEN life' = [life EXCEPT ![h] = "freed"] /\ UNCHANGED threadVars
           ELSE /\ life' = [life EXCEPT ![h] = "freeing"]
                /\ cur' = [cur EXCEPT ![t] = [handle |-> h, slot |-> First(EntriesOf(h))]]
                /\ pc' = [pc EXCEPT ![t] = "free_unmap"]
        /\ UNCHANGED <<g_hv_mem, gpuVars, historyVars>>
  BY DEF Free, Goto
<1>2. CASE EntriesOf(h) = {}
  <2>1. \A i \in Slots : g_hv_mem[i].used => g_hv_mem[i].handle # h
    BY <1>2 DEF EntriesOf
  <2>2. /\ life' = [life EXCEPT ![h] = "freed"]
        /\ UNCHANGED <<g_hv_mem, gpuVars, threadVars, historyVars>>
    BY <1>1, <1>2
  <2> QED
    BY <1>1, <2>1, <2>2, LifeStep
<1>3. CASE EntriesOf(h) # {}
  <2>1. PICK i \in Slots : g_hv_mem[i].used /\ g_hv_mem[i].handle = h
    BY <1>3 DEF EntriesOf
  <2>2. First(EntriesOf(h)) = i
    BY <2>1, EntryIs DEF IInv
  <2> QED
    BY <1>1, <1>3, <2>1, <2>2, FreeEntryStep
<1> QED
  BY <1>2, <1>3

-----------------------------------------------------------------------------
(* The invariant *)

LEMMA InitIInv == Init => IInv
<1> SUFFICES ASSUME Init PROVE IInv
  OBVIOUS
<1>1. /\ \A i \in Slots : ~g_hv_mem[i].used /\ g_hv_mem[i].blob = NoBlob
      /\ NoBlob.res = 0 /\ NoBlob.mapped = FALSE
  BY DEF Init, FreeSlot, AsSlot, NoBlob, AsBlob
<1>2. /\ \A r \in ResIds : gpu[r] = "none"
      /\ next_res = 1
  BY DEF Init, Layer!Init, ResIds, Layer!ResIds
<1>3. Busy = {} /\ \A t \in Threads : cur[t].slot = 0
  BY DEF Init, Busy, NoWork
<1>4. TypeOK
  <2>1. FreeSlot \in SlotSet
    <3>1. FALSE \in BOOLEAN /\ 0 \in 0..MaxMem /\ NoBlob \in BlobSet
      BY VulkanMemoryAssumption, NoBlobType
    <3> QED
      BY <3>1, Made DEF FreeSlot
  <2>2. g_hv_mem \in [Slots -> SlotSet]
    BY <2>1 DEF Init
  <2>3. gpu \in [ResIds -> Layer!States]
    BY DEF Init, Layer!Init, ResIds, Layer!ResIds, Layer!States
  <2>4. next_res \in 1..(MaxRes + 1)
    BY <1>2, VulkanMemoryAssumption
  <2>5. life \in [Handles -> Lives] /\ pc \in [Threads -> Steps]
    BY DEF Init, Lives, Steps
  <2>6. cur \in [Threads -> WorkSet]
    <3>1. NoWork \in WorkSet
      BY VulkanMemoryAssumption DEF NoWork, WorkSet
    <3> QED
      BY <3>1 DEF Init
  <2>7. origin \in [ResIds -> 0..MaxMem]
    <3>1. 0 \in 0..MaxMem
      BY VulkanMemoryAssumption
    <3> QED
      BY <3>1 DEF Init
  <2>8. shared \in SUBSET Handles /\ failed \in SUBSET ResIds
    BY DEF Init
  <2>9. \A t \in Busy : cur[t].handle \in Handles /\ cur[t].slot \in Slots
    BY <1>3
  <2> QED
    BY <2>2, <2>3, <2>4, <2>5, <2>6, <2>7, <2>8, <2>9, Zenon DEF TypeOK, SlotSet, BlobSet, WorkSet
<1>5. Resting /\ Apart /\ Occupied /\ Stages /\ Freeing /\ Working
  BY <1>3 DEF Resting, Apart, Occupied, Stages, Freeing, Working
<1>6. Entries /\ SlotExported
  BY <1>1 DEF Entries, SlotExported
<1>7. HasSlot
  BY DEF HasSlot, Init
<1>8. Fresh
  BY <1>1, <1>2 DEF Fresh
<1>9. Accounted
  BY <1>2 DEF Accounted
<1> QED
  BY <1>4, <1>5, <1>6, <1>7, <1>8, <1>9 DEF IInv

LEMMA StutterIInv == IInv /\ UNCHANGED vars => IInv'
<1> SUFFICES ASSUME IInv, UNCHANGED vars PROVE IInv'
  OBVIOUS
<1>1. UNCHANGED <<g_hv_mem, gpu, next_res, life, pc, cur, origin, shared, failed>>
  BY DEF vars, gpuVars, threadVars, historyVars
<1>2. Busy' = Busy
  BY <1>1 DEF Busy
<1>3. TypeOK'
  <2>1. TypeOK
    BY DEF IInv
  <2> QED
    BY <1>1, <2>1, Typed, TypeNext
<1> QED
  BY <1>1, <1>2, <1>3
    DEF IInv, Resting, Apart, Occupied, Stages, Entries, Freeing, HasSlot, SlotExported,
        Fresh, Working, Accounted

LEMMA NextIInv == IInv /\ [Next]_vars => IInv'
<1> SUFFICES ASSUME IInv, [Next]_vars PROVE IInv'
  OBVIOUS
<1>1. CASE UNCHANGED vars
  BY <1>1, StutterIInv
<1>2. ASSUME NEW t \in Threads, AllocateStep(t) \/ FreeStep(t)
      PROVE  IInv'
  <2>1. CASE Allocate(t)
    BY <2>1, AllocateStep1
  <2>2. CASE AllocatePlain(t)
    BY <2>2, AllocatePlainStep
  <2>3. CASE SubmitAllocate(t)
    BY <2>3, SubmitAllocateStep
  <2>4. CASE CreateBlob(t)
    BY <2>4, CreateBlobStep
  <2>5. CASE MapBlob(t)
    BY <2>5, MapBlobStep
  <2>6. CASE Attach(t)
    BY <2>6, AttachStep
  <2>7. CASE Commit(t)
    BY <2>7, CommitStep
  <2>8. CASE UndoUnmap(t)
    <3>1. "undo_destroy" \in Steps
      BY DEF Steps
    <3> QED
      BY <2>8, <3>1, UnmapStep DEF UndoUnmap
  <2>9. CASE UndoDestroy(t)
    BY <2>9, UndoDestroyStep
  <2>10. CASE Free(t)
    BY <2>10, FreeStep1
  <2>11. CASE FreeUnmap(t)
    <3>1. "free_destroy" \in Steps
      BY DEF Steps
    <3> QED
      BY <2>11, <3>1, UnmapStep DEF FreeUnmap
  <2>12. CASE FreeDestroy(t)
    BY <2>12, FreeDestroyStep
  <2> QED
    BY <1>2, <2>1, <2>2, <2>3, <2>4, <2>5, <2>6, <2>7, <2>8, <2>9, <2>10, <2>11, <2>12
      DEF AllocateStep, FreeStep
<1> QED
  BY <1>1, <1>2 DEF Next

LEMMA Invariant == Spec => []IInv
  BY InitIInv, NextIInv, PTL DEF Spec

-----------------------------------------------------------------------------
(* What it shows *)

\* The table, the threads' state and the histories keep their types: no slot holds a
\* handle or a resource that was not given out (g_hv_mem, uk_vulkan_dispatch.c).
THEOREM TypeCorrect == Spec => []TypeOK
<1>1. IInv => TypeOK
  BY DEF IInv
<1> QED
  BY <1>1, Invariant, PTL

\* vkMapMemory gives an exported memory the mapping of its own blob, and never the
\* staging buffer, unless two threads took its slot at once (uk_hv_mem_find and the
\* search for a slot in vkAllocateMemory).
THEOREM PointersAreOwn == Spec => []PointerIsOwn
<1>1. ASSUME IInv PROVE PointerIsOwn
  <2> SUFFICES ASSUME NEW h \in Handles, h \notin shared,
                      life[h] \in {"exported", "staged", "plain"}
               PROVE  /\ life[h] = "exported" => MapMemory(h) # 0
                      /\ MapMemory(h) # 0 => /\ origin[MapMemory(h)] = h
                                             /\ gpu[MapMemory(h)] = "mapped"
    BY DEF PointerIsOwn, Live
  <2>1. CASE life[h] = "exported"
    <3>1. PICK i \in Slots : g_hv_mem[i].used /\ g_hv_mem[i].handle = h
      BY <1>1, <2>1 DEF IInv, HasSlot
    <3>2. Exported(g_hv_mem[i].blob, h, gpu, origin)
      BY <1>1, <2>1, <3>1 DEF IInv, SlotExported
    <3>3. EntriesOf(h) = {i} /\ First(EntriesOf(h)) = i
      BY <1>1, <3>1, EntryIs DEF IInv
    <3>4. MapMemory(h) = g_hv_mem[i].blob.addr
      BY <3>3 DEF MapMemory
    <3> QED
      BY <3>2, <3>4 DEF Exported
  <2>2. CASE life[h] # "exported"
    <3>1. EntriesOf(h) = {}
      BY <1>1, <2>2 DEF IInv, Entries, EntriesOf
    <3> QED
      BY <2>2, <3>1 DEF MapMemory
  <2> QED
    BY <2>1, <2>2
<1> QED
  BY <1>1, Invariant, PTL

\* Every resource made for device memory is that of a slot in use or being filled,
\* unless taking it down failed or two threads shared its slot (the way out of
\* vkAllocateMemory, and vkFreeMemory).
THEOREM ResourcesAccounted == Spec => []EntriesAccounted
<1>1. ASSUME IInv PROVE EntriesAccounted
  <2> SUFFICES ASSUME NEW r \in ResIds, gpu[r] # "none", r \notin failed, origin[r] \notin shared
               PROVE  \E i \in Slots :
                        g_hv_mem[i].blob.res = r /\ (g_hv_mem[i].used \/ WorkedOn(i) # {})
    BY DEF EntriesAccounted
  <2>1. PICK i \in Slots :
          /\ g_hv_mem[i].blob.res = r
          /\ \/ g_hv_mem[i].used /\ g_hv_mem[i].handle = origin[r]
             \/ \E t \in Busy : cur[t].slot = i /\ cur[t].handle = origin[r]
    BY <1>1 DEF IInv, Accounted
  <2>2. ASSUME NEW t \in Busy, cur[t].slot = i PROVE WorkedOn(i) # {}
    BY <2>2 DEF WorkedOn, Busy
  <2> QED
    BY <2>1, <2>2
<1> QED
  BY <1>1, Invariant, PTL

\* A slot in use is that of one memory the application has not freed, whatever
\* commands fail, unless two threads shared it (vkFreeMemory gives the slot back).
THEOREM SlotsReturn == Spec => []SlotsComeBack
<1>1. ASSUME IInv PROVE SlotsComeBack
  <2> SUFFICES ASSUME NEW i \in Slots, g_hv_mem[i].used, g_hv_mem[i].handle \notin shared
               PROVE  /\ life[g_hv_mem[i].handle] \in {"exported", "freeing"}
                      /\ EntriesOf(g_hv_mem[i].handle) = {i}
    BY DEF SlotsComeBack
  <2>1. life[g_hv_mem[i].handle] \in {"exported", "freeing"}
    BY <1>1 DEF IInv, Entries
  <2>2. EntriesOf(g_hv_mem[i].handle) = {i}
    BY <1>1, EntryIs DEF IInv
  <2> QED
    BY <2>1, <2>2
<1> QED
  BY <1>1, Invariant, PTL
=============================================================================
