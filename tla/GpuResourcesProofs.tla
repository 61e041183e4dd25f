-------------------------- MODULE GpuResourcesProofs --------------------------
(***************************************************************************)
(* Proofs about GpuResources: its properties hold for any number of        *)
(* blobs, table slots and ids, any alignment, any size of the region and   *)
(* any width of the offset.  And GpuResources implements BlobLayer: every  *)
(* call of the driver, whatever its commands come to, is a step of the     *)
(* abstract layer or leaves every blob as it was.                          *)
(***************************************************************************)
EXTENDS GpuResources, TLAPS

-----------------------------------------------------------------------------
\* The inductive invariant

IsBlob(r) == resources[r].live /\ resources[r].is_blob

Apart(m, n) == m.offset + m.size <= n.offset \/ n.offset + n.size <= m.offset

\* Ids not yet given out have no entry.
EntriesAreOld == \A r \in Live : r < next_res

\* The blobs in the table lie below the next offset, apart from each other.
EntriesPlaced ==
  /\ \A r \in ResIds : IsBlob(r) => resources[r].offset + resources[r].size <= next_blob_map_offset
  /\ \A r, s \in ResIds : IsBlob(r) /\ IsBlob(s) /\ r # s => Apart(resources[r], resources[s])

\* The device maps only blobs of the table, where the table has them.
MapsAreEntries ==
  \A m \in host.maps :
    /\ IsBlob(m.res)
    /\ m.offset = resources[m.res].offset
    /\ m.size = resources[m.res].size

\* Only a created and mapped object has an address.
AddressedIsMapped == \A b \in Blobs : blob[b].addr => blob[b].created /\ blob[b].mapped

\* What the driver's tables alone satisfy.
TablesInv ==
  /\ EntriesAreOld
  /\ EntriesPlaced
  /\ BlobMatchesTable
  /\ NoEntryLost
  /\ AddressedIsMapped

\* What the tables and the device satisfy together.
HostInv ==
  /\ MapsAreEntries
  /\ HostLeaksAreKnown
  /\ LiveIsOnHost
  /\ PointersAreMapped

IInv == TypeOK /\ TablesInv /\ HostInv

-----------------------------------------------------------------------------
(* What the commands do to the device's state *)

\* A create adds a resource and nothing else.
LEMMA CreatedIs ==
  ASSUME NEW h \in Host, NEW r \in ResIds
  PROVE  /\ Created(h, r) \in Host
         /\ Created(h, r).res = h.res \cup {r}
         /\ Created(h, r).maps = h.maps
         /\ Created(h, r).ctx = h.ctx
  BY DEF Created, Host

\* An unref removes the resource with its mappings.
LEMMA UnreffedIs ==
  ASSUME NEW h \in Host, NEW r \in ResIds
  PROVE  /\ Unreffed(h, r) \in Host
         /\ Unreffed(h, r).res = h.res \ {r}
         /\ Unreffed(h, r).maps = {m \in h.maps : m.res # r}
         /\ Unreffed(h, r).ctx = h.ctx
  BY DEF Unreffed, Host

\* A map adds one mapping.
LEMMA MappedIs ==
  ASSUME NEW h \in Host, NEW r \in ResIds, NEW off \in Offsets, NEW size \in Offsets
  PROVE  /\ Mapped(h, r, off, size) \in Host
         /\ Mapped(h, r, off, size).res = h.res
         /\ Mapped(h, r, off, size).maps = h.maps \cup {[res |-> r, offset |-> off, size |-> size]}
         /\ Mapped(h, r, off, size).ctx = h.ctx
  BY DEF Mapped, Host, Mapping

\* An unmap removes the mappings of a resource.
LEMMA UnmappedIs ==
  ASSUME NEW h \in Host, NEW r \in ResIds
  PROVE  /\ Unmapped(h, r) \in Host
         /\ Unmapped(h, r).res = h.res
         /\ Unmapped(h, r).maps = {m \in h.maps : m.res # r}
         /\ Unmapped(h, r).ctx = h.ctx
  BY DEF Unmapped, Host

\* Contexts come and go without touching resources and mappings.
LEMMA CtxCreatedIs ==
  ASSUME NEW h \in Host, NEW c \in CtxIds
  PROVE  /\ CtxCreated(h, c) \in Host
         /\ CtxCreated(h, c).res = h.res
         /\ CtxCreated(h, c).maps = h.maps
         /\ CtxCreated(h, c).ctx = h.ctx \cup {c}
  BY DEF CtxCreated, Host

LEMMA CtxDestroyedIs ==
  ASSUME NEW h \in Host, NEW c \in CtxIds
  PROVE  /\ CtxDestroyed(h, c) \in Host
         /\ CtxDestroyed(h, c).res = h.res
         /\ CtxDestroyed(h, c).maps = h.maps
         /\ CtxDestroyed(h, c).ctx = h.ctx \ {c}
  BY DEF CtxDestroyed, Host

-----------------------------------------------------------------------------
(* The sizes and offsets of blobs *)

\* Rounding keeps a natural number one.
LEMMA RoundedNat == ASSUME NEW size \in Nat PROVE Rounded(size) \in Nat
<1>1. size + Align - 1 \in Nat
  BY GpuResourcesAssumption
<1>2. (size + Align - 1) \div Align \in Nat
  BY <1>1, GpuResourcesAssumption
<1>3. \A m, n \in Nat : m * n \in Nat
  OBVIOUS
<1> QED
  BY <1>2, <1>3, GpuResourcesAssumption DEF Rounded

\* A blob that fits has its size and the next offset in range.
LEMMA FittingInRange ==
  ASSUME NEW off \in Offsets, NEW size \in Nat, Fits(off, size)
  PROVE  /\ Rounded(size) \in Offsets
         /\ NextOffset(off, size) \in Offsets
         /\ NextOffset(off, size) = off + Rounded(size)
<1> USE GpuResourcesAssumption
<1>1. Rounded(size) \in Nat
  BY RoundedNat
<1> QED
  BY <1>1 DEF Fits, NextOffset, Offsets

-----------------------------------------------------------------------------
(* Type correctness *)

\* The empty tables and the idle device have their types.
LEMMA InitTypeOK == Init => TypeOK
  BY GpuResourcesAssumption DEF Init, TypeOK, Entry, BlobObject, Host, Offsets, ResIds, CtxIds,
     FreeRes, NoBlob

\* Every call of the driver, whatever becomes of its commands, keeps the types.
LEMMA NextTypeOK == TypeOK /\ BlobMatchesTable /\ [Next]_vars => TypeOK'
<1> SUFFICES ASSUME TypeOK, BlobMatchesTable, [Next]_vars PROVE TypeOK'
  OBVIOUS
<1> USE GpuResourcesAssumption
<1>a. /\ resources \in [ResIds -> Entry]
      /\ next_res \in 1..(MaxRes + 1) /\ next_ctx \in 1..(MaxCtx + 1)
      /\ contexts \in SUBSET CtxIds
      /\ next_blob_map_offset \in Offsets
      /\ blob \in [Blobs -> BlobObject]
      /\ host \in Host
      /\ late \in SUBSET Changes /\ overflowed \in SUBSET ResIds
  BY DEF TypeOK
<1>b. \A r \in ResIds : resources[r] \in Entry
  BY <1>a
<1>c. /\ \A b \in Blobs : blob[b].created => blob[b].id \in ResIds
      /\ \A b \in Blobs : blob[b] \in BlobObject /\ blob[b].size \in Offsets
  BY <1>a DEF BlobMatchesTable, BlobObject, Live
<1>d. \A r \in ResIds : resources[r].offset \in Offsets
  BY <1>b DEF Entry
<1>e. FreeRes \in Entry /\ NoBlob \in BlobObject
  BY DEF FreeRes, NoBlob, Entry, BlobObject, Offsets
<1>l. /\ \A op \in {"create", "unref", "map", "unmap"} : \A r \in ResIds : <<op, r>> \in Changes
      /\ \A op \in {"ctx_create", "ctx_destroy"} : \A c \in CtxIds : <<op, c>> \in Changes
  BY DEF Changes
<1>n. CanAllocRes => next_res \in ResIds /\ next_res + 1 \in 1..(MaxRes + 1)
  BY <1>a DEF CanAllocRes, ResIds
<1>s. ASSUME NEW o, NEW op, NEW id, NEW possible, NEW effect \in Host,
             <<op, id>> \in Changes, SubmitChange(o, op, id, possible, effect)
      PROVE  host' \in Host /\ late' \in SUBSET Changes
  BY <1>s, <1>a DEF SubmitChange, Submit, After
<1>t. ASSUME NEW o, NEW possible, NEW effect \in Host, Submit(o, possible, effect)
      PROVE  host' \in Host
  BY <1>t, <1>a DEF Submit, After
<1>u. \A r \in ResIds, v \in BOOLEAN :
        /\ [resources[r] EXCEPT !.live = v] \in Entry
        /\ [resources[r] EXCEPT !.backing = v] \in Entry
        /\ [resources[r] EXCEPT !.mapped = v] \in Entry
  BY <1>b DEF Entry
<1>1. CASE ResourceCreate
  <2>1. PICK o \in Outcomes :
          /\ SubmitChange(o, "create", next_res, next_res \notin host.res, Created(host, next_res))
          /\ resources' = IF o = "done"
                          THEN [resources EXCEPT ![next_res] = [FreeRes EXCEPT !.live = TRUE]]
                          ELSE resources
    BY <1>1 DEF ResourceCreate
  <2>2. next_res \in ResIds /\ next_res' \in 1..(MaxRes + 1)
    BY <1>1, <1>n DEF ResourceCreate
  <2>3. host' \in Host /\ late' \in SUBSET Changes
    BY <2>1, <2>2, <1>a, <1>l, <1>s, CreatedIs
  <2>4. [FreeRes EXCEPT !.live = TRUE] \in Entry
    BY <1>e DEF Entry
  <2>5. resources' \in [ResIds -> Entry]
    BY <2>1, <2>2, <2>4, <1>a
  <2> QED
    BY <1>1, <1>a, <2>2, <2>3, <2>5 DEF ResourceCreate, TypeOK, ctxVars
<1>2. CASE AttachBacking
  <2>1. PICK r \in ResIds, o \in Outcomes :
          /\ Submit(o, r \in host.res, [host EXCEPT !.backing = @ \cup {r}])
          /\ resources' = IF o = "done" THEN [resources EXCEPT ![r].backing = TRUE] ELSE resources
    BY <1>2 DEF AttachBacking, Live
  <2>2. [host EXCEPT !.backing = @ \cup {r}] \in Host
    BY <1>a DEF Host
  <2> QED
    BY <1>2, <1>a, <1>t, <1>u, <2>1, <2>2 DEF AttachBacking, TypeOK, ctxVars
<1>3. CASE DetachBacking
  <2>1. PICK r \in ResIds, o \in Outcomes :
          /\ Submit(o, r \in host.backing, [host EXCEPT !.backing = @ \ {r}])
          /\ resources' = IF o = "done" THEN [resources EXCEPT ![r].backing = FALSE] ELSE resources
    BY <1>3 DEF DetachBacking, Live
  <2>2. [host EXCEPT !.backing = @ \ {r}] \in Host
    BY <1>a DEF Host
  <2> QED
    BY <1>3, <1>a, <1>t, <1>u, <2>1, <2>2 DEF DetachBacking, TypeOK, ctxVars
<1>4. CASE UseResource
  <2>1. host' \in Host
    BY <1>4, <1>a DEF UseResource, Submit, After
  <2> QED
    BY <1>4, <1>a, <2>1 DEF UseResource, TypeOK, guestVars
<1>5. CASE Transfer2D
  <2>1. host' \in Host
    BY <1>5, <1>a DEF Transfer2D, Submit, After
  <2> QED
    BY <1>5, <1>a, <2>1 DEF Transfer2D, TypeOK, guestVars
<1>6. CASE ResourceUnref
  <2>1. PICK r \in ResIds, o \in Outcomes :
          /\ SubmitChange(o, "unref", r, r \in host.res, Unreffed(host, r))
          /\ resources' = IF o = "done" THEN [resources EXCEPT ![r] = FreeRes] ELSE resources
    BY <1>6 DEF ResourceUnref, Live
  <2>2. host' \in Host /\ late' \in SUBSET Changes
    BY <2>1, <1>a, <1>l, <1>s, UnreffedIs
  <2> QED
    BY <1>6, <1>a, <1>e, <2>1, <2>2 DEF ResourceUnref, TypeOK, ctxVars
<1>7. CASE BlobCreate
  <2>1. PICK b \in Blobs, size \in Sizes, o \in Outcomes :
          /\ CanAllocRes
          /\ next_res' = next_res + 1
          /\ SubmitChange(o, "create", next_res, next_res \notin host.res, Created(host, next_res))
          /\ overflowed' \in {overflowed, overflowed \cup {next_res}}
          /\ \/ /\ Fits(next_blob_map_offset, size)
                /\ resources' = [resources EXCEPT ![next_res] =
                     [FreeRes EXCEPT !.live = TRUE, !.is_blob = TRUE,
                                     !.offset = next_blob_map_offset, !.size = Rounded(size)]]
                /\ next_blob_map_offset' = NextOffset(next_blob_map_offset, size)
                /\ blob' = [blob EXCEPT ![b] =
                     [NoBlob EXCEPT !.created = TRUE, !.id = next_res,
                                    !.offset = next_blob_map_offset, !.size = Rounded(size)]]
             \/ UNCHANGED <<resources, next_blob_map_offset, blob>>
    BY <1>7 DEF BlobCreate
  <2>2. next_res \in ResIds /\ next_res \in 0..MaxRes /\ next_res' \in 1..(MaxRes + 1)
    BY <2>1, <1>n DEF ResIds
  <2>3. host' \in Host /\ late' \in SUBSET Changes
    BY <2>1, <2>2, <1>a, <1>l, <1>s, CreatedIs
  <2>4. /\ resources' \in [ResIds -> Entry]
        /\ next_blob_map_offset' \in Offsets
        /\ blob' \in [Blobs -> BlobObject]
    <3>1. CASE UNCHANGED <<resources, next_blob_map_offset, blob>>
      BY <3>1, <1>a
    <3>2. CASE Fits(next_blob_map_offset, size)
      <4>1. size \in Nat
        OBVIOUS
      <4>2. Rounded(size) \in Offsets /\ NextOffset(next_blob_map_offset, size) \in Offsets
        BY <4>1, <3>2, <1>a, FittingInRange
      <4>3. [FreeRes EXCEPT !.live = TRUE, !.is_blob = TRUE,
               !.offset = next_blob_map_offset, !.size = Rounded(size)] \in Entry
        BY <4>2, <1>a DEF FreeRes, Entry
      <4>4. [NoBlob EXCEPT !.created = TRUE, !.id = next_res,
               !.offset = next_blob_map_offset, !.size = Rounded(size)] \in BlobObject
        BY <4>2, <2>2, <1>a DEF NoBlob, BlobObject
      <4> QED
        BY <2>1, <2>2, <4>2, <4>3, <4>4, <1>a
    <3> QED
      BY <2>1, <3>1, <3>2
  <2>5. overflowed' \in SUBSET ResIds
    BY <2>1, <2>2, <1>a
  <2> QED
    BY <1>7, <1>a, <2>2, <2>3, <2>4, <2>5 DEF BlobCreate, TypeOK, ctxVars
<1>v. \A b \in Blobs, v \in BOOLEAN, w \in BOOLEAN :
        /\ [blob[b] EXCEPT !.mapped = v] \in BlobObject
        /\ [blob[b] EXCEPT !.mapped = v, !.addr = w] \in BlobObject
  BY <1>c DEF BlobObject
<1>w. \A b \in Blobs, v \in BOOLEAN, w \in BOOLEAN :
        [blob EXCEPT ![b].mapped = v, ![b].addr = w] \in [Blobs -> BlobObject]
  BY <1>a, <1>v
<1>8. CASE BlobMap
  <2>1. PICK b \in Blobs, o \in Outcomes :
          /\ blob[b].created
          /\ SubmitChange(o, "map", blob[b].id, blob[b].id \in host.res /\ ~HasMapping(host, blob[b].id),
                 Mapped(host, blob[b].id, resources[blob[b].id].offset, blob[b].size))
          /\ \/ /\ resources' = [resources EXCEPT ![blob[b].id].mapped = TRUE]
                /\ blob' = [blob EXCEPT ![b].mapped = TRUE, ![b].addr = TRUE]
             \/ UNCHANGED <<resources, blob>>
    BY <1>8 DEF BlobMap
  <2>2. blob[b].id \in ResIds
    BY <2>1, <1>c
  <2>3. host' \in Host /\ late' \in SUBSET Changes
    BY <2>1, <2>2, <1>a, <1>c, <1>d, <1>l, <1>s, MappedIs
  <2>4. resources' \in [ResIds -> Entry]
    BY <2>1, <2>2, <1>a, <1>u
  <2>5. blob' \in [Blobs -> BlobObject]
    BY <2>1, <1>a, <1>w
  <2> QED
    BY <1>8, <1>a, <2>3, <2>4, <2>5 DEF BlobMap, TypeOK, ctxVars
<1>9. CASE BlobMapBeyond
  <2>1. PICK b \in Blobs, o \in Outcomes, u \in Outcomes :
          /\ blob[b].created
          /\ host' = After(o, host, After(u,
                 Mapped(host, blob[b].id, resources[blob[b].id].offset, blob[b].size),
                 Unmapped(Mapped(host, blob[b].id, resources[blob[b].id].offset, blob[b].size),
                          blob[b].id)))
          /\ late' = late \cup (IF o = "late" THEN {<<"map", blob[b].id>>} ELSE {})
                          \cup (IF u = "late" THEN {<<"unmap", blob[b].id>>} ELSE {})
          /\ \/ /\ resources' = [resources EXCEPT ![blob[b].id].mapped = TRUE]
                /\ blob' = [blob EXCEPT ![b].mapped = TRUE]
             \/ UNCHANGED <<resources, blob>>
    BY <1>9 DEF BlobMapBeyond
  <2>2. blob[b].id \in ResIds
    BY <2>1, <1>c
  <2>3. host' \in Host
    BY <2>1, <2>2, <1>a, <1>c, <1>d, MappedIs, UnmappedIs DEF After
  <2>4. late' \in SUBSET Changes
    BY <2>1, <2>2, <1>a, <1>l
  <2>5. resources' \in [ResIds -> Entry]
    BY <2>1, <2>2, <1>a, <1>u
  <2>6. blob' \in [Blobs -> BlobObject]
    BY <2>1, <1>a, <1>v
  <2> QED
    BY <1>9, <1>a, <2>3, <2>4, <2>5, <2>6 DEF BlobMapBeyond, TypeOK, ctxVars
<1>10. CASE BlobUnmap
  <2>1. PICK b \in Blobs, o \in Outcomes :
          /\ blob[b].created
          /\ SubmitChange(o, "unmap", blob[b].id, HasMapping(host, blob[b].id),
                          Unmapped(host, blob[b].id))
          /\ \/ /\ resources' = [resources EXCEPT ![blob[b].id].mapped = FALSE]
                /\ blob' = [blob EXCEPT ![b].mapped = FALSE, ![b].addr = FALSE]
             \/ UNCHANGED <<resources, blob>>
    BY <1>10 DEF BlobUnmap
  <2>2. blob[b].id \in ResIds
    BY <2>1, <1>c
  <2>3. host' \in Host /\ late' \in SUBSET Changes
    BY <2>1, <2>2, <1>a, <1>l, <1>s, UnmappedIs
  <2>4. resources' \in [ResIds -> Entry]
    BY <2>1, <2>2, <1>a, <1>u
  <2>5. blob' \in [Blobs -> BlobObject]
    BY <2>1, <1>a, <1>w
  <2> QED
    BY <1>10, <1>a, <2>3, <2>4, <2>5 DEF BlobUnmap, TypeOK, ctxVars
<1>11. CASE BlobDestroy
  <2>1. PICK b \in Blobs, o \in Outcomes :
          /\ blob[b].created
          /\ SubmitChange(o, "unref", blob[b].id, blob[b].id \in host.res,
                          Unreffed(host, blob[b].id))
          /\ \/ /\ resources' = [resources EXCEPT ![blob[b].id] = FreeRes]
                /\ blob' = [blob EXCEPT ![b] = NoBlob]
             \/ UNCHANGED <<resources, blob>>
    BY <1>11 DEF BlobDestroy
  <2>2. blob[b].id \in ResIds
    BY <2>1, <1>c
  <2>3. host' \in Host /\ late' \in SUBSET Changes
    BY <2>1, <2>2, <1>a, <1>l, <1>s, UnreffedIs
  <2> QED
    BY <1>11, <1>a, <1>e, <2>1, <2>2, <2>3 DEF BlobDestroy, TypeOK, ctxVars
<1>12. CASE ContextCreate
  <2>1. PICK o \in Outcomes :
          /\ SubmitChange(o, "ctx_create", next_ctx, next_ctx \notin host.ctx,
                          CtxCreated(host, next_ctx))
          /\ contexts' = IF o = "done" THEN contexts \cup {next_ctx} ELSE contexts
    BY <1>12 DEF ContextCreate
  <2>2. next_ctx \in CtxIds /\ next_ctx' \in 1..(MaxCtx + 1)
    BY <1>12, <1>a DEF ContextCreate, CtxIds
  <2>3. host' \in Host /\ late' \in SUBSET Changes
    BY <2>1, <2>2, <1>a, <1>l, <1>s, CtxCreatedIs
  <2> QED
    BY <1>12, <1>a, <2>1, <2>2, <2>3 DEF ContextCreate, TypeOK
<1>13. CASE ContextDestroy
  <2>1. PICK c \in contexts, o \in Outcomes :
          /\ SubmitChange(o, "ctx_destroy", c, c \in host.ctx, CtxDestroyed(host, c))
          /\ contexts' = IF o = "done" THEN contexts \ {c} ELSE contexts
    BY <1>13 DEF ContextDestroy
  <2>2. host' \in Host /\ late' \in SUBSET Changes
    BY <2>1, <1>a, <1>l, <1>s, CtxDestroyedIs
  <2> QED
    BY <1>13, <1>a, <2>1, <2>2 DEF ContextDestroy, TypeOK
<1>14. CASE ContextAttach
  <2>1. PICK c \in CtxIds, r \in ResIds, o \in Outcomes :
          Submit(o, c \in host.ctx /\ r \in host.res,
                 [host EXCEPT !.attached = @ \cup {<<c, r>>}])
    BY <1>14, <1>a DEF ContextAttach, Live
  <2>2. [host EXCEPT !.attached = @ \cup {<<c, r>>}] \in Host
    BY <1>a DEF Host
  <2> QED
    BY <1>14, <1>a, <1>t, <2>1, <2>2 DEF ContextAttach, TypeOK, guestVars
<1>15. CASE ContextDetach
  <2>1. PICK c \in CtxIds, r \in ResIds, o \in Outcomes :
          Submit(o, <<c, r>> \in host.attached,
                 [host EXCEPT !.attached = @ \ {<<c, r>>}])
    BY <1>15, <1>a DEF ContextDetach, Live
  <2>2. [host EXCEPT !.attached = @ \ {<<c, r>>}] \in Host
    BY <1>a DEF Host
  <2> QED
    BY <1>15, <1>a, <1>t, <2>1, <2>2 DEF ContextDetach, TypeOK, guestVars
<1>16. CASE UNCHANGED vars
  BY <1>16, <1>a DEF TypeOK, vars, guestVars
<1> QED
  BY <1>1, <1>2, <1>3, <1>4, <1>5, <1>6, <1>7, <1>8, <1>9, <1>10, <1>11, <1>12, <1>13,
     <1>14, <1>15, <1>16 DEF Next

-----------------------------------------------------------------------------
(* The invariant is inductive *)

\* The fields of an entry that the invariant speaks of.
SameEntry(e, f) ==
  /\ e.live = f.live /\ e.is_blob = f.is_blob /\ e.mapped = f.mapped
  /\ e.offset = f.offset /\ e.size = f.size

\* A step that keeps the entries and the blob objects keeps their invariant.
LEMMA TablesKept ==
  ASSUME TypeOK, TypeOK', TablesInv, next_res <= next_res',
         next_blob_map_offset' = next_blob_map_offset, blob' = blob,
         \A r \in ResIds : SameEntry(resources'[r], resources[r])
  PROVE  TablesInv' /\ Live' = Live
<1>1. Live' = Live
  BY DEF SameEntry, Live
<1>2. \A r \in ResIds : IsBlob(r)' = IsBlob(r)
  BY DEF SameEntry, IsBlob
<1>3. EntriesAreOld'
  <2> SUFFICES ASSUME NEW r \in Live PROVE r < next_res'
    BY <1>1 DEF EntriesAreOld
  <2> QED
    BY DEF TablesInv, EntriesAreOld, TypeOK, Live, ResIds
<1>4. EntriesPlaced'
  BY <1>2 DEF TablesInv, EntriesPlaced, SameEntry, Apart
<1>5. BlobMatchesTable'
  BY <1>1 DEF TablesInv, BlobMatchesTable, SameEntry, Live
<1>6. NoEntryLost'
  BY <1>1 DEF TablesInv, NoEntryLost, SameEntry, Live
<1>7. AddressedIsMapped'
  BY DEF TablesInv, AddressedIsMapped
<1> QED
  BY <1>1, <1>3, <1>4, <1>5, <1>6, <1>7 DEF TablesInv

\* So does one that keeps also the device's mappings, when what the device has
\* gained or lost otherwise is accounted for.
LEMMA Accounted ==
  ASSUME IInv, TypeOK', next_res <= next_res',
         next_blob_map_offset' = next_blob_map_offset, blob' = blob,
         \A r \in ResIds : SameEntry(resources'[r], resources[r]),
         late \subseteq late', overflowed \subseteq overflowed',
         host'.maps = host.maps, host.res \subseteq host'.res,
         \A r \in host'.res \ host.res : <<"create", r>> \in late' \/ r \in overflowed',
         \A c \in host'.ctx \ contexts' : <<"ctx_create", c>> \in late',
         \A c \in contexts' \ host'.ctx : <<"ctx_destroy", c>> \in late'
  PROVE  IInv'
<1> USE DEF IInv, HostInv
<1>1. TablesInv' /\ Live' = Live
  BY TablesKept
<1>2. MapsAreEntries'
  <2>1. \A m \in host.maps : m.res \in ResIds
    BY DEF TypeOK, Host, Mapping
  <2> QED
    BY <2>1 DEF MapsAreEntries, IsBlob, SameEntry
<1>3. HostLeaksAreKnown' /\ LiveIsOnHost'
  BY <1>1 DEF HostLeaksAreKnown, LiveIsOnHost
<1>4. PointersAreMapped'
  BY DEF PointersAreMapped
<1> QED
  BY <1>1, <1>2, <1>3, <1>4

\* In particular one that the device does not notice.
LEMMA NothingMoved ==
  ASSUME IInv, TypeOK', contexts' = contexts, next_res' = next_res,
         next_blob_map_offset' = next_blob_map_offset, blob' = blob,
         late' = late, overflowed' = overflowed,
         \A r \in ResIds : SameEntry(resources'[r], resources[r]),
         host'.res = host.res, host'.maps = host.maps, host'.ctx = host.ctx
  PROVE  IInv'
<1>1. next_res <= next_res'
  BY DEF IInv, TypeOK
<1>2. HostLeaksAreKnown /\ LiveIsOnHost
  BY DEF IInv, HostInv
<1> QED
  BY <1>1, <1>2, Accounted DEF HostLeaksAreKnown, LiveIsOnHost

\* Creating a resource.
LEMMA ResourceCreateIInv == IInv /\ TypeOK' /\ ResourceCreate => IInv'
<1> SUFFICES ASSUME IInv, TypeOK', ResourceCreate PROVE IInv'
  OBVIOUS
<1> USE DEF IInv, HostInv
<1>1. PICK o \in Outcomes :
        /\ SubmitChange(o, "create", next_res, next_res \notin host.res, Created(host, next_res))
        /\ resources' = IF o = "done"
                        THEN [resources EXCEPT ![next_res] = [FreeRes EXCEPT !.live = TRUE]]
                        ELSE resources
  BY DEF ResourceCreate
<1>2. /\ CanAllocRes /\ next_res' = next_res + 1
      /\ UNCHANGED <<contexts, next_blob_map_offset, blob, overflowed>>
  BY DEF ResourceCreate, ctxVars
<1>3. next_res \in ResIds /\ host \in Host /\ next_res <= next_res'
  BY <1>2, GpuResourcesAssumption DEF TypeOK, CanAllocRes, ResIds
<1>4. /\ host'.res \subseteq host.res \cup {next_res} /\ host.res \subseteq host'.res
      /\ host'.maps = host.maps /\ host'.ctx = host.ctx
      /\ late \subseteq late'
      /\ o = "done" => next_res \in host'.res
      /\ o = "late" => <<"create", next_res>> \in late'
      /\ o = "refused" => host' = host
  BY <1>1, <1>3, CreatedIs DEF SubmitChange, Submit, After
<1>5. MapsAreEntries /\ \A m \in host.maps : m.res \in ResIds
  BY <1>3 DEF Host, Mapping
<1>6. CASE o = "done"
  <2>1. next_res \notin Live
    BY <1>3 DEF TablesInv, EntriesAreOld, TypeOK
  <2>2. \A x \in ResIds : x # next_res => resources'[x] = resources[x]
    BY <1>1, <1>3, <1>6 DEF TypeOK
  <2>3. resources'[next_res].live /\ ~resources'[next_res].is_blob
    BY <1>1, <1>3, <1>6 DEF TypeOK, FreeRes
  <2>4. Live' = Live \cup {next_res}
    BY <1>3, <2>2, <2>3 DEF Live
  <2>5. \A x \in ResIds : IsBlob(x)' = IsBlob(x)
    BY <2>1, <2>2, <2>3 DEF IsBlob, Live
  <2>6. \A x \in ResIds : IsBlob(x) => x # next_res /\ resources'[x] = resources[x]
    BY <2>1, <2>2 DEF IsBlob, Live
  <2>7. EntriesAreOld'
    BY <2>4, <1>2, <1>3 DEF TablesInv, EntriesAreOld, TypeOK, Live, ResIds
  <2>8. EntriesPlaced'
    BY <1>2, <2>5, <2>6 DEF TablesInv, EntriesPlaced, Apart
  <2>9. BlobMatchesTable'
    BY <1>2, <2>1, <2>2, <2>4 DEF TablesInv, BlobMatchesTable, Live
  <2>10. NoEntryLost'
    BY <1>2, <2>1, <2>2, <2>3, <2>4 DEF TablesInv, NoEntryLost, Live
  <2>11. AddressedIsMapped'
    BY <1>2 DEF TablesInv, AddressedIsMapped
  <2>12. MapsAreEntries'
    BY <1>4, <1>5, <2>5, <2>6 DEF MapsAreEntries
  <2>13. HostLeaksAreKnown' /\ LiveIsOnHost'
    BY <1>2, <1>4, <1>6, <2>4 DEF HostLeaksAreKnown, LiveIsOnHost
  <2>14. PointersAreMapped'
    BY <1>2, <1>4 DEF PointersAreMapped
  <2> QED
    BY <2>7, <2>8, <2>9, <2>10, <2>11, <2>12, <2>13, <2>14 DEF TablesInv
<1>7. CASE o # "done"
  <2>1. \A x \in ResIds : SameEntry(resources'[x], resources[x])
    BY <1>1, <1>7 DEF SameEntry
  <2>2. \A x \in host'.res \ host.res : <<"create", x>> \in late'
    BY <1>4, <1>7 DEF Outcomes
  <2>3. /\ \A c \in host'.ctx \ contexts' : <<"ctx_create", c>> \in late'
        /\ \A c \in contexts' \ host'.ctx : <<"ctx_destroy", c>> \in late'
    BY <1>2, <1>4 DEF HostLeaksAreKnown, LiveIsOnHost
  <2> QED
    BY <1>2, <1>3, <1>4, <2>1, <2>2, <2>3, Accounted
<1> QED
  BY <1>6, <1>7
\* The mappings of the other resources.
MapsWithout(r) == {m \in host.maps : m.res # r}

\* An unref or unmap that was not answered leaves the tables alone: the device
\* did nothing, or it did it and the history says so.
LEMMA RemovalNotAnswered ==
  ASSUME IInv, TypeOK', NEW r \in ResIds,
         UNCHANGED guestVars, UNCHANGED overflowed,
         late \subseteq late', host'.ctx = host.ctx, host'.res \subseteq host.res,
         \/ host' = host
         \/ /\ host'.maps = MapsWithout(r)
            /\ \/ <<"unref", r>> \in late' /\ host.res \subseteq host'.res \cup {r}
               \/ <<"unmap", r>> \in late' /\ host'.res = host.res
  PROVE  IInv'
<1> USE DEF IInv, HostInv
<1>1. /\ resources' = resources /\ next_res' = next_res /\ contexts' = contexts
      /\ next_blob_map_offset' = next_blob_map_offset /\ blob' = blob
      /\ overflowed' = overflowed
  BY DEF guestVars, ctxVars
<1>2. TablesInv' /\ Live' = Live
  BY <1>1, TablesKept DEF SameEntry, TypeOK
<1>3. MapsAreEntries'
  BY <1>1 DEF MapsAreEntries, IsBlob, MapsWithout
<1>4. HostLeaksAreKnown'
  BY <1>1, <1>2 DEF HostLeaksAreKnown
<1>5. LiveIsOnHost'
  BY <1>1, <1>2 DEF LiveIsOnHost
<1>6. PointersAreMapped'
  BY <1>1 DEF PointersAreMapped, MapsWithout
<1> QED
  BY <1>2, <1>3, <1>4, <1>5, <1>6

\* An answered unref removes the entry, its blob object if it has one, and what
\* the device had of it.
LEMMA RemovalAnswered ==
  ASSUME IInv, TypeOK', NEW r \in Live,
         host' = Unreffed(host, r), resources' = [resources EXCEPT ![r] = FreeRes],
         UNCHANGED <<next_res, contexts, next_blob_map_offset, late, overflowed>>,
         \/ ~resources[r].is_blob /\ blob' = blob
         \/ \E b \in Blobs : blob[b].created /\ blob[b].id = r /\ blob' = [blob EXCEPT ![b] = NoBlob]
  PROVE  IInv'
<1> USE DEF IInv, HostInv
<1>1. r \in ResIds /\ host \in Host /\ \A m \in host.maps : m.res \in ResIds
  BY DEF Live, TypeOK, Host, Mapping
<1>2. /\ host'.res = host.res \ {r}
      /\ host'.maps = MapsWithout(r)
      /\ host'.ctx = host.ctx
  BY <1>1, UnreffedIs DEF MapsWithout
<1>3. \A x \in ResIds : x # r => resources'[x] = resources[x]
  BY DEF TypeOK
<1>4. ~resources'[r].live
  BY <1>1 DEF TypeOK, FreeRes
<1>5. Live' = Live \ {r}
  BY <1>1, <1>3, <1>4 DEF Live
<1>6. \A x \in ResIds : IsBlob(x)' => IsBlob(x) /\ x # r /\ resources'[x] = resources[x]
  BY <1>3, <1>4 DEF IsBlob
<1>7. \A c \in Blobs : blob'[c].created => blob'[c] = blob[c] /\ blob[c].id # r
  <2>1. CASE ~resources[r].is_blob /\ blob' = blob
    BY <2>1 DEF TablesInv, BlobMatchesTable
  <2>2. CASE \E b \in Blobs : blob[b].created /\ blob[b].id = r /\ blob' = [blob EXCEPT ![b] = NoBlob]
    <3>1. PICK b \in Blobs : blob[b].created /\ blob[b].id = r /\ blob' = [blob EXCEPT ![b] = NoBlob]
      BY <2>2
    <3>2. ~blob'[b].created
      BY <3>1 DEF TypeOK, NoBlob
    <3>3. \A c \in Blobs \ {b} : blob'[c] = blob[c]
      BY <3>1 DEF TypeOK
    <3> QED
      BY <3>1, <3>2, <3>3 DEF TablesInv, BlobMatchesTable
  <2> QED
    BY <2>1, <2>2
<1>8. \A c \in Blobs : blob[c].created /\ blob[c].id # r => blob'[c] = blob[c]
  BY DEF TypeOK
<1>9. \A c \in Blobs : blob'[c].addr => blob'[c] = blob[c] /\ blob[c].created
  BY DEF TypeOK, NoBlob, TablesInv, AddressedIsMapped
<1>10. EntriesAreOld'
  BY <1>5 DEF TablesInv, EntriesAreOld
<1>11. EntriesPlaced'
  BY <1>6 DEF TablesInv, EntriesPlaced, Apart
<1>12. BlobMatchesTable'
  BY <1>3, <1>5, <1>7 DEF TablesInv, BlobMatchesTable, Live
<1>13. NoEntryLost'
  BY <1>1, <1>3, <1>5, <1>8 DEF TablesInv, NoEntryLost, Live
<1>14. AddressedIsMapped'
  BY <1>9 DEF TablesInv, AddressedIsMapped
<1>15. MapsAreEntries'
  BY <1>1, <1>2, <1>3 DEF MapsAreEntries, IsBlob, MapsWithout
<1>16. HostLeaksAreKnown' /\ LiveIsOnHost'
  BY <1>2, <1>5 DEF HostLeaksAreKnown, LiveIsOnHost
<1>17. PointersAreMapped'
  BY <1>2, <1>7, <1>9, <1>14 DEF MapsWithout, PointersAreMapped, AddressedIsMapped
<1> QED
  BY <1>10, <1>11, <1>12, <1>13, <1>14, <1>15, <1>16, <1>17 DEF TablesInv

\* Unreferencing a resource.
LEMMA ResourceUnrefIInv == IInv /\ TypeOK' /\ ResourceUnref => IInv'
<1> SUFFICES ASSUME IInv, TypeOK', ResourceUnref PROVE IInv'
  OBVIOUS
<1>1. PICK r \in Live, o \in Outcomes :
        /\ ~resources[r].is_blob
        /\ SubmitChange(o, "unref", r, r \in host.res, Unreffed(host, r))
        /\ resources' = IF o = "done" THEN [resources EXCEPT ![r] = FreeRes] ELSE resources
  BY DEF ResourceUnref
<1>2. UNCHANGED <<next_res, ctxVars, next_blob_map_offset, blob, overflowed>>
  BY DEF ResourceUnref
<1>3. r \in ResIds /\ host \in Host
  BY DEF Live, IInv, TypeOK
<1>4. CASE o = "done"
  BY <1>1, <1>2, <1>4, RemovalAnswered DEF SubmitChange, Submit, After, ctxVars
<1>5. CASE o # "done"
  <2>1. UNCHANGED guestVars /\ UNCHANGED overflowed
    BY <1>1, <1>2, <1>5 DEF guestVars, ctxVars
  <2>2. /\ late \subseteq late' /\ host'.ctx = host.ctx /\ host'.res \subseteq host.res
        /\ \/ host' = host
           \/ /\ host'.maps = MapsWithout(r)
              /\ <<"unref", r>> \in late' /\ host.res \subseteq host'.res \cup {r}
    BY <1>1, <1>3, <1>5, UnreffedIs DEF MapsWithout, SubmitChange, Submit, After, Outcomes
  <2> QED
    BY <1>3, <2>1, <2>2, RemovalNotAnswered
<1> QED
  BY <1>4, <1>5

\* Destroying a blob.
LEMMA BlobDestroyIInv == IInv /\ TypeOK' /\ BlobDestroy => IInv'
<1> SUFFICES ASSUME IInv, TypeOK', BlobDestroy PROVE IInv'
  OBVIOUS
<1>1. PICK b \in Blobs, o \in Outcomes :
        /\ blob[b].created
        /\ SubmitChange(o, "unref", blob[b].id, blob[b].id \in host.res,
                        Unreffed(host, blob[b].id))
        /\ IF o = "done" THEN /\ resources' = [resources EXCEPT ![blob[b].id] = FreeRes]
                              /\ blob' = [blob EXCEPT ![b] = NoBlob]
                          ELSE UNCHANGED <<resources, blob>>
  BY DEF BlobDestroy
<1>2. UNCHANGED <<next_res, ctxVars, next_blob_map_offset, overflowed>>
  BY DEF BlobDestroy
<1>3. blob[b].id \in Live /\ blob[b].id \in ResIds /\ host \in Host
  BY <1>1 DEF IInv, TypeOK, TablesInv, BlobMatchesTable, Live
<1>4. CASE o = "done"
  BY <1>1, <1>2, <1>3, <1>4, RemovalAnswered DEF SubmitChange, Submit, After, ctxVars
<1>5. CASE o # "done"
  <2>1. UNCHANGED guestVars /\ UNCHANGED overflowed
    BY <1>1, <1>2, <1>5 DEF guestVars, ctxVars
  <2>2. /\ late \subseteq late' /\ host'.ctx = host.ctx /\ host'.res \subseteq host.res
        /\ \/ host' = host
           \/ /\ host'.maps = MapsWithout(blob[b].id)
              /\ <<"unref", blob[b].id>> \in late' /\ host.res \subseteq host'.res \cup {blob[b].id}
    BY <1>1, <1>3, <1>5, UnreffedIs DEF MapsWithout, SubmitChange, Submit, After, Outcomes
  <2> QED
    BY <1>3, <2>1, <2>2, RemovalNotAnswered
<1> QED
  BY <1>4, <1>5
\* Creating a blob.
LEMMA BlobCreateIInv == IInv /\ TypeOK' /\ BlobCreate => IInv'
<1> SUFFICES ASSUME IInv, TypeOK', BlobCreate PROVE IInv'
  OBVIOUS
<1> USE DEF IInv, HostInv
<1>1. PICK b \in Blobs, size \in Sizes, o \in Outcomes :
        /\ ~blob[b].created
        /\ SubmitChange(o, "create", next_res, next_res \notin host.res, Created(host, next_res))
        /\ overflowed' = IF o = "done" /\ ~Fits(next_blob_map_offset, size)
                         THEN overflowed \cup {next_res} ELSE overflowed
        /\ IF o = "done" /\ Fits(next_blob_map_offset, size)
           THEN /\ resources' = [resources EXCEPT ![next_res] =
                     [FreeRes EXCEPT !.live = TRUE, !.is_blob = TRUE,
                        !.offset = next_blob_map_offset, !.size = Rounded(size)]]
                /\ next_blob_map_offset' = NextOffset(next_blob_map_offset, size)
                /\ blob' = [blob EXCEPT ![b] =
                     [NoBlob EXCEPT !.created = TRUE, !.id = next_res,
                        !.offset = next_blob_map_offset, !.size = Rounded(size)]]
           ELSE UNCHANGED <<resources, next_blob_map_offset, blob>>
  BY DEF BlobCreate
<1>2. CanAllocRes /\ next_res' = next_res + 1 /\ contexts' = contexts
  BY DEF BlobCreate, ctxVars
<1>3. next_res \in ResIds /\ host \in Host /\ next_res <= next_res'
  BY <1>2, GpuResourcesAssumption DEF TypeOK, CanAllocRes, ResIds
<1>4. /\ host'.res \subseteq host.res \cup {next_res} /\ host.res \subseteq host'.res
      /\ host'.maps = host.maps /\ host'.ctx = host.ctx
      /\ late \subseteq late'
      /\ o = "done" => next_res \in host'.res
      /\ o = "late" => <<"create", next_res>> \in late'
      /\ o = "refused" => host' = host
  BY <1>1, <1>3, CreatedIs DEF SubmitChange, Submit, After
<1>5. /\ \A c \in host'.ctx \ contexts' : <<"ctx_create", c>> \in late'
      /\ \A c \in contexts' \ host'.ctx : <<"ctx_destroy", c>> \in late'
  BY <1>2, <1>4 DEF HostLeaksAreKnown, LiveIsOnHost
<1>6. CASE o = "done" /\ Fits(next_blob_map_offset, size)
  <2> DEFINE new == resources'[next_res]
  <2>1. next_res \notin Live
    BY <1>3 DEF TablesInv, EntriesAreOld, TypeOK
  <2>2. \A x \in ResIds : x # next_res => resources'[x] = resources[x]
    BY <1>1, <1>3, <1>6 DEF TypeOK
  <2>3. /\ new.live /\ new.is_blob /\ new.mapped = FALSE
        /\ new.offset = next_blob_map_offset /\ new.size = Rounded(size)
    <3> DEFINE e == [FreeRes EXCEPT !.live = TRUE, !.is_blob = TRUE,
                       !.offset = next_blob_map_offset, !.size = Rounded(size)]
    <3>1. /\ e.live /\ e.is_blob /\ e.mapped = FALSE
          /\ e.offset = next_blob_map_offset /\ e.size = Rounded(size)
      BY ONLY DEF FreeRes
    <3>2. resources' = [resources EXCEPT ![next_res] = e] /\ DOMAIN resources = ResIds
      BY <1>1, <1>6 DEF TypeOK
    <3> HIDE DEF e
    <3>3. new = e
      BY ONLY <3>2, <1>3
    <3> QED
      BY ONLY <3>1, <3>3
  <2>4. /\ blob'[b].created /\ blob'[b].id = next_res
        /\ blob'[b].mapped = FALSE /\ ~blob'[b].addr
        /\ blob'[b].offset = next_blob_map_offset /\ blob'[b].size = Rounded(size)
    <3> DEFINE e == [NoBlob EXCEPT !.created = TRUE, !.id = next_res,
                       !.offset = next_blob_map_offset, !.size = Rounded(size)]
    <3>1. /\ e.created /\ e.id = next_res /\ e.mapped = FALSE /\ ~e.addr
          /\ e.offset = next_blob_map_offset /\ e.size = Rounded(size)
      BY ONLY DEF NoBlob
    <3>2. blob' = [blob EXCEPT ![b] = e] /\ DOMAIN blob = Blobs /\ b \in Blobs
      BY <1>1, <1>6 DEF TypeOK
    <3> HIDE DEF e
    <3>3. blob'[b] = e
      BY ONLY <3>2
    <3> QED
      BY ONLY <3>1, <3>3
  <2>5. \A c \in Blobs \ {b} : blob'[c] = blob[c]
    BY <1>1, <1>6 DEF TypeOK
  <2>6. /\ size \in Nat /\ Rounded(size) \in Nat /\ next_blob_map_offset \in Nat
        /\ next_blob_map_offset' = next_blob_map_offset + Rounded(size)
    BY <1>1, <1>6, RoundedNat, GpuResourcesAssumption DEF NextOffset, TypeOK, Offsets
  <2>7. \A x \in ResIds : resources[x].offset \in Nat /\ resources[x].size \in Nat
    BY DEF TypeOK, Entry, Offsets
  <2>8. Live' = Live \cup {next_res}
    BY <1>3, <2>2, <2>3 DEF Live
  <2>9. \A x \in ResIds : x # next_res => IsBlob(x)' = IsBlob(x)
    BY <2>2 DEF IsBlob
  <2>10. \A x \in ResIds : IsBlob(x) => x # next_res /\ resources'[x] = resources[x]
    BY <2>1, <2>2 DEF IsBlob, Live
  <2>11. \A c \in Blobs : blob[c].created => blob[c].id # next_res /\ blob'[c] = blob[c]
    BY <1>1, <2>1, <2>5 DEF TablesInv, BlobMatchesTable
  <2>12. EntriesAreOld'
    BY <2>8, <1>2, <1>3 DEF TablesInv, EntriesAreOld, TypeOK, Live, ResIds
  <2>13. \A x \in ResIds : IsBlob(x) =>
           resources[x].offset + resources[x].size <= next_blob_map_offset
    BY DEF TablesInv, EntriesPlaced
  <2>14. \A x \in ResIds : IsBlob(x)' =>
            resources'[x].offset + resources'[x].size <= next_blob_map_offset'
    BY <2>2, <2>3, <2>6, <2>7, <2>9, <2>13
  <2>15. \A x, y \in ResIds : IsBlob(x)' /\ IsBlob(y)' /\ x # y =>
            Apart(resources'[x], resources'[y])
    BY <2>2, <2>3, <2>6, <2>7, <2>9, <2>13 DEF TablesInv, EntriesPlaced, Apart
  <2>16. EntriesPlaced'
    BY <2>14, <2>15 DEF EntriesPlaced, Apart
  <2>17. BlobMatchesTable'
    <3>1. \A c \in Blobs : blob'[c].created =>
            /\ blob'[c].id \in Live' /\ resources'[blob'[c].id].is_blob
            /\ resources'[blob'[c].id].mapped = blob'[c].mapped
            /\ resources'[blob'[c].id].offset = blob'[c].offset
            /\ resources'[blob'[c].id].size = blob'[c].size
      <4> SUFFICES ASSUME NEW c \in Blobs, blob'[c].created
                   PROVE  /\ blob'[c].id \in Live' /\ resources'[blob'[c].id].is_blob
                          /\ resources'[blob'[c].id].mapped = blob'[c].mapped
                          /\ resources'[blob'[c].id].offset = blob'[c].offset
                          /\ resources'[blob'[c].id].size = blob'[c].size
        OBVIOUS
      <4>1. CASE c = b
        BY <1>3, <2>3, <2>4, <2>8, <4>1
      <4>2. CASE c # b
        BY <2>2, <2>5, <2>8, <2>11, <4>2 DEF TablesInv, BlobMatchesTable, Live
      <4> QED
        BY <4>1, <4>2
    <3>2. \A c, e \in Blobs : blob'[c].created /\ blob'[e].created /\ c # e =>
            blob'[c].id # blob'[e].id
      BY <2>4, <2>5, <2>11 DEF TablesInv, BlobMatchesTable
    <3> QED
      BY <3>1, <3>2 DEF BlobMatchesTable
  <2>18. NoEntryLost'
    BY <2>2, <2>4, <2>8, <2>11 DEF TablesInv, NoEntryLost, Live
  <2>19. AddressedIsMapped'
    BY <2>4, <2>5 DEF TablesInv, AddressedIsMapped
  <2>20. MapsAreEntries'
    <3>1. \A m \in host.maps : m.res \in ResIds
      BY <1>3 DEF Host, Mapping
    <3> QED
      BY <1>4, <2>9, <2>10, <3>1 DEF MapsAreEntries
  <2>21. HostLeaksAreKnown' /\ LiveIsOnHost'
    BY <1>1, <1>4, <1>5, <1>6, <2>8 DEF HostLeaksAreKnown, LiveIsOnHost
  <2>22. PointersAreMapped'
    BY <1>4, <2>4, <2>5 DEF PointersAreMapped
  <2> QED
    BY <2>12, <2>16, <2>17, <2>18, <2>19, <2>20, <2>21, <2>22 DEF TablesInv
<1>7. CASE ~(o = "done" /\ Fits(next_blob_map_offset, size))
  <2>1. UNCHANGED <<resources, next_blob_map_offset, blob>>
    BY <1>1, <1>7
  <2>2. \A x \in ResIds : SameEntry(resources'[x], resources[x])
    BY <2>1 DEF SameEntry
  <2>3. /\ overflowed \subseteq overflowed'
        /\ \A x \in host'.res \ host.res : <<"create", x>> \in late' \/ x \in overflowed'
    BY <1>1, <1>4, <1>7 DEF Outcomes
  <2> QED
    BY <1>2, <1>3, <1>4, <1>5, <2>1, <2>2, <2>3, Accounted
<1> QED
  BY <1>6, <1>7
\* Marking a blob mapped or unmapped, in the table and in its object.
LEMMA TablesMarked ==
  ASSUME TypeOK, TypeOK', TablesInv, NEW b \in Blobs, NEW v \in BOOLEAN,
         blob[b].created,
         resources' = [resources EXCEPT ![blob[b].id].mapped = v],
         \A c \in Blobs \ {b} : blob'[c] = blob[c],
         blob'[b].created, blob'[b].id = blob[b].id, blob'[b].mapped = v,
         blob'[b].offset = blob[b].offset, blob'[b].size = blob[b].size,
         blob'[b].addr => v,
         next_res' = next_res, next_blob_map_offset' = next_blob_map_offset
  PROVE  /\ TablesInv' /\ Live' = Live
         /\ \A x \in ResIds : /\ IsBlob(x)' = IsBlob(x)
                              /\ resources'[x].offset = resources[x].offset
                              /\ resources'[x].size = resources[x].size
<1>1. blob[b].id \in ResIds
  BY DEF TablesInv, BlobMatchesTable, Live
<1>2. /\ \A x \in ResIds : /\ resources'[x].live = resources[x].live
                           /\ resources'[x].is_blob = resources[x].is_blob
                           /\ resources'[x].offset = resources[x].offset
                           /\ resources'[x].size = resources[x].size
                           /\ x # blob[b].id => resources'[x].mapped = resources[x].mapped
      /\ resources'[blob[b].id].mapped = v
  BY <1>1 DEF TypeOK, Entry
<1>3. Live' = Live
  BY <1>2 DEF Live
<1>4. \A x \in ResIds : IsBlob(x)' = IsBlob(x)
  BY <1>2 DEF IsBlob
<1>5. EntriesAreOld'
  BY <1>3 DEF TablesInv, EntriesAreOld
<1>6. EntriesPlaced'
  BY <1>2, <1>4 DEF TablesInv, EntriesPlaced, Apart
<1>7. \A c \in Blobs : /\ blob'[c].created = blob[c].created
                       /\ blob'[c].id = blob[c].id
                       /\ blob'[c].offset = blob[c].offset
                       /\ blob'[c].size = blob[c].size
                       /\ c # b => blob'[c].mapped = blob[c].mapped
  BY DEF TypeOK, BlobObject
<1>8. BlobMatchesTable'
  BY <1>1, <1>2, <1>3, <1>7 DEF TablesInv, BlobMatchesTable, Live
<1>9. NoEntryLost'
  BY <1>2, <1>3, <1>7 DEF TablesInv, NoEntryLost, Live
<1>10. AddressedIsMapped'
  BY DEF TablesInv, AddressedIsMapped
<1> QED
  BY <1>2, <1>3, <1>4, <1>5, <1>6, <1>8, <1>9, <1>10 DEF TablesInv

\* Mapping a blob inside the region.
LEMMA BlobMapIInv == IInv /\ TypeOK' /\ BlobMap => IInv'
<1> SUFFICES ASSUME IInv, TypeOK', BlobMap PROVE IInv'
  OBVIOUS
<1> USE DEF IInv, HostInv
<1>1. PICK b \in Blobs, o \in Outcomes :
        /\ blob[b].created
        /\ ~resources[blob[b].id].mapped
        /\ InBar(resources[blob[b].id].offset, blob[b].size)
        /\ SubmitChange(o, "map", blob[b].id, blob[b].id \in host.res /\ ~HasMapping(host, blob[b].id),
               Mapped(host, blob[b].id, resources[blob[b].id].offset, blob[b].size))
        /\ IF o = "done"
           THEN /\ resources' = [resources EXCEPT ![blob[b].id].mapped = TRUE]
                /\ blob' = [blob EXCEPT ![b].mapped = TRUE, ![b].addr = TRUE]
           ELSE UNCHANGED <<resources, blob>>
  BY DEF BlobMap
<1> DEFINE r == blob[b].id
<1> DEFINE m == [res |-> r, offset |-> blob[b].offset, size |-> blob[b].size]
<1>2. UNCHANGED <<next_res, contexts, next_blob_map_offset, overflowed>>
  BY DEF BlobMap, ctxVars
<1>3. /\ r \in ResIds /\ host \in Host /\ IsBlob(r)
      /\ resources[r].offset = blob[b].offset /\ resources[r].size = blob[b].size
      /\ blob[b].offset \in Offsets /\ blob[b].size \in Offsets
  BY <1>1 DEF TypeOK, BlobObject, TablesInv, BlobMatchesTable, IsBlob, Live
<1>4. /\ host'.res = host.res /\ host'.ctx = host.ctx
      /\ host.maps \subseteq host'.maps /\ host'.maps \subseteq host.maps \cup {m}
      /\ o = "done" => m \in host'.maps
      /\ late \subseteq late'
  BY <1>1, <1>3, MappedIs DEF SubmitChange, Submit, After
<1>5. /\ TablesInv' /\ Live' = Live
      /\ \A x \in ResIds : /\ IsBlob(x)' = IsBlob(x)
                           /\ resources'[x].offset = resources[x].offset
                           /\ resources'[x].size = resources[x].size
  <2>1. CASE o = "done"
    <3>1. /\ \A c \in Blobs \ {b} : blob'[c] = blob[c]
          /\ blob'[b].created /\ blob'[b].id = r /\ blob'[b].mapped = TRUE
          /\ blob'[b].offset = blob[b].offset /\ blob'[b].size = blob[b].size
      BY <1>1, <2>1 DEF TypeOK, BlobObject
    <3> QED
      BY <1>1, <1>2, <2>1, <3>1, TablesMarked
  <2>2. CASE o # "done"
    BY <1>1, <1>2, <2>2, TablesKept DEF SameEntry, TypeOK, IsBlob
  <2> QED
    BY <2>1, <2>2
<1>6. MapsAreEntries'
  <2>1. \A n \in host.maps : n.res \in ResIds
    BY <1>3 DEF Host, Mapping
  <2> QED
    BY <1>3, <1>4, <1>5, <2>1 DEF MapsAreEntries
<1>7. HostLeaksAreKnown' /\ LiveIsOnHost'
  BY <1>2, <1>4, <1>5 DEF HostLeaksAreKnown, LiveIsOnHost
<1>8. PointersAreMapped'
  <2>1. CASE o = "done"
    <3>1. /\ \A c \in Blobs \ {b} : blob'[c] = blob[c]
          /\ blob'[b].id = r /\ blob'[b].offset = blob[b].offset /\ blob'[b].size = blob[b].size
      BY <1>1, <2>1 DEF TypeOK, BlobObject
    <3>2. blob[b].offset + blob[b].size <= BarSize
      BY <1>1, <1>3 DEF InBar
    <3> QED
      BY <1>4, <2>1, <3>1, <3>2 DEF PointersAreMapped
  <2>2. CASE o # "done"
    BY <1>1, <1>4, <2>2 DEF PointersAreMapped
  <2> QED
    BY <2>1, <2>2
<1> QED
  BY <1>5, <1>6, <1>7, <1>8

\* Mapping a blob beyond the region.
LEMMA BlobMapBeyondIInv == IInv /\ TypeOK' /\ BlobMapBeyond => IInv'
<1> SUFFICES ASSUME IInv, TypeOK', BlobMapBeyond PROVE IInv'
  OBVIOUS
<1> USE DEF IInv, HostInv
<1>1. PICK b \in Blobs, o \in Outcomes, u \in Outcomes :
        /\ blob[b].created
        /\ ~resources[blob[b].id].mapped
        /\ o # "refused" => blob[b].id \in host.res /\ ~HasMapping(host, blob[b].id)
        /\ host' = After(o, host, After(u,
               Mapped(host, blob[b].id, resources[blob[b].id].offset, blob[b].size),
               Unmapped(Mapped(host, blob[b].id, resources[blob[b].id].offset, blob[b].size),
                        blob[b].id)))
        /\ late \subseteq late'
        /\ IF o = "done" /\ u # "done"
           THEN /\ resources' = [resources EXCEPT ![blob[b].id].mapped = TRUE]
                /\ blob' = [blob EXCEPT ![b].mapped = TRUE]
           ELSE UNCHANGED <<resources, blob>>
  BY DEF BlobMapBeyond
<1> DEFINE r == blob[b].id
<1> DEFINE m == [res |-> r, offset |-> blob[b].offset, size |-> blob[b].size]
<1> DEFINE h == Mapped(host, r, resources[r].offset, blob[b].size)
<1>2. UNCHANGED <<next_res, contexts, next_blob_map_offset, overflowed>>
  BY DEF BlobMapBeyond, ctxVars
<1>3. /\ r \in ResIds /\ host \in Host /\ IsBlob(r)
      /\ resources[r].offset = blob[b].offset /\ resources[r].size = blob[b].size
      /\ blob[b].offset \in Offsets /\ blob[b].size \in Offsets
      /\ ~blob[b].mapped /\ ~blob[b].addr
  BY <1>1 DEF TypeOK, BlobObject, TablesInv, BlobMatchesTable, AddressedIsMapped, IsBlob, Live
<1>4. /\ h \in Host /\ h.res = host.res /\ h.ctx = host.ctx
      /\ h.maps = host.maps \cup {m}
  BY <1>3, MappedIs
<1>5. /\ Unmapped(h, r).res = host.res /\ Unmapped(h, r).ctx = host.ctx
      /\ Unmapped(h, r).maps = {n \in host.maps \cup {m} : n.res # r}
  BY <1>3, <1>4, UnmappedIs
<1>6. host' \in {host, h, Unmapped(h, r)}
  BY <1>1 DEF After
<1>7. /\ host'.res = host.res /\ host'.ctx = host.ctx
      /\ host'.maps \subseteq host.maps \cup {m}
  BY <1>4, <1>5, <1>6
<1>8. \A n \in host.maps : n \in host'.maps
  <2>1. CASE o = "refused"
    BY <1>1, <2>1 DEF After
  <2>2. CASE o # "refused"
    <3>1. \A n \in host.maps : n.res # r
      BY <1>1, <2>2 DEF HasMapping
    <3> QED
      BY <1>4, <1>5, <1>6, <3>1
  <2> QED
    BY <2>1, <2>2
<1>9. /\ TablesInv' /\ Live' = Live
      /\ \A x \in ResIds : /\ IsBlob(x)' = IsBlob(x)
                           /\ resources'[x].offset = resources[x].offset
                           /\ resources'[x].size = resources[x].size
      /\ \A c \in Blobs : blob'[c].addr => blob'[c] = blob[c]
  <2>1. CASE o = "done" /\ u # "done"
    <3>1. /\ \A c \in Blobs \ {b} : blob'[c] = blob[c]
          /\ blob'[b].created /\ blob'[b].id = r /\ blob'[b].mapped = TRUE
          /\ blob'[b].offset = blob[b].offset /\ blob'[b].size = blob[b].size
          /\ ~blob'[b].addr
      BY <1>1, <1>3, <2>1 DEF TypeOK, BlobObject
    <3> QED
      BY <1>1, <1>2, <2>1, <3>1, TablesMarked
  <2>2. CASE ~(o = "done" /\ u # "done")
    BY <1>1, <1>2, <2>2, TablesKept DEF SameEntry, TypeOK, IsBlob
  <2> QED
    BY <2>1, <2>2
<1>10. MapsAreEntries'
  <2>1. \A n \in host.maps : n.res \in ResIds
    BY <1>3 DEF Host, Mapping
  <2> QED
    BY <1>3, <1>7, <1>9, <2>1 DEF MapsAreEntries
<1>11. HostLeaksAreKnown' /\ LiveIsOnHost'
  BY <1>1, <1>2, <1>7, <1>9 DEF HostLeaksAreKnown, LiveIsOnHost
<1>12. PointersAreMapped'
  BY <1>1, <1>8, <1>9 DEF PointersAreMapped
<1> QED
  BY <1>9, <1>10, <1>11, <1>12
\* Unmapping a blob.
LEMMA BlobUnmapIInv == IInv /\ TypeOK' /\ BlobUnmap => IInv'
<1> SUFFICES ASSUME IInv, TypeOK', BlobUnmap PROVE IInv'
  OBVIOUS
<1>1. PICK b \in Blobs, o \in Outcomes :
        /\ blob[b].created
        /\ SubmitChange(o, "unmap", blob[b].id, HasMapping(host, blob[b].id),
                        Unmapped(host, blob[b].id))
        /\ IF o = "done"
           THEN /\ resources' = [resources EXCEPT ![blob[b].id].mapped = FALSE]
                /\ blob' = [blob EXCEPT ![b].mapped = FALSE, ![b].addr = FALSE]
           ELSE UNCHANGED <<resources, blob>>
  BY DEF BlobUnmap
<1> DEFINE r == blob[b].id
<1>2. UNCHANGED <<next_res, ctxVars, next_blob_map_offset, overflowed>>
  BY DEF BlobUnmap
<1>3. r \in ResIds /\ host \in Host
  BY <1>1 DEF IInv, TypeOK, TablesInv, BlobMatchesTable, Live
<1>4. CASE o = "done"
  <2> USE DEF IInv, HostInv
  <2>1. /\ host'.res = host.res /\ host'.ctx = host.ctx
        /\ host'.maps = MapsWithout(r) /\ late' = late
    BY <1>1, <1>3, <1>4, UnmappedIs DEF MapsWithout, SubmitChange, Submit, After
  <2>2. /\ \A c \in Blobs \ {b} : blob'[c] = blob[c]
        /\ blob'[b].created /\ blob'[b].id = r /\ blob'[b].mapped = FALSE
        /\ blob'[b].offset = blob[b].offset /\ blob'[b].size = blob[b].size
        /\ ~blob'[b].addr
    BY <1>1, <1>4 DEF TypeOK, BlobObject
  <2>3. /\ TablesInv' /\ Live' = Live
        /\ \A x \in ResIds : /\ IsBlob(x)' = IsBlob(x)
                             /\ resources'[x].offset = resources[x].offset
                             /\ resources'[x].size = resources[x].size
    BY <1>1, <1>2, <1>4, <2>2, TablesMarked
  <2>4. MapsAreEntries'
    <3>1. \A n \in host.maps : n.res \in ResIds
      BY <1>3 DEF Host, Mapping
    <3> QED
      BY <2>1, <2>3, <3>1 DEF MapsAreEntries, MapsWithout
  <2>5. HostLeaksAreKnown' /\ LiveIsOnHost'
    BY <1>2, <2>1, <2>3 DEF HostLeaksAreKnown, LiveIsOnHost, ctxVars
  <2>6. \A c \in Blobs : blob'[c].addr => blob'[c] = blob[c] /\ blob[c].id # r
    BY <1>1, <2>2 DEF TablesInv, BlobMatchesTable, AddressedIsMapped
  <2>7. PointersAreMapped'
    BY <2>1, <2>6 DEF PointersAreMapped, MapsWithout
  <2> QED
    BY <2>3, <2>4, <2>5, <2>7
<1>5. CASE o # "done"
  <2>1. UNCHANGED guestVars /\ UNCHANGED overflowed
    BY <1>1, <1>2, <1>5 DEF guestVars, ctxVars
  <2>2. /\ late \subseteq late' /\ host'.ctx = host.ctx /\ host'.res \subseteq host.res
        /\ \/ host' = host
           \/ host'.maps = MapsWithout(r) /\ <<"unmap", r>> \in late' /\ host'.res = host.res
    BY <1>1, <1>3, <1>5, UnmappedIs DEF MapsWithout, SubmitChange, Submit, After, Outcomes
  <2> QED
    BY <1>3, <2>1, <2>2, RemovalNotAnswered
<1> QED
  BY <1>4, <1>5

\* Creating a context.
LEMMA ContextCreateIInv == IInv /\ TypeOK' /\ ContextCreate => IInv'
<1> SUFFICES ASSUME IInv, TypeOK', ContextCreate PROVE IInv'
  OBVIOUS
<1>1. PICK o \in Outcomes :
        /\ SubmitChange(o, "ctx_create", next_ctx, next_ctx \notin host.ctx,
                        CtxCreated(host, next_ctx))
        /\ contexts' = IF o = "done" THEN contexts \cup {next_ctx} ELSE contexts
  BY DEF ContextCreate
<1>2. UNCHANGED <<resources, next_res, next_blob_map_offset, blob, overflowed>>
  BY DEF ContextCreate
<1>3. next_ctx \in CtxIds /\ host \in Host /\ next_res <= next_res
  BY DEF ContextCreate, IInv, TypeOK, CtxIds
<1>4. /\ host'.res = host.res /\ host'.maps = host.maps
      /\ host'.ctx \subseteq host.ctx \cup {next_ctx} /\ host.ctx \subseteq host'.ctx
      /\ late \subseteq late'
      /\ o = "done" => next_ctx \in host'.ctx
      /\ o = "late" => <<"ctx_create", next_ctx>> \in late'
      /\ o = "refused" => host' = host
  BY <1>1, <1>3, CtxCreatedIs DEF SubmitChange, Submit, After
<1>5. \A c \in host'.ctx \ contexts' : <<"ctx_create", c>> \in late'
  BY <1>1, <1>4 DEF IInv, HostInv, HostLeaksAreKnown, Outcomes
<1>6. \A c \in contexts' \ host'.ctx : <<"ctx_destroy", c>> \in late'
  BY <1>1, <1>4 DEF IInv, HostInv, LiveIsOnHost
<1> QED
  BY <1>2, <1>3, <1>4, <1>5, <1>6, Accounted DEF SameEntry

\* Destroying a context.
LEMMA ContextDestroyIInv == IInv /\ TypeOK' /\ ContextDestroy => IInv'
<1> SUFFICES ASSUME IInv, TypeOK', ContextDestroy PROVE IInv'
  OBVIOUS
<1>1. PICK d \in contexts, o \in Outcomes :
        /\ SubmitChange(o, "ctx_destroy", d, d \in host.ctx, CtxDestroyed(host, d))
        /\ contexts' = IF o = "done" THEN contexts \ {d} ELSE contexts
  BY DEF ContextDestroy
<1>2. UNCHANGED <<resources, next_res, next_blob_map_offset, blob, overflowed>>
  BY DEF ContextDestroy
<1>3. d \in CtxIds /\ host \in Host /\ next_res <= next_res
  BY DEF IInv, TypeOK
<1>4. /\ host'.res = host.res /\ host'.maps = host.maps
      /\ late \subseteq late'
      /\ host'.ctx \subseteq host.ctx /\ host.ctx \subseteq host'.ctx \cup {d}
      /\ o = "done" => d \notin host'.ctx
      /\ o = "late" => <<"ctx_destroy", d>> \in late'
      /\ o = "refused" => host' = host
  BY <1>1, <1>3, CtxDestroyedIs DEF SubmitChange, Submit, After
<1>5. \A c \in host'.ctx \ contexts' : <<"ctx_create", c>> \in late'
  BY <1>1, <1>4 DEF IInv, HostInv, HostLeaksAreKnown
<1>6. \A c \in contexts' \ host'.ctx : <<"ctx_destroy", c>> \in late'
  BY <1>1, <1>4 DEF IInv, HostInv, LiveIsOnHost, Outcomes
<1> QED
  BY <1>2, <1>3, <1>4, <1>5, <1>6, Accounted DEF SameEntry

\* Every call of the driver keeps the invariant: the calls above, and those that
\* leave alone all it speaks of.
LEMMA NextIInv == IInv /\ [Next]_vars => IInv'
<1> SUFFICES ASSUME IInv, [Next]_vars PROVE IInv'
  OBVIOUS
<1>1. TypeOK'
  BY NextTypeOK DEF IInv, TablesInv
<1>2. resources \in [ResIds -> Entry] /\ host \in Host
  BY DEF IInv, TypeOK
<1>3. CASE AttachBacking \/ DetachBacking
  <2>1. PICK r \in ResIds, v \in BOOLEAN :
          resources' = resources \/ resources' = [resources EXCEPT ![r].backing = v]
    BY <1>3 DEF AttachBacking, DetachBacking, Live
  <2>2. \A x \in ResIds : SameEntry(resources'[x], resources[x])
    BY <1>2, <2>1 DEF SameEntry, Entry
  <2>3. host'.res = host.res /\ host'.maps = host.maps /\ host'.ctx = host.ctx
    BY <1>2, <1>3 DEF AttachBacking, DetachBacking, Submit, After, Host
  <2>4. UNCHANGED <<next_res, contexts, next_blob_map_offset, blob, late, overflowed>>
    BY <1>3 DEF AttachBacking, DetachBacking, ctxVars
  <2> QED
    BY <1>1, <2>2, <2>3, <2>4, NothingMoved
<1>4. CASE UseResource \/ Transfer2D \/ ContextAttach \/ ContextDetach \/ UNCHANGED vars
  <2>1. UNCHANGED <<resources, next_res, contexts, next_blob_map_offset, blob, late, overflowed>>
    BY <1>4 DEF UseResource, Transfer2D, ContextAttach, ContextDetach, vars, guestVars, ctxVars
  <2>2. host'.res = host.res /\ host'.maps = host.maps /\ host'.ctx = host.ctx
    BY <1>2, <1>4 DEF UseResource, Transfer2D, ContextAttach, ContextDetach, vars, Submit, After, Host
  <2> QED
    BY <1>1, <2>1, <2>2, NothingMoved DEF SameEntry
<1> QED
  BY <1>1, <1>3, <1>4, ResourceCreateIInv, ResourceUnrefIInv, BlobCreateIInv, BlobMapIInv,
     BlobMapBeyondIInv, BlobUnmapIInv, BlobDestroyIInv, ContextCreateIInv,
     ContextDestroyIInv DEF Next

\* It holds of the empty tables.
LEMMA InitIInv == Init => IInv
<1> SUFFICES ASSUME Init PROVE IInv
  OBVIOUS
<1>1. TypeOK
  BY InitTypeOK
<1>2. /\ Live = {} /\ \A r \in ResIds : ~resources[r].live
      /\ \A b \in Blobs : ~blob[b].created /\ ~blob[b].addr
      /\ host.res = {} /\ host.maps = {} /\ host.ctx = {} /\ contexts = {}
  BY DEF Init, Live, FreeRes, NoBlob
<1>3. TablesInv
  BY <1>2 DEF TablesInv, EntriesAreOld, EntriesPlaced, BlobMatchesTable, NoEntryLost,
     AddressedIsMapped, IsBlob
<1>4. HostInv
  BY <1>2 DEF HostInv, MapsAreEntries, HostLeaksAreKnown, LiveIsOnHost, PointersAreMapped
<1> QED
  BY <1>1, <1>3, <1>4 DEF IInv

-----------------------------------------------------------------------------
(* Theorems *)

\* The invariant holds of every behaviour of the driver and the device.
THEOREM Invariant == Spec => []IInv
  BY InitIInv, NextIInv, PTL DEF Spec

\* The tables, the callers' objects and the device's state always have their
\* types: no offset or size of a blob wraps.
THEOREM TypeCorrect == Spec => []TypeOK
  BY Invariant, PTL DEF IInv

\* Whatever fails, a created blob object and its table entry agree.
THEOREM BlobsAndTable == Spec => []BlobMatchesTable
<1>1. IInv => BlobMatchesTable
  BY DEF IInv, TablesInv
<1> QED
  BY <1>1, Invariant, PTL

\* And no live blob entry is left without an object that could free it.
THEOREM EntriesKeepObjects == Spec => []NoEntryLost
<1>1. IInv => NoEntryLost
  BY DEF IInv, TablesInv
<1> QED
  BY <1>1, Invariant, PTL

\* The device never has two overlapping mappings in the host-visible region,
\* whatever the alignment and the sizes asked for.
THEOREM MappingsNeverOverlap == Spec => []MappingsDisjoint
<1>1. IInv => MappingsDisjoint
  <2> SUFFICES ASSUME IInv, NEW m \in host.maps, NEW n \in host.maps, m # n
               PROVE  Apart(m, n)
    BY DEF MappingsDisjoint, Apart
  <2>1. m \in Mapping /\ n \in Mapping
    BY DEF IInv, TypeOK, Host
  <2>2. /\ IsBlob(m.res) /\ m.offset = resources[m.res].offset /\ m.size = resources[m.res].size
        /\ IsBlob(n.res) /\ n.offset = resources[n.res].offset /\ n.size = resources[n.res].size
    BY DEF IInv, HostInv, MapsAreEntries
  <2>3. m.res # n.res /\ m.res \in ResIds /\ n.res \in ResIds
    BY <2>1, <2>2 DEF Mapping
  <2> QED
    BY <2>2, <2>3 DEF IInv, TablesInv, EntriesPlaced, Apart
<1> QED
  BY <1>1, Invariant, PTL

\* What the device keeps beyond the tables is always due to a create that timed
\* out or to the offset's overflow.
THEOREM LeaksAreKnown == Spec => []HostLeaksAreKnown
<1>1. IInv => HostLeaksAreKnown
  BY DEF IInv, HostInv
<1> QED
  BY <1>1, Invariant, PTL

\* What the tables name exists on the device, unless its own removal timed out.
THEOREM TablesAreOnDevice == Spec => []LiveIsOnHost
<1>1. IInv => LiveIsOnHost
  BY DEF IInv, HostInv
<1> QED
  BY <1>1, Invariant, PTL

\* A pointer the guest holds into a blob is inside the region and mapped there.
THEOREM PointersStayMapped == Spec => []PointersAreMapped
<1>1. IInv => PointersAreMapped
  BY DEF IInv, HostInv
<1> QED
  BY <1>1, Invariant, PTL

-----------------------------------------------------------------------------
\* The refinement of BlobLayer

\* Some object has an address for this entry.
HasAddr(r) == \E b \in Blobs : blob[b].id = r /\ blob[b].addr

\* What the invariant says of one created object.
LEMMA CreatedObject ==
  ASSUME IInv, NEW b \in Blobs, blob[b].created
  PROVE  LET r == blob[b].id IN
         /\ r \in ResIds /\ IsBlob(r)
         /\ resources[r].mapped = blob[b].mapped
  BY DEF IInv, TablesInv, BlobMatchesTable, Live, IsBlob

\* An entry whose flags stay and whose object keeps or lacks its address as before
\* stands for a blob in the same state.
LEMMA SameState ==
  ASSUME NEW r \in ResIds, SameEntry(resources'[r], resources[r]), HasAddr(r)' <=> HasAddr(r)
  PROVE  LayerState(r)' = LayerState(r)
  BY DEF LayerState, SameEntry, HasAddr

\* A call that changes no more than the state of one blob, as the layer allows, is
\* a step of the layer.
LEMMA OneBlob ==
  ASSUME NEW r \in ResIds, UNCHANGED next_res,
         \A x \in ResIds \ {r} : LayerState(x)' = LayerState(x),
         LayerState(r)' \in Layer!MapResults(LayerState(r))
                              \cup Layer!UnmapResults(LayerState(r))
                              \cup Layer!DestroyResults(LayerState(r))
  PROVE  Layer!Next
<1> DEFINE S == [x \in ResIds |-> LayerState(x)]
           T == [x \in ResIds |-> LayerState(x)']
<1>1. S[r] = LayerState(r) /\ T = [S EXCEPT ![r] = LayerState(r)']
  OBVIOUS
<1>2. Layer!Call(r)
  BY <1>1 DEF Layer!Call
<1> QED
  BY <1>2 DEF Layer!Next, Layer!ResIds, ResIds

\* A call that changes no blob leaves the layer alone.
LEMMA NoBlobChanges ==
  ASSUME UNCHANGED next_res, \A x \in ResIds : LayerState(x)' = LayerState(x)
  PROVE  UNCHANGED <<[r \in ResIds |-> LayerState(r)], next_res>>
  OBVIOUS

\* A call that takes a resource id, and makes a blob of it or not.
LEMMA OneId ==
  ASSUME NEW n \in ResIds, next_res = n, next_res' = n + 1,
         \A x \in ResIds \ {n} : LayerState(x)' = LayerState(x),
         LayerState(n)' \in {LayerState(n), "made"}
  PROVE  Layer!Next
<1> DEFINE S == [x \in ResIds |-> LayerState(x)]
           T == [x \in ResIds |-> LayerState(x)']
<1>0. n \in Layer!ResIds
  BY DEF Layer!ResIds, ResIds
<1>1. CASE LayerState(n)' = LayerState(n)
  <2>1. T = S
    BY <1>1
  <2> QED
    BY <1>0, <2>1 DEF Layer!Take, Layer!Next
<1>2. CASE LayerState(n)' = "made"
  <2>1. T = [S EXCEPT ![n] = "made"]
    BY <1>2
  <2> QED
    BY <1>0, <2>1 DEF Layer!Take, Layer!Next
<1> QED
  BY <1>1, <1>2

-----------------------------------------------------------------------------
(* The calls *)

\* Creating a resource of another kind, or failing to.
LEMMA ResourceCreateRefines == IInv /\ ResourceCreate => Layer!Next
<1> SUFFICES ASSUME IInv, ResourceCreate PROVE Layer!Next
  OBVIOUS
<1>0. PICK n \in ResIds : next_res = n
  BY GpuResourcesAssumption DEF ResourceCreate, CanAllocRes, IInv, TypeOK, ResIds
<1>1. /\ next_res' = n + 1 /\ UNCHANGED blob
      /\ \/ UNCHANGED resources
         \/ resources' = [resources EXCEPT ![n] = [FreeRes EXCEPT !.live = TRUE]]
  BY <1>0 DEF ResourceCreate
<1>2. \/ ~IsBlob(n) /\ ~resources'[n].is_blob
      \/ UNCHANGED resources
  BY <1>0, <1>1 DEF IInv, TypeOK, TablesInv, EntriesAreOld, IsBlob, Live, FreeRes
<1>3. \A x \in ResIds : HasAddr(x)' <=> HasAddr(x)
  BY <1>1 DEF HasAddr
<1>4. \A x \in ResIds \ {n} : resources'[x] = resources[x]
  BY <1>1 DEF IInv, TypeOK
<1>5. \A x \in ResIds \ {n} : LayerState(x)' = LayerState(x)
  BY <1>3, <1>4, SameState DEF SameEntry
<1>6. LayerState(n)' = LayerState(n)
  BY <1>1, <1>2, <1>3, SameState DEF LayerState, IsBlob, SameEntry
<1> QED
  BY <1>0, <1>1, <1>5, <1>6, OneId

\* Creating a blob, or failing to.
LEMMA BlobCreateRefines == IInv /\ BlobCreate => Layer!Next
<1> SUFFICES ASSUME IInv, BlobCreate PROVE Layer!Next
  OBVIOUS
<1>0. PICK n \in ResIds : next_res = n
  BY GpuResourcesAssumption DEF BlobCreate, CanAllocRes, IInv, TypeOK, ResIds
<1>1. PICK b \in Blobs, size \in Sizes :
        /\ ~blob[b].created /\ next_res' = n + 1
        /\ \/ UNCHANGED <<resources, blob>>
           \/ /\ resources' = [resources EXCEPT ![n] =
                    [FreeRes EXCEPT !.live = TRUE, !.is_blob = TRUE,
                       !.offset = next_blob_map_offset, !.size = Rounded(size)]]
              /\ blob' = [blob EXCEPT ![b] =
                    [NoBlob EXCEPT !.created = TRUE, !.id = n,
                       !.offset = next_blob_map_offset, !.size = Rounded(size)]]
  BY <1>0 DEF BlobCreate
<1>2. ~blob[b].addr
  BY <1>1 DEF IInv, TablesInv, AddressedIsMapped
<1>3. CASE UNCHANGED <<resources, blob>>
  <2>1. \A x \in ResIds : LayerState(x)' = LayerState(x)
    BY <1>3 DEF LayerState
  <2> QED
    BY <1>0, <1>1, <2>1, OneId
<1>4. CASE /\ resources' = [resources EXCEPT ![n] =
                [FreeRes EXCEPT !.live = TRUE, !.is_blob = TRUE,
                   !.offset = next_blob_map_offset, !.size = Rounded(size)]]
           /\ blob' = [blob EXCEPT ![b] =
                [NoBlob EXCEPT !.created = TRUE, !.id = n,
                   !.offset = next_blob_map_offset, !.size = Rounded(size)]]
  <2>1. /\ resources'[n].live /\ resources'[n].is_blob
        /\ ~resources'[n].mapped
        /\ \A x \in ResIds \ {n} : resources'[x] = resources[x]
    BY <1>2, <1>4 DEF IInv, TypeOK, FreeRes
  <2>2. ~blob'[b].addr /\ \A c \in Blobs \ {b} : blob'[c] = blob[c]
    BY <1>4 DEF IInv, TypeOK, NoBlob
  <2>3. \A x \in ResIds : HasAddr(x)' <=> HasAddr(x)
    BY <1>2, <2>2 DEF HasAddr
  <2>4. \A x \in ResIds \ {n} : LayerState(x)' = LayerState(x)
    BY <2>1, <2>3, SameState DEF SameEntry
  <2>5. LayerState(n)' = "made"
    BY <2>1 DEF LayerState
  <2> QED
    BY <1>0, <1>1, <2>4, <2>5, OneId
<1> QED
  BY <1>1, <1>3, <1>4

\* A call that leaves every entry's flags and every object alone changes no blob.
LEMMA NoEntryChanges ==
  ASSUME UNCHANGED <<next_res, blob>>,
         \A r \in ResIds : SameEntry(resources'[r], resources[r])
  PROVE  UNCHANGED <<[r \in ResIds |-> LayerState(r)], next_res>>
<1>1. \A x \in ResIds : HasAddr(x)' <=> HasAddr(x)
  BY DEF HasAddr
<1> QED
  BY <1>1, SameState, NoBlobChanges

\* Removing a resource that is no blob changes no blob.
LEMMA ResourceUnrefRefines ==
  ASSUME IInv, ResourceUnref
  PROVE  UNCHANGED <<[r \in ResIds |-> LayerState(r)], next_res>>
<1>1. PICK r \in ResIds :
        /\ ~resources[r].is_blob /\ UNCHANGED <<next_res, blob>>
        /\ resources' = resources \/ resources' = [resources EXCEPT ![r] = FreeRes]
  BY DEF ResourceUnref, Live
<1>2. \A x \in ResIds \ {r} : resources'[x] = resources[x]
  BY <1>1 DEF IInv, TypeOK
<1>3. ~resources'[r].is_blob
  BY <1>1 DEF IInv, TypeOK, FreeRes
<1>4. \A x \in ResIds : HasAddr(x)' <=> HasAddr(x)
  BY <1>1 DEF HasAddr
<1>5. \A x \in ResIds \ {r} : LayerState(x)' = LayerState(x)
  BY <1>2, <1>4, SameState DEF SameEntry
<1>6. LayerState(r)' = LayerState(r)
  BY <1>1, <1>3 DEF LayerState
<1> QED
  BY <1>1, <1>5, <1>6, NoBlobChanges

\* A call on object b changes the entry of b and the mapping of b, or clears b: the
\* other blobs stay as they are.
LEMMA OtherBlobs ==
  ASSUME IInv, NEW b \in Blobs, blob[b].created, NEW r \in ResIds, r = blob[b].id,
         \A x \in ResIds \ {r} : resources'[x] = resources[x],
         \A c \in Blobs \ {b} : blob'[c] = blob[c],
         blob'[b].addr => blob'[b].id = r
  PROVE  \A x \in ResIds \ {r} : LayerState(x)' = LayerState(x)
<1>1. \A x \in ResIds \ {r} : HasAddr(x)' <=> HasAddr(x)
  BY DEF HasAddr
<1> QED
  BY <1>1, SameState DEF SameEntry

\* Mapping, inside the region or beyond it.
LEMMA BlobMapRefines ==
  ASSUME IInv, BlobMap \/ BlobMapBeyond
  PROVE  Layer!Next \/ UNCHANGED <<[r \in ResIds |-> LayerState(r)], next_res>>
<1>1. CASE UNCHANGED <<resources, blob>>
  BY <1>1, NoEntryChanges DEF SameEntry, BlobMap, BlobMapBeyond
<1>2. CASE ~UNCHANGED <<resources, blob>>
  <2>1. PICK b \in Blobs :
          /\ blob[b].created /\ ~resources[blob[b].id].mapped /\ UNCHANGED next_res
          /\ resources' = [resources EXCEPT ![blob[b].id].mapped = TRUE]
          /\ blob' \in {[blob EXCEPT ![b].mapped = TRUE, ![b].addr = TRUE],
                        [blob EXCEPT ![b].mapped = TRUE]}
    BY <1>2 DEF BlobMap, BlobMapBeyond
  <2>2. PICK r \in ResIds : r = blob[b].id /\ IsBlob(r)
    BY <2>1, CreatedObject
  <2>3. /\ resources'[r].live /\ resources'[r].is_blob /\ resources'[r].mapped
        /\ \A x \in ResIds \ {r} : resources'[x] = resources[x]
    BY <2>1, <2>2 DEF IInv, TypeOK, Entry, IsBlob
  <2>4. blob'[b].id = r /\ \A c \in Blobs \ {b} : blob'[c] = blob[c]
    BY <2>1, <2>2 DEF IInv, TypeOK, BlobObject
  <2>5. \A x \in ResIds \ {r} : LayerState(x)' = LayerState(x)
    BY <2>1, <2>2, <2>3, <2>4, OtherBlobs
  <2>6. LayerState(r) = "made"
    BY <2>1, <2>2 DEF LayerState, IsBlob
  <2>7. LayerState(r)' \in {"mapped", "half"}
    BY <2>3 DEF LayerState
  <2> QED
    BY <2>1, <2>5, <2>6, <2>7, OneBlob DEF Layer!MapResults
<1> QED
  BY <1>1, <1>2

\* Unmapping and destroying.
LEMMA BlobGoneRefines ==
  ASSUME IInv, BlobUnmap \/ BlobDestroy
  PROVE  Layer!Next \/ UNCHANGED <<[r \in ResIds |-> LayerState(r)], next_res>>
<1>1. CASE UNCHANGED <<resources, blob>>
  BY <1>1, NoEntryChanges DEF SameEntry, BlobUnmap, BlobDestroy
<1>2. CASE BlobUnmap /\ ~UNCHANGED <<resources, blob>>
  <2>1. PICK b \in Blobs :
          /\ blob[b].created /\ resources[blob[b].id].mapped /\ UNCHANGED next_res
          /\ resources' = [resources EXCEPT ![blob[b].id].mapped = FALSE]
          /\ blob' = [blob EXCEPT ![b].mapped = FALSE, ![b].addr = FALSE]
    BY <1>2 DEF BlobUnmap
  <2>2. PICK r \in ResIds : r = blob[b].id /\ IsBlob(r)
    BY <2>1, CreatedObject
  <2>3. /\ resources'[r].live /\ resources'[r].is_blob /\ ~resources'[r].mapped
        /\ \A x \in ResIds \ {r} : resources'[x] = resources[x]
    BY <2>1, <2>2 DEF IInv, TypeOK, Entry, IsBlob
  <2>4. ~blob'[b].addr /\ \A c \in Blobs \ {b} : blob'[c] = blob[c]
    BY <2>1, <2>2 DEF IInv, TypeOK, BlobObject
  <2>5. \A x \in ResIds \ {r} : LayerState(x)' = LayerState(x)
    BY <2>1, <2>2, <2>3, <2>4, OtherBlobs
  <2>6. LayerState(r) \in {"half", "mapped"}
    BY <2>1, <2>2 DEF LayerState, IsBlob
  <2>7. LayerState(r)' = "made"
    BY <2>3 DEF LayerState
  <2> QED
    BY <2>1, <2>5, <2>6, <2>7, OneBlob DEF Layer!UnmapResults
<1>3. CASE BlobDestroy /\ ~UNCHANGED <<resources, blob>>
  <2>1. PICK b \in Blobs :
          /\ blob[b].created /\ ~blob[b].mapped /\ UNCHANGED next_res
          /\ resources' = [resources EXCEPT ![blob[b].id] = FreeRes]
          /\ blob' = [blob EXCEPT ![b] = NoBlob]
    BY <1>3 DEF BlobDestroy
  <2>2. PICK r \in ResIds : r = blob[b].id /\ IsBlob(r) /\ ~resources[r].mapped
    BY <2>1, CreatedObject
  <2>3. ~resources'[r].live /\ \A x \in ResIds \ {r} : resources'[x] = resources[x]
    BY <2>1, <2>2 DEF IInv, TypeOK, FreeRes
  <2>4. ~blob'[b].addr /\ \A c \in Blobs \ {b} : blob'[c] = blob[c]
    BY <2>1, <2>2 DEF IInv, TypeOK, NoBlob
  <2>5. \A x \in ResIds \ {r} : LayerState(x)' = LayerState(x)
    BY <2>1, <2>2, <2>3, <2>4, OtherBlobs
  <2>6. LayerState(r) = "made"
    BY <2>2 DEF LayerState, IsBlob
  <2>7. LayerState(r)' = "none"
    BY <2>3 DEF LayerState
  <2> QED
    BY <2>1, <2>5, <2>6, <2>7, OneBlob DEF Layer!DestroyResults
<1> QED
  BY <1>1, <1>2, <1>3

-----------------------------------------------------------------------------

\* Every step is a step of the layer or changes nothing of it.
LEMMA NextRefines ==
  ASSUME IInv, [Next]_vars
  PROVE  [Layer!Next]_<<[r \in ResIds |-> LayerState(r)], next_res>>
<1>1. CASE AttachBacking \/ DetachBacking
  <2>1. PICK r \in ResIds, v \in BOOLEAN :
          resources' = resources \/ resources' = [resources EXCEPT ![r].backing = v]
    BY <1>1 DEF AttachBacking, DetachBacking, Live
  <2>2. \A x \in ResIds : SameEntry(resources'[x], resources[x])
    BY <2>1 DEF SameEntry, Entry, IInv, TypeOK
  <2> QED
    BY <1>1, <2>2, NoEntryChanges DEF AttachBacking, DetachBacking
<1>2. CASE \/ UseResource \/ Transfer2D \/ ContextAttach \/ ContextDetach
           \/ ContextCreate \/ ContextDestroy \/ UNCHANGED vars
  <2>1. UNCHANGED <<resources, next_res, blob>>
    BY <1>2 DEF UseResource, Transfer2D, ContextAttach, ContextDetach, ContextCreate,
                ContextDestroy, vars, guestVars
  <2> QED
    BY <2>1, NoEntryChanges DEF SameEntry
<1> QED
  BY <1>1, <1>2, ResourceCreateRefines, ResourceUnrefRefines, BlobCreateRefines,
     BlobMapRefines, BlobGoneRefines DEF Next

\* The driver's tables and the callers' objects implement the layer that the users
\* of blobs are written on, whatever fails or is carried out late.
THEOREM Refines == Spec => ImplementsBlobLayer
<1>1. Init => Layer!Init
  <2> SUFFICES ASSUME Init PROVE Layer!Init
    OBVIOUS
  <2>1. \A r \in ResIds : LayerState(r) = "none"
    BY DEF Init, LayerState, FreeRes
  <2>2. [r \in ResIds |-> LayerState(r)] = [r \in ResIds |-> "none"]
    BY <2>1
  <2> QED
    BY <2>2 DEF Init, Layer!Init, Layer!ResIds, ResIds
<1> QED
  BY <1>1, NextRefines, Invariant, PTL DEF Spec, ImplementsBlobLayer, Layer!Spec
===============================================================================
