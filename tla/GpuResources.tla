----------------------------- MODULE GpuResources -----------------------------
(***************************************************************************)
(* The resource, context and blob tables of libukvirtio_gpu                *)
(* (virtio_gpu_real.c) next to what the device holds, when any command may *)
(* be refused or may time out after the device has carried it out.  Calls  *)
(* are synchronous, so one call of the driver is one action; the control   *)
(* queue under them is the subject of CtrlQueue.                           *)
(*                                                                         *)
(* The slots of a table are interchangeable: an entry is known by its id,  *)
(* and an id whose entry is not live stands for a free slot.               *)
(***************************************************************************)
EXTENDS Integers, FiniteSets

CONSTANTS Blobs,       (* struct uk_virtio_gpu_blob objects of the callers      *)
          Slots,       (* UKVGPU_MAX_RESOURCES                                  *)
          CtxSlots,    (* UKVGPU_MAX_CONTEXTS                                   *)
          Sizes,       (* sizes a blob is asked for                             *)
          Align,       (* d->blob_alignment, or the page size                   *)
          OffsetMod,   (* 2^64: where next_blob_map_offset would wrap           *)
          BarSize,     (* d->host_visible.size                                  *)
          MaxRes,      (* bound: resource ids given out                         *)
          MaxCtx       (* bound: context ids given out                          *)

ASSUME GpuResourcesAssumption ==
  /\ Slots \in Nat /\ CtxSlots \in Nat /\ MaxRes \in Nat /\ MaxCtx \in Nat
  /\ Align \in Nat \ {0}
  /\ OffsetMod \in Nat \ {0}
  /\ BarSize \in 0..(OffsetMod - 1)
  /\ Sizes \subseteq 1..(OffsetMod - 1)

ResIds == 1..MaxRes
CtxIds == 1..MaxCtx

VARIABLES
  resources,             \* d->resources, by id
  next_res,              \* d->next_res
  contexts,              \* ids of the live entries of d->contexts
  next_ctx,              \* d->next_ctx
  next_blob_map_offset,  \* d->next_blob_map_offset
  blob,                  \* the callers' blob objects
  host,                  \* what the device holds
  late,                  \* history: what timed out and was carried out all the same
  overflowed             \* history: blobs given up when the offset overflowed

guestVars == <<resources, next_res, contexts, next_ctx, next_blob_map_offset, blob>>
ctxVars == <<contexts, next_ctx>>
vars == <<guestVars, host, late, overflowed>>

FreeRes == [live |-> FALSE, is_blob |-> FALSE, backing |-> FALSE, mapped |-> FALSE,
            offset |-> 0, size |-> 0]
Offsets == 0..(OffsetMod - 1)
Entry == [live : BOOLEAN, is_blob : BOOLEAN, backing : BOOLEAN, mapped : BOOLEAN,
          offset : Offsets, size : Offsets]
BlobObject == [created : BOOLEAN, id : 0..MaxRes, mapped : BOOLEAN, addr : BOOLEAN,
               offset : Offsets, size : Offsets]
Mapping == [res : ResIds, offset : Offsets, size : Offsets]
Host == [res : SUBSET ResIds, backing : SUBSET ResIds, maps : SUBSET Mapping,
         ctx : SUBSET CtxIds, attached : SUBSET (CtxIds \X ResIds)]

NoBlob == [created |-> FALSE, id |-> 0, mapped |-> FALSE, addr |-> FALSE,
           offset |-> 0, size |-> 0]

Init ==
  /\ resources = [r \in ResIds |-> FreeRes]
  /\ next_res = 1
  /\ contexts = {}
  /\ next_ctx = 1
  /\ next_blob_map_offset = 0
  /\ blob = [b \in Blobs |-> NoBlob]
  /\ host = [res |-> {}, backing |-> {}, maps |-> {}, ctx |-> {}, attached |-> {}]
  /\ late = {}
  /\ overflowed = {}

Live == {r \in ResIds : resources[r].live}

-----------------------------------------------------------------------------
\* The device

\* What it does with each command.  A mapping is [res, offset, size].
Created(h, r) == [h EXCEPT !.res = @ \cup {r}]
Unreffed(h, r) == [h EXCEPT !.res = @ \ {r},
                            !.backing = @ \ {r},
                            !.maps = {m \in @ : m.res # r},
                            !.attached = {a \in @ : a[2] # r}]
Mapped(h, r, off, size) == [h EXCEPT !.maps = @ \cup {[res |-> r, offset |-> off, size |-> size]}]
Unmapped(h, r) == [h EXCEPT !.maps = {m \in @ : m.res # r}]
CtxCreated(h, c) == [h EXCEPT !.ctx = @ \cup {c}]
CtxDestroyed(h, c) == [h EXCEPT !.ctx = @ \ {c}, !.attached = {a \in @ : a[1] # c}]

HasMapping(h, r) == \E m \in h.maps : m.res = r

\* How a command ends: carried out and answered, refused, or carried out after
\* cmd_submit has returned -ETIMEDOUT.  Only the first returns 0.
Outcomes == {"done", "refused", "late"}

After(o, h, effect) == IF o = "refused" THEN h ELSE effect

\* The commands that create or remove something, by operation and id.
Changes == ({"create", "unref", "map", "unmap"} \X ResIds)
             \cup ({"ctx_create", "ctx_destroy"} \X CtxIds)

\* One command: `possible` is what the device needs to carry it out.
Submit(o, possible, effect) ==
  /\ o # "refused" => possible
  /\ host' = After(o, host, effect)

\* One of those commands: a late one is remembered.
SubmitChange(o, op, id, possible, effect) ==
  /\ Submit(o, possible, effect)
  /\ late' = IF o = "late" THEN late \cup {<<op, id>>} ELSE late

-----------------------------------------------------------------------------
\* Mutated forms of the definitions below, one per property: the bug in the code
\* that the property is there to notice.

\* The offset advances by the size asked for (MappingsDisjoint).
NextOffsetUnrounded(off, size) == off + size

\* Only the start of the blob is compared with the region (PointersAreMapped).
InBarStart(off, size) == off <= BarSize

\* The table entry goes although the device refused (HostLeaksAreKnown).
ResourceUnrefAlways ==
  /\ \E r \in Live, o \in Outcomes :
       /\ ~resources[r].is_blob
       /\ SubmitChange(o, "unref", r, r \in host.res, Unreffed(host, r))
       /\ resources' = [resources EXCEPT ![r] = FreeRes]
  /\ UNCHANGED <<next_res, ctxVars, next_blob_map_offset, blob, overflowed>>

\* The object forgets a mapping the device refused to undo (BlobMatchesTable).
BlobUnmapAlways ==
  /\ \E b \in Blobs : \E o \in Outcomes :
       LET r == blob[b].id IN
       /\ blob[b].created
       /\ resources[r].mapped
       /\ SubmitChange(o, "unmap", r, HasMapping(host, r), Unmapped(host, r))
       /\ resources' = IF o = "done" THEN [resources EXCEPT ![r].mapped = FALSE] ELSE resources
       /\ blob' = [blob EXCEPT ![b].mapped = FALSE, ![b].addr = FALSE]
  /\ UNCHANGED <<next_res, ctxVars, next_blob_map_offset, overflowed>>

\* The entry stays although the device refused (LiveIsOnHost).
ContextCreateAlways ==
  /\ Cardinality(contexts) < CtxSlots
  /\ next_ctx <= MaxCtx
  /\ next_ctx' = next_ctx + 1
  /\ \E o \in Outcomes :
       SubmitChange(o, "ctx_create", next_ctx, next_ctx \notin host.ctx,
                    CtxCreated(host, next_ctx))
  /\ contexts' = contexts \cup {next_ctx}
  /\ UNCHANGED <<resources, next_res, next_blob_map_offset, blob, overflowed>>

-----------------------------------------------------------------------------
\* Resources

\* alloc_res finds a slot (the bound on ids is the model's).
CanAllocRes == Cardinality(Live) < Slots /\ next_res <= MaxRes

\* uk_virtio_gpu_resource_create_2d, uk_virtio_gpu_gl_resource_create_3d
ResourceCreate ==
  /\ CanAllocRes
  /\ next_res' = next_res + 1
  /\ \E o \in Outcomes :
       /\ SubmitChange(o, "create", next_res, next_res \notin host.res, Created(host, next_res))
       /\ resources' = IF o = "done"
                       THEN [resources EXCEPT ![next_res] = [FreeRes EXCEPT !.live = TRUE]]
                       ELSE resources
  /\ UNCHANGED <<ctxVars, next_blob_map_offset, blob, overflowed>>

\* uk_virtio_gpu_resource_attach_backing
AttachBacking ==
  /\ \E r \in Live, o \in Outcomes :
       /\ Submit(o, r \in host.res, [host EXCEPT !.backing = @ \cup {r}])
       /\ resources' = IF o = "done" THEN [resources EXCEPT ![r].backing = TRUE]
                                     ELSE resources
  /\ UNCHANGED <<next_res, ctxVars, next_blob_map_offset, blob, late, overflowed>>

\* uk_virtio_gpu_gl_resource_detach_backing
DetachBacking ==
  /\ \E r \in Live, o \in Outcomes :
       /\ resources[r].backing
       /\ Submit(o, r \in host.backing, [host EXCEPT !.backing = @ \ {r}])
       /\ resources' = IF o = "done" THEN [resources EXCEPT ![r].backing = FALSE]
                                     ELSE resources
  /\ UNCHANGED <<next_res, ctxVars, next_blob_map_offset, blob, late, overflowed>>

\* uk_virtio_gpu_resource_flush, uk_virtio_gpu_gl_set_scanout,
\* uk_virtio_gpu_gl_resource_assign_uuid, transfer_3d
UseResource ==
  /\ \E r \in Live, o \in Outcomes : Submit(o, r \in host.res, host)
  /\ UNCHANGED <<guestVars, late, overflowed>>

\* uk_virtio_gpu_transfer_to_host_2d: only with a backing.
Transfer2D ==
  /\ \E r \in Live, o \in Outcomes :
       /\ resources[r].backing
       /\ Submit(o, r \in host.backing, host)
  /\ UNCHANGED <<guestVars, late, overflowed>>

\* uk_virtio_gpu_gl_resource_unref, on a resource that no blob object holds
ResourceUnref ==
  /\ \E r \in Live, o \in Outcomes :
       /\ ~resources[r].is_blob
       /\ SubmitChange(o, "unref", r, r \in host.res, Unreffed(host, r))
       /\ resources' = IF o = "done" THEN [resources EXCEPT ![r] = FreeRes]
                                     ELSE resources
  /\ UNCHANGED <<next_res, ctxVars, next_blob_map_offset, blob, overflowed>>

-----------------------------------------------------------------------------
\* Blobs

\* Sizes are rounded up to the alignment.
Rounded(size) == ((size + Align - 1) \div Align) * Align

\* The offset after a blob.
NextOffset(off, size) == off + Rounded(size)

\* The sum is checked for overflow.
Fits(off, size) == NextOffset(off, size) < OffsetMod

\* The blob lies in the host-visible region.
InBar(off, size) == off + size <= BarSize

\* uk_virtio_gpu_gl_blob_create_with_ctx.  The rounding and the offset are
\* checked for overflow, the latter when the device has already created the
\* resource.
BlobCreate ==
  /\ \E b \in Blobs, size \in Sizes :
       /\ ~blob[b].created
       /\ size + Align - 1 < OffsetMod
       /\ CanAllocRes
       /\ next_res' = next_res + 1
       /\ \E o \in Outcomes :
            LET off  == next_blob_map_offset
                fits == Fits(off, size)
            IN
            /\ SubmitChange(o, "create", next_res, next_res \notin host.res, Created(host, next_res))
            /\ overflowed' = IF o = "done" /\ ~fits THEN overflowed \cup {next_res}
                                                    ELSE overflowed
            /\ IF o = "done" /\ fits
               THEN /\ resources' = [resources EXCEPT ![next_res] =
                         [FreeRes EXCEPT !.live = TRUE, !.is_blob = TRUE,
                                         !.offset = off, !.size = Rounded(size)]]
                    /\ next_blob_map_offset' = NextOffset(off, size)
                    /\ blob' = [blob EXCEPT ![b] =
                         [NoBlob EXCEPT !.created = TRUE, !.id = next_res,
                                        !.offset = off, !.size = Rounded(size)]]
               ELSE UNCHANGED <<resources, next_blob_map_offset, blob>>
  /\ UNCHANGED ctxVars

\* uk_virtio_gpu_gl_blob_map, on a blob inside the host-visible region
BlobMap ==
  /\ \E b \in Blobs : \E o \in Outcomes :
       LET r == blob[b].id IN
       /\ blob[b].created
       /\ ~resources[r].mapped
       /\ InBar(resources[r].offset, blob[b].size)
       /\ SubmitChange(o, "map", r, r \in host.res /\ ~HasMapping(host, r),
                 Mapped(host, r, resources[r].offset, blob[b].size))
       /\ IF o = "done"
          THEN /\ resources' = [resources EXCEPT ![r].mapped = TRUE]
               /\ blob' = [blob EXCEPT ![b].mapped = TRUE, ![b].addr = TRUE]
          ELSE UNCHANGED <<resources, blob>>
  /\ UNCHANGED <<next_res, ctxVars, next_blob_map_offset, overflowed>>

\* uk_virtio_gpu_gl_blob_map beyond the region: the host map is made, then
\* undone by a second command whose failure is ignored.
BlobMapBeyond ==
  /\ \E b \in Blobs : \E o \in Outcomes, u \in Outcomes :
       LET r  == blob[b].id
           h  == Mapped(host, r, resources[r].offset, blob[b].size)
       IN
       /\ blob[b].created
       /\ ~resources[r].mapped
       /\ ~InBar(resources[r].offset, blob[b].size)
       /\ o # "refused" => r \in host.res /\ ~HasMapping(host, r)
       /\ o # "done" => u = "refused"
       /\ host' = After(o, host, After(u, h, Unmapped(h, r)))
       /\ late' = late \cup (IF o = "late" THEN {<<"map", r>>} ELSE {})
                       \cup (IF u = "late" THEN {<<"unmap", r>>} ELSE {})
       /\ IF o = "done" /\ u # "done"
          THEN /\ resources' = [resources EXCEPT ![r].mapped = TRUE]
               /\ blob' = [blob EXCEPT ![b].mapped = TRUE]
          ELSE UNCHANGED <<resources, blob>>
  /\ UNCHANGED <<next_res, ctxVars, next_blob_map_offset, overflowed>>

\* uk_virtio_gpu_gl_blob_unmap
BlobUnmap ==
  /\ \E b \in Blobs : \E o \in Outcomes :
       LET r == blob[b].id IN
       /\ blob[b].created
       /\ resources[r].mapped
       /\ SubmitChange(o, "unmap", r, HasMapping(host, r), Unmapped(host, r))
       /\ IF o = "done"
          THEN /\ resources' = [resources EXCEPT ![r].mapped = FALSE]
               /\ blob' = [blob EXCEPT ![b].mapped = FALSE, ![b].addr = FALSE]
          ELSE UNCHANGED <<resources, blob>>
  /\ UNCHANGED <<next_res, ctxVars, next_blob_map_offset, overflowed>>

\* uk_virtio_gpu_gl_blob_destroy
BlobDestroy ==
  /\ \E b \in Blobs : \E o \in Outcomes :
       LET r == blob[b].id IN
       /\ blob[b].created
       /\ ~blob[b].mapped
       /\ SubmitChange(o, "unref", r, r \in host.res, Unreffed(host, r))
       /\ IF o = "done"
          THEN /\ resources' = [resources EXCEPT ![r] = FreeRes]
               /\ blob' = [blob EXCEPT ![b] = NoBlob]
          ELSE UNCHANGED <<resources, blob>>
  /\ UNCHANGED <<next_res, ctxVars, next_blob_map_offset, overflowed>>

-----------------------------------------------------------------------------
\* Contexts

\* uk_virtio_gpu_gl_context_create (alloc_ctx finds a slot)
ContextCreate ==
  /\ Cardinality(contexts) < CtxSlots
  /\ next_ctx <= MaxCtx
  /\ next_ctx' = next_ctx + 1
  /\ \E o \in Outcomes :
       /\ SubmitChange(o, "ctx_create", next_ctx, next_ctx \notin host.ctx, CtxCreated(host, next_ctx))
       /\ contexts' = IF o = "done" THEN contexts \cup {next_ctx} ELSE contexts
  /\ UNCHANGED <<resources, next_res, next_blob_map_offset, blob, overflowed>>

\* uk_virtio_gpu_gl_context_destroy
ContextDestroy ==
  /\ \E c \in contexts, o \in Outcomes :
       /\ SubmitChange(o, "ctx_destroy", c, c \in host.ctx, CtxDestroyed(host, c))
       /\ contexts' = IF o = "done" THEN contexts \ {c} ELSE contexts
  /\ UNCHANGED <<resources, next_res, next_ctx, next_blob_map_offset, blob, overflowed>>

\* ctx_resource: attach
ContextAttach ==
  /\ \E c \in contexts, r \in Live, o \in Outcomes :
       Submit(o, c \in host.ctx /\ r \in host.res,
              [host EXCEPT !.attached = @ \cup {<<c, r>>}])
  /\ UNCHANGED <<guestVars, late, overflowed>>

\* ctx_resource: detach
ContextDetach ==
  /\ \E c \in contexts, r \in Live, o \in Outcomes :
       Submit(o, <<c, r>> \in host.attached,
              [host EXCEPT !.attached = @ \ {<<c, r>>}])
  /\ UNCHANGED <<guestVars, late, overflowed>>

-----------------------------------------------------------------------------

Next == \/ ResourceCreate \/ AttachBacking \/ DetachBacking \/ UseResource
        \/ Transfer2D \/ ResourceUnref
        \/ BlobCreate \/ BlobMap \/ BlobMapBeyond \/ BlobUnmap \/ BlobDestroy
        \/ ContextCreate \/ ContextDestroy \/ ContextAttach \/ ContextDetach

Spec == Init /\ [][Next]_vars

-----------------------------------------------------------------------------
\* Properties

\* Types of the tables, of the callers' objects and of the device's state.
TypeOK ==
  /\ resources \in [ResIds -> Entry]
  /\ next_res \in 1..(MaxRes + 1)
  /\ contexts \in SUBSET CtxIds
  /\ next_ctx \in 1..(MaxCtx + 1)
  /\ next_blob_map_offset \in Offsets
  /\ blob \in [Blobs -> BlobObject]
  /\ host \in Host
  /\ late \in SUBSET Changes
  /\ overflowed \in SUBSET ResIds

\* A blob object and the table agree: whatever failed on the way, a created blob
\* has a live entry with its flag for being mapped, its offset and its size, and
\* no two objects share an entry.
BlobMatchesTable ==
  \A b \in Blobs : blob[b].created =>
    LET r == resources[blob[b].id] IN
    /\ blob[b].id \in Live /\ r.is_blob
    /\ r.mapped = blob[b].mapped
    /\ r.offset = blob[b].offset /\ r.size = blob[b].size
    /\ \A c \in Blobs \ {b} : blob[c].created => blob[c].id # blob[b].id

\* No entry of the table is lost: a live blob entry belongs to a blob object.
NoEntryLost ==
  \A r \in Live : resources[r].is_blob => \E b \in Blobs : blob[b].created /\ blob[b].id = r

\* The device keeps a resource or a context the tables have forgotten only if
\* its creation timed out or its offset overflowed.
HostLeaksAreKnown ==
  /\ \A r \in host.res \ Live : <<"create", r>> \in late \/ r \in overflowed
  /\ \A c \in host.ctx \ contexts : <<"ctx_create", c>> \in late

\* Every resource and context a command may name exists on the device, unless
\* its own removal timed out.
LiveIsOnHost ==
  /\ \A r \in Live : r \in host.res \/ <<"unref", r>> \in late
  /\ \A c \in contexts : c \in host.ctx \/ <<"ctx_destroy", c>> \in late

\* No two mappings of the device overlap in the host-visible region, leaked
\* ones included.
MappingsDisjoint ==
  \A m, n \in host.maps : m # n =>
    m.offset + m.size <= n.offset \/ n.offset + n.size <= m.offset

\* A pointer the guest holds is inside the region and mapped by the device, at
\* that place, unless the unmapping or the removal of that blob timed out.
PointersAreMapped ==
  \A b \in Blobs : blob[b].addr =>
    /\ blob[b].offset + blob[b].size <= BarSize
    /\ \/ [res |-> blob[b].id, offset |-> blob[b].offset, size |-> blob[b].size] \in host.maps
       \/ {<<"unmap", blob[b].id>>, <<"unref", blob[b].id>>} \cap late # {}

\* The blob that a table entry stands for, as its users see it.
LayerState(r) ==
  CASE ~resources[r].live \/ ~resources[r].is_blob -> "none"
    [] resources[r].live /\ resources[r].is_blob /\ ~resources[r].mapped -> "made"
    [] OTHER -> IF \E b \in Blobs : blob[b].id = r /\ blob[b].addr THEN "mapped" ELSE "half"

Layer == INSTANCE BlobLayer WITH state <- [r \in ResIds |-> LayerState(r)], next <- next_res

\* Whatever commands fail or are carried out late, the tables and the objects
\* move a blob only as the users of blobs presume: one at a time, an address
\* only by a map, no removal of what is mapped, no id used twice.
ImplementsBlobLayer == Layer!Spec
=============================================================================
