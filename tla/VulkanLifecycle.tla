---------------------------- MODULE VulkanLifecycle ----------------------------
(***************************************************************************)
(* The Vulkan dispatch from uk_vulkan_init to uk_vulkan_shutdown and back  *)
(* (uk_vulkan_dispatch.c): the Venus context is opened, the application    *)
(* makes its one instance and device, the first command buffer brings up   *)
(* the command ring (venus_init.c), and a shutdown takes the ring down     *)
(* again.  Everything the library keeps in static variables survives a     *)
(* shutdown unless the shutdown resets it.                                 *)
(*                                                                         *)
(* One thread makes these calls.  A call is one action for each command    *)
(* it sends, and every command may be lost: not carried out, or carried    *)
(* out although the caller is told that it failed.  The device takes       *)
(* commands in order, so one that is carried out late is still carried     *)
(* out before the next.                                                    *)
(*                                                                         *)
(* The host (virglrenderer) runs the commands of a context until one is    *)
(* wrong: a second object of one id, or an object it does not know.  That  *)
(* ends the context, and its rings with it, without an answer to the       *)
(* guest.  The blob calls are those of BlobLayer.                          *)
(***************************************************************************)
EXTENDS Integers, FiniteSets

CONSTANTS MaxCtx,   (* bound: context ids given out    *)
          MaxRes    (* bound: resource ids given out   *)

ASSUME VulkanLifecycleAssumption == MaxCtx \in Nat /\ MaxRes \in Nat

\* The objects the dispatch has fixed handles for, UK_H_INSTANCE to UK_H_QUEUE.
Objects == {"instance", "physdev", "device", "queue"}

\* The commands, each named after the object it makes; the others make none.
Commands == Objects \cup {"properties", "record", "submit"}

\* Where the thread is: in vkCreateInstance, in vkCreateDevice, before the first
\* command of a command buffer, making the ring, undoing that, or in
\* uk_venus_ring_destroy.
RingSteps == {"map", "attach", "register", "undo_unmap", "undo_destroy",
              "unregister", "detach", "unmap", "destroy"}
Steps == {"idle", "instance", "device", "queue", "record", "create"} \cup RingSteps

VARIABLES
  g_disp_initialized,
  g_ctx,             \* id of the open context, 0 if its creation failed
  next_ctx,          \* of the driver
  g_device_created,
  g_reply_ctx,       \* the context the reply blob was attached to, 0: not made
  g_ring_want,       \* UK_GGML_VK_DISPATCH_RING
  g_ring_tried,
  g_ring_ready,
  g_ring,            \* resource, mapped and context of the ring
  gpu,               \* BlobLayer's state
  next_res,          \* BlobLayer's next
  pc,
  told,              \* objects the application has been given
  objects,           \* host: the objects of each context
  attached,          \* host: the resources of each context
  rings,             \* host: the resources each context runs a ring on
  dead,              \* host: contexts that met a wrong command
  troubles,          \* history: what went wrong with each context
  loose,             \* history: rings a create or destroy command of which was lost
  failed             \* history: resource ids an unmap or destroy of which failed

sessionVars == <<g_disp_initialized, g_ctx, next_ctx>>
deviceVars == <<g_device_created, g_reply_ctx, told>>
ringVars == <<g_ring_want, g_ring_tried, g_ring_ready, g_ring>>
blobVars == <<gpu, next_res, failed>>
hostVars == <<objects, attached, rings, dead>>
vars == <<sessionVars, deviceVars, ringVars, blobVars, pc, hostVars, troubles, loose>>

Layer == INSTANCE BlobLayer WITH state <- gpu, next <- next_res

ResIds == 1..MaxRes
CtxIds == 1..MaxCtx

\* Resource 0 is a blob that is not created, context 0 one that is not.
Ring(r, isMapped, c) == [res |-> r, mapped |-> isMapped, ctx |-> c]
NoRing == Ring(0, FALSE, 0)

Init ==
  /\ g_disp_initialized = FALSE
  /\ g_ctx = 0
  /\ next_ctx = 1
  /\ g_device_created = FALSE
  /\ g_reply_ctx = 0
  /\ g_ring_want \in BOOLEAN
  /\ g_ring_tried = FALSE
  /\ g_ring_ready = FALSE
  /\ g_ring = NoRing
  /\ Layer!Init
  /\ pc = "idle"
  /\ told = {}
  /\ objects = [c \in CtxIds |-> {}]
  /\ attached = [c \in CtxIds |-> {}]
  /\ rings = [c \in CtxIds |-> {}]
  /\ dead = {}
  /\ troubles = [c \in CtxIds |-> {}]
  /\ loose = {}
  /\ failed = {}

Goto(from, to) == pc = from /\ pc' = to

\* What the properties excuse in a context: "lost" a command, "refused" the device,
\* an instance made "again", or "reopened" beside what an earlier context left.
Trouble(c, kind) ==
  troubles' = IF c = 0 THEN troubles ELSE [troubles EXCEPT ![c] = @ \cup {kind}]

-----------------------------------------------------------------------------
\* Mutated forms of the definitions below, one per property: the bug in the code
\* that the property is there to notice.

\* The ring is destroyed without a vkDestroyRingMESA (RingHasItsMemory).
RingKept == IF g_ring_ready THEN "detach" ELSE "idle"

\* The shutdown leaves g_ring_ready set (ReadyRingIsCurrent).
StaysReady == g_ring_ready

\* The blob is destroyed while it is mapped (NothingLeftBehind).
UnmapSkipped == UNCHANGED <<gpu, next_res, failed, g_ring>>

\* vkCreateDevice has no guard (ContextDiesForAReason).
DeviceAlways == TRUE

\* vkCreateDevice does not get the queue (DeviceIsOnHost).
QueueSkipped ==
  /\ Goto("queue", "idle")
  /\ told' = told \cup {"device", "queue"}
  /\ UNCHANGED <<sessionVars, g_device_created, g_reply_ctx, ringVars, blobVars, hostVars,
                 troubles, loose>>

-----------------------------------------------------------------------------
\* The host

\* The objects a command names, and whether it may make its own.
Needs == [instance |-> {}, physdev |-> {"instance"}, device |-> {"physdev"},
          queue |-> {"device"}, properties |-> {"physdev"}, record |-> {"device"},
          submit |-> {"queue"}]
Wrong(c, cmd) ==
  \/ ~(Needs[cmd] \subseteq objects[c])
  \/ cmd \in {"instance", "device"} \cap objects[c]

\* Context c comes to the command.
Runs(c, cmd) ==
  /\ IF c \in dead \/ Wrong(c, cmd) THEN UNCHANGED objects
     ELSE objects' = [objects EXCEPT ![c] = @ \cup ({cmd} \cap Objects)]
  /\ IF Wrong(c, cmd) THEN dead' = dead \cup {c} /\ rings' = [rings EXCEPT ![c] = {}]
                      ELSE UNCHANGED <<dead, rings>>
  /\ UNCHANGED attached

\* uk_venus_submit, the result of which the dispatch does not look at.  Without a
\* context the driver refuses.
Submit(cmd) ==
  \/ g_ctx # 0 /\ Runs(g_ctx, cmd) /\ UNCHANGED troubles
  \/ UNCHANGED hostVars /\ Trouble(g_ctx, "lost")

\* uk_venus_query_roundtrip: the reply blob is made by the first query and kept.  A
\* context that was not given the blob has no such resource for its reply.
Query(cmd) ==
  \/ /\ g_ctx # 0
     /\ g_reply_ctx' = IF g_reply_ctx = 0 THEN g_ctx ELSE g_reply_ctx
     /\ IF g_reply_ctx' = g_ctx
        THEN Runs(g_ctx, cmd)
        ELSE /\ dead' = dead \cup {g_ctx}
             /\ rings' = [rings EXCEPT ![g_ctx] = {}]
             /\ UNCHANGED <<objects, attached>>
     /\ UNCHANGED troubles
  \/ /\ g_reply_ctx' \in {g_reply_ctx, IF g_reply_ctx = 0 THEN g_ctx ELSE g_reply_ctx}
     /\ UNCHANGED hostVars
     /\ Trouble(g_ctx, "lost")

-----------------------------------------------------------------------------
\* Instance and device

\* uk_vulkan_init and uk_vulkan_venus_open: a context that cannot be created is not
\* an error, and what an earlier session left in the static variables stays.
Open ==
  /\ g_disp_initialized' = TRUE
  /\ next_ctx \in CtxIds
  /\ next_ctx' = next_ctx + 1
  /\ g_ctx' \in {0, next_ctx}
  /\ troubles' = IF g_device_created \/ g_reply_ctx # 0
                 THEN [troubles EXCEPT ![next_ctx] = @ \cup {"reopened"}] ELSE troubles

InitCall ==
  /\ Goto("idle", "idle")
  /\ ~g_disp_initialized
  /\ Open
  /\ UNCHANGED <<deviceVars, ringVars, blobVars, hostVars, loose>>

\* stub_vkCreateInstance.  vkDestroyInstance does nothing, so the application may
\* come here again.
CreateInstance ==
  /\ Goto("idle", "instance")
  /\ \/ ~g_disp_initialized /\ Open
     \/ g_disp_initialized /\ UNCHANGED <<sessionVars, troubles>>
  /\ UNCHANGED <<deviceVars, ringVars, blobVars, hostVars, loose>>

SubmitInstance ==
  /\ Goto("instance", "idle")
  /\ told' = told \cup {"instance"}
  /\ IF "instance" \in told
     THEN /\ \/ g_ctx # 0 /\ Runs(g_ctx, "instance")
             \/ UNCHANGED hostVars
          /\ Trouble(g_ctx, "again")
     ELSE Submit("instance")
  /\ UNCHANGED <<sessionVars, g_device_created, g_reply_ctx, ringVars, blobVars, loose>>

\* stub_vkEnumeratePhysicalDevices
Enumerate ==
  /\ Goto("idle", "idle")
  /\ "instance" \in told
  /\ Submit("physdev")
  /\ told' = told \cup {"physdev"}
  /\ UNCHANGED <<sessionVars, g_device_created, g_reply_ctx, ringVars, blobVars, loose>>

\* stub_vkGetPhysicalDeviceProperties and the other queries
GetProperties ==
  /\ Goto("idle", "idle")
  /\ "physdev" \in told
  /\ Query("properties")
  /\ UNCHANGED <<sessionVars, g_device_created, told, ringVars, blobVars, loose>>

\* stub_vkCreateDevice: the host makes the device once.
DeviceGuard == ~g_device_created

CreateDevice ==
  /\ "physdev" \in told
  /\ IF DeviceGuard
     THEN Goto("idle", "device") /\ g_device_created' = TRUE /\ UNCHANGED told
     ELSE Goto("idle", "idle") /\ told' = told \cup {"device", "queue"} /\ UNCHANGED g_device_created
  /\ UNCHANGED <<sessionVars, g_reply_ctx, ringVars, blobVars, hostVars, troubles, loose>>

\* The round trip, whose result and VkResult it drops: the host may have refused.
QueryDevice ==
  /\ Goto("device", "queue")
  /\ \/ Query("device")
     \/ UNCHANGED <<g_reply_ctx, hostVars>> /\ Trouble(g_ctx, "refused")
  /\ UNCHANGED <<sessionVars, g_device_created, told, ringVars, blobVars, loose>>

SubmitQueue ==
  /\ Goto("queue", "idle")
  /\ Submit("queue")
  /\ told' = told \cup {"device", "queue"}
  /\ UNCHANGED <<sessionVars, g_device_created, g_reply_ctx, ringVars, blobVars, loose>>

\* stub_vkQueueSubmit, and every command that is not of a command buffer
UseDevice ==
  /\ Goto("idle", "idle")
  /\ "device" \in told
  /\ \E cmd \in {"record", "submit"} : Submit(cmd)
  /\ UNCHANGED <<sessionVars, deviceVars, ringVars, blobVars, loose>>

\* stub_vkBeginCommandBuffer: the first one tries to make the ring.
Begin ==
  /\ "device" \in told
  /\ IF g_ring_want /\ ~g_ring_tried
     THEN Goto("idle", "create") /\ g_ring_tried' = TRUE
     ELSE Goto("idle", "record") /\ UNCHANGED g_ring_tried
  /\ UNCHANGED <<sessionVars, deviceVars, g_ring_want, g_ring_ready, g_ring, blobVars, hostVars,
                 troubles, loose>>

\* A command of a command buffer goes into the ring if there is one.
Record ==
  /\ Goto("record", "idle")
  /\ IF g_ring_ready
     THEN IF g_ring.res \in rings[g_ring.ctx]
          THEN Runs(g_ring.ctx, "record") /\ UNCHANGED troubles
          ELSE UNCHANGED hostVars /\ Trouble(g_ctx, "lost")
     ELSE Submit("record")
  /\ UNCHANGED <<sessionVars, deviceVars, ringVars, blobVars, loose>>

-----------------------------------------------------------------------------
\* uk_dispatch_ring_lazy_init: uk_venus_ring_create_on_ctx and uk_venus_ring_register

RingFlags == <<g_ring_want, g_ring_tried, g_ring_ready>>
Elsewhere == <<sessionVars, deviceVars, RingFlags>>

\* A blob that cannot be made leaves the dispatch without a ring.
CreateThen(ok) == IF ok THEN "map" ELSE "record"

RingCreate ==
  /\ \/ /\ Goto("create", CreateThen(TRUE))
        /\ Layer!Take
        /\ gpu'[next_res] = "made"
        /\ g_ring' = Ring(next_res, FALSE, g_ctx)
     \/ /\ Goto("create", CreateThen(FALSE))
        /\ \/ Layer!Take /\ gpu' = gpu
           \/ UNCHANGED <<gpu, next_res>>
        /\ UNCHANGED g_ring
  /\ UNCHANGED <<Elsewhere, hostVars, troubles, loose, failed>>

\* The state of the ring's blob in the driver's table, and a call that leaves it in s.
TableState == gpu[g_ring.res]
Moves(s) == gpu' = [gpu EXCEPT ![g_ring.res] = s] /\ UNCHANGED next_res
NoteFailure(hasFailed) == failed' = IF hasFailed THEN failed \cup {g_ring.res} ELSE failed

RingMap ==
  /\ pc = "map"
  /\ \E s \in Layer!MapResults(TableState) :
       /\ Moves(s)
       /\ NoteFailure(s = "half")
       /\ g_ring' = Ring(g_ring.res, s # "made", g_ring.ctx)
       /\ pc' = IF s = "mapped" THEN "attach" ELSE "undo_destroy"
  /\ UNCHANGED <<Elsewhere, hostVars, troubles, loose>>

\* The driver refuses when there is no context; the host may have carried it out.
RingAttach ==
  /\ pc = "attach"
  /\ \/ /\ g_ring.ctx # 0
        /\ attached' = [attached EXCEPT ![g_ring.ctx] = @ \cup {g_ring.res}]
        /\ pc' \in {"register", "undo_unmap"}
     \/ pc' = "undo_unmap" /\ UNCHANGED attached
  /\ UNCHANGED <<Elsewhere, g_ring, blobVars, objects, rings, dead, troubles, loose>>

\* vkCreateRingMESA, which a dead context does not run.
Started ==
  rings' = IF g_ring.ctx \in dead THEN rings
           ELSE [rings EXCEPT ![g_ring.ctx] = @ \cup {g_ring.res}]

RingRegister ==
  /\ pc = "register"
  /\ \/ Started /\ g_ring_ready' = TRUE /\ pc' = "record" /\ UNCHANGED loose
     \/ /\ Started \/ UNCHANGED rings
        /\ loose' = loose \cup {g_ring.res}
        /\ pc' = "detach"
        /\ UNCHANGED g_ring_ready
  /\ UNCHANGED <<sessionVars, deviceVars, g_ring_want, g_ring_tried, g_ring, blobVars, objects,
                 attached, dead, troubles>>

\* uk_virtio_gpu_gl_blob_unmap, if the blob is mapped
Unmap ==
  IF g_ring.mapped
  THEN \E s \in Layer!UnmapResults(TableState) :
         /\ Moves(s)
         /\ NoteFailure(s # "made")
         /\ g_ring' = Ring(g_ring.res, s # "made", g_ring.ctx)
  ELSE UNCHANGED <<gpu, next_res, failed, g_ring>>

\* uk_virtio_gpu_gl_blob_destroy, which refuses a mapped blob, and memset(ring)
Destroy ==
  /\ \E s \in IF g_ring.mapped THEN {TableState} ELSE Layer!DestroyResults(TableState) :
       Moves(s) /\ NoteFailure(s = "made" /\ ~g_ring.mapped)
  /\ g_ring' = NoRing

RingUndoUnmap ==
  /\ Goto("undo_unmap", "undo_destroy")
  /\ Unmap
  /\ UNCHANGED <<Elsewhere, hostVars, troubles, loose>>

RingUndoDestroy ==
  /\ Goto("undo_destroy", "record")
  /\ Destroy
  /\ UNCHANGED <<Elsewhere, hostVars, troubles, loose>>

-----------------------------------------------------------------------------
\* uk_vulkan_shutdown and uk_venus_ring_destroy

\* The first step of the shutdown.
RingDown == IF g_ring_ready THEN "unregister" ELSE "idle"

Shutdown ==
  /\ g_disp_initialized
  /\ Goto("idle", RingDown)
  /\ g_disp_initialized' = g_ring_ready
  /\ told' = {}
  /\ UNCHANGED <<g_ctx, next_ctx, g_device_created, g_reply_ctx, ringVars, blobVars, hostVars,
                 troubles, loose>>

\* vkDestroyRingMESA, the result of which is not looked at
RingUnregister ==
  /\ Goto("unregister", "detach")
  /\ \/ rings' = [rings EXCEPT ![g_ring.ctx] = @ \ {g_ring.res}] /\ UNCHANGED loose
     \/ loose' = loose \cup {g_ring.res} /\ UNCHANGED rings
  /\ UNCHANGED <<Elsewhere, g_ring, blobVars, objects, attached, dead, troubles>>

RingDetach ==
  /\ Goto("detach", "unmap")
  /\ attached' \in {attached, [attached EXCEPT ![g_ring.ctx] = @ \ {g_ring.res}]}
  /\ UNCHANGED <<Elsewhere, g_ring, blobVars, objects, rings, dead, troubles, loose>>

RingUnmap ==
  /\ Goto("unmap", "destroy")
  /\ Unmap
  /\ UNCHANGED <<Elsewhere, hostVars, troubles, loose>>

\* After a failed register the command buffer goes on; after a shutdown nothing does.
ReadyAfter == FALSE

RingDestroy ==
  /\ Goto("destroy", IF g_ring_ready THEN "idle" ELSE "record")
  /\ Destroy
  /\ g_ring_ready' = ReadyAfter
  /\ g_disp_initialized' = (g_disp_initialized /\ ~g_ring_ready)
  /\ UNCHANGED <<g_ctx, next_ctx, deviceVars, g_ring_want, g_ring_tried, hostVars, troubles, loose>>

-----------------------------------------------------------------------------

ApiCall == InitCall \/ CreateInstance \/ Enumerate \/ GetProperties \/ CreateDevice
             \/ UseDevice \/ Begin \/ Shutdown
ApiStep == SubmitInstance \/ QueryDevice \/ SubmitQueue \/ Record
RingUp == RingCreate \/ RingMap \/ RingAttach \/ RingRegister \/ RingUndoUnmap \/ RingUndoDestroy
RingTakeDown == RingUnregister \/ RingDetach \/ RingUnmap \/ RingDestroy

Next == ApiCall \/ ApiStep \/ RingUp \/ RingTakeDown

Spec == Init /\ [][Next]_vars

-----------------------------------------------------------------------------
\* Properties

\* Types, and a thread that is at work on the ring has one.
TypeOK ==
  /\ g_disp_initialized \in BOOLEAN
  /\ g_ctx \in 0..MaxCtx /\ next_ctx \in 1..(MaxCtx + 1)
  /\ g_device_created \in BOOLEAN
  /\ g_reply_ctx \in 0..MaxCtx
  /\ g_ring_want \in BOOLEAN /\ g_ring_tried \in BOOLEAN /\ g_ring_ready \in BOOLEAN
  /\ g_ring \in [res : 0..MaxRes, mapped : BOOLEAN, ctx : 0..MaxCtx]
  /\ gpu \in [ResIds -> Layer!States]
  /\ next_res \in 1..(MaxRes + 1)
  /\ pc \in Steps
  /\ told \in SUBSET Objects
  /\ objects \in [CtxIds -> SUBSET Objects]
  /\ attached \in [CtxIds -> SUBSET ResIds]
  /\ rings \in [CtxIds -> SUBSET ResIds]
  /\ dead \in SUBSET CtxIds
  /\ troubles \in [CtxIds -> SUBSET {"lost", "refused", "again", "reopened"}]
  /\ loose \in SUBSET ResIds
  /\ failed \in SUBSET ResIds
  /\ pc \in RingSteps \/ g_ring_ready => g_ring.res \in ResIds
  /\ g_ring_ready => g_ring.ctx \in CtxIds

\* The host never runs a ring in memory that the guest has taken back: the blob is
\* mapped and attached to the ring's context, unless the command that made the ring
\* or the one that ended it was lost.
RingHasItsMemory ==
  \A c \in CtxIds : \A r \in rings[c] \ loose : gpu[r] = "mapped" /\ r \in attached[c]

\* The ring that command buffers are written to is one that the host runs for the
\* context that is open, in memory that is mapped; that context may have died.
ReadyRingIsCurrent ==
  g_ring_ready /\ pc \notin RingSteps =>
    /\ g_disp_initialized
    /\ g_ring.ctx = g_ctx
    /\ gpu[g_ring.res] = "mapped"
    /\ g_ring.res \in rings[g_ctx] \/ g_ctx \in dead

\* Making a ring and giving it up leave no entry in the driver's table but that of
\* the ring, unless a command to take the blob down failed.
NothingLeftBehind ==
  \A r \in ResIds : gpu[r] # "none" => r = g_ring.res \/ r \in failed

\* The host ends a context only when one of its commands was lost, when it refused
\* the device, when a second instance was made, or when the context was opened
\* beside the device and the reply blob of an earlier one.
ContextDiesForAReason == \A c \in dead : troubles[c] # {}

\* What the application was given exists on the host: "it must be created on the
\* host EXACTLY ONCE" (stub_vkCreateDevice).  The calls report nothing, so this
\* holds only while nothing went wrong with the context.
DeviceIsOnHost ==
  g_ctx # 0 /\ troubles[g_ctx] = {} => told \subseteq objects[g_ctx] /\ g_ctx \notin dead
=============================================================================
