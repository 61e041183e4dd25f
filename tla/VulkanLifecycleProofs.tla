------------------------- MODULE VulkanLifecycleProofs -------------------------
(***************************************************************************)
(* What is proved of VulkanLifecycle, for any number of contexts and       *)
(* resources: the safety properties of its run, from one inductive         *)
(* invariant.                                                              *)
(***************************************************************************)
EXTENDS VulkanLifecycle, TLAPS

\* The session's static variables and what the application was told.  A session that
\* is closed has told nothing and is at rest; the device is told with its queue, and
\* only after g_device_created was set; the thread is at work on a command buffer or
\* on making the ring only for an application that has the device.
SessionInv ==
  /\ g_ctx < next_ctx /\ g_reply_ctx < next_ctx
  /\ ~g_disp_initialized => told = {} /\ pc = "idle" /\ ~g_ring_ready
  /\ "device" \in told <=> "queue" \in told
  /\ "device" \in told => g_device_created
  /\ pc \in {"device", "queue"} =>
       g_device_created /\ "physdev" \in told /\ "device" \notin told
  /\ pc \in {"record", "create"} => "device" \in told
  /\ pc \in RingSteps => IF g_ring_ready THEN told = {} ELSE "device" \in told

\* A context that was not opened yet has nothing on the host.
FreshContexts ==
  \A c \in CtxIds : c >= next_ctx =>
    objects[c] = {} /\ rings[c] = {} /\ c \notin dead /\ troubles[c] = {}

\* Command buffers use the ring: it is registered and nobody is taking it down.
InUse == g_ring_ready /\ pc \notin RingSteps

\* Before the one attempt to make a ring there is no blob and no ring; afterwards the
\* flags agree with the step the thread is at.
RingFlagsInv ==
  /\ ~g_ring_tried => ~g_ring_ready /\ pc \notin RingSteps /\ pc # "create"
  /\ ~g_ring_tried \/ pc = "create" =>
       (\A r \in ResIds : gpu[r] = "none") /\ (\A c \in CtxIds : rings[c] = {})
  /\ g_ring_ready =>
       pc \notin {"create", "map", "attach", "register", "undo_unmap", "undo_destroy"}
  /\ pc = "unregister" => g_ring_ready
  /\ ~g_ring_ready /\ pc \notin RingSteps => g_ring = NoRing

\* The ring's blob at each step of making it and of taking it down.
RingBlobInv ==
  /\ pc \in RingSteps \/ g_ring_ready => g_ring.ctx = g_ctx
  /\ pc = "map" => TableState = "made" /\ ~g_ring.mapped
  /\ InUse \/ pc \in {"attach", "register", "undo_unmap", "unregister", "detach", "unmap"} =>
       TableState = "mapped" /\ g_ring.mapped
  /\ pc \in {"undo_destroy", "destroy"} =>
       /\ TableState # "none"
       /\ g_ring.mapped <=> TableState # "made"
       /\ g_ring.mapped => g_ring.res \in failed
  /\ InUse \/ pc \in {"register", "unregister"} =>
       g_ring.ctx \in CtxIds /\ g_ring.res \in attached[g_ring.ctx]

\* The rings the host runs: the one in use, unless its context died, and no other that
\* the guest did not lose sight of.
HostRingInv ==
  /\ InUse => g_ring.res \in rings[g_ring.ctx] \/ g_ring.ctx \in dead
  /\ \A c \in CtxIds : \A r \in rings[c] \ loose :
       /\ r = g_ring.res /\ c = g_ring.ctx
       /\ InUse \/ pc = "unregister"

\* The open context, while nothing went wrong with it: the host has made what the
\* application was told, and no more, except between the device and its queue.
CalmInv ==
  g_disp_initialized /\ ~(g_ring_ready /\ pc \in RingSteps) /\ g_ctx # 0
    /\ troubles[g_ctx] = {} =>
      /\ objects[g_ctx] = IF pc = "queue" THEN told \cup {"device"} ELSE told
      /\ g_device_created => pc \in {"device", "queue"} \/ "device" \in told
      /\ g_reply_ctx \in {0, g_ctx}

IInv == TypeOK /\ SessionInv /\ FreshContexts /\ RingFlagsInv /\ RingBlobInv /\ HostRingInv
          /\ NothingLeftBehind /\ ContextDiesForAReason /\ CalmInv

-----------------------------------------------------------------------------
\* The initial states

LEMMA InitInv == Init => IInv
<1> SUFFICES ASSUME Init PROVE IInv
  OBVIOUS
<1> USE VulkanLifecycleAssumption
<1>1. \A r \in ResIds : gpu[r] = "none"
  BY DEF Init, Layer!Init, Layer!ResIds, ResIds
<1>2. TypeOK
  <2>1. gpu \in [ResIds -> Layer!States] /\ next_res \in 1..(MaxRes + 1)
    BY DEF Init, Layer!Init, Layer!ResIds, Layer!States, ResIds
  <2>2. g_ring \in [res : 0..MaxRes, mapped : BOOLEAN, ctx : 0..MaxCtx]
    BY DEF Init, NoRing, Ring
  <2>3. /\ objects \in [CtxIds -> SUBSET Objects] /\ attached \in [CtxIds -> SUBSET ResIds]
        /\ rings \in [CtxIds -> SUBSET ResIds] /\ dead \in SUBSET CtxIds
        /\ troubles \in [CtxIds -> SUBSET {"lost", "refused", "again", "reopened"}]
    BY DEF Init
  <2>4. /\ g_ctx \in 0..MaxCtx /\ next_ctx \in 1..(MaxCtx + 1)
        /\ g_reply_ctx \in 0..MaxCtx
    BY DEF Init
  <2>5. pc \in Steps /\ pc \notin RingSteps
    BY DEF Init, Steps, RingSteps
  <2> QED
    BY <2>1, <2>2, <2>3, <2>4, <2>5 DEF Init, TypeOK
<1>3. SessionInv /\ FreshContexts
  BY DEF Init, SessionInv, FreshContexts, RingSteps, CtxIds
<1>4. RingFlagsInv /\ RingBlobInv /\ HostRingInv
  BY <1>1 DEF Init, RingFlagsInv, RingBlobInv, HostRingInv, InUse, RingSteps, CtxIds
<1>5. NothingLeftBehind /\ ContextDiesForAReason /\ CalmInv
  BY <1>1 DEF Init, NothingLeftBehind, ContextDiesForAReason, CalmInv
<1> QED
  BY <1>2, <1>3, <1>4, <1>5 DEF IInv

-----------------------------------------------------------------------------
\* What a command does to the host

\* The commands have their needs, and a context runs one or dies of it.
LEMMA RunsEffect ==
  ASSUME TypeOK, NEW c \in CtxIds, NEW cmd \in Commands, Runs(c, cmd)
  PROVE  /\ attached' = attached
         /\ objects' \in [CtxIds -> SUBSET Objects]
         /\ rings' \in [CtxIds -> SUBSET ResIds] /\ dead' \in SUBSET CtxIds
         /\ \A d \in CtxIds \ {c} : objects'[d] = objects[d] /\ rings'[d] = rings[d]
         /\ (dead' = dead /\ rings' = rings) \/ (dead' = dead \cup {c} /\ rings'[c] = {})
         /\ ~Wrong(c, cmd) => dead' = dead /\ rings' = rings
         /\ ~Wrong(c, cmd) /\ c \notin dead =>
              objects'[c] = objects[c] \cup ({cmd} \cap Objects)
<1>1. rings \in [CtxIds -> SUBSET ResIds] /\ objects \in [CtxIds -> SUBSET Objects]
        /\ dead \in SUBSET CtxIds
  BY DEF TypeOK
<1>2. {cmd} \cap Objects \in SUBSET Objects
  OBVIOUS
<1>3. /\ objects' \in [CtxIds -> SUBSET Objects]
      /\ \A d \in CtxIds \ {c} : objects'[d] = objects[d]
      /\ ~Wrong(c, cmd) /\ c \notin dead => objects'[c] = objects[c] \cup ({cmd} \cap Objects)
  <2>1. CASE c \in dead \/ Wrong(c, cmd)
    BY <1>1, <2>1 DEF Runs
  <2>2. CASE ~(c \in dead \/ Wrong(c, cmd))
    <3>1. objects' = [objects EXCEPT ![c] = objects[c] \cup ({cmd} \cap Objects)]
      BY <2>2 DEF Runs
    <3> HIDE DEF Objects, Wrong
    <3> QED
      BY <1>1, <1>2, <2>2, <3>1
  <2> QED
    BY <2>1, <2>2
<1>4. /\ rings' \in [CtxIds -> SUBSET ResIds] /\ dead' \in SUBSET CtxIds
      /\ \A d \in CtxIds \ {c} : rings'[d] = rings[d]
      /\ (dead' = dead /\ rings' = rings) \/ (dead' = dead \cup {c} /\ rings'[c] = {})
      /\ ~Wrong(c, cmd) => dead' = dead /\ rings' = rings
  BY <1>1 DEF Runs
<1> QED
  BY <1>3, <1>4 DEF Runs

\* What went wrong with a context is noted with it.
LEMMA TroubleEffect ==
  ASSUME TypeOK, NEW c \in 0..MaxCtx,
         NEW kind \in {"lost", "refused", "again", "reopened"}, Trouble(c, kind)
  PROVE  /\ troubles' \in [CtxIds -> SUBSET {"lost", "refused", "again", "reopened"}]
         /\ \A d \in CtxIds \ {c} : troubles'[d] = troubles[d]
         /\ c # 0 => troubles'[c] # {}
<1> DEFINE K == {"lost", "refused", "again", "reopened"}
<1>1. troubles \in [CtxIds -> SUBSET K]
  BY DEF TypeOK
<1>2. CASE c = 0
  BY <1>1, <1>2 DEF Trouble
<1>3. CASE c # 0
  <2>1. c \in CtxIds
    BY <1>3, VulkanLifecycleAssumption DEF CtxIds
  <2>2. troubles' = [troubles EXCEPT ![c] = troubles[c] \cup {kind}]
    BY <1>3 DEF Trouble
  <2> QED
    BY <1>1, <2>1, <2>2
<1> QED
  BY <1>2, <1>3

\* What a call may do on the host: it is about one context, the rings of which it
\* leaves alone or ends with the context.
HostTouched(c) ==
  /\ attached' = attached
  /\ objects' \in [CtxIds -> SUBSET Objects]
  /\ rings' \in [CtxIds -> SUBSET ResIds] /\ dead' \in SUBSET CtxIds
  /\ troubles' \in [CtxIds -> SUBSET {"lost", "refused", "again", "reopened"}]
  /\ dead \subseteq dead'
  /\ \A d \in CtxIds \ {c} : /\ objects'[d] = objects[d] /\ rings'[d] = rings[d]
                             /\ troubles'[d] = troubles[d] /\ (d \in dead' => d \in dead)
  /\ \A d \in CtxIds : rings'[d] = rings[d] \/ (rings'[d] = {} /\ d \in dead')

\* A context to which nothing has happened yet has done what it was told.
Obeyed(c, cmd) ==
  c # 0 /\ troubles'[c] = {} =>
    /\ troubles[c] = {}
    /\ ~Wrong(c, cmd) => c \notin dead' /\ objects'[c] = objects[c] \cup ({cmd} \cap Objects)

LEMMA UntouchedHost ==
  ASSUME TypeOK, UNCHANGED <<hostVars, troubles>>, NEW c \in 0..MaxCtx
  PROVE  HostTouched(c)
  BY DEF TypeOK, HostTouched, hostVars

LEMMA RunTouches ==
  ASSUME TypeOK, NEW c \in CtxIds, NEW cmd \in Commands, Runs(c, cmd), UNCHANGED troubles
  PROVE  HostTouched(c)
  BY RunsEffect DEF HostTouched, TypeOK

LEMMA TroubleTouches ==
  ASSUME TypeOK, NEW c \in 0..MaxCtx, UNCHANGED hostVars,
         NEW kind \in {"lost", "refused", "again", "reopened"}, Trouble(c, kind)
  PROVE  HostTouched(c)
  BY TroubleEffect DEF HostTouched, TypeOK, hostVars

LEMMA SubmitEffect ==
  ASSUME TypeOK, ContextDiesForAReason, NEW cmd \in Commands, Submit(cmd)
  PROVE  HostTouched(g_ctx) /\ Obeyed(g_ctx, cmd)
<1>1. g_ctx \in 0..MaxCtx /\ (g_ctx # 0 => g_ctx \in CtxIds)
  BY VulkanLifecycleAssumption DEF TypeOK, CtxIds
<1>2. CASE g_ctx # 0 /\ Runs(g_ctx, cmd) /\ UNCHANGED troubles
  BY <1>1, <1>2, RunTouches, RunsEffect DEF Obeyed, ContextDiesForAReason
<1>3. CASE UNCHANGED hostVars /\ Trouble(g_ctx, "lost")
  BY <1>1, <1>3, TroubleTouches, TroubleEffect DEF Obeyed
<1> QED
  BY <1>2, <1>3 DEF Submit

LEMMA QueryEffect ==
  ASSUME TypeOK, ContextDiesForAReason, NEW cmd \in Commands, Query(cmd)
  PROVE  /\ HostTouched(g_ctx) /\ g_reply_ctx' \in {g_reply_ctx, g_ctx}
         /\ g_ctx # 0 /\ troubles'[g_ctx] = {} => troubles[g_ctx] = {}
         /\ g_reply_ctx \in {0, g_ctx} => Obeyed(g_ctx, cmd) /\ g_reply_ctx' \in {0, g_ctx}
<1>1. g_ctx \in 0..MaxCtx /\ (g_ctx # 0 => g_ctx \in CtxIds)
  BY VulkanLifecycleAssumption DEF TypeOK, CtxIds
<1>2. CASE /\ g_ctx # 0
           /\ g_reply_ctx' = IF g_reply_ctx = 0 THEN g_ctx ELSE g_reply_ctx
           /\ g_reply_ctx' = g_ctx
           /\ Runs(g_ctx, cmd) /\ UNCHANGED troubles
  BY <1>1, <1>2, RunTouches, RunsEffect DEF Obeyed, ContextDiesForAReason
<1>3. CASE /\ g_ctx # 0
           /\ g_reply_ctx' = IF g_reply_ctx = 0 THEN g_ctx ELSE g_reply_ctx
           /\ g_reply_ctx' # g_ctx
           /\ dead' = dead \cup {g_ctx}
           /\ rings' = [rings EXCEPT ![g_ctx] = {}]
           /\ UNCHANGED <<objects, attached, troubles>>
  <2>1. rings \in [CtxIds -> SUBSET ResIds] /\ dead \in SUBSET CtxIds
    BY DEF TypeOK
  <2>2. /\ rings' \in [CtxIds -> SUBSET ResIds] /\ rings'[g_ctx] = {}
        /\ \A d \in CtxIds \ {g_ctx} : rings'[d] = rings[d]
    BY <1>1, <1>3, <2>1
  <2>3. HostTouched(g_ctx)
    BY <1>1, <1>3, <2>1, <2>2 DEF HostTouched, TypeOK
  <2> QED
    BY <1>3, <2>3
<1>4. CASE /\ g_reply_ctx' \in {g_reply_ctx, IF g_reply_ctx = 0 THEN g_ctx ELSE g_reply_ctx}
           /\ UNCHANGED hostVars /\ Trouble(g_ctx, "lost")
  BY <1>1, <1>4, TroubleTouches, TroubleEffect DEF Obeyed
<1> QED
  BY <1>2, <1>3, <1>4 DEF Query

-----------------------------------------------------------------------------
\* The calls that leave the ring alone

\* The thread is not at work on the ring.
AwayFromRing(p) == p \in Steps \ (RingSteps \cup {"create"})

LEMMA RingLeftAlone ==
  ASSUME IInv, UNCHANGED <<ringVars, blobVars, loose>>, AwayFromRing(pc), AwayFromRing(pc'),
         UNCHANGED g_ctx \/ ~g_ring_ready, NEW c, HostTouched(c)
  PROVE  RingFlagsInv' /\ RingBlobInv' /\ HostRingInv' /\ NothingLeftBehind'
<1> USE DEF IInv, ringVars, blobVars, AwayFromRing
<1>1. \A d \in CtxIds : rings'[d] = rings[d] \/ (rings'[d] = {} /\ d \in dead')
  BY DEF HostTouched
<1>2. RingFlagsInv'
  BY <1>1 DEF RingFlagsInv, RingSteps
<1>3. RingBlobInv'
  <2>1. attached' = attached
    BY DEF HostTouched
  <2> QED
    BY <2>1 DEF RingBlobInv, InUse, TableState, RingSteps
<1>4. HostRingInv'
  <2>1. InUse => g_ring.ctx \in CtxIds
    BY DEF TypeOK, InUse
  <2>2. InUse' <=> InUse
    BY DEF InUse
  <2>3. InUse' => g_ring.res \in rings'[g_ring.ctx] \/ g_ring.ctx \in dead'
    BY <1>1, <2>1, <2>2 DEF HostRingInv, HostTouched
  <2>4. ASSUME NEW d \in CtxIds, NEW r \in rings'[d] \ loose
        PROVE  r = g_ring.res /\ d = g_ring.ctx /\ InUse'
    <3>1. r \in rings[d] \ loose
      BY <1>1, <2>4
    <3> QED
      BY <3>1, <2>2 DEF HostRingInv, RingSteps
  <2> QED
    BY <2>3, <2>4 DEF HostRingInv
<1>5. NothingLeftBehind'
  BY DEF NothingLeftBehind
<1> QED
  BY <1>2, <1>3, <1>4, <1>5

\* A call within a session keeps the invariant if it keeps what is said of the session
\* and of the open context.
LEMMA CallInv ==
  ASSUME IInv, g_disp_initialized, UNCHANGED <<sessionVars, ringVars, blobVars, loose>>,
         AwayFromRing(pc), AwayFromRing(pc'), told' \in SUBSET Objects,
         g_device_created' \in BOOLEAN, g_reply_ctx' \in {g_reply_ctx, g_ctx},
         HostTouched(g_ctx), SessionInv', CalmInv',
         g_ctx # 0 /\ troubles'[g_ctx] = {} => g_ctx \notin dead'
  PROVE  IInv'
<1>1. TypeOK'
  BY DEF IInv, TypeOK, HostTouched, sessionVars, ringVars, blobVars, AwayFromRing
<1>2. FreshContexts'
  <2>1. next_ctx' = next_ctx /\ \A c \in CtxIds : c >= next_ctx => c # g_ctx
    BY DEF IInv, SessionInv, sessionVars, CtxIds, TypeOK
  <2> QED
    BY <2>1 DEF IInv, FreshContexts, HostTouched
<1>3. ContextDiesForAReason'
  BY VulkanLifecycleAssumption
     DEF IInv, ContextDiesForAReason, HostTouched, CtxIds
<1>4. RingFlagsInv' /\ RingBlobInv' /\ HostRingInv' /\ NothingLeftBehind'
  BY RingLeftAlone DEF sessionVars
<1> QED
  BY <1>1, <1>2, <1>3, <1>4 DEF IInv

\* Opening: the context is new on the host, and whatever the static variables kept from
\* the last session is noted against it.
LEMMA OpenInv ==
  ASSUME IInv, ~g_disp_initialized, Open, pc' \in {"idle", "instance"},
         UNCHANGED <<deviceVars, ringVars, blobVars, hostVars, loose>>
  PROVE  IInv'
<1> DEFINE K == {"lost", "refused", "again", "reopened"}
<1> USE DEF Open
<1>1. /\ pc = "idle" /\ told = {} /\ ~g_ring_ready
      /\ next_ctx \in CtxIds /\ next_ctx' = next_ctx + 1
  BY DEF IInv, SessionInv
<1>2. /\ troubles' \in [CtxIds -> SUBSET K]
      /\ \A d \in CtxIds \ {next_ctx} : troubles'[d] = troubles[d]
      /\ g_device_created \/ g_reply_ctx # 0 => troubles'[next_ctx] # {}
      /\ \A d \in CtxIds : troubles[d] # {} => troubles'[d] # {}
  <2>1. troubles \in [CtxIds -> SUBSET K]
    BY DEF IInv, TypeOK
  <2>2. CASE g_device_created \/ g_reply_ctx # 0
    <3>1. troubles' = [troubles EXCEPT ![next_ctx] = troubles[next_ctx] \cup {"reopened"}]
      BY <2>2
    <3> QED
      BY <1>1, <2>1, <3>1
  <2>3. CASE ~(g_device_created \/ g_reply_ctx # 0)
    BY <2>1, <2>3
  <2> QED
    BY <2>2, <2>3
<1>3. AwayFromRing(pc) /\ AwayFromRing(pc')
  BY <1>1 DEF AwayFromRing, Steps, RingSteps
<1>4. TypeOK'
  <2>1. g_ctx' \in 0..MaxCtx /\ next_ctx' \in 1..(MaxCtx + 1) /\ g_disp_initialized' \in BOOLEAN
    BY <1>1, VulkanLifecycleAssumption DEF CtxIds
  <2> QED
    BY <1>1, <1>2, <1>3, <2>1
       DEF IInv, TypeOK, deviceVars, ringVars, blobVars, hostVars, AwayFromRing
<1>5. SessionInv'
  BY <1>1, <1>3, VulkanLifecycleAssumption
     DEF IInv, SessionInv, TypeOK, CtxIds, deviceVars, ringVars, AwayFromRing
<1>6. FreshContexts'
  <2>1. \A c \in CtxIds : c >= next_ctx' => c >= next_ctx /\ c # next_ctx
    BY <1>1 DEF CtxIds
  <2> QED
    BY <1>2, <2>1 DEF IInv, FreshContexts, hostVars
<1>7. RingFlagsInv' /\ RingBlobInv' /\ HostRingInv' /\ NothingLeftBehind'
  <2>1. HostTouched(next_ctx)
    BY <1>2 DEF HostTouched, hostVars, IInv, TypeOK
  <2> QED
    BY <1>1, <1>3, <2>1, RingLeftAlone
<1>8. ContextDiesForAReason'
  BY <1>2 DEF IInv, ContextDiesForAReason, hostVars, TypeOK
<1>9. CalmInv'
  <2> SUFFICES ASSUME g_ctx' # 0, troubles'[g_ctx'] = {}
               PROVE  /\ objects'[g_ctx'] = {}
                      /\ ~g_device_created
                      /\ g_reply_ctx = 0
    BY <1>1 DEF CalmInv, deviceVars
  <2>1. g_ctx' = next_ctx
    OBVIOUS
  <2> QED
    BY <1>1, <1>2, <2>1 DEF IInv, FreshContexts, hostVars, CtxIds
<1> QED
  BY <1>4, <1>5, <1>6, <1>7, <1>8, <1>9 DEF IInv

LEMMA InitCallInv == ASSUME IInv, InitCall PROVE IInv'
  BY OpenInv DEF InitCall, Goto

LEMMA CreateInstanceInv == ASSUME IInv, CreateInstance PROVE IInv'
<1>1. CASE ~g_disp_initialized /\ Open
  BY <1>1, OpenInv DEF CreateInstance, Goto
<1>2. CASE g_disp_initialized /\ UNCHANGED <<sessionVars, troubles>>
  <2> USE <1>2 DEF CreateInstance, Goto, deviceVars, ringVars, sessionVars, hostVars
  <2>1. AwayFromRing(pc) /\ AwayFromRing(pc')
    BY DEF AwayFromRing, Steps, RingSteps
  <2>2. HostTouched(g_ctx) /\ told' \in SUBSET Objects /\ g_device_created' \in BOOLEAN
    BY UntouchedHost DEF IInv, TypeOK
  <2>3. SessionInv'
    BY <2>1 DEF IInv, SessionInv, AwayFromRing
  <2>4. CalmInv'
    BY <2>1 DEF IInv, CalmInv, AwayFromRing
  <2>5. g_ctx # 0 /\ troubles'[g_ctx] = {} => g_ctx \notin dead'
    BY DEF IInv, ContextDiesForAReason
  <2> QED
    BY <2>1, <2>2, <2>3, <2>4, <2>5, CallInv
<1> QED
  BY <1>1, <1>2 DEF CreateInstance

\* A command that a calm context is sent in its turn is not wrong.
LEMMA CalmIsObeyed ==
  ASSUME IInv, g_disp_initialized, AwayFromRing(pc), NEW cmd \in Commands, Obeyed(g_ctx, cmd),
         g_ctx # 0, troubles'[g_ctx] = {},
         Needs[cmd] \subseteq IF pc = "queue" THEN told \cup {"device"} ELSE told,
         cmd \in {"instance", "device"} => cmd \notin told /\ pc # "queue"
  PROVE  /\ objects'[g_ctx] = (IF pc = "queue" THEN told \cup {"device"} ELSE told)
                                \cup ({cmd} \cap Objects)
         /\ g_ctx \notin dead'
         /\ g_device_created => pc \in {"device", "queue"} \/ "device" \in told
         /\ g_reply_ctx \in {0, g_ctx}
<1>1. /\ objects[g_ctx] = IF pc = "queue" THEN told \cup {"device"} ELSE told
      /\ g_device_created => pc \in {"device", "queue"} \/ "device" \in told
      /\ g_reply_ctx \in {0, g_ctx}
  BY DEF IInv, CalmInv, AwayFromRing, Obeyed
<1>2. ~Wrong(g_ctx, cmd)
  BY <1>1 DEF Wrong
<1> QED
  BY <1>1, <1>2 DEF Obeyed

LEMMA SubmitInstanceInv == ASSUME IInv, SubmitInstance PROVE IInv'
<1> USE DEF SubmitInstance, Goto
<1>1. g_disp_initialized /\ AwayFromRing(pc) /\ AwayFromRing(pc')
  BY DEF IInv, SessionInv, AwayFromRing, Steps, RingSteps
<1>2. told' \in SUBSET Objects /\ g_device_created' \in BOOLEAN /\ "instance" \in Commands
  BY DEF IInv, TypeOK, Objects, Commands
<1>3. SessionInv'
  BY <1>1, <1>2 DEF IInv, SessionInv, sessionVars, ringVars, AwayFromRing
<1>4. g_ctx \in 0..MaxCtx /\ (g_ctx # 0 => g_ctx \in CtxIds)
  BY VulkanLifecycleAssumption DEF IInv, TypeOK, CtxIds
<1>5. CASE "instance" \in told
  <2>1. HostTouched(g_ctx) /\ (g_ctx # 0 => troubles'[g_ctx] # {})
    <3>1. /\ troubles' \in [CtxIds -> SUBSET {"lost", "refused", "again", "reopened"}]
          /\ \A d \in CtxIds \ {g_ctx} : troubles'[d] = troubles[d]
          /\ g_ctx # 0 => troubles'[g_ctx] # {}
      BY <1>4, <1>5, TroubleEffect DEF IInv
    <3>2. CASE g_ctx # 0 /\ Runs(g_ctx, "instance")
      BY <1>2, <1>4, <3>1, <3>2, RunsEffect DEF IInv, HostTouched, TypeOK
    <3>3. CASE UNCHANGED hostVars
      BY <3>1, <3>3 DEF IInv, HostTouched, TypeOK, hostVars
    <3> QED
      BY <1>5, <3>1, <3>2, <3>3
  <2>2. CalmInv'
    BY <2>1 DEF CalmInv, sessionVars
  <2> QED
    BY <1>1, <1>2, <1>3, <2>1, <2>2, CallInv
<1>6. CASE "instance" \notin told
  <2>1. Submit("instance")
    BY <1>6
  <2>2. HostTouched(g_ctx) /\ Obeyed(g_ctx, "instance")
    BY <1>2, <2>1, SubmitEffect DEF IInv
  <2>3. g_ctx # 0 /\ troubles'[g_ctx] = {} =>
          objects'[g_ctx] = told \cup {"instance"} /\ g_ctx \notin dead'
            /\ (g_device_created => "device" \in told) /\ g_reply_ctx \in {0, g_ctx}
    BY <1>1, <1>2, <1>6, <2>2, CalmIsObeyed DEF Needs, Objects
  <2>4. CalmInv'
    BY <2>3 DEF CalmInv, sessionVars
  <2> QED
    BY <1>1, <1>2, <1>3, <2>2, <2>3, <2>4, CallInv
<1> QED
  BY <1>5, <1>6

LEMMA EnumerateInv == ASSUME IInv, Enumerate PROVE IInv'
<1> USE DEF Enumerate, Goto
<1>1. g_disp_initialized /\ AwayFromRing(pc) /\ AwayFromRing(pc')
  BY DEF IInv, SessionInv, AwayFromRing, Steps, RingSteps
<1>2. told' \in SUBSET Objects /\ g_device_created' \in BOOLEAN /\ "physdev" \in Commands
  BY DEF IInv, TypeOK, Objects, Commands
<1>3. SessionInv'
  BY <1>1, <1>2 DEF IInv, SessionInv, sessionVars, ringVars, AwayFromRing
<1>4. HostTouched(g_ctx) /\ Obeyed(g_ctx, "physdev")
  BY <1>2, SubmitEffect DEF IInv
<1>5. g_ctx # 0 /\ troubles'[g_ctx] = {} =>
        objects'[g_ctx] = told \cup {"physdev"} /\ g_ctx \notin dead'
          /\ (g_device_created => "device" \in told) /\ g_reply_ctx \in {0, g_ctx}
  BY <1>1, <1>2, <1>4, CalmIsObeyed DEF Needs, Objects
<1>6. CalmInv'
  BY <1>5 DEF CalmInv, sessionVars
<1> QED
  BY <1>1, <1>2, <1>3, <1>4, <1>5, <1>6, CallInv

LEMMA GetPropertiesInv == ASSUME IInv, GetProperties PROVE IInv'
<1> USE DEF GetProperties, Goto
<1>1. g_disp_initialized /\ AwayFromRing(pc) /\ AwayFromRing(pc')
  BY DEF IInv, SessionInv, AwayFromRing, Steps, RingSteps
<1>2. told' \in SUBSET Objects /\ g_device_created' \in BOOLEAN /\ "properties" \in Commands
  BY DEF IInv, TypeOK, Commands
<1>3. /\ HostTouched(g_ctx) /\ g_reply_ctx' \in {g_reply_ctx, g_ctx}
      /\ g_ctx # 0 /\ troubles'[g_ctx] = {} => troubles[g_ctx] = {}
      /\ g_reply_ctx \in {0, g_ctx} =>
           Obeyed(g_ctx, "properties") /\ g_reply_ctx' \in {0, g_ctx}
  BY <1>2, QueryEffect DEF IInv
<1>4. SessionInv'
  BY <1>1, <1>3 DEF IInv, SessionInv, sessionVars, ringVars, AwayFromRing
<1>5. g_ctx # 0 /\ troubles[g_ctx] = {} => g_reply_ctx \in {0, g_ctx}
  BY <1>1 DEF IInv, CalmInv, AwayFromRing
<1>6. g_ctx # 0 /\ troubles'[g_ctx] = {} =>
        objects'[g_ctx] = told /\ g_ctx \notin dead'
          /\ (g_device_created => "device" \in told) /\ g_reply_ctx' \in {0, g_ctx}
  BY <1>1, <1>2, <1>3, <1>5, CalmIsObeyed DEF Needs, Objects
<1>7. CalmInv'
  BY <1>6 DEF CalmInv, sessionVars
<1> QED
  BY <1>1, <1>2, <1>3, <1>4, <1>6, <1>7, CallInv

LEMMA CreateDeviceInv == ASSUME IInv, CreateDevice PROVE IInv'
<1> USE DEF CreateDevice, DeviceGuard, Goto
<1>1. g_disp_initialized /\ AwayFromRing(pc) /\ AwayFromRing(pc')
  BY DEF IInv, SessionInv, AwayFromRing, Steps, RingSteps
<1>2. told' \in SUBSET Objects /\ g_device_created' \in BOOLEAN
  BY DEF IInv, TypeOK, Objects
<1>3. HostTouched(g_ctx)
  BY UntouchedHost DEF IInv, TypeOK
<1>4. SessionInv'
  BY <1>1 DEF IInv, SessionInv, sessionVars, ringVars, AwayFromRing
<1>5. CalmInv'
  <2> SUFFICES ASSUME g_ctx # 0, troubles[g_ctx] = {}
               PROVE  /\ objects[g_ctx] = told'
                      /\ g_device_created' => pc' = "device" \/ "device" \in told'
                      /\ g_reply_ctx \in {0, g_ctx}
    BY DEF CalmInv, sessionVars, hostVars
  <2>1. /\ objects[g_ctx] = told /\ g_reply_ctx \in {0, g_ctx}
        /\ g_device_created => "device" \in told /\ "queue" \in told
    BY <1>1 DEF IInv, CalmInv, SessionInv, AwayFromRing
  <2> QED
    BY <2>1
<1>6. g_ctx # 0 /\ troubles'[g_ctx] = {} => g_ctx \notin dead'
  BY DEF IInv, ContextDiesForAReason, hostVars
<1> QED
  BY <1>1, <1>2, <1>3, <1>4, <1>5, <1>6, CallInv

LEMMA QueryDeviceInv == ASSUME IInv, QueryDevice PROVE IInv'
<1> USE DEF QueryDevice, Goto
<1>1. g_disp_initialized /\ AwayFromRing(pc) /\ AwayFromRing(pc')
  BY DEF IInv, SessionInv, AwayFromRing, Steps, RingSteps
<1>2. told' \in SUBSET Objects /\ g_device_created' \in BOOLEAN /\ "device" \in Commands
  BY DEF IInv, TypeOK, Commands, Objects
<1>3. g_ctx \in 0..MaxCtx /\ (g_ctx # 0 => g_ctx \in CtxIds)
  BY VulkanLifecycleAssumption DEF IInv, TypeOK, CtxIds
<1>4. CASE Query("device")
  <2>1. /\ HostTouched(g_ctx) /\ g_reply_ctx' \in {g_reply_ctx, g_ctx}
        /\ g_ctx # 0 /\ troubles'[g_ctx] = {} => troubles[g_ctx] = {}
        /\ g_reply_ctx \in {0, g_ctx} =>
             Obeyed(g_ctx, "device") /\ g_reply_ctx' \in {0, g_ctx}
    BY <1>2, <1>4, QueryEffect DEF IInv
  <2>2. SessionInv'
    BY <1>1, <2>1 DEF IInv, SessionInv, sessionVars, ringVars, AwayFromRing
  <2>3. g_ctx # 0 /\ troubles[g_ctx] = {} => g_reply_ctx \in {0, g_ctx}
    BY <1>1 DEF IInv, CalmInv, AwayFromRing
  <2>4. "physdev" \in told /\ "device" \notin told
    BY DEF IInv, SessionInv
  <2>5. g_ctx # 0 /\ troubles'[g_ctx] = {} =>
          objects'[g_ctx] = told \cup {"device"} /\ g_ctx \notin dead'
            /\ g_reply_ctx' \in {0, g_ctx}
    BY <1>1, <1>2, <2>1, <2>3, <2>4, CalmIsObeyed DEF Needs, Objects
  <2>6. CalmInv'
    BY <2>5 DEF CalmInv, sessionVars
  <2> QED
    BY <1>1, <1>2, <2>1, <2>2, <2>5, <2>6, CallInv
<1>5. CASE UNCHANGED <<g_reply_ctx, hostVars>> /\ Trouble(g_ctx, "refused")
  <2>1. HostTouched(g_ctx) /\ (g_ctx # 0 => troubles'[g_ctx] # {})
    BY <1>3, <1>5, TroubleTouches, TroubleEffect DEF IInv
  <2>2. SessionInv'
    BY <1>1, <1>5 DEF IInv, SessionInv, sessionVars, ringVars, AwayFromRing
  <2>3. CalmInv'
    BY <2>1 DEF CalmInv, sessionVars
  <2> QED
    BY <1>1, <1>2, <1>5, <2>1, <2>2, <2>3, CallInv
<1> QED
  BY <1>4, <1>5

LEMMA SubmitQueueInv == ASSUME IInv, SubmitQueue PROVE IInv'
<1> USE DEF SubmitQueue, Goto
<1>1. g_disp_initialized /\ AwayFromRing(pc) /\ AwayFromRing(pc')
  BY DEF IInv, SessionInv, AwayFromRing, Steps, RingSteps
<1>2. told' \in SUBSET Objects /\ g_device_created' \in BOOLEAN /\ "queue" \in Commands
  BY DEF IInv, TypeOK, Objects, Commands
<1>3. SessionInv'
  BY <1>1, <1>2 DEF IInv, SessionInv, sessionVars, ringVars, AwayFromRing
<1>4. HostTouched(g_ctx) /\ Obeyed(g_ctx, "queue")
  BY <1>2, SubmitEffect DEF IInv
<1>5. g_ctx # 0 /\ troubles'[g_ctx] = {} =>
        objects'[g_ctx] = told \cup {"device", "queue"} /\ g_ctx \notin dead'
          /\ g_reply_ctx \in {0, g_ctx}
  BY <1>1, <1>2, <1>4, CalmIsObeyed DEF Needs, Objects
<1>6. CalmInv'
  BY <1>5 DEF CalmInv, sessionVars
<1> QED
  BY <1>1, <1>2, <1>3, <1>4, <1>5, <1>6, CallInv

LEMMA UseDeviceInv == ASSUME IInv, UseDevice PROVE IInv'
<1> USE DEF UseDevice, Goto
<1>1. g_disp_initialized /\ AwayFromRing(pc) /\ AwayFromRing(pc')
  BY DEF IInv, SessionInv, AwayFromRing, Steps, RingSteps
<1>2. told' \in SUBSET Objects /\ g_device_created' \in BOOLEAN
  BY DEF IInv, TypeOK, deviceVars
<1>3. SessionInv'
  BY <1>1, <1>2 DEF IInv, SessionInv, sessionVars, deviceVars, ringVars, AwayFromRing
<1>4. PICK cmd \in {"record", "submit"} : Submit(cmd)
  OBVIOUS
<1>5. cmd \in Commands /\ Needs[cmd] \subseteq told
  BY DEF Commands, Needs, IInv, SessionInv
<1>6. HostTouched(g_ctx) /\ Obeyed(g_ctx, cmd)
  BY <1>4, <1>5, SubmitEffect DEF IInv
<1>7. g_ctx # 0 /\ troubles'[g_ctx] = {} =>
        objects'[g_ctx] = told /\ g_ctx \notin dead'
          /\ (g_device_created => "device" \in told) /\ g_reply_ctx \in {0, g_ctx}
  BY <1>1, <1>2, <1>5, <1>6, CalmIsObeyed DEF Objects
<1>8. CalmInv'
  BY <1>7 DEF CalmInv, sessionVars, deviceVars
<1> QED
  BY <1>1, <1>2, <1>3, <1>6, <1>7, <1>8, CallInv DEF deviceVars

LEMMA RecordInv == ASSUME IInv, Record PROVE IInv'
<1> USE DEF Record, Goto
<1>1. g_disp_initialized /\ AwayFromRing(pc) /\ AwayFromRing(pc') /\ "device" \in told
  BY DEF IInv, SessionInv, AwayFromRing, Steps, RingSteps
<1>2. told' \in SUBSET Objects /\ g_device_created' \in BOOLEAN
  BY DEF IInv, TypeOK, deviceVars
<1>3. SessionInv'
  BY <1>1, <1>2 DEF IInv, SessionInv, sessionVars, deviceVars, ringVars, AwayFromRing
<1>4. "record" \in Commands /\ Needs["record"] \subseteq told
  BY <1>1 DEF Commands, Needs
<1>5. HostTouched(g_ctx) /\ Obeyed(g_ctx, "record")
  <2>1. CASE ~g_ring_ready
    BY <1>4, <2>1, SubmitEffect DEF IInv
  <2>2. CASE g_ring_ready
    <3>1. g_ring.ctx = g_ctx /\ g_ctx \in CtxIds
      BY <1>1, <2>2 DEF IInv, RingBlobInv, InUse, AwayFromRing
    <3>2. CASE Runs(g_ctx, "record") /\ UNCHANGED troubles
      BY <1>4, <3>1, <3>2, RunTouches, RunsEffect DEF IInv, Obeyed, ContextDiesForAReason
    <3>3. CASE UNCHANGED hostVars /\ Trouble(g_ctx, "lost")
      BY <3>1, <3>3, TroubleTouches, TroubleEffect DEF IInv, TypeOK, Obeyed
    <3> QED
      BY <2>2, <3>1, <3>2, <3>3
  <2> QED
    BY <2>1, <2>2
<1>6. g_ctx # 0 /\ troubles'[g_ctx] = {} =>
        objects'[g_ctx] = told /\ g_ctx \notin dead'
          /\ (g_device_created => "device" \in told) /\ g_reply_ctx \in {0, g_ctx}
  BY <1>1, <1>2, <1>4, <1>5, CalmIsObeyed DEF Objects
<1>7. CalmInv'
  BY <1>6 DEF CalmInv, sessionVars, deviceVars
<1> QED
  BY <1>1, <1>2, <1>3, <1>5, <1>6, <1>7, CallInv DEF deviceVars

-----------------------------------------------------------------------------
\* The calls on the ring's blob

LEMMA MovesEffect ==
  ASSUME TypeOK, g_ring.res \in ResIds, NEW s \in Layer!States, Moves(s)
  PROVE  /\ gpu' \in [ResIds -> Layer!States] /\ next_res' = next_res
         /\ gpu'[g_ring.res] = s
         /\ \A r \in ResIds \ {g_ring.res} : gpu'[r] = gpu[r]
<1>1. gpu \in [ResIds -> Layer!States]
  BY DEF TypeOK
<1>2. gpu' = [gpu EXCEPT ![g_ring.res] = s] /\ next_res' = next_res
  BY DEF Moves
<1> QED
  BY <1>1, <1>2

LEMMA NoteEffect ==
  ASSUME TypeOK, g_ring.res \in ResIds, NEW b \in BOOLEAN, NoteFailure(b)
  PROVE  failed' \in SUBSET ResIds /\ failed \subseteq failed' /\ (b => g_ring.res \in failed')
  BY DEF NoteFailure, TypeOK

\* What an unmap and a destroy of the ring's blob come to.
LEMMA UnmapEffect ==
  ASSUME TypeOK, g_ring.res \in ResIds, TableState = "mapped", g_ring.mapped, Unmap
  PROVE  /\ gpu' \in [ResIds -> Layer!States] /\ next_res' = next_res
         /\ \A r \in ResIds \ {g_ring.res} : gpu'[r] = gpu[r]
         /\ failed' \in SUBSET ResIds /\ failed \subseteq failed'
         /\ g_ring' \in [res : 0..MaxRes, mapped : BOOLEAN, ctx : 0..MaxCtx]
         /\ g_ring'.res = g_ring.res /\ g_ring'.ctx = g_ring.ctx
         /\ TableState' # "none"
         /\ g_ring'.mapped <=> TableState' # "made"
         /\ g_ring'.mapped => g_ring.res \in failed'
<1>1. PICK s \in Layer!UnmapResults(TableState) :
        /\ Moves(s)
        /\ NoteFailure(s # "made")
        /\ g_ring' = Ring(g_ring.res, s # "made", g_ring.ctx)
  BY DEF Unmap
<1>2. s \in {"mapped", "made"} /\ s \in Layer!States
  BY <1>1 DEF Layer!UnmapResults, Layer!States
<1>3. /\ gpu' \in [ResIds -> Layer!States] /\ next_res' = next_res
      /\ gpu'[g_ring.res] = s
      /\ \A r \in ResIds \ {g_ring.res} : gpu'[r] = gpu[r]
  BY <1>1, <1>2, MovesEffect
<1>4. /\ failed' \in SUBSET ResIds /\ failed \subseteq failed'
      /\ s # "made" => g_ring.res \in failed'
  BY <1>1, NoteEffect
<1>5. g_ring.res \in 0..MaxRes /\ g_ring.ctx \in 0..MaxCtx
  BY DEF TypeOK
<1>6. /\ g_ring' \in [res : 0..MaxRes, mapped : BOOLEAN, ctx : 0..MaxCtx]
      /\ g_ring'.res = g_ring.res /\ g_ring'.ctx = g_ring.ctx
      /\ g_ring'.mapped <=> s # "made"
  BY <1>1, <1>5 DEF Ring
<1> QED
  BY <1>2, <1>3, <1>4, <1>6 DEF TableState

LEMMA DestroyEffect ==
  ASSUME TypeOK, g_ring.res \in ResIds, TableState # "none",
         g_ring.mapped <=> TableState # "made", g_ring.mapped => g_ring.res \in failed, Destroy
  PROVE  /\ gpu' \in [ResIds -> Layer!States] /\ next_res' = next_res
         /\ \A r \in ResIds \ {g_ring.res} : gpu'[r] = gpu[r]
         /\ failed' \in SUBSET ResIds /\ failed \subseteq failed'
         /\ gpu'[g_ring.res] # "none" => g_ring.res \in failed'
         /\ g_ring' = NoRing
<1>1. PICK s \in IF g_ring.mapped THEN {TableState} ELSE Layer!DestroyResults(TableState) :
        Moves(s) /\ NoteFailure(s = "made" /\ ~g_ring.mapped)
  BY DEF Destroy
<1>2. TableState \in Layer!States
  BY DEF TypeOK, TableState
<1>3. s \in Layer!States /\ (s # "none" => g_ring.mapped \/ s = "made")
  BY <1>1, <1>2 DEF Layer!DestroyResults, Layer!States
<1>4. /\ gpu' \in [ResIds -> Layer!States] /\ next_res' = next_res
      /\ gpu'[g_ring.res] = s
      /\ \A r \in ResIds \ {g_ring.res} : gpu'[r] = gpu[r]
  BY <1>1, <1>3, MovesEffect
<1>5. /\ failed' \in SUBSET ResIds /\ failed \subseteq failed'
      /\ s = "made" /\ ~g_ring.mapped => g_ring.res \in failed'
  BY <1>1, NoteEffect
<1> QED
  BY <1>3, <1>4, <1>5 DEF Destroy

-----------------------------------------------------------------------------
\* Making the ring and taking it down

\* These steps are nothing to the sessions: what is said of them holds afterwards.
LEMMA SessionLeftAlone ==
  ASSUME IInv, UNCHANGED <<g_ctx, next_ctx, deviceVars, objects, dead, troubles>>,
         pc \notin {"device", "queue"}, pc' \notin {"device", "queue"},
         \A c \in CtxIds : c >= next_ctx => rings'[c] = {},
         g_disp_initialized' /\ ~(g_ring_ready' /\ pc' \in RingSteps) =>
           g_disp_initialized /\ ~(g_ring_ready /\ pc \in RingSteps)
  PROVE  FreshContexts' /\ ContextDiesForAReason' /\ CalmInv'
<1>1. FreshContexts' /\ ContextDiesForAReason'
  BY DEF IInv, FreshContexts, ContextDiesForAReason
<1>2. CalmInv'
  BY DEF IInv, CalmInv, deviceVars
<1> QED
  BY <1>1, <1>2

LEMMA BeginInv == ASSUME IInv, Begin PROVE IInv'
<1> USE DEF Begin, Goto, IInv
<1>1. pc = "idle" /\ "device" \in told /\ g_disp_initialized
  BY DEF SessionInv
<1>2. UNCHANGED <<g_ctx, next_ctx, g_disp_initialized, told, g_device_created, g_reply_ctx,
                  g_ring_want, g_ring_ready, g_ring, gpu, next_res, failed, objects, attached,
                  rings, dead, troubles, loose>>
  BY DEF sessionVars, deviceVars, blobVars, hostVars
<1>3. /\ pc' \in {"create", "record"} /\ pc' \in Steps
      /\ pc' \notin RingSteps /\ pc \notin RingSteps
  BY DEF RingSteps, Steps
<1>4. TypeOK'
  <2>1. g_ring_tried' \in BOOLEAN
    BY DEF TypeOK
  <2> QED
    BY <1>2, <1>3, <2>1 DEF TypeOK
<1>5. SessionInv'
  BY <1>1, <1>2, <1>3 DEF SessionInv
<1>6. FreshContexts' /\ ContextDiesForAReason' /\ CalmInv'
  BY <1>1, <1>2, <1>3, SessionLeftAlone DEF deviceVars, FreshContexts
<1>7. RingFlagsInv'
  BY <1>1, <1>2, <1>3 DEF RingFlagsInv, TypeOK
<1>8. RingBlobInv' /\ HostRingInv' /\ NothingLeftBehind'
  BY <1>1, <1>2, <1>3
     DEF RingBlobInv, HostRingInv, InUse, TableState, NothingLeftBehind, RingSteps
<1> QED
  BY <1>4, <1>5, <1>6, <1>7, <1>8

LEMMA ShutdownInv == ASSUME IInv, Shutdown PROVE IInv'
<1> USE DEF Shutdown, RingDown, Goto, IInv
<1>1. /\ pc = "idle" /\ g_disp_initialized /\ told' = {} /\ g_disp_initialized' = g_ring_ready
      /\ pc' = IF g_ring_ready THEN "unregister" ELSE "idle"
  OBVIOUS
<1>2. UNCHANGED <<g_ctx, next_ctx, g_device_created, g_reply_ctx, g_ring_want, g_ring_tried,
                  g_ring_ready, g_ring, gpu, next_res, failed, objects, attached,
                  rings, dead, troubles, loose>>
  BY DEF ringVars, blobVars, hostVars
<1>3. TypeOK'
  <2>1. pc' \in Steps /\ told' \in SUBSET Objects /\ g_disp_initialized' \in BOOLEAN
          /\ (pc' \in RingSteps => g_ring_ready)
    BY <1>1 DEF TypeOK, Steps, RingSteps
  <2> QED
    BY <1>2, <2>1 DEF TypeOK
<1>4. SessionInv'
  BY <1>1, <1>2 DEF SessionInv, RingSteps, TypeOK
<1>5. FreshContexts' /\ ContextDiesForAReason' /\ NothingLeftBehind'
  BY <1>2 DEF FreshContexts, ContextDiesForAReason, NothingLeftBehind
<1>6. CalmInv'
  BY <1>1, <1>2 DEF CalmInv, RingSteps
<1>7. RingFlagsInv' /\ RingBlobInv' /\ HostRingInv'
  BY <1>1, <1>2 DEF RingFlagsInv, RingBlobInv, HostRingInv, InUse, TableState, RingSteps
<1> QED
  BY <1>3, <1>4, <1>5, <1>6, <1>7

LEMMA RingCreateInv == ASSUME IInv, RingCreate PROVE IInv'
<1> USE DEF RingCreate, CreateThen, Goto, IInv
<1>1. /\ pc = "create" /\ pc' \in {"map", "record"} /\ g_ring_tried /\ ~g_ring_ready
      /\ pc' = "map" <=> pc' \in RingSteps
      /\ pc' \in Steps /\ g_ring = NoRing
      /\ \A r \in ResIds : gpu[r] = "none"
      /\ \A c \in CtxIds : rings[c] = {}
  BY DEF RingFlagsInv, RingSteps, Steps
<1>2. UNCHANGED <<g_disp_initialized, g_ctx, next_ctx, g_device_created, g_reply_ctx, told,
                  g_ring_want, g_ring_tried, g_ring_ready, failed, objects, attached, rings,
                  dead, troubles, loose>>
  BY DEF Elsewhere, sessionVars, deviceVars, RingFlags, hostVars
<1>3. pc' = "map" => /\ next_res \in ResIds /\ next_res' = next_res + 1
                     /\ gpu' = [gpu EXCEPT ![next_res] = "made"]
                     /\ g_ring' = [res |-> next_res, mapped |-> FALSE, ctx |-> g_ctx]
  BY <1>1 DEF Layer!Take, Layer!ResIds, ResIds, Ring
<1>4. pc' # "map" => /\ UNCHANGED <<gpu, g_ring>>
                     /\ next_res' # next_res => next_res \in ResIds /\ next_res' = next_res + 1
  BY <1>1 DEF Layer!Take, Layer!ResIds, ResIds
<1>5. TypeOK' /\ RingBlobInv' /\ NothingLeftBehind'
  <2>1. /\ next_res' \in 1..(MaxRes + 1)
        /\ g_ring' \in [res : 0..MaxRes, mapped : BOOLEAN, ctx : 0..MaxCtx]
        /\ pc' = "map" => g_ring'.res \in ResIds /\ g_ring'.ctx = g_ctx /\ ~g_ring'.mapped
    <3>1. /\ next_res \in 1..(MaxRes + 1) /\ g_ctx \in 0..MaxCtx
          /\ g_ring \in [res : 0..MaxRes, mapped : BOOLEAN, ctx : 0..MaxCtx]
      BY DEF TypeOK
    <3> HIDE DEF RingCreate, IInv
    <3>2. CASE pc' = "map"
      <4>1. /\ next_res \in 1..MaxRes /\ next_res' = next_res + 1
            /\ g_ring' = [res |-> next_res, mapped |-> FALSE, ctx |-> g_ctx]
        BY <1>3, <3>2 DEF ResIds
      <4>2. next_res' \in 1..(MaxRes + 1) /\ next_res \in 0..MaxRes
        BY <4>1, VulkanLifecycleAssumption
      <4> QED
        BY <3>1, <4>1, <4>2 DEF ResIds
    <3>3. CASE pc' # "map"
      BY <1>4, <3>1, <3>3, VulkanLifecycleAssumption DEF ResIds
    <3> QED
      BY <3>2, <3>3
  <2>2. /\ gpu' \in [ResIds -> Layer!States]
        /\ pc' = "map" => gpu'[g_ring'.res] = "made"
        /\ \A r \in ResIds : gpu'[r] # "none" => r = g_ring'.res
    BY <1>1, <1>3, <1>4 DEF TypeOK, Layer!States
  <2>3. TypeOK'
    BY <1>1, <1>2, <2>1, <2>2 DEF TypeOK
  <2>4. RingBlobInv'
    BY <1>1, <1>2, <2>1, <2>2 DEF RingBlobInv, InUse, TableState, RingSteps
  <2> QED
    BY <2>2, <2>3, <2>4 DEF NothingLeftBehind
<1>6. SessionInv'
  BY <1>1, <1>2 DEF SessionInv
<1>7. FreshContexts' /\ ContextDiesForAReason' /\ CalmInv'
  BY <1>1, <1>2, SessionLeftAlone DEF deviceVars
<1>8. RingFlagsInv' /\ HostRingInv'
  BY <1>1, <1>2, <1>4 DEF RingFlagsInv, HostRingInv, InUse, RingSteps
<1> QED
  BY <1>5, <1>6, <1>7, <1>8

\* Between the first step on the ring's blob and the last, the session stands still.
LEMMA RingStep ==
  ASSUME IInv, pc \in RingSteps, pc' \in RingSteps, UNCHANGED g_ring_ready,
         UNCHANGED <<sessionVars, deviceVars, objects, dead, troubles>>,
         \A c \in CtxIds \ {g_ctx} : rings'[c] \subseteq rings[c]
  PROVE  SessionInv' /\ FreshContexts' /\ ContextDiesForAReason' /\ CalmInv'
<1> USE DEF IInv
<1>1. SessionInv'
  BY DEF SessionInv, sessionVars, deviceVars, RingSteps
<1>2. \A c \in CtxIds : c >= next_ctx => rings'[c] = {}
  <2> SUFFICES ASSUME NEW c \in CtxIds, c >= next_ctx PROVE rings'[c] = {}
    OBVIOUS
  <2>1. c # g_ctx /\ rings[c] = {}
    BY DEF SessionInv, FreshContexts, TypeOK, CtxIds
  <2> QED
    BY <2>1
<1>3. pc \notin {"device", "queue"} /\ pc' \notin {"device", "queue"}
  BY DEF RingSteps
<1>4. UNCHANGED <<g_disp_initialized, g_ctx, next_ctx>>
  BY DEF sessionVars
<1>5. FreshContexts' /\ ContextDiesForAReason' /\ CalmInv'
  BY <1>2, <1>3, <1>4, SessionLeftAlone
<1> QED
  BY <1>1, <1>5

LEMMA RingMapInv == ASSUME IInv, RingMap PROVE IInv'
<1> USE DEF IInv
<1>1. /\ pc = "map" /\ pc \in RingSteps /\ ~g_ring_ready /\ g_ring_tried
      /\ g_ring.res \in ResIds /\ g_ring.ctx = g_ctx /\ TableState = "made"
  BY DEF RingMap, RingFlagsInv, RingBlobInv, TypeOK, RingSteps
<1>2. UNCHANGED <<g_disp_initialized, g_ctx, next_ctx, g_device_created, g_reply_ctx, told,
                  g_ring_want, g_ring_tried, g_ring_ready, objects, attached, rings,
                  dead, troubles, loose>>
  BY DEF RingMap, Elsewhere, sessionVars, deviceVars, RingFlags, hostVars
<1>3. PICK s \in Layer!MapResults(TableState) :
        /\ Moves(s)
        /\ NoteFailure(s = "half")
        /\ g_ring' = Ring(g_ring.res, s # "made", g_ring.ctx)
        /\ pc' = IF s = "mapped" THEN "attach" ELSE "undo_destroy"
  BY DEF RingMap
<1>4. s \in {"made", "half", "mapped"} /\ s \in Layer!States
  BY <1>1, <1>3 DEF Layer!MapResults, Layer!States
<1>5. /\ gpu' \in [ResIds -> Layer!States] /\ next_res' = next_res
      /\ gpu'[g_ring.res] = s
      /\ \A r \in ResIds \ {g_ring.res} : gpu'[r] = gpu[r]
  BY <1>1, <1>3, <1>4, MovesEffect
<1>6. /\ failed' \in SUBSET ResIds /\ failed \subseteq failed'
      /\ s = "half" => g_ring.res \in failed'
  BY <1>1, <1>3, NoteEffect
<1>7. /\ g_ring' \in [res : 0..MaxRes, mapped : BOOLEAN, ctx : 0..MaxCtx]
      /\ g_ring'.res = g_ring.res /\ g_ring'.ctx = g_ring.ctx
      /\ g_ring'.mapped <=> s # "made"
  BY <1>3 DEF Ring, TypeOK
<1>8. pc' \in RingSteps /\ pc' \in Steps
  BY <1>3 DEF RingSteps, Steps
<1>9. TypeOK'
  BY <1>1, <1>2, <1>5, <1>6, <1>7, <1>8 DEF TypeOK
<1>10. SessionInv' /\ FreshContexts' /\ ContextDiesForAReason' /\ CalmInv'
  BY <1>1, <1>2, <1>8, RingStep DEF sessionVars, deviceVars
<1>11. RingFlagsInv' /\ HostRingInv'
  BY <1>1, <1>2, <1>3, <1>8 DEF RingFlagsInv, HostRingInv, InUse, RingSteps
<1>12. RingBlobInv'
  BY <1>1, <1>2, <1>3, <1>4, <1>5, <1>6, <1>7 DEF RingBlobInv, InUse, TableState, RingSteps
<1>13. NothingLeftBehind'
  BY <1>5, <1>6, <1>7 DEF NothingLeftBehind
<1> QED
  BY <1>9, <1>10, <1>11, <1>12, <1>13

LEMMA RingAttachInv == ASSUME IInv, RingAttach PROVE IInv'
<1> USE DEF RingAttach, IInv
<1>1. /\ pc = "attach" /\ pc \in RingSteps /\ ~g_ring_ready /\ g_ring_tried
      /\ pc' \in {"register", "undo_unmap"} /\ pc' \in RingSteps /\ pc' \in Steps
      /\ g_ring.res \in ResIds /\ g_ring.ctx \in 0..MaxCtx
  BY DEF RingFlagsInv, TypeOK, RingSteps, Steps
<1>2. UNCHANGED <<g_disp_initialized, g_ctx, next_ctx, g_device_created, g_reply_ctx, told,
                  g_ring_want, g_ring_tried, g_ring_ready, g_ring, gpu, next_res, failed,
                  objects, rings, dead, troubles, loose>>
  BY DEF Elsewhere, sessionVars, deviceVars, RingFlags, blobVars
<1>3. /\ attached' \in [CtxIds -> SUBSET ResIds]
      /\ pc' = "register" => g_ring.ctx \in CtxIds /\ g_ring.res \in attached'[g_ring.ctx]
  <2>1. attached \in [CtxIds -> SUBSET ResIds]
    BY DEF TypeOK
  <2>2. CASE /\ g_ring.ctx # 0
             /\ attached' = [attached EXCEPT ![g_ring.ctx] =
                                 attached[g_ring.ctx] \cup {g_ring.res}]
    <3>1. g_ring.ctx \in CtxIds
      BY <1>1, <2>2, VulkanLifecycleAssumption DEF CtxIds
    <3> QED
      BY <1>1, <2>1, <2>2, <3>1
  <2>3. CASE pc' = "undo_unmap" /\ UNCHANGED attached
    BY <2>1, <2>3
  <2> QED
    BY <2>2, <2>3
<1>4. TypeOK'
  BY <1>1, <1>2, <1>3 DEF TypeOK
<1>5. SessionInv' /\ FreshContexts' /\ ContextDiesForAReason' /\ CalmInv'
  BY <1>1, <1>2, RingStep DEF sessionVars, deviceVars
<1>6. RingFlagsInv' /\ HostRingInv' /\ NothingLeftBehind'
  BY <1>1, <1>2 DEF RingFlagsInv, HostRingInv, InUse, NothingLeftBehind, RingSteps
<1>7. RingBlobInv'
  BY <1>1, <1>2, <1>3 DEF RingBlobInv, InUse, TableState, RingSteps
<1> QED
  BY <1>4, <1>5, <1>6, <1>7

\* The host starts a ring: of the ring's context only, and not if that context is dead.
LEMMA StartedEffect ==
  ASSUME TypeOK, g_ring.res \in ResIds, g_ring.ctx \in CtxIds, Started
  PROVE  /\ rings' \in [CtxIds -> SUBSET ResIds]
         /\ \A c \in CtxIds \ {g_ring.ctx} : rings'[c] = rings[c]
         /\ rings'[g_ring.ctx] \subseteq rings[g_ring.ctx] \cup {g_ring.res}
         /\ g_ring.res \in rings'[g_ring.ctx] \/ g_ring.ctx \in dead
<1>1. rings \in [CtxIds -> SUBSET ResIds]
  BY DEF TypeOK
<1>2. CASE g_ring.ctx \in dead
  BY <1>1, <1>2 DEF Started
<1>3. CASE g_ring.ctx \notin dead
  <2>1. rings' = [rings EXCEPT ![g_ring.ctx] = rings[g_ring.ctx] \cup {g_ring.res}]
    BY <1>3 DEF Started
  <2> QED
    BY <1>1, <2>1
<1> QED
  BY <1>2, <1>3

LEMMA RingRegisterInv == ASSUME IInv, RingRegister PROVE IInv'
<1> USE DEF RingRegister, IInv
<1>1. /\ pc = "register" /\ pc \in RingSteps /\ ~g_ring_ready /\ g_ring_tried
      /\ g_ring.res \in ResIds /\ g_ring.ctx \in CtxIds /\ g_ring.ctx = g_ctx
      /\ g_disp_initialized
      /\ "device" \in told
  BY DEF RingFlagsInv, RingBlobInv, SessionInv, TypeOK, RingSteps
<1>2. UNCHANGED <<g_disp_initialized, g_ctx, next_ctx, g_device_created, g_reply_ctx, told,
                  g_ring_want, g_ring_tried, g_ring, gpu, next_res, failed,
                  objects, attached, dead, troubles>>
  BY DEF sessionVars, deviceVars, blobVars
<1>3. /\ rings' \in [CtxIds -> SUBSET ResIds]
      /\ \A c \in CtxIds \ {g_ring.ctx} : rings'[c] = rings[c]
      /\ rings'[g_ring.ctx] \subseteq rings[g_ring.ctx] \cup {g_ring.res}
  BY <1>1, StartedEffect DEF TypeOK
<1>4. \A c \in CtxIds : rings[c] \subseteq loose
  BY <1>1 DEF HostRingInv, InUse
<1>5. \A c \in CtxIds : c >= next_ctx => rings'[c] = {}
  <2> SUFFICES ASSUME NEW c \in CtxIds, c >= next_ctx PROVE rings'[c] = {}
    OBVIOUS
  <2>1. c # g_ctx /\ rings[c] = {}
    BY DEF SessionInv, FreshContexts, TypeOK, CtxIds
  <2> QED
    BY <1>1, <1>3, <2>1
<1>6. CASE Started /\ g_ring_ready' = TRUE /\ pc' = "record" /\ UNCHANGED loose
  <2>1. g_ring.res \in rings'[g_ring.ctx] \/ g_ring.ctx \in dead
    BY <1>1, <1>6, StartedEffect
  <2>2. pc' \in Steps /\ pc' \notin RingSteps
    BY <1>6 DEF Steps, RingSteps
  <2>3. TypeOK' /\ SessionInv'
    BY <1>1, <1>2, <1>3, <1>6, <2>2 DEF TypeOK, SessionInv
  <2>4. FreshContexts' /\ ContextDiesForAReason' /\ CalmInv'
    BY <1>1, <1>2, <1>5, <1>6, SessionLeftAlone DEF deviceVars
  <2>5. RingFlagsInv' /\ RingBlobInv' /\ NothingLeftBehind'
    BY <1>1, <1>2, <1>6, <2>2
       DEF RingFlagsInv, RingBlobInv, InUse, TableState, NothingLeftBehind
  <2>6. HostRingInv'
    BY <1>2, <1>3, <1>4, <1>6, <2>1, <2>2 DEF HostRingInv, InUse
  <2> QED
    BY <2>3, <2>4, <2>5, <2>6
<1>7. CASE loose' = loose \cup {g_ring.res} /\ pc' = "detach" /\ UNCHANGED g_ring_ready
  <2>1. pc' \in Steps /\ pc' \in RingSteps
    BY <1>7 DEF Steps, RingSteps
  <2>2. TypeOK'
    BY <1>1, <1>2, <1>3, <1>7, <2>1 DEF TypeOK
  <2>3. SessionInv' /\ FreshContexts' /\ ContextDiesForAReason' /\ CalmInv'
    BY <1>1, <1>2, <1>3, <1>7, <2>1, RingStep DEF sessionVars, deviceVars
  <2>4. RingFlagsInv' /\ RingBlobInv' /\ NothingLeftBehind'
    BY <1>1, <1>2, <1>7, <2>1
       DEF RingFlagsInv, RingBlobInv, InUse, TableState, NothingLeftBehind, RingSteps
  <2>5. HostRingInv'
    BY <1>1, <1>3, <1>4, <1>7, <2>1 DEF HostRingInv, InUse
  <2> QED
    BY <2>2, <2>3, <2>4, <2>5
<1> QED
  BY <1>6, <1>7

\* The unmap of the ring's blob, while the ring is made and while it is taken down.
LEMMA UnmapStepInv ==
  ASSUME IInv, Unmap, UNCHANGED <<Elsewhere, hostVars, troubles, loose>>,
         \/ pc = "undo_unmap" /\ pc' = "undo_destroy"
         \/ pc = "unmap" /\ pc' = "destroy"
  PROVE  IInv'
<1> USE DEF IInv
<1>1. /\ pc \in RingSteps /\ pc' \in RingSteps /\ pc' \in Steps /\ g_ring_tried
      /\ pc' = "undo_destroy" => ~g_ring_ready
      /\ g_ring.res \in ResIds /\ TableState = "mapped" /\ g_ring.mapped
  BY DEF RingFlagsInv, RingBlobInv, TypeOK, RingSteps, Steps
<1>2. UNCHANGED <<g_disp_initialized, g_ctx, next_ctx, g_device_created, g_reply_ctx, told,
                  g_ring_want, g_ring_tried, g_ring_ready, objects, attached, rings,
                  dead, troubles, loose>>
  BY DEF Elsewhere, sessionVars, deviceVars, RingFlags, hostVars
<1>3. /\ gpu' \in [ResIds -> Layer!States] /\ next_res' = next_res
      /\ \A r \in ResIds \ {g_ring.res} : gpu'[r] = gpu[r]
      /\ failed' \in SUBSET ResIds /\ failed \subseteq failed'
      /\ g_ring' \in [res : 0..MaxRes, mapped : BOOLEAN, ctx : 0..MaxCtx]
      /\ g_ring'.res = g_ring.res /\ g_ring'.ctx = g_ring.ctx
      /\ TableState' # "none"
      /\ g_ring'.mapped <=> TableState' # "made"
      /\ g_ring'.mapped => g_ring.res \in failed'
  BY <1>1, UnmapEffect
<1>4. TypeOK'
  BY <1>1, <1>2, <1>3 DEF TypeOK
<1>5. SessionInv' /\ FreshContexts' /\ ContextDiesForAReason' /\ CalmInv'
  BY <1>1, <1>2, RingStep DEF sessionVars, deviceVars
<1>6. RingFlagsInv' /\ HostRingInv' /\ NothingLeftBehind'
  BY <1>1, <1>2, <1>3 DEF RingFlagsInv, HostRingInv, InUse, NothingLeftBehind, RingSteps
<1>7. RingBlobInv'
  BY <1>1, <1>2, <1>3 DEF RingBlobInv, InUse, RingSteps
<1> QED
  BY <1>4, <1>5, <1>6, <1>7

LEMMA RingUndoUnmapInv == ASSUME IInv, RingUndoUnmap PROVE IInv'
  BY UnmapStepInv DEF RingUndoUnmap, Goto

LEMMA RingUnmapInv == ASSUME IInv, RingUnmap PROVE IInv'
  BY UnmapStepInv DEF RingUnmap, Goto

\* The destroy of the ring's blob is the last step: the flags are as they were before
\* there was a ring, and after a shutdown the session is closed.
LEMMA DestroyStepInv ==
  ASSUME IInv, pc \in {"undo_destroy", "destroy"}, Destroy,
         pc' = IF g_ring_ready THEN "idle" ELSE "record",
         g_ring_ready' = FALSE,
         g_disp_initialized' = (g_disp_initialized /\ ~g_ring_ready),
         UNCHANGED <<g_ctx, next_ctx, deviceVars, g_ring_want, g_ring_tried, hostVars,
                     troubles, loose>>
  PROVE  IInv'
<1> USE DEF IInv
<1>1. /\ pc \in RingSteps /\ pc' \notin RingSteps /\ pc' \in Steps
      /\ g_ring_tried /\ g_disp_initialized
      /\ pc' \in {"idle", "record"}
      /\ g_ring.res \in ResIds /\ TableState # "none"
      /\ g_ring.mapped <=> TableState # "made"
      /\ g_ring.mapped => g_ring.res \in failed
  BY DEF RingFlagsInv, RingBlobInv, SessionInv, TypeOK, RingSteps, Steps
<1>2. UNCHANGED <<g_ctx, next_ctx, g_device_created, g_reply_ctx, told, g_ring_want,
                  g_ring_tried, objects, attached, rings, dead, troubles, loose>>
  BY DEF deviceVars, hostVars
<1>3. /\ gpu' \in [ResIds -> Layer!States] /\ next_res' = next_res
      /\ \A r \in ResIds \ {g_ring.res} : gpu'[r] = gpu[r]
      /\ failed' \in SUBSET ResIds /\ failed \subseteq failed'
      /\ gpu'[g_ring.res] # "none" => g_ring.res \in failed'
      /\ g_ring' = NoRing
  BY <1>1, DestroyEffect
<1>4. TypeOK'
  <2>1. NoRing \in [res : 0..MaxRes, mapped : BOOLEAN, ctx : 0..MaxCtx]
    BY VulkanLifecycleAssumption DEF NoRing, Ring
  <2>2. g_disp_initialized' \in BOOLEAN /\ g_ring_ready' \in BOOLEAN
    OBVIOUS
  <2> QED
    BY <1>1, <1>2, <1>3, <2>1, <2>2 DEF TypeOK
<1>5. SessionInv'
  BY <1>1, <1>2 DEF SessionInv, TypeOK
<1>6. FreshContexts' /\ ContextDiesForAReason' /\ CalmInv'
  <2>1. g_disp_initialized' => ~g_ring_ready
    OBVIOUS
  <2>2. pc \notin {"device", "queue"} /\ pc' \notin {"device", "queue"}
    BY <1>1 DEF RingSteps
  <2> QED
    BY <1>1, <1>2, <2>1, <2>2, SessionLeftAlone DEF FreshContexts
<1>7. RingFlagsInv' /\ RingBlobInv'
  BY <1>1, <1>2, <1>3 DEF RingFlagsInv, RingBlobInv, InUse, RingSteps
<1>8. HostRingInv' /\ NothingLeftBehind'
  BY <1>1, <1>2, <1>3 DEF HostRingInv, InUse, NothingLeftBehind, RingSteps
<1> QED
  BY <1>4, <1>5, <1>6, <1>7, <1>8

LEMMA RingUndoDestroyInv == ASSUME IInv, RingUndoDestroy PROVE IInv'
<1>1. ~g_ring_ready
  BY DEF IInv, RingFlagsInv, RingUndoDestroy, Goto
<1>2. g_disp_initialized
  BY DEF IInv, SessionInv, RingUndoDestroy, Goto
<1>3. UNCHANGED <<g_ring_ready, g_disp_initialized>> /\ Destroy
  BY DEF RingUndoDestroy, Elsewhere, sessionVars, RingFlags
<1>4. g_ring_ready' = FALSE /\ g_disp_initialized' = (g_disp_initialized /\ ~g_ring_ready)
  BY <1>1, <1>2, <1>3 DEF IInv, TypeOK
<1> QED
  BY <1>1, <1>3, <1>4, DestroyStepInv
     DEF RingUndoDestroy, Goto, Elsewhere, sessionVars, RingFlags

LEMMA RingDestroyInv == ASSUME IInv, RingDestroy PROVE IInv'
  BY DestroyStepInv DEF RingDestroy, Goto, ReadyAfter

LEMMA RingUnregisterInv == ASSUME IInv, RingUnregister PROVE IInv'
<1> USE DEF RingUnregister, Goto, IInv
<1>1. /\ pc = "unregister" /\ pc' = "detach" /\ pc \in RingSteps /\ pc' \in RingSteps
      /\ pc' \in Steps /\ g_ring_ready /\ g_ring_tried
      /\ g_ring.res \in ResIds /\ g_ring.ctx \in CtxIds
  BY DEF RingFlagsInv, TypeOK, RingSteps, Steps
<1>2. UNCHANGED <<g_disp_initialized, g_ctx, next_ctx, g_device_created, g_reply_ctx, told,
                  g_ring_want, g_ring_tried, g_ring_ready, g_ring, gpu, next_res, failed,
                  objects, attached, dead, troubles>>
  BY DEF Elsewhere, sessionVars, deviceVars, RingFlags, blobVars
<1>3. /\ rings' \in [CtxIds -> SUBSET ResIds] /\ loose' \in SUBSET ResIds
      /\ \A c \in CtxIds : rings'[c] \subseteq rings[c]
      /\ \A c \in CtxIds : rings'[c] \subseteq loose'
  <2>1. rings \in [CtxIds -> SUBSET ResIds] /\ loose \in SUBSET ResIds
    BY DEF TypeOK
  <2>2. \A c \in CtxIds : \A r \in rings[c] \ loose : r = g_ring.res /\ c = g_ring.ctx
    BY DEF HostRingInv
  <2>3. CASE /\ rings' = [rings EXCEPT ![g_ring.ctx] = rings[g_ring.ctx] \ {g_ring.res}]
             /\ UNCHANGED loose
    <3>1. /\ rings' \in [CtxIds -> SUBSET ResIds]
          /\ rings'[g_ring.ctx] = rings[g_ring.ctx] \ {g_ring.res}
          /\ \A c \in CtxIds \ {g_ring.ctx} : rings'[c] = rings[c]
      BY <1>1, <2>1, <2>3
    <3> QED
      BY <2>1, <2>2, <2>3, <3>1
  <2>4. CASE loose' = loose \cup {g_ring.res} /\ UNCHANGED rings
    BY <1>1, <2>1, <2>2, <2>4
  <2> QED
    BY <2>3, <2>4
<1>4. TypeOK'
  BY <1>1, <1>2, <1>3 DEF TypeOK
<1>5. SessionInv' /\ FreshContexts' /\ ContextDiesForAReason' /\ CalmInv'
  BY <1>1, <1>2, <1>3, RingStep DEF sessionVars, deviceVars
<1>6. RingFlagsInv' /\ RingBlobInv' /\ NothingLeftBehind'
  BY <1>1, <1>2
     DEF RingFlagsInv, RingBlobInv, InUse, TableState, NothingLeftBehind, RingSteps
<1>7. HostRingInv'
  BY <1>1, <1>3 DEF HostRingInv, InUse
<1> QED
  BY <1>4, <1>5, <1>6, <1>7

LEMMA RingDetachInv == ASSUME IInv, RingDetach PROVE IInv'
<1> USE DEF RingDetach, Goto, IInv
<1>1. /\ pc = "detach" /\ pc' = "unmap" /\ pc \in RingSteps /\ pc' \in RingSteps
      /\ pc' \in Steps /\ g_ring_tried
  BY DEF RingFlagsInv, RingSteps, Steps
<1>2. UNCHANGED <<g_disp_initialized, g_ctx, next_ctx, g_device_created, g_reply_ctx, told,
                  g_ring_want, g_ring_tried, g_ring_ready, g_ring, gpu, next_res, failed,
                  objects, rings, dead, troubles, loose>>
  BY DEF Elsewhere, sessionVars, deviceVars, RingFlags, blobVars
<1>3. attached' \in [CtxIds -> SUBSET ResIds]
  BY DEF TypeOK
<1>4. TypeOK'
  BY <1>1, <1>2, <1>3 DEF TypeOK
<1>5. SessionInv' /\ FreshContexts' /\ ContextDiesForAReason' /\ CalmInv'
  BY <1>1, <1>2, RingStep DEF sessionVars, deviceVars
<1>6. RingFlagsInv' /\ RingBlobInv' /\ HostRingInv' /\ NothingLeftBehind'
  BY <1>1, <1>2 DEF RingFlagsInv, RingBlobInv, HostRingInv, InUse, TableState,
                    NothingLeftBehind, RingSteps
<1> QED
  BY <1>4, <1>5, <1>6

-----------------------------------------------------------------------------
\* The theorems

LEMMA StepInv == IInv /\ [Next]_vars => IInv'
<1> SUFFICES ASSUME IInv, [Next]_vars PROVE IInv'
  OBVIOUS
<1>1. CASE ApiCall
  BY <1>1, InitCallInv, CreateInstanceInv, EnumerateInv, GetPropertiesInv, CreateDeviceInv,
     UseDeviceInv, BeginInv, ShutdownInv DEF ApiCall
<1>2. CASE ApiStep
  BY <1>2, SubmitInstanceInv, QueryDeviceInv, SubmitQueueInv, RecordInv DEF ApiStep
<1>3. CASE RingUp
  BY <1>3, RingCreateInv, RingMapInv, RingAttachInv, RingRegisterInv, RingUndoUnmapInv,
     RingUndoDestroyInv DEF RingUp
<1>4. CASE RingTakeDown
  BY <1>4, RingUnregisterInv, RingDetachInv, RingUnmapInv, RingDestroyInv DEF RingTakeDown
<1>5. CASE UNCHANGED vars
  <2> USE <1>5 DEF vars, sessionVars, deviceVars, ringVars, blobVars, hostVars, IInv
  <2>1. TypeOK' /\ SessionInv' /\ FreshContexts'
    BY DEF TypeOK, SessionInv, FreshContexts
  <2>2. RingFlagsInv' /\ RingBlobInv' /\ HostRingInv'
    BY DEF RingFlagsInv, RingBlobInv, HostRingInv, InUse, TableState
  <2>3. NothingLeftBehind' /\ ContextDiesForAReason' /\ CalmInv'
    BY DEF NothingLeftBehind, ContextDiesForAReason, CalmInv
  <2> QED
    BY <2>1, <2>2, <2>3
<1> QED
  BY <1>1, <1>2, <1>3, <1>4, <1>5 DEF Next

LEMMA Invariance == Spec => []IInv
  BY InitInv, StepInv, PTL DEF Spec

\* Types, and a thread that is at work on the ring has one.
THEOREM TypeCorrect == Spec => []TypeOK
<1>1. IInv => TypeOK
  BY DEF IInv
<1> QED
  BY <1>1, Invariance, PTL

\* The host never runs a ring in memory that the guest has taken back, whatever the
\* commands that make the ring and take it down come to, unless one of its two own
\* commands was lost.
THEOREM RingMemory == Spec => []RingHasItsMemory
<1>1. IInv => RingHasItsMemory
  <2> SUFFICES ASSUME IInv, NEW c \in CtxIds, NEW r \in rings[c] \ loose
               PROVE  gpu[r] = "mapped" /\ r \in attached[c]
    BY DEF RingHasItsMemory
  <2>1. r = g_ring.res /\ c = g_ring.ctx /\ (InUse \/ pc = "unregister")
    BY DEF IInv, HostRingInv
  <2> QED
    BY <2>1 DEF IInv, RingBlobInv, TableState
<1> QED
  BY <1>1, Invariance, PTL

\* The ring that command buffers go to belongs to the open context, is mapped, and is
\* run by the host or its context is dead.
THEOREM ReadyRing == Spec => []ReadyRingIsCurrent
<1>1. IInv => ReadyRingIsCurrent
  <2> SUFFICES ASSUME IInv, InUse
               PROVE  /\ g_disp_initialized
                      /\ g_ring.ctx = g_ctx
                      /\ gpu[g_ring.res] = "mapped"
                      /\ g_ring.res \in rings[g_ctx] \/ g_ctx \in dead
    BY DEF ReadyRingIsCurrent, InUse
  <2>1. g_disp_initialized
    BY DEF IInv, SessionInv, InUse
  <2> QED
    BY <2>1 DEF IInv, RingBlobInv, HostRingInv, TableState, InUse
<1> QED
  BY <1>1, Invariance, PTL

\* A ring that could not be made and a ring that was given up leave no blob in the
\* driver's table, unless a command to take it down failed.
THEOREM NothingBehind == Spec => []NothingLeftBehind
<1>1. IInv => NothingLeftBehind
  BY DEF IInv
<1> QED
  BY <1>1, Invariance, PTL

\* The host ends no context for a command that the dispatch sent in its turn.
THEOREM ContextsLive == Spec => []ContextDiesForAReason
<1>1. IInv => ContextDiesForAReason
  BY DEF IInv
<1> QED
  BY <1>1, Invariance, PTL

\* In a context to which nothing happened the host has every object that the
\* application was given, although no call looks at the result of its commands.
THEOREM DeviceThere == Spec => []DeviceIsOnHost
<1>1. IInv => DeviceIsOnHost
  <2> SUFFICES ASSUME IInv, g_ctx # 0, troubles[g_ctx] = {}
               PROVE  told \subseteq objects[g_ctx] /\ g_ctx \notin dead
    BY DEF DeviceIsOnHost
  <2>1. g_ctx \notin dead
    BY DEF IInv, ContextDiesForAReason
  <2>2. CASE told = {}
    BY <2>1, <2>2
  <2>3. CASE told # {}
    BY <2>1, <2>3 DEF IInv, SessionInv, CalmInv
  <2> QED
    BY <2>2, <2>3
<1> QED
  BY <1>1, Invariance, PTL
=============================================================================
