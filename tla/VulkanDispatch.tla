---------------------------- MODULE VulkanDispatch ----------------------------
(***************************************************************************)
(* How the static Vulkan dispatch (uk_vulkan_dispatch.c) brings the        *)
(* application's calls to the host.  A call encodes one command under      *)
(* g_disp_lock and then                                                    *)
(*   - submits it alone (SUBMIT_3D), or                                    *)
(*   - while a command buffer is being recorded, adds it to g_batch_enc    *)
(*     (batch mode) or writes it to the Venus ring (ring mode);            *)
(*   - creates of shaders, layouts and pipelines are submitted alone       *)
(*     whatever the mode.                                                  *)
(* The host runs a SUBMIT_3D before it answers; what is in the ring it     *)
(* runs when it likes.  The ring is the CommandStream that VenusRing       *)
(* implements.  A submission that fails (CtrlQueue) is not modelled here.  *)
(*                                                                         *)
(* A command buffer is recorded by one thread of its own, as Vulkan        *)
(* requires of its users; compilers and allocators are further threads.    *)
(***************************************************************************)
EXTENDS Integers, Sequences, FiniteSets, SequencesExt

CONSTANTS CmdBufs,     (* command buffers, each with the thread that records it *)
          Compilers,   (* threads that compile one pipeline                     *)
          Allocators,  (* threads that make one buffer and its memory           *)
          Nobody,      (* owner of a free lock                                  *)
          RingWants,   (* values of UK_GGML_VK_DISPATCH_RING                    *)
          Threshold,   (* UK_BATCH_FLUSH_THRESHOLD, in commands                 *)
          RingSize,    (* commands that fit into the ring                       *)
          MaxCmds,     (* bound: vkCmd* calls in one recording                  *)
          MaxRounds    (* bound: recordings of one command buffer               *)

Workers == Compilers \cup Allocators
Threads == CmdBufs \cup Workers

ASSUME VulkanDispatchAssumption ==
  /\ CmdBufs \cap Workers = {} /\ Compilers \cap Allocators = {}
  /\ Nobody \notin Threads
  /\ RingWants \subseteq BOOLEAN
  /\ Threshold \in Nat \ {0} /\ RingSize \in Nat \ {0}
  /\ MaxCmds \in Nat /\ MaxRounds \in Nat \ {0}

VARIABLES
  lock,             \* owner of g_disp_lock
  batch_enabled,    \* g_batch_enabled
  batch_recording,  \* g_batch_recording
  batch_enc,        \* g_batch_enc: the commands in it
  ring_want,        \* g_ring_want
  ring_tried,       \* g_ring_tried
  ring_ready,       \* g_ring_enabled and g_ring_ready
  ring_recording,   \* g_ring_recording
  pc,               \* where in a call each thread is
  call,             \* the call it is in, and whether it bypasses batch and ring
  enc,              \* its _enc: the commands in it
  rec,              \* per command buffer: "idle", "open", "ended", "submitted"
  step,             \* per compiler or allocator: calls of its job that returned
  issued,           \* per command buffer: commands recorded into it so far
  rounds,           \* per command buffer: recordings begun
  refused,          \* per command buffer: those the ring had no room for
  host,             \* the host: objects, what it recorded and ran per command buffer
  open, offer, draft, pending, running   \* the ring: see CommandStream

ringVars == <<open, offer, draft, pending, running>>
modeVars == <<batch_enabled, ring_want>>
windowVars == <<batch_recording, batch_enc, ring_recording>>
bookVars == <<issued, rounds, refused>>
vars == <<lock, modeVars, windowVars, ring_tried, ring_ready, pc, call, enc,
          rec, step, bookVars, host, ringVars>>

-----------------------------------------------------------------------------
(* Commands.  A recorded command carries its number within its buffer.      *)

Object == {"shader", "layout", "pipeline", "buffer", "memory"} \X Workers
MaxIssued == MaxRounds * (MaxCmds + 2)

Recorded(c, n, uses) == [op |-> "record", cb |-> c, n |-> n, uses |-> uses]
Submit(c)            == [op |-> "submit", cb |-> c]
Create(o, uses)      == [op |-> "create", obj |-> o, uses |-> uses]
Bind(uses)           == [op |-> "bind", uses |-> uses]
Destroy(o)           == [op |-> "destroy", obj |-> o]

NoCall == [name |-> "none", immediate |-> FALSE]
Of(kind, w) == <<kind, w>>
Pipelines == {Of("pipeline", w) : w \in Compilers}

Commands ==
  {Recorded(c, n, uses) : c \in CmdBufs, n \in 1..MaxIssued,
                          uses \in {{}} \cup {{p} : p \in Pipelines}}
  \cup {Submit(c) : c \in CmdBufs}
  \cup (UNION {{Create(Of("shader", w), {}), Create(Of("layout", w), {}),
                Create(Of("pipeline", w), {Of("shader", w), Of("layout", w)}),
                Destroy(Of("shader", w))} : w \in Compilers})
  \cup (UNION {{Create(Of("buffer", w), {}), Create(Of("memory", w), {}),
                Bind({Of("buffer", w), Of("memory", w)})} : w \in Allocators})

\* The ring: what one uk_venus_ring_cmd_write writes it writes whole or not at all.
Stream == INSTANCE CommandStream WITH Data <- Commands, Capacity <- RingSize, MaxLen <- 1

\* What the host does with a command: look up what it names, then act.
HostDoes(h, cmd) ==
  CASE cmd.op = "record" ->
         [h EXCEPT !.log[cmd.cb] = Append(@, cmd.n),
                   !.lookups_ok = @ /\ cmd.uses \subseteq h.objects]
    [] cmd.op = "submit" -> [h EXCEPT !.ran[cmd.cb] = h.log[cmd.cb]]
    [] cmd.op = "create" ->
         [h EXCEPT !.objects = @ \cup {cmd.obj},
                   !.lookups_ok = @ /\ cmd.uses \subseteq h.objects]
    [] cmd.op = "bind" -> [h EXCEPT !.lookups_ok = @ /\ cmd.uses \subseteq h.objects]
    [] cmd.op = "destroy" ->
         [h EXCEPT !.objects = @ \ {cmd.obj},
                   !.lookups_ok = @ /\ cmd.obj \in h.objects]

\* ... and with several, one after another.
HostRuns(h, cmds) ==
  LET after[i \in 0..Len(cmds)] == IF i = 0 THEN h ELSE HostDoes(after[i - 1], cmds[i])
  IN after[Len(cmds)]

-----------------------------------------------------------------------------
Init ==
  /\ lock = Nobody
  /\ batch_enabled \in BOOLEAN
  /\ batch_recording = FALSE /\ batch_enc = <<>>
  /\ ring_want \in RingWants
  /\ ring_tried = FALSE /\ ring_ready = FALSE /\ ring_recording = FALSE
  /\ pc = [t \in Threads |-> "idle"]
  /\ call = [t \in Threads |-> NoCall]
  /\ enc = [t \in Threads |-> <<>>]
  /\ rec = [c \in CmdBufs |-> "idle"]
  /\ step = [w \in Workers |-> 0]
  /\ issued = [c \in CmdBufs |-> 0]
  /\ rounds = [c \in CmdBufs |-> 0]
  /\ refused = [c \in CmdBufs |-> {}]
  /\ host = [objects |-> {}, log |-> [c \in CmdBufs |-> <<>>],
             ran |-> [c \in CmdBufs |-> <<>>], lookups_ok |-> TRUE]
  /\ Stream!Init

batch_active == batch_enabled /\ batch_recording
ring_active == ring_ready /\ ring_recording

-----------------------------------------------------------------------------
\* Mutated forms of the definitions below, one per property: the bug in the code
\* that the property is there to notice.  Two more stand beside what they mutate.

\* The encoders not under the lock (CreatesKept).
EncodeUnlocked(t, name, cmd, immediate, batch) ==
  /\ lock' = t
  /\ enc' = [enc EXCEPT ![t] = Append(IF immediate THEN <<>> ELSE batch, cmd)]
  /\ call' = [call EXCEPT ![t] = [name |-> name, immediate |-> immediate]]
  /\ pc' = [pc EXCEPT ![t] = "encoded"]

\* The recording closed and the batch forgotten (SubmittedWithoutRing).
EndForgetsBatch(c) ==
  /\ pc[c] = "ending"
  /\ batch_recording' = FALSE /\ ring_recording' = FALSE
  /\ lock' = Nobody
  /\ pc' = [pc EXCEPT ![c] = "idle"]
  /\ rec' = [rec EXCEPT ![c] = "ended"]
  /\ UNCHANGED <<modeVars, batch_enc, ring_tried, ring_ready, call, enc, step, bookVars,
                 host, ringVars>>

\* Layouts encoded like any other call (LookupsWithoutRing).
BypassesNotLayouts(cmd) == cmd.op = "create" /\ cmd.obj[1] \in {"shader", "pipeline"}

-----------------------------------------------------------------------------
(* Encoding: UK_ENC_BEGIN and UK_ENC_BEGIN_IMMEDIATE.                       *)

\* Take the lock and encode cmd behind what _enc holds: nothing, or the batch.
Encode(t, name, cmd, immediate, batch) ==
  /\ lock = Nobody
  /\ lock' = t
  /\ enc' = [enc EXCEPT ![t] = Append(IF immediate THEN <<>> ELSE batch, cmd)]
  /\ call' = [call EXCEPT ![t] = [name |-> name, immediate |-> immediate]]
  /\ pc' = [pc EXCEPT ![t] = "encoded"]

EncBegin(t, name, cmd, immediate) ==
  /\ Encode(t, name, cmd, immediate, IF batch_active THEN batch_enc ELSE <<>>)
  /\ UNCHANGED <<modeVars, windowVars, ring_tried, ring_ready, rec, step,
                 host, ringVars, rounds, refused>>

(* Submission: UK_ENC_SUBMIT and UK_ENC_SUBMIT_IMMEDIATE.                   *)

\* uk_disp_unlock; vkEndCommandBuffer keeps the lock for its flush, vkQueueSubmit
\* flushes the ring after unlocking.
Unlock(t) ==
  \/ /\ call[t].name = "End"
     /\ pc' = [pc EXCEPT ![t] = "ending"]
     /\ UNCHANGED <<lock, rec, step>>
  \/ /\ call[t].name = "QueueSubmit" /\ ring_ready
     /\ lock' = Nobody
     /\ pc' = [pc EXCEPT ![t] = "flushing"]
     /\ UNCHANGED <<rec, step>>
  \/ /\ ~(call[t].name = "End" \/ (call[t].name = "QueueSubmit" /\ ring_ready))
     /\ lock' = Nobody
     /\ pc' = [pc EXCEPT ![t] = "idle"]
     /\ rec' = CASE call[t].name = "Begin" -> [rec EXCEPT ![t] = "open"]
                 [] call[t].name = "QueueSubmit" -> [rec EXCEPT ![t] = "submitted"]
                 [] OTHER -> rec
     /\ step' = IF t \in Workers THEN [step EXCEPT ![t] = @ + 1] ELSE step

\* The call is over, or all but its flush.
Return(t) ==
  /\ Unlock(t)
  /\ enc' = [enc EXCEPT ![t] = <<>>]
  /\ call' = [call EXCEPT ![t] = NoCall]

\* uk_venus_submit of one command.
SubmitAlone(t) ==
  /\ pc[t] = "encoded"
  /\ call[t].immediate \/ (~ring_active /\ ~batch_active)
  /\ host' = HostRuns(host, enc[t])
  /\ Return(t)
  /\ UNCHANGED <<modeVars, windowVars, ring_tried, ring_ready, bookVars, ringVars>>

\* uk_dispatch_batch_accumulate: copy the encoder back, submit a full batch.
Accumulate(t) ==
  IF Len(enc[t]) >= Threshold
    THEN host' = HostRuns(host, enc[t]) /\ batch_enc' = <<>>
    ELSE batch_enc' = enc[t] /\ UNCHANGED host

SubmitBatched(t) ==
  /\ pc[t] = "encoded"
  /\ ~call[t].immediate /\ ~ring_active /\ batch_active
  /\ Accumulate(t)
  /\ Return(t)
  /\ UNCHANGED <<modeVars, batch_recording, ring_recording, ring_tried, ring_ready,
                 bookVars, ringVars>>

\* uk_venus_ring_cmd_write: find space and copy.
RingReserve(t) ==
  /\ pc[t] = "encoded"
  /\ ~call[t].immediate /\ ring_active
  /\ Stream!OfferWords(enc[t])
  /\ pc' = [pc EXCEPT ![t] = "writing"]
  /\ UNCHANGED <<lock, modeVars, windowVars, ring_tried, ring_ready, call, enc,
                 rec, step, bookVars, host>>

RingCopy(t) ==
  /\ pc[t] = "writing"
  /\ Stream!Write
  /\ Return(t)
  /\ UNCHANGED <<modeVars, windowVars, ring_tried, ring_ready, bookVars, host>>

\* A command the ring has no room for submitted alone, past those in the ring
\* (RecordedInOrder).
RefusedSubmitted(t) ==
  /\ pc[t] = "encoded"
  /\ ~call[t].immediate /\ ring_active
  /\ Len(draft) + Len(pending) + Len(running) + Len(enc[t]) > RingSize
  /\ host' = HostRuns(host, enc[t])
  /\ Return(t)
  /\ UNCHANGED <<modeVars, windowVars, ring_tried, ring_ready, bookVars, ringVars>>

\* No space: cmd_write's -ENOSPC is ignored and the command is gone.
RingRefuse(t) ==
  /\ pc[t] = "encoded"
  /\ ~call[t].immediate /\ ring_active
  /\ Len(draft) + Len(pending) + Len(running) + Len(enc[t]) > RingSize
  /\ refused' = IF t \in CmdBufs /\ Last(enc[t]).op = "record"
                  THEN [refused EXCEPT ![t] = @ \cup {Last(enc[t]).n}]
                  ELSE refused
  /\ Return(t)
  /\ UNCHANGED <<modeVars, windowVars, ring_tried, ring_ready,
                 issued, rounds, host, ringVars>>

-----------------------------------------------------------------------------
(* Calls of the thread that records command buffer c.                       *)

\* Command number issued[c] + 1 of c.
Issue(c) == issued' = [issued EXCEPT ![c] = @ + 1]

NextOf(c, uses) == Recorded(c, issued[c] + 1, uses)

MayBegin(c) == rec[c] \in {"idle", "submitted"} /\ rounds[c] < MaxRounds

\* uk_dispatch_ring_lazy_init, outside the lock: once, and never again if it fails.
RingInit(c) ==
  /\ pc[c] = "idle" /\ MayBegin(c)
  /\ ring_want /\ ~ring_tried
  /\ ring_tried' = TRUE
  /\ pc' = [pc EXCEPT ![c] = "ring_init"]
  /\ UNCHANGED <<lock, modeVars, windowVars, ring_ready, call, enc, rec, step,
                 bookVars, host, ringVars>>

RingInitDone(c) ==
  /\ pc[c] = "ring_init"
  /\ \/ Stream!Open /\ ring_ready' = TRUE
     \/ UNCHANGED <<ring_ready, ringVars>>
  /\ pc' = [pc EXCEPT ![c] = "begin"]
  /\ UNCHANGED <<lock, modeVars, windowVars, ring_tried, call, enc, rec, step, bookVars, host>>

\* The batch's window opened beside the ring's, and the batch not emptied
\* (RingUsedAsStream).
BeginBothModes(c) ==
  /\ pc[c] = "begin" \/ (pc[c] = "idle" /\ ~(ring_want /\ ~ring_tried))
  /\ MayBegin(c)
  /\ ring_recording' = ring_ready
  /\ batch_recording' = batch_enabled /\ UNCHANGED batch_enc
  /\ Encode(c, "Begin", NextOf(c, {}), FALSE, IF batch_enabled THEN batch_enc ELSE <<>>)
  /\ Issue(c)
  /\ rounds' = [rounds EXCEPT ![c] = @ + 1]
  /\ UNCHANGED <<modeVars, ring_tried, ring_ready, rec, step, refused, host, ringVars>>

\* vkBeginCommandBuffer: open the ring's window, or start an empty batch; then
\* encode the command, all under one hold of the lock.
Begin(c) ==
  /\ \/ pc[c] = "begin"
     \/ pc[c] = "idle" /\ ~(ring_want /\ ~ring_tried)
  /\ MayBegin(c)
  /\ IF ring_ready
       THEN ring_recording' = TRUE /\ UNCHANGED <<batch_recording, batch_enc>>
       ELSE /\ UNCHANGED ring_recording
            /\ IF batch_enabled THEN batch_recording' = TRUE /\ batch_enc' = <<>>
                                ELSE UNCHANGED <<batch_recording, batch_enc>>
  /\ Encode(c, "Begin", NextOf(c, {}), FALSE,
            IF batch_enabled /\ batch_recording' THEN batch_enc' ELSE <<>>)
  /\ Issue(c)
  /\ rounds' = [rounds EXCEPT ![c] = @ + 1]
  /\ UNCHANGED <<modeVars, ring_tried, ring_ready, rec, step, refused, host, ringVars>>

\* vkCmd*: binding a pipeline that some compiler's create has returned, or not.
Cmd(c) ==
  /\ pc[c] = "idle" /\ rec[c] = "open"
  /\ issued[c] + 1 < rounds[c] * (MaxCmds + 2)
  /\ \E uses \in {{}} \cup {{Of("pipeline", w)} : w \in {v \in Compilers : step[v] >= 3}} :
       EncBegin(c, "Cmd", NextOf(c, uses), FALSE)
  /\ Issue(c)

End(c) ==
  /\ pc[c] = "idle" /\ rec[c] = "open"
  /\ EncBegin(c, "End", NextOf(c, {}), FALSE)
  /\ Issue(c)

\* The flush of vkEndCommandBuffer.  g_batch_enc keeps what it held.
EndFlush(c) ==
  /\ pc[c] = "ending"
  /\ IF ring_active
       THEN /\ Stream!Publish
            /\ ring_recording' = FALSE
            /\ UNCHANGED <<batch_recording, host>>
       ELSE /\ UNCHANGED <<ring_recording, ringVars>>
            /\ IF batch_active
                 THEN host' = HostRuns(host, batch_enc) /\ batch_recording' = FALSE
                 ELSE UNCHANGED <<host, batch_recording>>
  /\ lock' = Nobody
  /\ pc' = [pc EXCEPT ![c] = "idle"]
  /\ rec' = [rec EXCEPT ![c] = "ended"]
  /\ UNCHANGED <<modeVars, batch_enc, ring_tried, ring_ready, call, enc, step, bookVars>>

QueueSubmit(c) ==
  /\ pc[c] = "idle" /\ rec[c] = "ended"
  /\ EncBegin(c, "QueueSubmit", Submit(c), FALSE)
  /\ UNCHANGED issued

\* Its flush of the ring, outside the lock.
SubmitFlush(c) ==
  /\ pc[c] = "flushing"
  /\ Stream!Publish
  /\ pc' = [pc EXCEPT ![c] = "idle"]
  /\ rec' = [rec EXCEPT ![c] = "submitted"]
  /\ UNCHANGED <<lock, modeVars, windowVars, ring_tried, ring_ready, call, enc,
                 step, bookVars, host>>

-----------------------------------------------------------------------------
(* Calls of the other threads.                                              *)

\* A compiler: vkCreateShaderModule, vkCreatePipelineLayout (and
\* vkCreateDescriptorSetLayout, encoded alike), vkCreateComputePipelines,
\* vkDestroyShaderModule.  An allocator: vkCreateBuffer, vkBindBufferMemory.
JobCall(w, k) ==
  IF w \in Compilers
    THEN CASE k = 0 -> Create(Of("shader", w), {})
           [] k = 1 -> Create(Of("layout", w), {})
           [] k = 2 -> Create(Of("pipeline", w), {Of("shader", w), Of("layout", w)})
           [] k = 3 -> Destroy(Of("shader", w))
    ELSE CASE k = 0 -> Create(Of("buffer", w), {})
           [] k = 1 -> Create(Of("memory", w), {})
           [] k = 2 -> Bind({Of("buffer", w), Of("memory", w)})

JobLength(w) == IF w \in Compilers THEN 4 ELSE 3

\* The creates that bypass batch and ring.
Bypasses(cmd) == cmd.op = "create" /\ cmd.obj[1] \in {"shader", "layout", "pipeline"}

Job(w) ==
  /\ pc[w] = "idle" /\ step[w] < JobLength(w)
  /\ JobCall(w, step[w]) # Create(Of("memory", w), {})
  /\ EncBegin(w, "job", JobCall(w, step[w]), Bypasses(JobCall(w, step[w])))
  /\ UNCHANGED issued

\* vkAllocateMemory looks at the batch before it takes any lock.  Host-visible
\* memory outside a batch is submitted without g_disp_lock; the blob made of it
\* is GpuResources' business.
AllocateMemory(w) ==
  /\ w \in Allocators
  /\ pc[w] = "idle" /\ step[w] = 1
  /\ \E next \in IF batch_active THEN {"alloc_enc"} ELSE {"alloc_enc", "alloc_direct"} :
       pc' = [pc EXCEPT ![w] = next]
  /\ UNCHANGED <<lock, modeVars, windowVars, ring_tried, ring_ready, call, enc, rec, step,
                 bookVars, host, ringVars>>

AllocateEncoded(w) ==
  /\ pc[w] = "alloc_enc"
  /\ EncBegin(w, "job", JobCall(w, 1), FALSE)
  /\ UNCHANGED issued

AllocateDirect(w) ==
  /\ pc[w] = "alloc_direct"
  /\ host' = HostDoes(host, JobCall(w, 1))
  /\ pc' = [pc EXCEPT ![w] = "idle"]
  /\ step' = [step EXCEPT ![w] = @ + 1]
  /\ UNCHANGED <<lock, modeVars, windowVars, ring_tried, ring_ready, call, enc, rec,
                 bookVars, ringVars>>

-----------------------------------------------------------------------------
(* The host's ring thread.                                                  *)

guestVars == <<lock, modeVars, windowVars, ring_tried, ring_ready, pc, call, enc,
               rec, step, bookVars>>

RingTake == Stream!Take /\ UNCHANGED <<guestVars, host>>

RingComplete ==
  /\ running # <<>>
  /\ Stream!Complete
  /\ host' = HostRuns(host, running)
  /\ UNCHANGED guestVars

-----------------------------------------------------------------------------
RecorderStep(c) ==
  \/ RingInit(c) \/ RingInitDone(c) \/ Begin(c) \/ Cmd(c) \/ End(c) \/ EndFlush(c)
  \/ QueueSubmit(c) \/ SubmitFlush(c)

WorkerStep(w) == Job(w) \/ AllocateMemory(w) \/ AllocateEncoded(w) \/ AllocateDirect(w)

Submission(t) ==
  SubmitAlone(t) \/ SubmitBatched(t) \/ RingReserve(t) \/ RingCopy(t) \/ RingRefuse(t)

Next ==
  \/ \E c \in CmdBufs : RecorderStep(c)
  \/ \E w \in Workers : WorkerStep(w)
  \/ \E t \in Threads : Submission(t)
  \/ RingTake \/ RingComplete

Spec == Init /\ [][Next]_vars

-----------------------------------------------------------------------------
\* Properties

HostType == [objects : SUBSET Object, log : [CmdBufs -> Seq(1..MaxIssued)],
             ran : [CmdBufs -> Seq(1..MaxIssued)], lookups_ok : BOOLEAN]

\* Types of the dispatch, its calls, the ring and the host, and which modes exclude
\* which.
TypeOK ==
  /\ lock \in Threads \cup {Nobody}
  /\ {batch_enabled, batch_recording, ring_want, ring_tried, ring_ready, ring_recording}
       \subseteq BOOLEAN
  /\ batch_recording => batch_enabled
  /\ ring_recording => ring_ready
  /\ ring_ready <=> open
  /\ batch_enc \in Seq(Commands)
  /\ pc \in [Threads -> {"idle", "ring_init", "begin", "encoded", "writing", "ending",
                         "flushing", "alloc_enc", "alloc_direct"}]
  /\ call \in [Threads -> [name : {"none", "Begin", "Cmd", "End", "QueueSubmit", "job"},
                           immediate : BOOLEAN]]
  /\ enc \in [Threads -> Seq(Commands)]
  /\ rec \in [CmdBufs -> {"idle", "open", "ended", "submitted"}]
  /\ step \in [Workers -> 0..4] /\ \A w \in Workers : step[w] <= JobLength(w)
  /\ issued \in [CmdBufs -> 0..MaxIssued]
  /\ rounds \in [CmdBufs -> 0..MaxRounds]
  /\ refused \in [CmdBufs -> SUBSET (1..MaxIssued)]
  /\ host \in HostType
  /\ {offer, draft, pending, running} \subseteq Seq(Commands)
  /\ Len(draft) + Len(pending) + Len(running) <= RingSize

\* The commands of c that were not refused by the ring.
Accepted(c) == (1..issued[c]) \ refused[c]

\* s has the numbers of S in order, each once, up to its last.
ListsUpTo(s, S) ==
  /\ \A i, j \in DOMAIN s : i < j => s[i] < s[j]
  /\ Range(s) \subseteq S
  /\ \A n \in S : \A x \in Range(s) : n <= x => n \in Range(s)

\* The host records the commands of a command buffer in the order the application
\* issued them, none twice and none left out but those the ring had no room for,
\* whatever the other threads submit between them (UK_ENC_SUBMIT).
RecordedInOrder == \A c \in CmdBufs : ListsUpTo(host.log[c], Accepted(c))

\* When vkQueueSubmit returns, the GPU was given the command buffer as the
\* application recorded it: every command of it, in order, and nothing after it
\* (stub_vkEndCommandBuffer, stub_vkQueueSubmit).
SubmittedAsRecorded ==
  \A c \in CmdBufs : rec[c] = "submitted" /\ pc[c] = "idle" =>
    ListsUpTo(host.ran[c], Accepted(c)) /\ Accepted(c) \subseteq Range(host.ran[c])

\* The same where the ring did not come up.
SubmittedWithoutRing == ~ring_ready => SubmittedAsRecorded

\* Every object a command names exists on the host when the host gets to the
\* command: no create is overtaken by a use of what it makes.  The host tears the
\* Venus context down otherwise (the comments of stub_vkCreatePipelineLayout and
\* stub_vkCreateDescriptorSetLayout).
LookupsSucceed == host.lookups_ok

\* The same where the ring did not come up.
LookupsWithoutRing == ~ring_ready => LookupsSucceed

\* A create whose call has returned has reached the host or waits in the open
\* batch: recording and compiling threads do not lose each other's creates
\* (stub_vkBeginCommandBuffer, stub_vkEndCommandBuffer).  The ring may refuse one.
Waiting(cmds, o) == \E i \in 1..Len(cmds) : cmds[i].op = "create" /\ cmds[i].obj = o
CreatesKept ==
  ~ring_ready => \A w \in Workers : \A k \in 0..(step[w] - 1) :
    JobCall(w, k).op = "create" /\ (w \in Compilers => k > 0) =>
      LET o == JobCall(w, k).obj IN
        o \in host.objects \/ (batch_active /\ Waiting(batch_enc, o))

\* All that the threads do to the ring is what CommandStream allows its one writer:
\* a write is one command, never a batch, none begins before the last one is over, and
\* what is written is published only by a flush (UK_ENC_SUBMIT's cmd_write,
\* stub_vkEndCommandBuffer and stub_vkQueueSubmit's cmd_flush).
RingUsedAsStream == Stream!Spec
=============================================================================
