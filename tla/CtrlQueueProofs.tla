--------------------------- MODULE CtrlQueueProofs ---------------------------
(***************************************************************************)
(* Proofs about CtrlQueue, for any threads, addresses, queue size and      *)
(* number of calls: type correctness, the count of descriptors a timeout   *)
(* leaves behind, what g_ctrlq_lock buys as long as nothing times out, and *)
(* what a call that returned 0 and a fence that counts as done may be      *)
(* relied on for.                                                          *)
(*                                                                         *)
(* The argument for the latter follows the poller.  It holds the lock, so  *)
(* the command it polls for is the last one enqueued; unless that command  *)
(* was enqueued at an address still in flight, no other command in the     *)
(* queue has its request or its response address, and so neither the       *)
(* cookie nor the header it reads can be another command's.                *)
(***************************************************************************)
EXTENDS CtrlQueue, FiniteSetTheorems, TLAPS

-----------------------------------------------------------------------------
(* Type correctness *)

\* Type correctness of the initial state.
LEMMA InitTypeOK == Init => TypeOK
  BY CtrlQueueAssumption DEF Init, TypeOK, Commands, CallType, Kinds, ReturnCodes,
     RespTypes, ZeroHdr, NoCall, Busy, Polling

\* The locals of one call changed in one field: its command, or its result.
LEMMA CallCid ==
  ASSUME NEW f \in [Threads -> CallType], NEW t \in Threads, NEW v \in Nat
  PROVE  [f EXCEPT ![t].cid = v] \in [Threads -> CallType]
<1>1. f[t] \in CallType
  OBVIOUS
<1>2. [f[t] EXCEPT !.cid = v] \in CallType
  BY <1>1 DEF CallType
<1> QED
  BY <1>2

LEMMA CallRc ==
  ASSUME NEW f \in [Threads -> CallType], NEW t \in Threads, NEW v \in ReturnCodes
  PROVE  [f EXCEPT ![t].rc = v] \in [Threads -> CallType]
<1>1. f[t] \in CallType
  OBVIOUS
<1>2. [f[t] EXCEPT !.rc = v] \in CallType
  BY <1>1 DEF CallType
<1> QED
  BY <1>2

\* Every step of a thread or of the device keeps the types.
LEMMA NextTypeOK == TypeOK /\ [Next]_vars => TypeOK'
<1> SUFFICES ASSUME TypeOK, [Next]_vars PROVE TypeOK'
  OBVIOUS
<1> USE CtrlQueueAssumption
<1> DEFINE Desc == [kind : Kinds, req : ReqAddrs, resp : RespAddrs, fence : Nat]
<1>a. /\ next_fence \in Nat \ {0} /\ completed_fence \in Nat
      /\ owner \in Threads \cup {NoThread}
      /\ pc \in [Threads -> {"idle", "hdr_init", "lock", "enqueue", "poll", "unlock"}]
      /\ call \in [Threads -> CallType]
      /\ \A t \in Threads : pc[t] # "idle" =>
            call[t].req \in ReqAddrs /\ call[t].resp \in RespAddrs
      /\ \A t \in Threads : pc[t] = "poll" => call[t].cid \in Commands
      /\ cmds \in Seq(Desc) /\ Len(cmds) \in Nat
      /\ avail \in SUBSET Commands /\ fenceq \in SUBSET Commands
      /\ used \in Seq(Commands)
      /\ hdr \in [RespAddrs -> [type : RespTypes, fence : Nat]]
      /\ executed \in SUBSET Commands /\ retired \in SUBSET Commands
      /\ succeeded \in SUBSET Commands /\ reused \in SUBSET Commands
      /\ timeouts \in Nat /\ calls \in Nat
  BY DEF TypeOK, Busy, Polling
<1>b. \A t \in Threads : /\ call[t].kind \in Kinds /\ call[t].fence \in Nat
                         /\ call[t].cid \in Nat /\ call[t].rc \in ReturnCodes
                         /\ call[t] \in CallType
  BY <1>a DEF CallType
<1>c. \A c \in Commands : /\ cmds[c] \in Desc /\ cmds[c].fence \in Nat
                          /\ cmds[c].resp \in RespAddrs
  <2> TAKE c \in Commands
  <2>1. cmds[c] \in Desc
    <3> HIDE DEF Desc
    <3> QED
      BY <1>a DEF Commands
  <2>2. QED
    BY <2>1
<1> USE DEF TypeOK, Busy, Polling
<1>1. ASSUME NEW t \in Threads, Begin(t) PROVE TypeOK'
  <2>1. call' \in [Threads -> CallType]
    <3>1. PICK k \in Kinds, a \in ReqAddrs, b \in RespAddrs :
             call' = [call EXCEPT ![t] =
                [kind |-> k, req |-> a, resp |-> b,
                 fence |-> IF HasFence(k) THEN next_fence ELSE 0,
                 cid |-> 0, rc |-> "ok"]]
      BY <1>1 DEF Begin
    <3>2. (IF HasFence(k) THEN next_fence ELSE 0) \in Nat
      BY <1>a
    <3>3. QED
      BY <1>a, <3>1, <3>2 DEF CallType, ReturnCodes
  <2>2. \A u \in Threads : pc'[u] # "idle" =>
            call'[u].req \in ReqAddrs /\ call'[u].resp \in RespAddrs
    BY <1>1, <1>a DEF Begin
  <2>3. pc' \in [Threads -> {"idle", "hdr_init", "lock", "enqueue", "poll", "unlock"}]
    BY <1>1, <1>a DEF Begin
  <2>4. \A u \in Threads : pc'[u] = "poll" => call'[u].cid \in Commands
    BY <1>1, <1>a DEF Begin
  <2>5. /\ calls' \in Nat
        /\ UNCHANGED <<fenceVars, owner, queueVars, hostVars, succeeded, reused, timeouts>>
    BY <1>1, <1>a DEF Begin
  <2>6. QED
    BY <1>a, <2>1, <2>2, <2>3, <2>4, <2>5 DEF fenceVars, queueVars, hostVars, Commands
<1>2. ASSUME NEW t \in Threads, HdrInit(t) PROVE TypeOK'
  <2>1. next_fence' \in Nat \ {0}
    BY <1>2, <1>a, <1>b DEF HdrInit
  <2>2. hdr' \in [RespAddrs -> [type : RespTypes, fence : Nat]]
    <3>1. ZeroHdr \in [type : RespTypes, fence : Nat]
      BY DEF ZeroHdr, RespTypes
    <3>2. QED
      BY <1>2, <1>a, <3>1 DEF HdrInit
  <2>3. QED
    BY <1>2, <1>a, <2>1, <2>2 DEF HdrInit, hostVars, historyVars, Commands
<1>3. ASSUME NEW t \in Threads, Lock(t) PROVE TypeOK'
  BY <1>3, <1>a DEF Lock, fenceVars, queueVars, hostVars, historyVars, Commands
<1>4. ASSUME NEW t \in Threads, Enqueue(t) PROVE TypeOK'
  <2> DEFINE c == Len(cmds) + 1
             d == [kind |-> call[t].kind, req |-> call[t].req,
                   resp |-> call[t].resp, fence |-> call[t].fence]
  <2>1. /\ cmds' = Append(cmds, d) /\ avail' = avail \cup {c}
        /\ call' = [call EXCEPT ![t].cid = c]
        /\ reused' \in {reused, reused \cup {c}}
        /\ pc' = [pc EXCEPT ![t] = "poll"]
    BY <1>4 DEF Enqueue
  <2>2. d \in Desc
    BY <1>4, <1>a, <1>b DEF Enqueue
  <2>3. cmds' \in Seq(Desc) /\ Len(cmds') = c /\ c \in Nat
    BY <2>1, <2>2, <1>a
  <2>4. Commands' = Commands \cup {c} /\ c \in Commands'
    BY <2>3, <1>a DEF Commands
  <2> HIDE DEF c, d
  <2>5. call' \in [Threads -> CallType]
    BY <2>1, <2>3, <1>a, CallCid
  <2>6. \A u \in Threads :
          /\ pc'[u] # "idle" => call'[u].req \in ReqAddrs /\ call'[u].resp \in RespAddrs
          /\ pc'[u] = "poll" => call'[u].cid \in Commands'
    <3> TAKE u \in Threads
    <3>1. CASE u = t
      <4>1. call'[t].cid = c /\ call'[t].req = call[t].req /\ call'[t].resp = call[t].resp
        BY <2>1, <1>a, <1>b DEF CallType
      <4>2. call[t].req \in ReqAddrs /\ call[t].resp \in RespAddrs
        BY <1>4, <1>a DEF Enqueue
      <4> QED
        BY <3>1, <4>1, <4>2, <2>4
    <3>2. CASE u # t
      <4>1. call'[u] = call[u] /\ pc'[u] = pc[u]
        BY <3>2, <2>1, <1>a
      <4> QED
        BY <4>1, <2>4, <1>a
    <3> QED
      BY <3>1, <3>2
  <2>7. used' \in Seq(Commands')
    BY <1>4, <1>a, <2>4 DEF Enqueue
  <2>8. QED
    BY <1>4, <1>a, <2>1, <2>3, <2>4, <2>5, <2>6, <2>7
       DEF Enqueue, fenceVars, hostVars
<1>5. ASSUME NEW t \in Threads, EnqueueFails(t) PROVE TypeOK'
  <2>1. call' \in [Threads -> CallType]
    <3>1. call' = [call EXCEPT ![t].rc = "ENOSPC"] /\ "ENOSPC" \in ReturnCodes
      BY <1>5 DEF EnqueueFails, ReturnCodes
    <3> QED
      BY <3>1, <1>a, CallRc
  <2>2. \A u \in Threads : pc'[u] # "idle" =>
          call'[u].req \in ReqAddrs /\ call'[u].resp \in RespAddrs
    <3>1. /\ call'[t].req = call[t].req /\ call'[t].resp = call[t].resp
          /\ pc[t] # "idle"
      BY <1>5, <1>a, <1>b DEF EnqueueFails, CallType
    <3>2. \A u \in Threads \ {t} : call'[u] = call[u] /\ pc'[u] = pc[u]
      BY <1>5, <1>a DEF EnqueueFails
    <3> QED
      BY <3>1, <3>2, <1>a
  <2>3. \A u \in Threads : pc'[u] = "poll" => call'[u].cid \in Commands
    BY <1>5, <1>a DEF EnqueueFails
  <2>4. QED
    BY <1>5, <1>a, <2>1, <2>2, <2>3
       DEF EnqueueFails, fenceVars, queueVars, hostVars, historyVars, Commands
<1>6. ASSUME NEW t \in Threads, Dequeue(t) PROVE TypeOK'
  <2> DEFINE rc == ResultOf(t, Head(used))
  <2>1. rc \in ReturnCodes
    BY DEF ResultOf, ReturnCodes
  <2>2. call' = [call EXCEPT ![t].rc = rc] /\ pc[t] = "poll"
    BY <1>6 DEF Dequeue
  <2>3. call' \in [Threads -> CallType]
    <3> HIDE DEF rc
    <3>1. QED
      BY <2>1, <2>2, <1>a, CallRc
  <2>4. \A u \in Threads : pc'[u] # "idle" =>
          call'[u].req \in ReqAddrs /\ call'[u].resp \in RespAddrs
    <3> HIDE DEF rc
    <3>1. /\ call'[t].req = call[t].req /\ call'[t].resp = call[t].resp
          /\ pc[t] # "idle"
      BY <2>2, <1>a, <1>b DEF CallType
    <3>2. \A u \in Threads \ {t} : call'[u] = call[u] /\ pc'[u] = pc[u]
      BY <1>6, <2>2, <1>a DEF Dequeue
    <3> QED
      BY <3>1, <3>2, <1>a
  <2>5. completed_fence' \in Nat
    BY <1>6, <1>a, <1>b DEF Dequeue, FenceAfter, CallType
  <2>6. used' \in Seq(Commands) /\ succeeded' \in SUBSET Commands
    BY <1>6, <1>a DEF Dequeue
  <2>7. \A u \in Threads : pc'[u] = "poll" => call'[u].cid \in Commands
    BY <1>6, <1>a DEF Dequeue
  <2>8. pc' \in [Threads -> {"idle", "hdr_init", "lock", "enqueue", "poll", "unlock"}]
    BY <1>6, <1>a DEF Dequeue
  <2> HIDE DEF rc
  <2>9. QED
    BY <1>6, <1>a, <2>3, <2>4, <2>5, <2>6, <2>7, <2>8 DEF Dequeue, hostVars, Commands
<1>7. ASSUME NEW t \in Threads, Timeout(t) PROVE TypeOK'
  <2>1. call' \in [Threads -> CallType]
    <3>1. call' = [call EXCEPT ![t].rc = "ETIMEDOUT"] /\ "ETIMEDOUT" \in ReturnCodes
      BY <1>7 DEF Timeout, ReturnCodes
    <3> QED
      BY <3>1, <1>a, CallRc
  <2>2. \A u \in Threads : pc'[u] # "idle" =>
          call'[u].req \in ReqAddrs /\ call'[u].resp \in RespAddrs
    <3>1. /\ call'[t].req = call[t].req /\ call'[t].resp = call[t].resp
          /\ pc[t] # "idle"
      BY <1>7, <1>a, <1>b DEF Timeout, CallType
    <3>2. \A u \in Threads \ {t} : call'[u] = call[u] /\ pc'[u] = pc[u]
      BY <1>7, <1>a DEF Timeout
    <3> QED
      BY <3>1, <3>2, <1>a
  <2>3. \A u \in Threads : pc'[u] = "poll" => call'[u].cid \in Commands
    BY <1>7, <1>a DEF Timeout
  <2>4. pc' \in [Threads -> {"idle", "hdr_init", "lock", "enqueue", "poll", "unlock"}]
    BY <1>7, <1>a DEF Timeout
  <2>5. timeouts' \in Nat
    BY <1>7, <1>a DEF Timeout
  <2>6. QED
    BY <1>7, <1>a, <2>1, <2>2, <2>3, <2>4, <2>5 DEF Timeout, fenceVars, queueVars, hostVars, Commands
<1>8. ASSUME NEW t \in Threads, Unlock(t) PROVE TypeOK'
  <2>1. NoCall \in CallType
    BY DEF NoCall, CallType, Kinds, ReturnCodes
  <2>2. QED
    BY <1>8, <1>a, <2>1 DEF Unlock, fenceVars, queueVars, hostVars, historyVars, Commands
<1>9. ASSUME NEW c \in Commands, NEW type \in RespTypes, Respond(c, type)
      PROVE  /\ hdr' \in [RespAddrs -> [type : RespTypes, fence : Nat]]
             /\ used' \in Seq(Commands)
             /\ retired' \in SUBSET Commands
  <2> DEFINE h == [type |-> type,
                   fence |-> IF type = "zero" THEN 0 ELSE cmds[c].fence]
  <2>1. h \in [type : RespTypes, fence : Nat]
    BY <1>c
  <2>2. hdr' = [hdr EXCEPT ![cmds[c].resp] = h] /\ used' = Append(used, c)
    BY <1>9 DEF Respond
  <2> HIDE DEF h
  <2>3. hdr' \in [RespAddrs -> [type : RespTypes, fence : Nat]]
    BY <1>a, <2>1, <2>2
  <2>4. used' \in Seq(Commands)
    BY <1>9, <1>a, <2>2
  <2>5. retired' \in SUBSET Commands
    BY <1>9, <1>a DEF Respond
  <2>6. QED
    BY <2>3, <2>4, <2>5
<1>10. ASSUME DeviceRun PROVE TypeOK'
  <2>1. PICK c \in avail :
          /\ avail' = avail \ {c}
          /\ \E type \in RespTypes :
               /\ executed' \in {executed, executed \cup {c}}
               /\ \/ fenceq' = fenceq \cup {c} /\ UNCHANGED <<hdr, used, retired>>
                  \/ Respond(c, type) /\ UNCHANGED fenceq
          /\ UNCHANGED <<fenceVars, owner, pc, call, cmds, historyVars>>
    BY <1>10 DEF DeviceRun
  <2>2. c \in Commands
    BY <2>1, <1>a
  <2>3. /\ hdr' \in [RespAddrs -> [type : RespTypes, fence : Nat]]
        /\ used' \in Seq(Commands) /\ retired' \in SUBSET Commands
        /\ fenceq' \in SUBSET Commands /\ executed' \in SUBSET Commands
    BY <2>1, <2>2, <1>9, <1>a
  <2>4. QED
    BY <2>1, <2>3, <1>a DEF fenceVars, historyVars, Commands
<1>11. ASSUME DeviceRetire PROVE TypeOK'
  <2>1. PICK c \in fenceq :
          /\ fenceq' = fenceq \ {c} /\ Respond(c, "ok")
          /\ UNCHANGED <<fenceVars, owner, pc, call, cmds, avail, executed, historyVars>>
    BY <1>11 DEF DeviceRetire
  <2>2. c \in Commands /\ "ok" \in RespTypes
    BY <2>1, <1>a DEF RespTypes
  <2>3. QED
    BY <2>1, <2>2, <1>9, <1>a DEF fenceVars, historyVars, Commands
<1>12. CASE UNCHANGED vars
  BY <1>12, <1>a DEF vars, fenceVars, queueVars, hostVars, historyVars, Commands
<1>13. QED
  BY <1>1, <1>2, <1>3, <1>4, <1>5, <1>6, <1>7, <1>8, <1>10, <1>11, <1>12
     DEF Next, ThreadStep

\* The driver's counters, locals, queue and histories keep their types.
THEOREM TypeCorrect == Spec => []TypeOK
  BY InitTypeOK, NextTypeOK, PTL DEF Spec

-----------------------------------------------------------------------------
(* What the lock and the queue keep between them *)

\* A thread is between lock and unlock exactly when it is the owner.
LockInv == \A t \in Threads : pc[t] \in {"enqueue", "poll", "unlock"} <=> owner = t

\* The sets of commands at the device are finite and disjoint.
DeviceSets == IsFiniteSet(avail) /\ IsFiniteSet(fenceq) /\ avail \cap fenceq = {}

\* The command a thread polls for carries the address of its request, and until
\* a command has timed out nothing but that command is in the queue.
PolledCommand ==
  /\ \A t \in Polling : cmds[call[t].cid].req = call[t].req
  /\ timeouts = 0 => \A c \in Outstanding : \E t \in Polling : call[t].cid = c

\* The inductive invariant.
IInv == /\ TypeOK
        /\ LockInv
        /\ DeviceSets
        /\ PolledCommand
        /\ BacklogIsTimeouts
        /\ MismatchOnlyAfterTimeout
        /\ NoSpaceOnlyAfterTimeouts

\* Under the lock at most one thread polls.
LEMMA PollingCard ==
  ASSUME LockInv
  PROVE  \/ Polling = {} /\ Cardinality(Polling) = 0
         \/ \E t \in Threads : Polling = {t} /\ Cardinality(Polling) = 1
<1>1. CASE Polling = {}
  BY <1>1, FS_EmptySet
<1>2. CASE Polling # {}
  <2>1. PICK t \in Threads : t \in Polling
    BY <1>2 DEF Polling
  <2>2. Polling = {t}
    BY <2>1 DEF LockInv, Polling
  <2>3. QED
    BY <2>2, FS_Singleton
<1>3. QED
  BY <1>1, <1>2

\* The number of pollers before and after a step is known from the owner alone.
LEMMA PollingOf ==
  ASSUME LockInv, NEW t \in Threads, owner = t
  PROVE  /\ pc[t] = "poll" => Polling = {t} /\ Cardinality(Polling) = 1
         /\ pc[t] # "poll" => Polling = {} /\ Cardinality(Polling) = 0
<1>1. pc[t] = "poll" => Polling = {t}
  BY DEF LockInv, Polling
<1>2. pc[t] # "poll" => Polling = {}
  BY DEF LockInv, Polling
<1>3. QED
  BY <1>1, <1>2, FS_Singleton, FS_EmptySet

\* The parts of the backlog are natural numbers.
LEMMA BacklogParts ==
  ASSUME TypeOK, DeviceSets
  PROVE  /\ Cardinality(avail) \in Nat /\ Cardinality(fenceq) \in Nat
         /\ Len(used) \in Nat /\ timeouts \in Nat
         /\ Backlog = 0 => Outstanding = {}
<1>1. Len(used) \in Nat /\ timeouts \in Nat
  BY DEF TypeOK
<1>2. Cardinality(avail) \in Nat /\ Cardinality(fenceq) \in Nat
  BY FS_CardinalityType DEF DeviceSets
<1>3. ASSUME Backlog = 0 PROVE Outstanding = {}
  <2>1. Cardinality(avail) = 0 /\ Cardinality(fenceq) = 0 /\ Len(used) = 0
    BY <1>1, <1>2, <1>3 DEF Backlog
  <2>2. avail = {} /\ fenceq = {}
    BY <2>1, FS_EmptySet DEF DeviceSets
  <2>3. QED
    BY <2>1, <2>2 DEF Outstanding
<1>4. QED
  BY <1>1, <1>2, <1>3

\* The initial state satisfies the inductive invariant.
LEMMA InitIInv == Init => IInv
<1> SUFFICES ASSUME Init PROVE IInv
  OBVIOUS
<1>1. Polling = {}
  BY DEF Init, Polling
<1>2. Backlog = 0 /\ Outstanding = {} /\ Cardinality(Polling) = 0
  BY <1>1, FS_EmptySet DEF Init, Backlog, Outstanding
<1>3. LockInv /\ DeviceSets
  BY CtrlQueueAssumption, FS_EmptySet DEF Init, LockInv, DeviceSets
<1>4. PolledCommand /\ BacklogIsTimeouts
  BY <1>1, <1>2 DEF Init, PolledCommand, BacklogIsTimeouts
<1>5. MismatchOnlyAfterTimeout /\ NoSpaceOnlyAfterTimeouts
  BY DEF Init, MismatchOnlyAfterTimeout, NoSpaceOnlyAfterTimeouts
<1>6. QED
  BY InitTypeOK, <1>3, <1>4, <1>5 DEF IInv

\* A step that changes neither the queue nor who polls, nor ends a call, keeps
\* what is said about them.
LEMMA QuietStep ==
  ASSUME IInv, TypeOK', LockInv', Polling' = Polling,
         UNCHANGED <<cmds, avail, fenceq, used, timeouts>>,
         \A u \in Polling : call'[u] = call[u],
         \A u \in Threads : pc'[u] = "unlock" => pc[u] = "unlock" /\ call'[u] = call[u]
  PROVE  IInv'
<1> USE DEF IInv
<1>1. Backlog' = Backlog /\ Outstanding' = Outstanding
  BY DEF Backlog, Outstanding
<1>2. DeviceSets'
  BY DEF DeviceSets
<1>3. PolledCommand'
  BY <1>1 DEF PolledCommand
<1>4. BacklogIsTimeouts'
  BY <1>1 DEF BacklogIsTimeouts
<1>5. MismatchOnlyAfterTimeout' /\ NoSpaceOnlyAfterTimeouts'
  BY DEF MismatchOnlyAfterTimeout, NoSpaceOnlyAfterTimeouts
<1>6. QED
  BY <1>2, <1>3, <1>4, <1>5

\* A step of the device moves one descriptor and keeps their number.
LEMMA DeviceStep ==
  ASSUME IInv, TypeOK', DeviceSets', Backlog' = Backlog,
         Outstanding' \in SUBSET Outstanding,
         UNCHANGED <<owner, pc, call, cmds, timeouts>>
  PROVE  IInv'
<1> USE DEF IInv
<1>1. LockInv' /\ Polling' = Polling
  BY DEF LockInv, Polling
<1>2. PolledCommand'
  BY <1>1 DEF PolledCommand
<1>3. BacklogIsTimeouts' /\ MismatchOnlyAfterTimeout' /\ NoSpaceOnlyAfterTimeouts'
  BY <1>1 DEF BacklogIsTimeouts, MismatchOnlyAfterTimeout, NoSpaceOnlyAfterTimeouts
<1>4. QED
  BY <1>1, <1>2, <1>3

\* Every step keeps the inductive invariant.
LEMMA NextIInv == IInv /\ [Next]_vars => IInv'
<1> SUFFICES ASSUME IInv, [Next]_vars PROVE IInv'
  OBVIOUS
<1>a. TypeOK'
  BY NextTypeOK DEF IInv
<1>b. /\ TypeOK /\ LockInv /\ DeviceSets /\ PolledCommand /\ BacklogIsTimeouts
      /\ MismatchOnlyAfterTimeout /\ NoSpaceOnlyAfterTimeouts
  BY DEF IInv
<1>c. /\ Cardinality(avail) \in Nat /\ Cardinality(fenceq) \in Nat
      /\ Len(used) \in Nat /\ timeouts \in Nat
      /\ pc \in [Threads -> {"idle", "hdr_init", "lock", "enqueue", "poll", "unlock"}]
      /\ call \in [Threads -> CallType]
  BY <1>b, BacklogParts DEF TypeOK
<1>1. ASSUME NEW t \in Threads, Begin(t) \/ HdrInit(t) PROVE IInv'
  <2>1. pc' \in {[pc EXCEPT ![t] = "hdr_init"], [pc EXCEPT ![t] = "lock"]}
        /\ pc[t] \in {"idle", "hdr_init"} /\ UNCHANGED owner
    BY <1>1 DEF Begin, HdrInit
  <2>2. LockInv' /\ Polling' = Polling
    BY <2>1, <1>b, <1>c DEF LockInv, Polling
  <2>3. \A u \in Threads \ {t} : call'[u] = call[u]
    BY <1>1, <1>c DEF Begin, HdrInit
  <2>4. t \notin Polling
    BY <2>1 DEF Polling
  <2>5. \A u \in Threads : pc'[u] = "unlock" => pc[u] = "unlock" /\ call'[u] = call[u]
    BY <2>1, <2>3, <1>c
  <2>6. UNCHANGED <<cmds, avail, fenceq, used, timeouts>>
    BY <1>1 DEF Begin, HdrInit, queueVars, historyVars
  <2>7. \A u \in Polling : call'[u] = call[u]
    BY <2>3, <2>4 DEF Polling
  <2>8. QED
    BY <1>a, <2>2, <2>5, <2>6, <2>7, QuietStep
<1>2. ASSUME NEW t \in Threads, Lock(t) PROVE IInv'
  <2>1. LockInv' /\ Polling' = Polling
    BY <1>2, <1>b, <1>c, CtrlQueueAssumption DEF Lock, LockInv, Polling
  <2>2. /\ \A u \in Threads : pc'[u] = "unlock" => pc[u] = "unlock" /\ call'[u] = call[u]
        /\ \A u \in Polling : call'[u] = call[u]
    BY <1>2, <1>c DEF Lock
  <2>3. UNCHANGED <<cmds, avail, fenceq, used, timeouts>>
    BY <1>2 DEF Lock, queueVars, historyVars
  <2>4. QED
    BY <1>a, <2>1, <2>2, <2>3, QuietStep
<1>3. ASSUME NEW t \in Threads, Unlock(t) PROVE IInv'
  <2>1. owner = t
    BY <1>3, <1>b DEF Unlock, LockInv
  <2>2. LockInv' /\ Polling' = Polling
    BY <1>3, <2>1, <1>b, <1>c, CtrlQueueAssumption DEF Unlock, LockInv, Polling
  <2>3. /\ \A u \in Threads : pc'[u] = "unlock" => pc[u] = "unlock" /\ call'[u] = call[u]
        /\ \A u \in Polling : call'[u] = call[u]
    BY <1>3, <1>c DEF Unlock, Polling
  <2>4. UNCHANGED <<cmds, avail, fenceq, used, timeouts>>
    BY <1>3 DEF Unlock, queueVars, historyVars
  <2>5. QED
    BY <1>a, <2>2, <2>3, <2>4, QuietStep
<1>4. ASSUME NEW t \in Threads, Enqueue(t) PROVE IInv'
  <2> DEFINE c == Len(cmds) + 1
  <2>1. /\ pc[t] = "enqueue" /\ pc' = [pc EXCEPT ![t] = "poll"]
        /\ call' = [call EXCEPT ![t].cid = c]
        /\ avail' = avail \cup {c} /\ UNCHANGED <<owner, fenceq, used, timeouts>>
        /\ cmds' = Append(cmds, [kind |-> call[t].kind, req |-> call[t].req,
                                 resp |-> call[t].resp, fence |-> call[t].fence])
    BY <1>4 DEF Enqueue
  <2>2. owner = t
    BY <2>1, <1>b DEF LockInv
  <2>3. LockInv' /\ owner' = t /\ pc'[t] = "poll"
    BY <2>1, <2>2, <1>b, <1>c DEF LockInv
  <2>4. /\ Polling = {} /\ Cardinality(Polling) = 0
        /\ Polling' = {t} /\ Cardinality(Polling') = 1
    <3>1. Polling = {} /\ Cardinality(Polling) = 0
      BY <2>1, <2>2, <1>b, PollingOf
    <3>2. Polling' = {t}
      BY <2>3 DEF LockInv, Polling
    <3>3. QED
      BY <3>1, <3>2, FS_Singleton
  <2>5. c \notin avail /\ c \notin fenceq /\ Len(cmds) \in Nat
    BY <1>b DEF TypeOK, Commands
  <2>6. DeviceSets' /\ Cardinality(avail') = Cardinality(avail) + 1
    BY <2>1, <2>5, <1>b, FS_AddElement DEF DeviceSets
  <2>7. Backlog' = Backlog + 1
    BY <2>1, <2>6, <1>c DEF Backlog
  <2>8. BacklogIsTimeouts'
    BY <2>1, <2>4, <2>7, <1>b, <1>c DEF BacklogIsTimeouts
  <2>9. PolledCommand'
    <3>1. cmds'[c].req = call[t].req /\ call'[t].cid = c /\ call'[t].req = call[t].req
      BY <2>1, <2>5, <1>c, <1>b DEF CallType, TypeOK
    <3>2. ASSUME timeouts = 0 PROVE Outstanding' = {c}
      <4>1. Outstanding = {}
        BY <3>2, <2>4, <1>b, <1>c, BacklogParts DEF BacklogIsTimeouts
      <4>2. QED
        BY <4>1, <2>1 DEF Outstanding
    <3>3. QED
      BY <3>1, <3>2, <2>1, <2>4 DEF PolledCommand
  <2>10. \A u \in Threads : pc'[u] = "unlock" => pc[u] = "unlock" /\ call'[u] = call[u]
    BY <2>1, <1>c
  <2>11. MismatchOnlyAfterTimeout' /\ NoSpaceOnlyAfterTimeouts'
    BY <2>1, <2>10, <1>b DEF MismatchOnlyAfterTimeout, NoSpaceOnlyAfterTimeouts
  <2>12. QED
    BY <1>a, <2>3, <2>6, <2>8, <2>9, <2>11 DEF IInv
<1>5. ASSUME NEW t \in Threads, EnqueueFails(t) PROVE IInv'
  <2>1. /\ pc[t] = "enqueue" /\ pc' = [pc EXCEPT ![t] = "unlock"]
        /\ call' = [call EXCEPT ![t].rc = "ENOSPC"] /\ Backlog >= QueueSize
        /\ UNCHANGED <<owner, cmds, avail, fenceq, used, timeouts>>
    BY <1>5 DEF EnqueueFails, queueVars, historyVars
  <2>2. owner = t
    BY <2>1, <1>b DEF LockInv
  <2>3. LockInv'
    BY <2>1, <2>2, <1>b, <1>c DEF LockInv
  <2>4. Polling = {} /\ Cardinality(Polling) = 0 /\ Polling' = {}
    BY <2>1, <2>2, <1>b, <1>c, PollingOf DEF Polling
  <2>5. Backlog' = Backlog /\ Outstanding' = Outstanding
    BY <2>1 DEF Backlog, Outstanding
  <2>6. timeouts' >= QueueSize
    BY <2>1, <2>4, <1>b, <1>c DEF BacklogIsTimeouts
  <2>7. /\ call'[t].rc = "ENOSPC"
        /\ \A u \in Threads \ {t} : pc'[u] = pc[u] /\ call'[u] = call[u]
    BY <2>1, <1>c DEF CallType
  <2>8. MismatchOnlyAfterTimeout' /\ NoSpaceOnlyAfterTimeouts'
    BY <2>1, <2>6, <2>7, <1>b DEF MismatchOnlyAfterTimeout, NoSpaceOnlyAfterTimeouts
  <2>9. PolledCommand' /\ BacklogIsTimeouts' /\ DeviceSets'
    BY <2>1, <2>4, <2>5, <1>b DEF PolledCommand, BacklogIsTimeouts, DeviceSets
  <2>10. QED
    BY <1>a, <2>3, <2>8, <2>9 DEF IInv
<1>6. ASSUME NEW t \in Threads, Dequeue(t) PROVE IInv'
  <2> DEFINE rc == ResultOf(t, Head(used))
  <2>1. /\ pc[t] = "poll" /\ pc' = [pc EXCEPT ![t] = "unlock"]
        /\ call' = [call EXCEPT ![t].rc = rc] /\ used # <<>> /\ used' = Tail(used)
        /\ UNCHANGED <<owner, cmds, avail, fenceq, timeouts>>
    BY <1>6 DEF Dequeue
  <2>2. owner = t
    BY <2>1, <1>b DEF LockInv
  <2>3. LockInv'
    BY <2>1, <2>2, <1>b, <1>c DEF LockInv
  <2>4. /\ Polling = {t} /\ Cardinality(Polling) = 1
        /\ Polling' = {} /\ Cardinality(Polling') = 0
    <3>1. Polling = {t} /\ Cardinality(Polling) = 1
      BY <2>1, <2>2, <1>b, PollingOf
    <3>2. Polling' = {}
      BY <2>1, <3>1, <1>c DEF Polling
    <3>3. QED
      BY <3>1, <3>2, FS_EmptySet
  <2>5. Len(used') = Len(used) - 1 /\ Len(used) >= 1 /\ Head(used) \in Outstanding
    BY <2>1, <1>b DEF TypeOK, Outstanding
  <2>6. Backlog' = Backlog - 1
    BY <2>1, <2>5, <1>c DEF Backlog
  <2>7. BacklogIsTimeouts'
    BY <2>1, <2>4, <2>6, <1>b, <1>c DEF BacklogIsTimeouts
  <2>8. DeviceSets'
    BY <2>1, <1>b DEF DeviceSets
  <2>9. PolledCommand'
    <3>1. ASSUME timeouts = 0 PROVE Outstanding' = {}
      <4>1. Cardinality(avail) + Cardinality(fenceq) + Len(used) = 1
        BY <3>1, <2>4, <1>b DEF BacklogIsTimeouts, Backlog
      <4>2. Cardinality(avail) = 0 /\ Cardinality(fenceq) = 0 /\ Len(used') = 0
        BY <4>1, <2>5, <1>c
      <4>3. avail' = {} /\ fenceq' = {}
        BY <4>2, <2>1, <1>b, FS_EmptySet DEF DeviceSets
      <4>4. QED
        BY <4>2, <4>3 DEF Outstanding
    <3>2. QED
      BY <3>1, <2>1, <2>4 DEF PolledCommand
  <2>10. timeouts = 0 => rc # "EIO_cookie"
    BY <2>4, <2>5, <1>b DEF PolledCommand, ResultOf
  <2>11. rc # "ENOSPC"
    BY DEF ResultOf
  <2> HIDE DEF rc
  <2>12. /\ call'[t].rc = rc
         /\ \A u \in Threads \ {t} : pc'[u] = pc[u] /\ call'[u] = call[u]
    BY <2>1, <1>c DEF CallType
  <2>13. MismatchOnlyAfterTimeout' /\ NoSpaceOnlyAfterTimeouts'
    BY <2>1, <2>10, <2>11, <2>12, <1>b, <1>c
       DEF MismatchOnlyAfterTimeout, NoSpaceOnlyAfterTimeouts
  <2>14. QED
    BY <1>a, <2>3, <2>7, <2>8, <2>9, <2>13 DEF IInv
<1>7. ASSUME NEW t \in Threads, Timeout(t) PROVE IInv'
  <2>1. /\ pc[t] = "poll" /\ pc' = [pc EXCEPT ![t] = "unlock"]
        /\ call' = [call EXCEPT ![t].rc = "ETIMEDOUT"] /\ timeouts' = timeouts + 1
        /\ UNCHANGED <<owner, cmds, avail, fenceq, used>>
    BY <1>7 DEF Timeout, queueVars
  <2>2. owner = t
    BY <2>1, <1>b DEF LockInv
  <2>3. LockInv'
    BY <2>1, <2>2, <1>b, <1>c DEF LockInv
  <2>4. /\ Polling = {t} /\ Cardinality(Polling) = 1
        /\ Polling' = {} /\ Cardinality(Polling') = 0
    <3>1. Polling = {t} /\ Cardinality(Polling) = 1
      BY <2>1, <2>2, <1>b, PollingOf
    <3>2. Polling' = {}
      BY <2>1, <3>1, <1>c DEF Polling
    <3>3. QED
      BY <3>1, <3>2, FS_EmptySet
  <2>5. Backlog' = Backlog
    BY <2>1 DEF Backlog
  <2>6. BacklogIsTimeouts' /\ timeouts' # 0
    BY <2>1, <2>4, <2>5, <1>b, <1>c DEF BacklogIsTimeouts
  <2>7. /\ call'[t].rc = "ETIMEDOUT"
        /\ \A u \in Threads \ {t} : pc'[u] = pc[u] /\ call'[u] = call[u]
    BY <2>1, <1>c DEF CallType
  <2>8. MismatchOnlyAfterTimeout' /\ NoSpaceOnlyAfterTimeouts'
    BY <2>1, <2>7, <1>b, <1>c, CtrlQueueAssumption
       DEF MismatchOnlyAfterTimeout, NoSpaceOnlyAfterTimeouts
  <2>9. PolledCommand' /\ DeviceSets'
    BY <2>1, <2>4, <2>6, <1>b DEF PolledCommand, DeviceSets
  <2>10. QED
    BY <1>a, <2>3, <2>6, <2>8, <2>9 DEF IInv
<1>8. ASSUME NEW c, NEW type, Respond(c, type)
      PROVE  /\ Len(used') = Len(used) + 1
             /\ {used'[i] : i \in 1..Len(used')} =
                  {used[i] : i \in 1..Len(used)} \cup {c}
  <2>1. used' = Append(used, c) /\ used \in Seq(Commands)
    BY <1>8, <1>b DEF Respond, TypeOK
  <2>2. Len(used') = Len(used) + 1 /\ used'[Len(used) + 1] = c
        /\ \A i \in 1..Len(used) : used'[i] = used[i]
    BY <2>1
  <2>3. 1..Len(used') = 1..Len(used) \cup {Len(used) + 1}
    BY <2>2, <1>c
  <2>4. QED
    BY <2>2, <2>3
<1>9. ASSUME DeviceRun PROVE IInv'
  <2>1. PICK c \in avail, type \in RespTypes :
          /\ avail' = avail \ {c}
          /\ \/ fenceq' = fenceq \cup {c} /\ UNCHANGED used
             \/ Respond(c, type) /\ UNCHANGED fenceq
          /\ UNCHANGED <<owner, pc, call, cmds, timeouts>>
    BY <1>9 DEF DeviceRun, historyVars
  <2>2. /\ IsFiniteSet(avail') /\ Cardinality(avail') = Cardinality(avail) - 1
        /\ IsFiniteSet(fenceq) /\ c \notin fenceq
    BY <2>1, <1>b, FS_RemoveElement DEF DeviceSets
  <2>3. CASE fenceq' = fenceq \cup {c} /\ UNCHANGED used
    <3>1. IsFiniteSet(fenceq') /\ Cardinality(fenceq') = Cardinality(fenceq) + 1
      BY <2>2, <2>3, FS_AddElement
    <3>2. DeviceSets' /\ Backlog' = Backlog
      BY <2>1, <2>2, <2>3, <3>1, <1>b, <1>c DEF DeviceSets, Backlog
    <3>3. Outstanding' \in SUBSET Outstanding
      BY <2>1, <2>3 DEF Outstanding
    <3>4. QED
      BY <1>a, <2>1, <3>2, <3>3, DeviceStep
  <2>4. CASE Respond(c, type) /\ UNCHANGED fenceq
    <3>1. Len(used') = Len(used) + 1
      BY <2>4, <1>8
    <3>2. Backlog' = Backlog
      BY <2>2, <2>4, <3>1, <1>c DEF Backlog
    <3>3. DeviceSets'
      BY <2>1, <2>2, <2>4, <1>b DEF DeviceSets
    <3>4. Outstanding' \in SUBSET Outstanding
      <4>1. {used'[i] : i \in 1..Len(used')} = {used[i] : i \in 1..Len(used)} \cup {c}
        BY <2>4, <1>8
      <4>2. avail' \in SUBSET avail /\ c \in avail /\ fenceq' = fenceq
        BY <2>1, <2>4
      <4>3. QED
        BY <4>1, <4>2, Zenon DEF Outstanding
    <3>5. QED
      BY <1>a, <2>1, <3>2, <3>3, <3>4, DeviceStep
  <2>5. QED
    BY <2>1, <2>3, <2>4
<1>10. ASSUME DeviceRetire PROVE IInv'
  <2>1. PICK c \in fenceq : /\ fenceq' = fenceq \ {c} /\ Respond(c, "ok")
                            /\ UNCHANGED <<owner, pc, call, cmds, avail, timeouts>>
    BY <1>10 DEF DeviceRetire, historyVars
  <2>2. IsFiniteSet(fenceq') /\ Cardinality(fenceq') = Cardinality(fenceq) - 1
    BY <2>1, <1>b, FS_RemoveElement DEF DeviceSets
  <2>3. DeviceSets' /\ Backlog' = Backlog
    BY <2>1, <2>2, <1>8, <1>b, <1>c DEF DeviceSets, Backlog
  <2>4. {used'[i] : i \in 1..Len(used')} = {used[i] : i \in 1..Len(used)} \cup {c}
    BY <2>1, <1>8
  <2>5. Outstanding' \in SUBSET Outstanding
    <3>1. avail' = avail /\ fenceq' \in SUBSET fenceq /\ c \in fenceq
      BY <2>1
    <3>2. QED
      BY <2>4, <3>1, Zenon DEF Outstanding
  <2>6. QED
    BY <1>a, <2>1, <2>3, <2>5, DeviceStep
<1>11. CASE UNCHANGED vars
  <2>1. UNCHANGED <<owner, pc, call, cmds, avail, fenceq, used, timeouts>>
    BY <1>11 DEF vars, queueVars, historyVars
  <2>2. LockInv' /\ Polling' = Polling
    BY <2>1, <1>b DEF LockInv, Polling
  <2>3. QED
    BY <1>a, <2>1, <2>2, QuietStep
<1>12. QED
  BY <1>1, <1>2, <1>3, <1>4, <1>5, <1>6, <1>7, <1>9, <1>10, <1>11 DEF Next, ThreadStep

-----------------------------------------------------------------------------

\* Without a timeout the completion a thread dequeues is its own: with the
\* lock, concurrent callers never take each other's completions.
THEOREM NoMismatchBeforeTimeout == Spec => []MismatchOnlyAfterTimeout
<1>1. IInv => MismatchOnlyAfterTimeout
  BY DEF IInv
<1>2. QED
  BY <1>1, InitIInv, NextIInv, PTL DEF Spec

\* The queue holds one descriptor per timeout besides the one polled for,
\* for ever: a timed-out command is never recovered.
THEOREM TimeoutsLeakDescriptors == Spec => []BacklogIsTimeouts
<1>1. IInv => BacklogIsTimeouts
  BY DEF IInv
<1>2. QED
  BY <1>1, InitIInv, NextIInv, PTL DEF Spec

\* Enqueueing fails only after as many timeouts as the queue has room for.
THEOREM SpaceUntilTimeouts == Spec => []NoSpaceOnlyAfterTimeouts
<1>1. IInv => NoSpaceOnlyAfterTimeouts
  BY DEF IInv
<1>2. QED
  BY <1>1, InitIInv, NextIInv, PTL DEF Spec

-----------------------------------------------------------------------------
(* What a call that returned 0 and a fence that counts as done may be relied   *)
(* on for.                                                                     *)

\* The completions in the used ring, and the command the next Enqueue makes.
UsedSet == {used[i] : i \in 1..Len(used)}
NewCmd == Len(cmds) + 1

\* Two calls under way have different buffers.
CallsApart ==
  \A t, u \in Threads : t # u /\ pc[t] # "idle" /\ pc[u] # "idle"
    => call[t].req # call[u].req /\ call[t].resp # call[u].resp

\* Exactly the kinds that pass a fence carry one, and never the fence 0.
FenceOfKind ==
  /\ \A t \in Threads : HasFence(call[t].kind) <=> call[t].fence # 0
  /\ \A c \in Commands : HasFence(cmds[c].kind) <=> cmds[c].fence # 0

\* The poller's command is the last one enqueued, and is what the call passed.
PolledIsLast ==
  \A t \in Threads : pc[t] = "poll" =>
    /\ call[t].cid = Len(cmds)
    /\ cmds[call[t].cid] = [kind |-> call[t].kind, req |-> call[t].req,
                            resp |-> call[t].resp, fence |-> call[t].fence]

\* A poller whose addresses were free shares them with nothing in the queue.
PolledAlone ==
  \A t \in Threads : pc[t] = "poll" /\ call[t].cid \notin reused =>
    \A d \in Outstanding : d # call[t].cid =>
      cmds[d].req # call[t].req /\ cmds[d].resp # call[t].resp

\* The header such a poller finds beside its own completion is its own.
PolledHeader ==
  \A t \in Threads :
    pc[t] = "poll" /\ call[t].cid \notin reused /\ call[t].cid \in UsedSet =>
      /\ hdr[call[t].resp].type # "error" => call[t].cid \in executed
      /\ hdr[call[t].resp].type = "ok" => hdr[call[t].resp].fence = call[t].fence

\* A fence id in a response buffer is one the device has answered.
HeaderIsReal ==
  \A a \in RespAddrs : hdr[a].fence # 0 =>
    \E c \in retired : cmds[c].fence = hdr[a].fence

\* completed_fence came from a fenced command.
CompletedIsFenced ==
  completed_fence # 0 =>
    \E c \in Commands : cmds[c].kind = "fenced" /\ cmds[c].fence = completed_fence

CallsInv   == CallsApart /\ FenceOfKind /\ PolledIsLast
HeaderInv  == fenceq \subseteq executed /\ PolledAlone /\ PolledHeader /\ HeaderIsReal
OutcomeInv == /\ CompletedIsFenced /\ SuccessIsReal /\ CompletedFenceIsReal
              /\ SubmittedFenceDoneInOrder

\* The inductive invariant: that of CtrlQueueProofs, strengthened.
FInv == IInv /\ CallsInv /\ HeaderInv /\ OutcomeInv

-----------------------------------------------------------------------------

\* Types in the form the steps below use.
LEMMA Typed ==
  ASSUME TypeOK
  PROVE  /\ pc \in [Threads -> {"idle", "hdr_init", "lock", "enqueue", "poll", "unlock"}]
         /\ call \in [Threads -> CallType]
         /\ \A t \in Threads : /\ call[t].fence \in Nat /\ call[t].kind \in Kinds
                               /\ call[t].cid \in Nat
                               /\ pc[t] # "idle" => /\ call[t].req \in ReqAddrs
                                                    /\ call[t].resp \in RespAddrs
                               /\ pc[t] = "poll" => call[t].cid \in Commands
         /\ Len(cmds) \in Nat
         /\ \A c \in Commands : /\ cmds[c].fence \in Nat /\ cmds[c].kind \in Kinds
                                /\ cmds[c].resp \in RespAddrs
         /\ next_fence \in Nat \ {0} /\ completed_fence \in Nat
         /\ hdr \in [RespAddrs -> [type : RespTypes, fence : Nat]]
         /\ \A a \in RespAddrs : hdr[a].fence \in Nat
         /\ Outstanding \subseteq Commands /\ UsedSet \subseteq Outstanding
         /\ avail \subseteq Outstanding /\ fenceq \subseteq Outstanding
<1> DEFINE Desc == [kind : Kinds, req : ReqAddrs, resp : RespAddrs, fence : Nat]
<1>1. /\ pc \in [Threads -> {"idle", "hdr_init", "lock", "enqueue", "poll", "unlock"}]
      /\ call \in [Threads -> CallType]
      /\ \A t \in Threads : /\ pc[t] # "idle" => /\ call[t].req \in ReqAddrs
                                                 /\ call[t].resp \in RespAddrs
                            /\ pc[t] = "poll" => call[t].cid \in Commands
      /\ cmds \in Seq(Desc) /\ Len(cmds) \in Nat
      /\ next_fence \in Nat \ {0} /\ completed_fence \in Nat
      /\ hdr \in [RespAddrs -> [type : RespTypes, fence : Nat]]
      /\ avail \subseteq Commands /\ fenceq \subseteq Commands /\ used \in Seq(Commands)
  BY DEF TypeOK, Busy, Polling
<1>2. \A t \in Threads : call[t].fence \in Nat /\ call[t].kind \in Kinds /\ call[t].cid \in Nat
  BY <1>1 DEF CallType
<1>3. \A c \in Commands : cmds[c] \in Desc
  <2> HIDE DEF Desc
  <2>1. QED
    BY <1>1 DEF Commands
<1>4. \A i \in 1..Len(used) : used[i] \in Commands
  BY <1>1
<1>5. UsedSet \subseteq Commands
  BY <1>4 DEF UsedSet
<1>6. /\ Outstanding \subseteq Commands /\ UsedSet \subseteq Outstanding
      /\ avail \subseteq Outstanding /\ fenceq \subseteq Outstanding
  BY <1>1, <1>5 DEF Outstanding, UsedSet
<1>7. \A c \in Commands : cmds[c].fence \in Nat /\ cmds[c].kind \in Kinds /\ cmds[c].resp \in RespAddrs
  BY <1>3
<1>8. \A a \in RespAddrs : hdr[a].fence \in Nat
  BY <1>1
<1>9. QED
  BY <1>1, <1>2, <1>6, <1>7, <1>8

\* The initial state satisfies the inductive invariant.
LEMMA InitFInv == Init => FInv
<1> SUFFICES ASSUME Init PROVE FInv
  OBVIOUS
<1>1. CallsInv
  BY DEF Init, CallsInv, CallsApart, FenceOfKind, PolledIsLast, NoCall, HasFence, Commands
<1>2. HeaderInv
  BY DEF Init, HeaderInv, PolledAlone, PolledHeader, HeaderIsReal, ZeroHdr
<1>3. OutcomeInv
  BY DEF Init, OutcomeInv, CompletedIsFenced, SuccessIsReal, CompletedFenceIsReal,
         SubmittedFenceDoneInOrder, SubmittedFenceDone
<1>4. QED
  BY <1>1, <1>2, <1>3, InitIInv DEF FInv

\* What an answer changes: one header, one more completion, and the fence of the
\* command, if it has one, counts as answered.
LEMMA Answer ==
  ASSUME TypeOK, NEW c \in Commands, NEW type, Respond(c, type)
  PROVE  /\ hdr'[cmds[c].resp].type = type
         /\ hdr'[cmds[c].resp].fence = IF type = "zero" THEN 0 ELSE cmds[c].fence
         /\ \A a \in RespAddrs : a # cmds[c].resp => hdr'[a] = hdr[a]
         /\ UsedSet' = UsedSet \cup {c}
         /\ retired \subseteq retired'
         /\ HasFence(cmds[c].kind) => c \in retired'
<1>1. used \in Seq(Commands) /\ used' = Append(used, c)
  BY DEF TypeOK, Respond
<1>2. /\ Len(used') = Len(used) + 1 /\ used'[Len(used) + 1] = c
      /\ \A i \in 1..Len(used) : used'[i] = used[i] /\ Len(used) \in Nat
  BY <1>1
<1>3. 1..Len(used') = 1..Len(used) \cup {Len(used) + 1}
  BY <1>1, <1>2
<1>4. UsedSet' = UsedSet \cup {c}
  BY <1>2, <1>3 DEF UsedSet
<1>5. hdr'[cmds[c].resp] = [type |-> type,
                           fence |-> IF type = "zero" THEN 0 ELSE cmds[c].fence]
  BY Typed DEF Respond
<1>6. QED
  BY <1>4, <1>5, Typed DEF Respond

\* What an Enqueue leaves: one command more, which the caller polls for, and the
\* earlier ones as they were.
Appended(t) ==
  /\ Commands' = Commands \cup {NewCmd} /\ NewCmd \notin Commands
  /\ Len(cmds') = NewCmd
  /\ \A c \in Commands : cmds'[c] = cmds[c]
  /\ cmds'[NewCmd].kind = call[t].kind /\ cmds'[NewCmd].req = call[t].req
  /\ cmds'[NewCmd].resp = call[t].resp /\ cmds'[NewCmd].fence = call[t].fence
  /\ cmds'[NewCmd] = [kind |-> call[t].kind, req |-> call[t].req,
                      resp |-> call[t].resp, fence |-> call[t].fence]
  /\ Outstanding' = Outstanding \cup {NewCmd}
  /\ call'[t].cid = NewCmd
  /\ call'[t].kind = call[t].kind /\ call'[t].req = call[t].req
  /\ call'[t].resp = call[t].resp /\ call'[t].fence = call[t].fence
  /\ \A u \in Threads : u # t => call'[u] = call[u] /\ pc'[u] = pc[u]
  /\ pc'[t] = "poll"

\* Enqueueing does just that.
LEMMA Enqueued == ASSUME TypeOK, NEW t \in Threads, Enqueue(t) PROVE Appended(t)
<1> DEFINE d == [kind |-> call[t].kind, req |-> call[t].req,
                 resp |-> call[t].resp, fence |-> call[t].fence]
<1>1. /\ cmds' = Append(cmds, d) /\ Len(cmds) \in Nat
      /\ cmds \in Seq([kind : Kinds, req : ReqAddrs, resp : RespAddrs, fence : Nat])
  BY DEF Enqueue, TypeOK
<1> HIDE DEF d
<1>2. /\ Len(cmds') = NewCmd /\ cmds'[NewCmd] = d
      /\ \A c \in 1..Len(cmds) : cmds'[c] = cmds[c]
  BY <1>1 DEF NewCmd
<1>3. Commands' = Commands \cup {NewCmd} /\ NewCmd \notin Commands
  BY <1>1, <1>2 DEF Commands, NewCmd
<1>4. Outstanding' = Outstanding \cup {NewCmd}
  BY DEF Enqueue, Outstanding, NewCmd
<1>5. /\ call'[t].cid = NewCmd
      /\ /\ call'[t].kind = call[t].kind /\ call'[t].req = call[t].req
         /\ call'[t].resp = call[t].resp /\ call'[t].fence = call[t].fence
      /\ pc'[t] = "poll"
      /\ \A u \in Threads : u # t => call'[u] = call[u] /\ pc'[u] = pc[u]
  BY Typed DEF Enqueue, CallType, NewCmd
<1>6. QED
  BY <1>2, <1>3, <1>4, <1>5 DEF d, Commands, Appended

-----------------------------------------------------------------------------
(* One step, part of the invariant by part *)

\* A call that is not the one stepping keeps its place and its locals.
LEMMA Others ==
  ASSUME TypeOK, NEW t \in Threads, Begin(t) \/ ThreadStep(t)
  PROVE  /\ \A u \in Threads : u # t => call'[u] = call[u] /\ pc'[u] = pc[u]
         /\ pc'[t] = "poll" => Enqueue(t)
         /\ ~Enqueue(t) => UNCHANGED <<cmds, avail, fenceq, reused>>
         /\ ~Enqueue(t) /\ ~Dequeue(t) => UNCHANGED used
         /\ UNCHANGED hostVars
         /\ ~HdrInit(t) => UNCHANGED hdr
<1>1. /\ \A u \in Threads : u # t => call'[u] = call[u] /\ pc'[u] = pc[u]
      /\ pc'[t] = "poll" => Enqueue(t)
  BY Typed DEF ThreadStep, Begin, HdrInit, Lock, Enqueue, EnqueueFails, Dequeue,
               Timeout, Unlock
<1>2. /\ ~Enqueue(t) => UNCHANGED <<cmds, avail, fenceq, reused>>
      /\ ~Enqueue(t) /\ ~Dequeue(t) => UNCHANGED used
      /\ UNCHANGED hostVars
      /\ ~HdrInit(t) => UNCHANGED hdr
  BY DEF ThreadStep, Begin, HdrInit, Lock, Enqueue, EnqueueFails, Dequeue,
         Timeout, Unlock, queueVars, historyVars, hostVars
<1>3. QED
  BY <1>1, <1>2

\* A step of a thread keeps what is said of the calls.
LEMMA ThreadCalls ==
  ASSUME FInv, TypeOK', NEW t \in Threads, Begin(t) \/ ThreadStep(t)
  PROVE  CallsInv'
<1>a. TypeOK /\ LockInv /\ CallsApart /\ FenceOfKind /\ PolledIsLast
  BY DEF FInv, IInv, CallsInv
<1>1. CASE Begin(t)
  <2>1. PICK k \in Kinds, a \in ReqAddrs, b \in RespAddrs :
          /\ \A u \in Busy : call[u].req # a /\ call[u].resp # b
          /\ call' = [call EXCEPT ![t] =
               [kind |-> k, req |-> a, resp |-> b,
                fence |-> IF HasFence(k) THEN next_fence ELSE 0, cid |-> 0, rc |-> "ok"]]
    BY <1>1 DEF Begin
  <2>2. /\ call'[t].kind = k /\ call'[t].req = a /\ call'[t].resp = b
        /\ call'[t].fence = IF HasFence(k) THEN next_fence ELSE 0
        /\ pc[t] = "idle" /\ pc'[t] = "hdr_init" /\ UNCHANGED <<cmds, reused>>
    BY <1>a, <1>1, <2>1, Typed DEF Begin, queueVars
  <2>3. CallsApart'
    BY <1>a, <1>1, <2>1, <2>2, Others DEF CallsApart, Busy
  <2>4. FenceOfKind'
    BY <1>a, <1>1, <2>2, Others, Typed DEF FenceOfKind, Commands
  <2>5. PolledIsLast'
    BY <1>a, <1>1, <2>2, Others DEF PolledIsLast
  <2>6. QED
    BY <2>3, <2>4, <2>5 DEF CallsInv
<1>2. CASE Enqueue(t)
  <2>e. Appended(t)
    BY <1>a, <1>2, Enqueued
  <2>1. CallsApart'
    BY <1>a, <1>2, <2>e DEF Appended, CallsApart, Enqueue
  <2>2. FenceOfKind'
    BY <1>a, <2>e DEF FenceOfKind, Appended
  <2>3. PolledIsLast'
    <3>1. \A u \in Threads : u # t => pc[u] # "poll"
      BY <1>a, <1>2 DEF LockInv, Enqueue
    <3>2. QED
      BY <3>1, <2>e DEF PolledIsLast, Appended
  <2>4. QED
    BY <2>1, <2>2, <2>3 DEF CallsInv
<1>3. CASE ThreadStep(t) /\ ~Enqueue(t)
  <2>1. /\ \/ /\ call'[t].kind = call[t].kind /\ call'[t].req = call[t].req
              /\ call'[t].resp = call[t].resp /\ call'[t].fence = call[t].fence
              /\ pc[t] # "idle"
           \/ call'[t] = NoCall /\ pc'[t] = "idle"
        /\ pc'[t] # "poll" /\ UNCHANGED cmds
    BY <1>a, <1>3, Typed, Others
       DEF ThreadStep, HdrInit, Lock, EnqueueFails, Dequeue, Timeout, Unlock, CallType
  <2>2. CallsApart'
    BY <1>a, <1>3, <2>1, Others DEF CallsApart
  <2>3. FenceOfKind'
    BY <1>a, <1>3, <2>1, Others DEF FenceOfKind, NoCall, HasFence, Commands
  <2>4. PolledIsLast'
    BY <1>a, <1>3, <2>1, Others DEF PolledIsLast
  <2>5. QED
    BY <2>2, <2>3, <2>4 DEF CallsInv
<1>4. QED
  BY <1>1, <1>2, <1>3

\* A step of a thread keeps what is said of the headers.
LEMMA ThreadHeaders ==
  ASSUME FInv, TypeOK', NEW t \in Threads, Begin(t) \/ ThreadStep(t)
  PROVE  HeaderInv'
<1>a. /\ TypeOK /\ LockInv /\ CallsApart /\ PolledIsLast
      /\ fenceq \subseteq executed /\ PolledAlone /\ PolledHeader /\ HeaderIsReal
  BY DEF FInv, IInv, CallsInv, HeaderInv
<1>1. CASE Enqueue(t)
  <2>e. Appended(t)
    BY <1>a, <1>1, Enqueued
  <2>1. /\ UNCHANGED <<hdr, used, fenceq, executed, retired>>
        /\ \A u \in Threads : u # t => pc[u] # "poll"
        /\ reused' = IF \E d \in Outstanding : \/ cmds[d].req = call[t].req
                                               \/ cmds[d].resp = call[t].resp
                     THEN reused \cup {NewCmd} ELSE reused
    BY <1>a, <1>1 DEF Enqueue, LockInv, hostVars, NewCmd
  <2>2. NewCmd \notin UsedSet /\ UsedSet' = UsedSet
    BY <1>a, <2>1, <2>e, Typed DEF UsedSet, Appended
  <2>3. PolledAlone'
    <3> SUFFICES ASSUME NewCmd \notin reused', NEW d \in Outstanding', d # NewCmd
                 PROVE  cmds'[d].req # call'[t].req /\ cmds'[d].resp # call'[t].resp
      BY <1>a, <2>1, <2>e DEF PolledAlone, Appended
    <3>1. d \in Outstanding /\ d \in Commands
      BY <1>a, <2>e, Typed DEF Appended
    <3>2. cmds[d].req # call[t].req /\ cmds[d].resp # call[t].resp
      BY <2>1, <3>1
    <3>3. QED
      BY <1>a, <2>e, <3>1, <3>2 DEF Appended
  <2>4. PolledHeader'
    BY <1>a, <2>1, <2>2, <2>e DEF PolledHeader, Appended
  <2>5. HeaderIsReal'
    <3>1. retired \subseteq Commands
      BY <1>a DEF TypeOK
    <3>2. QED
      BY <1>a, <2>1, <2>e, <3>1 DEF HeaderIsReal, Appended
  <2>6. QED
    BY <1>a, <2>1, <2>3, <2>4, <2>5 DEF HeaderInv
<1>2. CASE ~Enqueue(t)
  <2>1. /\ UNCHANGED <<cmds, avail, fenceq, reused, executed, retired>>
        /\ pc'[t] # "poll"
        /\ \A u \in Threads : u # t => call'[u] = call[u] /\ pc'[u] = pc[u]
    BY <1>a, <1>2, Others DEF hostVars
  <2>2. Outstanding' \subseteq Outstanding /\ UsedSet' \subseteq UsedSet
    <3>1. UNCHANGED used \/ (used # <<>> /\ used' = Tail(used))
      BY <1>a, <1>2, Others DEF Dequeue
    <3>2. used \in Seq(Commands)
      BY <1>a DEF TypeOK
    <3>3. CASE used # <<>> /\ used' = Tail(used)
      <4>1. /\ Len(used') = Len(used) - 1 /\ Len(used) \in Nat
            /\ \A i \in 1..Len(used') : used'[i] = used[i + 1]
        BY <3>2, <3>3
      <4>2. \A i \in 1..Len(used') : i + 1 \in 1..Len(used)
        BY <4>1
      <4>3. UsedSet' \subseteq UsedSet
        BY <4>1, <4>2 DEF UsedSet
      <4>4. QED
        BY <2>1, <4>3 DEF Outstanding, UsedSet
    <3>4. CASE UNCHANGED used
      BY <2>1, <3>4 DEF Outstanding, UsedSet
    <3>5. QED
      BY <3>1, <3>3, <3>4
  <2>3. PolledAlone'
    BY <1>a, <2>1, <2>2 DEF PolledAlone
  <2>4. \/ UNCHANGED hdr
        \/ /\ pc[t] # "idle" /\ call[t].resp \in RespAddrs
           /\ hdr' = [hdr EXCEPT ![call[t].resp] = ZeroHdr]
    BY <1>a, Others, Typed DEF HdrInit
  <2>5. PolledHeader'
    <3> SUFFICES ASSUME NEW u \in Threads, u # t, pc[u] = "poll",
                        call[u].cid \notin reused, call[u].cid \in UsedSet
                 PROVE  hdr'[call[u].resp] = hdr[call[u].resp]
      BY <1>a, <2>1, <2>2 DEF PolledHeader
    <3>1. call[u].resp \in RespAddrs
      BY <1>a, Typed
    <3>2. pc[t] # "idle" => call[u].resp # call[t].resp
      BY <1>a DEF CallsApart
    <3>3. QED
      BY <1>a, <2>4, <3>1, <3>2, Typed
  <2>6. HeaderIsReal'
    <3>1. \A a \in RespAddrs : hdr'[a] = hdr[a] \/ hdr'[a] = ZeroHdr
      BY <1>a, <2>4, Typed
    <3>2. QED
      BY <1>a, <2>1, <3>1 DEF HeaderIsReal, ZeroHdr
  <2>7. QED
    BY <1>a, <2>1, <2>3, <2>5, <2>6 DEF HeaderInv
<1>3. QED
  BY <1>1, <1>2

\* A step of the device keeps what is said of the headers: it answers one command,
\* and the poller's header only if that command is the poller's.
LEMMA AnswerHeaders ==
  ASSUME FInv, NEW c \in avail \cup fenceq, NEW type \in RespTypes, Respond(c, type),
         UNCHANGED <<pc, call, cmds, reused>>,
         executed \subseteq executed', fenceq' \subseteq executed',
         Outstanding' \subseteq Outstanding,
         type # "error" => c \in executed'
  PROVE  HeaderInv'
<1>a. /\ TypeOK /\ PolledIsLast /\ PolledAlone /\ PolledHeader /\ HeaderIsReal /\ FenceOfKind
  BY DEF FInv, IInv, CallsInv, HeaderInv
<1>b. c \in Outstanding /\ c \in Commands
  BY <1>a, Typed
<1>c. /\ hdr'[cmds[c].resp].type = type
      /\ hdr'[cmds[c].resp].fence = (IF type = "zero" THEN 0 ELSE cmds[c].fence)
      /\ \A a \in RespAddrs : a # cmds[c].resp => hdr'[a] = hdr[a]
      /\ UsedSet' = UsedSet \cup {c} /\ retired \subseteq retired'
      /\ HasFence(cmds[c].kind) => c \in retired'
  BY <1>a, <1>b, Answer
<1>1. PolledAlone'
  BY <1>a DEF PolledAlone
<1>2. PolledHeader'
  <2> SUFFICES ASSUME NEW t \in Threads, pc[t] = "poll", call[t].cid \notin reused,
                      call[t].cid \in UsedSet'
               PROVE  /\ hdr'[call[t].resp].type # "error" => call[t].cid \in executed'
                      /\ hdr'[call[t].resp].type = "ok" =>
                           hdr'[call[t].resp].fence = call[t].fence
    BY DEF PolledHeader
  <2>1. CASE call[t].cid = c
    <3>1. cmds[c].resp = call[t].resp /\ cmds[c].fence = call[t].fence
      <4>1. cmds[c] = [kind |-> call[t].kind, req |-> call[t].req,
                       resp |-> call[t].resp, fence |-> call[t].fence]
        BY <1>a, <2>1 DEF PolledIsLast
      <4>2. QED
        BY <4>1
    <3>2. hdr'[call[t].resp].type = type
      BY <1>c, <3>1
    <3>3. type = "ok" => hdr'[call[t].resp].fence = cmds[c].fence
      BY <1>c, <3>1
    <3>4. QED
      BY <2>1, <3>1, <3>2, <3>3
  <2>2. CASE call[t].cid # c
    <3>1. cmds[c].resp # call[t].resp /\ call[t].resp \in RespAddrs
      BY <1>a, <1>b, <2>2, Typed DEF PolledAlone
    <3>2. hdr'[call[t].resp] = hdr[call[t].resp] /\ call[t].cid \in UsedSet
      BY <1>c, <2>2, <3>1
    <3>3. QED
      BY <1>a, <3>2 DEF PolledHeader
  <2>3. QED
    BY <2>1, <2>2
<1>3. HeaderIsReal'
  <2> SUFFICES ASSUME NEW a \in RespAddrs, hdr'[a].fence # 0
               PROVE  \E d \in retired' : cmds[d].fence = hdr'[a].fence
    BY DEF HeaderIsReal
  <2>1. CASE a = cmds[c].resp
    BY <1>a, <1>b, <1>c, <2>1 DEF FenceOfKind
  <2>2. CASE a # cmds[c].resp
    BY <1>a, <1>c, <2>2 DEF HeaderIsReal
  <2>3. QED
    BY <2>1, <2>2
<1>4. QED
  BY <1>1, <1>2, <1>3 DEF HeaderInv

\* Both steps of the device.
LEMMA DeviceHeaders ==
  ASSUME FInv, DeviceRun \/ DeviceRetire
  PROVE  CallsInv' /\ HeaderInv'
<1>a. /\ TypeOK /\ CallsInv /\ FenceOfKind /\ fenceq \subseteq executed
      /\ PolledAlone /\ PolledHeader /\ HeaderIsReal
  BY DEF FInv, IInv, CallsInv, HeaderInv
<1>b. UNCHANGED <<pc, call, cmds, reused>>
  BY DEF DeviceRun, DeviceRetire, historyVars
<1>1. CallsInv'
  BY <1>a, <1>b DEF CallsInv, CallsApart, FenceOfKind, PolledIsLast, Commands
<1>2. CASE DeviceRun
  <2>1. PICK c \in avail, type \in RespTypes :
          /\ avail' = avail \ {c}
          /\ executed' = IF type = "error" THEN executed ELSE executed \cup {c}
          /\ \/ /\ type = "ok" /\ fenceq' = fenceq \cup {c}
                /\ UNCHANGED <<hdr, used, retired>>
             \/ Respond(c, type) /\ UNCHANGED fenceq
    BY <1>2 DEF DeviceRun
  <2>2. fenceq' \subseteq executed' /\ executed \subseteq executed'
    BY <1>a, <2>1
  <2>3. CASE UNCHANGED <<hdr, used, retired>> /\ fenceq' = fenceq \cup {c}
    <3>1. UsedSet' = UsedSet /\ Outstanding' \subseteq Outstanding
      BY <2>1, <2>3 DEF Outstanding, UsedSet
    <3>2. PolledAlone' /\ PolledHeader' /\ HeaderIsReal'
      BY <1>a, <1>b, <2>2, <2>3, <3>1 DEF PolledAlone, PolledHeader, HeaderIsReal
    <3>3. QED
      BY <1>1, <2>2, <3>2 DEF HeaderInv
  <2>4. CASE Respond(c, type) /\ UNCHANGED fenceq
    <3>1. c \in Commands /\ UsedSet' = UsedSet \cup {c}
      BY <1>a, <2>1, <2>4, Typed, Answer
    <3>2. Outstanding' \subseteq Outstanding
      BY <2>1, <2>4, <3>1 DEF Outstanding, UsedSet
    <3>3. QED
      BY <1>a, <1>b, <1>1, <2>1, <2>2, <2>4, <3>1, <3>2, AnswerHeaders DEF FenceOfKind
  <2>5. QED
    BY <2>1, <2>3, <2>4
<1>3. CASE DeviceRetire
  <2>1. PICK c \in fenceq : /\ fenceq' = fenceq \ {c} /\ Respond(c, "ok")
                            /\ UNCHANGED <<avail, executed>>
    BY <1>3 DEF DeviceRetire
  <2>2. c \in Commands /\ UsedSet' = UsedSet \cup {c} /\ "ok" \in RespTypes
    BY <1>a, <2>1, Typed, Answer DEF RespTypes
  <2>3. Outstanding' \subseteq Outstanding
    BY <2>1, <2>2 DEF Outstanding, UsedSet
  <2>4. QED
    BY <1>a, <1>b, <1>1, <2>1, <2>2, <2>3, AnswerHeaders DEF FenceOfKind
<1>4. QED
  BY <1>2, <1>3

\* What a dequeued completion shows: if the call succeeds at an address of its own,
\* its command ran and carried the fence that is recorded; and the fence recorded,
\* if any, is one the device has answered.
LEMMA DequeueOutcome ==
  ASSUME FInv, NEW t \in Threads, Dequeue(t)
  PROVE  /\ call[t].cid \in Commands /\ call[t].cid = Len(cmds)
         /\ cmds[call[t].cid].kind = call[t].kind /\ cmds[call[t].cid].fence = call[t].fence
         /\ \/ UNCHANGED completed_fence
            \/ /\ call[t].kind = "fenced" /\ completed_fence' = call[t].fence
               /\ \E c \in retired : cmds[c].fence = completed_fence'
         /\ \/ UNCHANGED succeeded
            \/ /\ succeeded' = succeeded \cup {call[t].cid}
               /\ call[t].cid \in executed \cup reused
               /\ call[t].kind = "fenced" /\ call[t].cid \notin reused
                    => completed_fence' = call[t].fence
<1> DEFINE cid == call[t].cid
           h   == hdr[call[t].resp]
           rc  == ResultOf(t, Head(used))
<1>a. /\ TypeOK /\ FenceOfKind /\ PolledIsLast /\ PolledAlone /\ PolledHeader /\ HeaderIsReal
  BY DEF FInv, IInv, CallsInv, HeaderInv
<1>b. /\ pc[t] = "poll" /\ used # <<>> /\ completed_fence' = FenceAfter(t, rc)
      /\ succeeded' = IF rc = "ok" THEN succeeded \cup {cid} ELSE succeeded
  BY DEF Dequeue
<1>c. /\ cid \in Commands /\ cid = Len(cmds) /\ cmds[cid].kind = call[t].kind
      /\ cmds[cid].fence = call[t].fence
      /\ call[t].resp \in RespAddrs /\ h \in [type : RespTypes, fence : Nat]
      /\ call[t].kind \in Kinds
  <2>1. /\ cid \in Commands /\ call[t].resp \in RespAddrs /\ call[t].kind \in Kinds
        /\ h \in [type : RespTypes, fence : Nat]
    BY <1>a, <1>b, Typed
  <2>2. /\ cid = Len(cmds)
        /\ cmds[cid] = [kind |-> call[t].kind, req |-> call[t].req,
                        resp |-> call[t].resp, fence |-> call[t].fence]
    BY <1>a, <1>b DEF PolledIsLast
  <2>3. QED
    BY <2>1, <2>2
<1>d. Head(used) \in UsedSet /\ Head(used) \in Outstanding
  <2>1. used \in Seq(Commands) /\ Len(used) \in Nat /\ Len(used) >= 1
    BY <1>a, <1>b DEF TypeOK
  <2>2. Head(used) = used[1] /\ 1 \in 1..Len(used)
    BY <2>1
  <2>3. QED
    BY <2>2 DEF UsedSet, Outstanding
<1>1. ASSUME rc = "ok", cid \notin reused PROVE cid \in UsedSet /\ h.type # "error"
  <2>1. cmds[Head(used)].req = call[t].req /\ h.type \in {"ok", "zero"}
    BY <1>1 DEF ResultOf
  <2>2. Head(used) = cid
    BY <1>a, <1>b, <1>d, <1>1, <2>1 DEF PolledAlone
  <2>3. QED
    BY <1>d, <2>1, <2>2
<1>2. rc = "ok" => cid \in executed \cup reused
  BY <1>a, <1>b, <1>1 DEF PolledHeader
<1>3. rc = "ok" /\ call[t].kind = "fenced" /\ cid \notin reused => FenceMatches(t)
  <2> SUFFICES ASSUME rc = "ok", call[t].kind = "fenced", cid \notin reused
               PROVE  FenceMatches(t)
    OBVIOUS
  <2>1. h.type = "ok"
    BY DEF ResultOf, AcceptsZero
  <2>2. h.fence = call[t].fence
    BY <1>a, <1>b, <1>1, <2>1 DEF PolledHeader
  <2>3. h = [type |-> "ok", fence |-> call[t].fence]
    BY <1>c, <2>1, <2>2
  <2>4. QED
    BY <2>3 DEF FenceMatches
<1>4. FenceMatches(t) => \E c \in retired : cmds[c].fence = call[t].fence
  <2> SUFFICES ASSUME FenceMatches(t)
               PROVE  \E c \in retired : cmds[c].fence = call[t].fence
    OBVIOUS
  <2>1. call[t].kind = "fenced" /\ h.fence = call[t].fence /\ call[t].fence # 0
    BY <1>a DEF FenceMatches, FenceOfKind, HasFence
  <2>2. QED
    BY <1>a, <1>c, <2>1 DEF HeaderIsReal
<1> HIDE DEF cid, h, rc
<1>5. \/ UNCHANGED completed_fence
      \/ /\ call[t].kind = "fenced" /\ completed_fence' = call[t].fence
         /\ \E c \in retired : cmds[c].fence = completed_fence'
  BY <1>b, <1>4 DEF FenceAfter, FenceMatches
<1>6. QED
  BY <1>b, <1>c, <1>2, <1>3, <1>5 DEF FenceAfter, cid

\* A step that neither enqueues nor dequeues, and forgets no command the device has
\* run or answered, keeps what is said of the outcomes.
LEMMA QuietOutcome ==
  ASSUME OutcomeInv, UNCHANGED <<cmds, completed_fence, succeeded, reused>>,
         executed \subseteq executed', retired \subseteq retired'
  PROVE  OutcomeInv'
<1> USE DEF OutcomeInv
<1>1. CompletedIsFenced' /\ CompletedFenceIsReal'
  BY DEF CompletedIsFenced, CompletedFenceIsReal, Commands
<1>2. SuccessIsReal'
  BY DEF SuccessIsReal
<1>3. SubmittedFenceDoneInOrder'
  BY DEF SubmittedFenceDoneInOrder, SubmittedFenceDone, InFenceOrder, FenceWaitOk, Commands
<1>4. QED
  BY <1>1, <1>2, <1>3

\* With the fences in the order of the queue, the fence a dequeue records is at
\* least the one recorded before: the poller's command is the last of all.
LEMMA RecordedGrows ==
  ASSUME FInv, NEW t \in Threads, Dequeue(t), InFenceOrder
  PROVE  completed_fence' >= completed_fence
<1>a. TypeOK /\ CompletedIsFenced /\ Len(cmds) \in Nat /\ completed_fence \in Nat
  BY Typed DEF FInv, IInv, OutcomeInv
<1>1. CASE UNCHANGED completed_fence
  BY <1>a, <1>1
<1>2. CASE call[t].kind = "fenced" /\ completed_fence' = call[t].fence
  <2>1. /\ call[t].cid \in Commands /\ call[t].cid = Len(cmds)
        /\ cmds[call[t].cid].kind = "fenced"
        /\ cmds[call[t].cid].fence = completed_fence' /\ completed_fence' \in Nat
    BY <1>a, <1>2, DequeueOutcome, Typed
  <2>2. CASE completed_fence = 0
    BY <2>1, <2>2
  <2>3. CASE completed_fence # 0
    <3>1. PICK c \in Commands : cmds[c].kind = "fenced" /\ cmds[c].fence = completed_fence
      BY <1>a, <2>3 DEF CompletedIsFenced
    <3>2. c = call[t].cid \/ c < call[t].cid
      BY <1>a, <2>1, <3>1 DEF Commands
    <3>3. QED
      BY <1>a, <2>1, <3>1, <3>2 DEF InFenceOrder
  <2>4. QED
    BY <2>2, <2>3
<1>3. QED
  BY <1>1, <1>2, DequeueOutcome

\* A dequeue keeps what is said of the outcomes.
LEMMA DequeueKeepsOutcome ==
  ASSUME FInv, TypeOK', NEW t \in Threads, Dequeue(t)
  PROVE  OutcomeInv'
<1> DEFINE cid == call[t].cid
<1>a. /\ TypeOK /\ FenceOfKind /\ CompletedIsFenced /\ SuccessIsReal
      /\ CompletedFenceIsReal /\ SubmittedFenceDoneInOrder
  BY DEF FInv, IInv, CallsInv, OutcomeInv
<1>b. UNCHANGED <<cmds, reused, executed, retired>>
  BY DEF Dequeue, hostVars
<1>c. /\ cid \in Commands /\ cmds[cid].kind = call[t].kind
      /\ cmds[cid].fence = call[t].fence
      /\ \/ UNCHANGED completed_fence
         \/ /\ call[t].kind = "fenced" /\ completed_fence' = call[t].fence
            /\ \E c \in retired : cmds[c].fence = completed_fence'
      /\ \/ UNCHANGED succeeded
         \/ /\ succeeded' = succeeded \cup {cid}
            /\ cid \in executed \cup reused
            /\ call[t].kind = "fenced" /\ cid \notin reused
                 => completed_fence' = call[t].fence
  BY DequeueOutcome
<1> HIDE DEF cid
<1>1. CompletedIsFenced' /\ CompletedFenceIsReal'
  BY <1>a, <1>b, <1>c DEF CompletedIsFenced, CompletedFenceIsReal, Commands
<1>2. SuccessIsReal'
  BY <1>a, <1>b, <1>c DEF SuccessIsReal
<1>3. SubmittedFenceDoneInOrder'
  <2> SUFFICES ASSUME InFenceOrder, NEW c \in succeeded' \ reused, cmds[c].kind = "fenced"
               PROVE  cmds[c].fence # 0 /\ cmds[c].fence <= completed_fence'
    BY <1>b DEF SubmittedFenceDoneInOrder, SubmittedFenceDone, InFenceOrder,
                FenceWaitOk, Commands
  <2>1. completed_fence' >= completed_fence /\ completed_fence \in Nat /\ completed_fence' \in Nat
    BY <1>a, RecordedGrows DEF TypeOK
  <2>2. CASE c \in succeeded
    <3>1. cmds[c].fence # 0 /\ cmds[c].fence <= completed_fence
      BY <1>a, <2>2 DEF SubmittedFenceDoneInOrder, SubmittedFenceDone, FenceWaitOk
    <3>2. cmds[c].fence \in Nat
      <4>1. c \in Commands
        BY <1>a, <2>2 DEF TypeOK
      <4>2. QED
        BY <1>a, <4>1, Typed
    <3>3. QED
      BY <2>1, <3>1, <3>2
  <2>3. CASE c \notin succeeded
    <3>1. c = cid /\ completed_fence' = cmds[c].fence
      BY <1>c, <2>3
    <3>2. cmds[c].fence # 0
      BY <1>a, <1>c, <3>1 DEF FenceOfKind, HasFence
    <3>3. QED
      BY <2>1, <3>1, <3>2
  <2>4. QED
    BY <2>2, <2>3
<1>4. QED
  BY <1>1, <1>2, <1>3 DEF OutcomeInv

\* Enqueueing changes no earlier command, and only a longer queue can be out of order.
LEMMA EnqueueKeepsOutcome ==
  ASSUME FInv, NEW t \in Threads, Enqueue(t)
  PROVE  OutcomeInv'
<1>a. /\ TypeOK /\ CompletedIsFenced /\ SuccessIsReal
      /\ CompletedFenceIsReal /\ SubmittedFenceDoneInOrder
  BY DEF FInv, IInv, OutcomeInv
<1>b. /\ UNCHANGED <<completed_fence, succeeded, executed, retired>>
      /\ reused \subseteq reused'
  BY DEF Enqueue, fenceVars, hostVars
<1>c. /\ Commands \subseteq Commands' /\ \A c \in Commands : cmds'[c] = cmds[c]
      /\ succeeded \subseteq Commands /\ retired \subseteq Commands
  BY <1>a, Enqueued DEF Appended, TypeOK
<1>1. CompletedIsFenced' /\ CompletedFenceIsReal'
  BY <1>a, <1>b, <1>c DEF CompletedIsFenced, CompletedFenceIsReal
<1>2. SuccessIsReal'
  BY <1>a, <1>b DEF SuccessIsReal
<1>3. InFenceOrder' => InFenceOrder
  BY <1>c DEF InFenceOrder
<1>4. SubmittedFenceDoneInOrder'
  BY <1>a, <1>b, <1>c, <1>3 DEF SubmittedFenceDoneInOrder, SubmittedFenceDone, FenceWaitOk
<1>5. QED
  BY <1>1, <1>2, <1>4 DEF OutcomeInv

\* Every step keeps the inductive invariant.
LEMMA NextFInv == FInv /\ [Next]_vars => FInv'
<1> SUFFICES ASSUME FInv, [Next]_vars PROVE FInv'
  OBVIOUS
<1>a. IInv' /\ TypeOK' /\ TypeOK /\ CallsInv /\ HeaderInv /\ OutcomeInv
  BY NextIInv DEF FInv, IInv
<1>1. ASSUME NEW t \in Threads, Begin(t) \/ ThreadStep(t) PROVE FInv'
  <2>1. CallsInv' /\ HeaderInv'
    BY <1>a, <1>1, ThreadCalls, ThreadHeaders
  <2>2. CASE ~Enqueue(t) /\ ~Dequeue(t)
    <3>1. UNCHANGED <<cmds, completed_fence, succeeded, reused, executed, retired>>
      BY <1>1, <2>2 DEF ThreadStep, Begin, HdrInit, Lock, EnqueueFails, Timeout, Unlock,
                        fenceVars, queueVars, hostVars, historyVars
    <3>2. QED
      BY <1>a, <2>1, <3>1, QuietOutcome DEF FInv
  <2>3. QED
    BY <1>a, <2>1, <2>2, EnqueueKeepsOutcome, DequeueKeepsOutcome DEF FInv
<1>2. ASSUME DeviceRun \/ DeviceRetire PROVE FInv'
  <2>1. UNCHANGED <<cmds, completed_fence, succeeded, reused>>
    BY <1>2 DEF DeviceRun, DeviceRetire, fenceVars, historyVars
  <2>2. executed \subseteq executed' /\ retired \subseteq retired'
    BY <1>2 DEF DeviceRun, DeviceRetire, Respond
  <2>3. QED
    BY <1>a, <1>2, <2>1, <2>2, DeviceHeaders, QuietOutcome DEF FInv
<1>3. CASE UNCHANGED vars
  <2>1. /\ UNCHANGED <<pc, call, cmds, avail, fenceq, used, hdr, completed_fence>>
        /\ UNCHANGED <<executed, retired, succeeded, reused>>
    BY <1>3 DEF vars, fenceVars, queueVars, hostVars, historyVars
  <2>2. CallsInv'
    BY <1>a, <2>1 DEF CallsInv, CallsApart, FenceOfKind, PolledIsLast, Commands
  <2>3. UsedSet' = UsedSet /\ Outstanding' = Outstanding
    BY <2>1 DEF UsedSet, Outstanding
  <2>4. HeaderInv'
    BY <1>a, <2>1, <2>3 DEF HeaderInv, PolledAlone, PolledHeader, HeaderIsReal
  <2>5. QED
    BY <1>a, <2>1, <2>2, <2>4, QuietOutcome DEF FInv
<1>4. QED
  BY <1>1, <1>2, <1>3 DEF Next

-----------------------------------------------------------------------------

\* A call returned 0 only if the device ran its command, or the command was enqueued
\* at an address that a timed-out one still used.
THEOREM SuccessIsEarned == Spec => []SuccessIsReal
<1>1. FInv => SuccessIsReal
  BY DEF FInv, OutcomeInv
<1>2. QED
  BY <1>1, InitFInv, NextFInv, PTL DEF Spec

\* completed_fence only ever names a fence the device has answered.
THEOREM CompletedFenceAnswered == Spec => []CompletedFenceIsReal
<1>1. FInv => CompletedFenceIsReal
  BY DEF FInv, OutcomeInv
<1>2. QED
  BY <1>1, InitFInv, NextFInv, PTL DEF Spec

\* While the fenced commands are enqueued in the order of their fences, the fence of
\* every fenced call that returned 0 counts as done.
THEOREM SubmittedFencesDone == Spec => []SubmittedFenceDoneInOrder
<1>1. FInv => SubmittedFenceDoneInOrder
  BY DEF FInv, OutcomeInv
<1>2. QED
  BY <1>1, InitFInv, NextFInv, PTL DEF Spec

\* And the counter that fence_wait compares with then never goes back.
THEOREM FenceCounterGrows == Spec => CompletedFenceGrows
<1>1. ASSUME FInv, TypeOK', [Next]_vars
      PROVE  [InFenceOrder' => completed_fence' >= completed_fence]_completed_fence
  <2> SUFFICES ASSUME completed_fence' # completed_fence, InFenceOrder'
               PROVE  completed_fence' >= completed_fence
    OBVIOUS
  <2>1. PICK t \in Threads : Dequeue(t)
    BY <1>1 DEF Next, ThreadStep, Begin, HdrInit, Lock, Enqueue, EnqueueFails, Timeout,
                Unlock, DeviceRun, DeviceRetire, vars, fenceVars
  <2>2. InFenceOrder
    BY <2>1 DEF Dequeue, InFenceOrder, Commands
  <2>3. QED
    BY <1>1, <2>1, <2>2, RecordedGrows
<1>2. FInv => TypeOK
  BY DEF FInv, IInv
<1>3. QED
  BY <1>1, <1>2, InitFInv, NextFInv, PTL DEF Spec, CompletedFenceGrows

-----------------------------------------------------------------------------
(* The queue serves commands as CommandService says *)

\* The device has not fetched what it has run: each command is taken once.
TakenOnce == executed \cap avail = {}

\* With it, what the service has pending is what the device has not fetched.
LEMMA PendingIsAvail == ASSUME TypeOK, TakenOnce PROVE Service!Pending = avail
<1>1. avail \subseteq Commands /\ executed \subseteq Commands
  BY DEF TypeOK
<1> QED
  BY <1>1 DEF Service!Pending, Commands, TakenOnce

\* A command is enqueued under a new number and run when it is fetched.
LEMMA NextTakenOnce == FInv /\ TakenOnce /\ [Next]_vars => TakenOnce'
<1> SUFFICES ASSUME FInv, TakenOnce, [Next]_vars PROVE TakenOnce'
  OBVIOUS
<1>a. TypeOK /\ executed \subseteq Commands
  BY DEF FInv, IInv, TypeOK
<1>1. ASSUME NEW t \in Threads, Begin(t) \/ ThreadStep(t) PROVE TakenOnce'
  <2>1. executed' = executed
    BY <1>a, <1>1, Others DEF hostVars
  <2>2. CASE Enqueue(t)
    <3>1. avail' = avail \cup {NewCmd} /\ NewCmd \notin executed
      BY <1>a, <2>2, Enqueued DEF Enqueue, Appended, NewCmd
    <3> QED
      BY <2>1, <3>1 DEF TakenOnce
  <2>3. CASE ~Enqueue(t)
    BY <1>a, <1>1, <2>1, <2>3, Others DEF TakenOnce
  <2> QED
    BY <2>2, <2>3
<1>2. CASE DeviceRun
  BY <1>2 DEF DeviceRun, TakenOnce
<1>3. CASE DeviceRetire
  BY <1>3 DEF DeviceRetire, TakenOnce
<1>4. CASE UNCHANGED vars
  BY <1>4 DEF vars, queueVars, hostVars, TakenOnce
<1> QED
  BY <1>1, <1>2, <1>3, <1>4 DEF Next

\* A step that leaves alone what the service speaks of is a step the service does
\* not see.
LEMMA UnseenStep ==
  ASSUME Polling' = Polling,
         UNCHANGED <<cmds, avail, executed, succeeded, reused, timeouts>>
  PROVE  UNCHANGED Service!vars
  BY DEF Service!vars, Commands

\* Enqueueing sends a command, when nobody else waits for one.  Its addresses can only
\* be in use if the queue holds something, hence only after a timeout.
LEMMA EnqueueSends ==
  ASSUME FInv, TakenOnce, NEW t \in Threads, Enqueue(t)
  PROVE  Service!Send(t)
<1>a. TypeOK /\ LockInv /\ DeviceSets /\ BacklogIsTimeouts
  BY DEF FInv, IInv
<1>1. Appended(t) /\ Commands' = Commands \cup {NewCmd} /\ Len(cmds') = NewCmd
  BY <1>a, Enqueued DEF Appended
<1>2. /\ avail' = avail \cup {NewCmd} /\ pc[t] = "enqueue"
      /\ UNCHANGED <<owner, executed, succeeded, timeouts>>
      /\ reused' = IF \E d \in Outstanding : \/ cmds[d].req = call[t].req
                                             \/ cmds[d].resp = call[t].resp
                   THEN reused \cup {NewCmd} ELSE reused
  BY DEF Enqueue, hostVars, NewCmd
<1>3. owner = t /\ Polling = {} /\ Cardinality(Polling) = 0
  BY <1>a, <1>2, PollingOf DEF LockInv
<1>4. Polling' = {t}
  BY <1>1, <1>3 DEF Appended, Polling
<1>5. NewCmd = Len(cmds) + 1
  BY DEF NewCmd
<1>6. timeouts = 0 => Outstanding = {}
  <2> SUFFICES ASSUME timeouts = 0 PROVE Backlog = 0
    BY <1>a, BacklogParts
  <2> QED
    BY <1>a, <1>3 DEF BacklogIsTimeouts
<1>7. reused' \in {reused} \cup (IF timeouts > 0 THEN {reused \cup {NewCmd}} ELSE {})
  <2>1. CASE reused' = reused
    BY <2>1
  <2>2. CASE reused' # reused
    <3>1. reused' = reused \cup {NewCmd} /\ Outstanding # {}
      BY <1>2, <2>2
    <3>2. timeouts > 0
      BY <1>a, <1>6, <3>1 DEF TypeOK
    <3> QED
      BY <3>1, <3>2
  <2> QED
    BY <2>1, <2>2
<1>8. NewCmd \notin executed /\ NewCmd \notin Commands
  BY <1>a, <1>1 DEF Appended, TypeOK
<1>9. Commands' \ (avail' \cup executed') = Commands \ (avail \cup executed)
  BY <1>1, <1>2, <1>8
<1> QED
  BY <1>1, <1>2, <1>3, <1>4, <1>5, <1>7, <1>9 DEF Service!Send

\* Before a timeout, a completion can only be that of the caller's own command, which
\* the device has then taken; a success is a command's own unless it shared its buffers.
LEMMA DequeueReturns ==
  ASSUME FInv, TakenOnce, NEW t \in Threads, Dequeue(t)
  PROVE  Service!Return(t)
<1>a. TypeOK /\ LockInv /\ DeviceSets /\ BacklogIsTimeouts
  BY DEF FInv, IInv
<1>1. /\ pc[t] = "poll" /\ pc' = [pc EXCEPT ![t] = "unlock"] /\ used # <<>>
      /\ UNCHANGED <<cmds, avail, executed, reused, timeouts>>
  BY DEF Dequeue, hostVars
<1>2. owner = t /\ Polling = {t} /\ Cardinality(Polling) = 1
  BY <1>a, <1>1, PollingOf DEF LockInv
<1>3. Polling' = {}
  BY <1>a, <1>1, <1>2, Typed DEF Polling
<1>4. UNCHANGED <<Len(cmds), Commands, timeouts > 0>>
  BY <1>1 DEF Commands
<1>5. CASE UNCHANGED succeeded
  <2>1. timeouts > 0 \/ avail = {}
    <3> SUFFICES ASSUME timeouts = 0 PROVE avail = {}
      BY <1>a DEF TypeOK
    <3>1. Cardinality(avail) + Cardinality(fenceq) + Len(used) = 1
      BY <1>a, <1>2 DEF BacklogIsTimeouts, Backlog
    <3>2. used \in Seq(Commands)
      BY <1>a DEF TypeOK
    <3>3. Len(used) > 0
      BY <1>1, <3>2
    <3>4. Cardinality(avail) = 0
      BY <1>a, <3>1, <3>3, BacklogParts
    <3> QED
      BY <1>a, <3>4, FS_EmptySet DEF DeviceSets
  <2>2. timeouts > 0 \/ Len(cmds) \notin Service!Pending
    BY <1>a, <2>1, PendingIsAvail
  <2>3. Service!Fail
    BY <1>4, <1>5, <2>2 DEF Service!Fail
  <2> QED
    BY <1>1, <1>2, <1>3, <1>4, <2>3 DEF Service!Return
<1>6. CASE ~UNCHANGED succeeded
  <2>1. /\ succeeded' = succeeded \cup {Len(cmds)}
        /\ Len(cmds) \in executed \cup reused
    BY <1>6, DequeueOutcome
  <2>2. Service!Succeed
    BY <1>4, <2>1 DEF Service!Succeed
  <2> QED
    BY <1>1, <1>2, <1>3, <1>4, <2>2 DEF Service!Return
<1> QED
  BY <1>5, <1>6

\* A caller whose deadline passes gives up.
LEMMA TimeoutReturns ==
  ASSUME FInv, NEW t \in Threads, Timeout(t)
  PROVE  Service!Return(t)
<1>a. TypeOK /\ LockInv
  BY DEF FInv, IInv
<1>1. /\ pc[t] = "poll" /\ pc' = [pc EXCEPT ![t] = "unlock"] /\ timeouts' = timeouts + 1
      /\ UNCHANGED <<cmds, avail, executed, succeeded, reused>>
  BY DEF Timeout, queueVars, hostVars
<1>2. owner = t /\ Polling = {t}
  BY <1>a, <1>1, PollingOf DEF LockInv
<1>3. Polling' = {}
  BY <1>a, <1>1, <1>2, Typed DEF Polling
<1>4. timeouts' > 0
  BY <1>a, <1>1 DEF TypeOK
<1>5. Service!GiveUp
  BY <1>1, <1>4 DEF Service!GiveUp
<1> QED
  BY <1>1, <1>2, <1>3, <1>5 DEF Service!Return, Commands

\* The device fetches the oldest command and carries it out or refuses it.
LEMMA DeviceTakes ==
  ASSUME FInv, TakenOnce, DeviceRun
  PROVE  Service!Take
<1>a. TypeOK /\ avail \subseteq Commands /\ executed \subseteq Commands
  BY DEF FInv, IInv, TypeOK
<1>1. PICK c \in avail : /\ \A d \in avail : c <= d
                         /\ avail' = avail \ {c}
                         /\ executed' = executed \/ executed' = executed \cup {c}
                         /\ UNCHANGED <<pc, cmds, succeeded, reused, timeouts>>
  BY DEF DeviceRun, historyVars
<1>2. Service!Pending = avail
  BY <1>a, PendingIsAvail
<1>3. c \notin executed /\ c \in Commands /\ Commands' = Commands /\ Polling' = Polling
  BY <1>a, <1>1 DEF TakenOnce, Commands, Polling
<1>4. CASE executed' = executed
  <2>1. Commands' \ (avail' \cup executed') = (Commands \ (avail \cup executed)) \cup {c}
    BY <1>1, <1>3, <1>4
  <2> QED
    BY <1>1, <1>2, <1>3, <1>4, <2>1 DEF Service!Take
<1>5. CASE executed' = executed \cup {c}
  <2>1. Commands' \ (avail' \cup executed') = Commands \ (avail \cup executed)
    BY <1>1, <1>3, <1>5
  <2> QED
    BY <1>1, <1>2, <1>3, <1>5, <2>1 DEF Service!Take
<1> QED
  BY <1>1, <1>4, <1>5

\* Every step of the queue is a step of the service or one it does not see.
LEMMA StepServes == FInv /\ TakenOnce /\ [Next]_vars => [Service!Next]_(Service!vars)
<1> SUFFICES ASSUME FInv, TakenOnce, [Next]_vars
             PROVE  Service!Next \/ UNCHANGED Service!vars
  OBVIOUS
<1>a. TypeOK /\ LockInv
  BY DEF FInv, IInv
<1>1. ASSUME NEW t \in Threads, Begin(t) \/ ThreadStep(t)
      PROVE  Service!Next \/ UNCHANGED Service!vars
  <2>1. CASE Enqueue(t)
    BY <2>1, EnqueueSends DEF Service!Next
  <2>2. CASE Dequeue(t)
    BY <2>2, DequeueReturns DEF Service!Next
  <2>3. CASE Timeout(t)
    BY <2>3, TimeoutReturns DEF Service!Next
  <2>4. CASE ~Enqueue(t) /\ ~Dequeue(t) /\ ~Timeout(t)
    <3>1. pc[t] # "poll" /\ pc'[t] # "poll"
      BY <1>a, <1>1, <2>4, Others
         DEF ThreadStep, Begin, HdrInit, Lock, EnqueueFails, Unlock
    <3>2. Polling' = Polling
      BY <1>a, <1>1, <3>1, Others DEF Polling
    <3>3. UNCHANGED <<cmds, avail, executed, succeeded, reused, timeouts>>
      BY <1>1, <2>4 DEF ThreadStep, Begin, HdrInit, Lock, EnqueueFails, Unlock,
                        queueVars, hostVars, historyVars
    <3> QED
      BY <3>2, <3>3, UnseenStep
  <2> QED
    BY <2>1, <2>2, <2>3, <2>4
<1>2. CASE DeviceRun
  BY <1>2, DeviceTakes DEF Service!Next
<1>3. CASE DeviceRetire
  <2>1. /\ UNCHANGED <<pc, cmds, avail, executed, succeeded, reused, timeouts>>
    BY <1>3 DEF DeviceRetire, historyVars
  <2> QED
    BY <2>1, UnseenStep DEF Polling
<1>4. CASE UNCHANGED vars
  <2>1. UNCHANGED <<pc, cmds, avail, executed, succeeded, reused, timeouts>>
    BY <1>4 DEF vars, queueVars, hostVars, historyVars
  <2> QED
    BY <2>1, UnseenStep DEF Polling
<1> QED
  BY <1>1, <1>2, <1>3, <1>4 DEF Next

\* The control queue is a command service: the device takes commands in order and each
\* of them once, a success is that of a command that was carried out, and until a call
\* times out a failure is that of a command the device has dealt with.
THEOREM ServesCommands == Spec => ImplementsService
<1>1. Init => Service!Init /\ TakenOnce
  <2> SUFFICES ASSUME Init PROVE Service!Init /\ TakenOnce
    OBVIOUS
  <2>1. Polling = {} /\ Commands = {}
    BY DEF Init, Polling, Commands
  <2> QED
    BY <2>1 DEF Init, Service!Init, TakenOnce
<1> QED
  BY <1>1, InitFInv, NextFInv, NextTakenOnce, StepServes, PTL
     DEF Spec, ImplementsService, Service!Spec

=============================================================================
