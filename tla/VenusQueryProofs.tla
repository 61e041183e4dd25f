---------------------------- MODULE VenusQueryProofs ----------------------------
(***************************************************************************)
(* Proofs about VenusQuery, for any threads, number of queries and of      *)
(* resource ids: which answers may be believed, what an idle queue means,  *)
(* and that making the reply blob leaves nothing behind.                   *)
(*                                                                         *)
(* Two arguments are combined.  Unless two threads made the reply blob at  *)
(* once, the object and the driver's table go through the set-up together  *)
(* (BlobInv).  And a query that nothing troubles is alone, has the stream  *)
(* to itself and reads what the host wrote for it (CalmInv).               *)
(***************************************************************************)
EXTENDS VenusQuery, SequenceTheorems, TLAPS

\* The id the next query gets.
NewQ == Len(queries) + 1

\* The steps of the round trip.
RoundTrip == {"clear", "submit", "look", "poll", "copy"}

\* A query under way that nothing has troubled.
Calm(t) == pc[t] # "idle" /\ cur[t].q \notin troubled

-----------------------------------------------------------------------------
(* Types *)

\* Types in the form the steps below use.
LEMMA Typed ==
  ASSUME TypeOK
  PROVE  /\ Len(queries) \in Nat /\ queries \in Seq(Kinds)
         /\ \A q \in QueryIds : queries[q] \in Kinds /\ q # 0
         /\ pc \in [Threads -> Steps] /\ cur \in [Threads -> [q : {0} \cup QueryIds, ptr : 0..MaxRes]]
         /\ \A t \in Threads : /\ cur[t].q \in {0} \cup QueryIds /\ cur[t].ptr \in 0..MaxRes
                               /\ pc[t] # "idle" => cur[t].q \in QueryIds /\ Kind(t) \in Kinds
         /\ g_reply_blob.res \in 0..MaxRes /\ g_reply_blob.addr \in 0..MaxRes
         /\ g_reply_blob.mapped \in BOOLEAN
         /\ g_reply_blob \in [res : 0..MaxRes, mapped : BOOLEAN, addr : 0..MaxRes]
         /\ troubled \in SUBSET QueryIds /\ failed \in SUBSET ResIds
         /\ stream \in Seq([q : QueryIds, res : 0..MaxRes])
         /\ \A r \in 1..MaxRes : r \in ResIds /\ r \in Layer!ResIds /\ r # 0
         /\ TableState \in Layer!States
  BY DEF TypeOK, QueryIds, Busy, Kind, ResIds, Layer!ResIds, TableState, Layer!States

\* A query begins.
LEMMA Begun ==
  ASSUME TypeOK, NEW t \in Threads, Call(t)
  PROVE  \E k \in Kinds :
           /\ Start(t, k)
           /\ queries' \in Seq(Kinds) /\ Len(queries') = NewQ /\ queries'[NewQ] = k
           /\ QueryIds' = QueryIds \cup {NewQ} /\ NewQ \notin QueryIds
           /\ \A q \in QueryIds : queries'[q] = queries[q]
           /\ pc[t] = "idle" /\ cur'[t].q = NewQ /\ cur'[t].ptr = 0
           /\ pc'[t] \in {"clear", "create"}
           /\ \A u \in Threads : u # t => cur'[u] = cur[u] /\ pc'[u] = pc[u]
           /\ \/ UNCHANGED g_disp_lock
              \/ g_disp_lock' = t /\ k = "idle"
           /\ g_device_created' \in BOOLEAN
           /\ UNCHANGED <<known, stream, ran, succeeded, failed, g_reply_blob_ready,
                          gpu, next_res, mem>>
<1>1. PICK k \in Kinds : /\ Start(t, k)
                         /\ UNCHANGED g_disp_lock \/ (g_disp_lock' = t /\ k = "idle")
                         /\ g_device_created' \in BOOLEAN
  BY DEF Call, GetProperties, CreateDevice, Barrier, Kinds, Cached, TypeOK
<1>2. queries' = Append(queries, k) /\ queries \in Seq(Kinds) /\ Len(queries) \in Nat
  BY <1>1 DEF Start, TypeOK
<1>3. /\ queries' \in Seq(Kinds) /\ Len(queries') = NewQ /\ queries'[NewQ] = k
      /\ \A q \in 1..Len(queries) : queries'[q] = queries[q]
  BY <1>2 DEF NewQ
<1>4. QueryIds' = QueryIds \cup {NewQ} /\ NewQ \notin QueryIds
  BY <1>2, <1>3 DEF QueryIds, NewQ
<1>5. /\ cur'[t].q = NewQ /\ cur'[t].ptr = 0
      /\ pc'[t] \in {"clear", "create"} /\ pc[t] = "idle"
      /\ \A u \in Threads : u # t => cur'[u] = cur[u] /\ pc'[u] = pc[u]
  BY <1>1, Typed DEF Start, Goto, NewQ
<1>6. UNCHANGED <<known, stream, ran, succeeded, failed, g_reply_blob_ready,
                  gpu, next_res, mem>>
  BY <1>1 DEF Start, hostVars
<1> QED
  BY <1>1, <1>3, <1>4, <1>5, <1>6 DEF QueryIds

\* A query ends.
LEMMA Finished ==
  ASSUME TypeOK, NEW t \in Threads, pc[t] # "idle", NEW ok \in BOOLEAN, Finish(t, ok)
  PROVE  /\ pc'[t] = "idle" /\ cur'[t].q = 0
         /\ \A u \in Threads : u # t => cur'[u] = cur[u] /\ pc'[u] = pc[u]
         /\ pc' \in [Threads -> Steps]
         /\ cur' \in [Threads -> [q : {0} \cup QueryIds, ptr : 0..MaxRes]]
         /\ g_disp_lock' = (IF g_disp_lock = t THEN NoThread ELSE g_disp_lock)
         /\ known' \in [Cached -> {"untried", "real", "failed"}]
         /\ succeeded' = IF ok THEN succeeded \cup {cur[t].q} ELSE succeeded
         /\ succeeded' \in SUBSET QueryIds
         /\ UNCHANGED <<queries, g_device_created>>
<1> USE VenusQueryAssumption
<1>1. /\ known \in [Cached -> {"untried", "real", "failed"}] /\ succeeded \in SUBSET QueryIds
      /\ cur[t].q \in QueryIds
  BY Typed DEF TypeOK
<1>2. known' \in [Cached -> {"untried", "real", "failed"}]
  BY <1>1 DEF Finish
<1>3. /\ pc'[t] = "idle" /\ pc' \in [Threads -> Steps]
      /\ \A u \in Threads : u # t => pc'[u] = pc[u]
  BY Typed DEF Finish, Goto, Steps
<1>4. /\ cur'[t].q = 0 /\ cur' \in [Threads -> [q : {0} \cup QueryIds, ptr : 0..MaxRes]]
      /\ \A u \in Threads : u # t => cur'[u] = cur[u]
  BY Typed DEF Finish, NoQuery
<1> QED
  BY <1>1, <1>2, <1>3, <1>4 DEF Finish, Released

-----------------------------------------------------------------------------
(* The inductive invariant *)

\* Resource ids not yet given out have no blob.
FreshIds == \A r \in ResIds : r >= next_res => gpu[r] = "none"

\* What a word in a blob's memory says has been run.
MemIsRun == \A r \in ResIds : mem[r] # 0 => mem[r] \in ran

\* One thread makes the blob, and only while there is none to use.
OneSetup ==
  \A t \in Threads : pc[t] \in Setup =>
    /\ ~g_reply_blob_ready
    /\ \A u \in Threads : pc[u] \in Setup => u = t

\* The object and its entry at each step of the set-up ...
SetupShape ==
  \A t \in Threads :
    /\ pc[t] = "create" => g_reply_blob = NoBlob
    /\ pc[t] = "map" => /\ g_reply_blob.res # 0 /\ gpu[g_reply_blob.res] = "made"
                        /\ ~g_reply_blob.mapped /\ g_reply_blob.addr = 0
    /\ pc[t] \in {"attach", "undo_unmap"} =>
         /\ g_reply_blob.res # 0 /\ gpu[g_reply_blob.res] = "mapped"
         /\ g_reply_blob.mapped /\ g_reply_blob.addr = g_reply_blob.res
    /\ pc[t] = "undo_destroy" =>
         /\ g_reply_blob.res # 0
         /\ IF g_reply_blob.mapped THEN g_reply_blob.res \in failed
                                   ELSE gpu[g_reply_blob.res] = "made"

\* ... and outside it.
RestShape ==
  IF g_reply_blob_ready
  THEN g_reply_blob.res # 0 /\ g_reply_blob.addr = g_reply_blob.res
  ELSE (\A t \in Threads : pc[t] \notin Setup) => g_reply_blob = NoBlob

\* In the round trip there is a blob.
ReadyInside == \A t \in Threads : pc[t] \in RoundTrip => g_reply_blob_ready

BlobInv == /\ FreshIds /\ MemIsRun /\ ReadyInside
           /\ ~raced => OneSetup /\ SetupShape /\ RestShape /\ SetupLeavesNothing

\* Of two queries under way both are troubled, and so is one that undoes a blob.
Alone ==
  \A t, u \in Threads : t # u /\ Calm(t) => pc[u] = "idle"
UndoIsTrouble ==
  \A t \in Threads : pc[t] \in {"undo_unmap", "undo_destroy"} => cur[t].q \in troubled

\* A calm query has the stream to itself from its submission on ...
OwnStream ==
  \A t \in Threads : Calm(t) /\ pc[t] \in {"submit", "look", "poll", "copy"} =>
    /\ ~raced
    /\ pc[t] = "submit" => stream = <<>> /\ mem[g_reply_blob.addr] = 0
    /\ pc[t] # "submit" =>
         \/ stream = <<>> /\ mem[g_reply_blob.addr] = cur[t].q
         \/ /\ stream = <<[q |-> cur[t].q, res |-> g_reply_blob.res]>>
            /\ mem[g_reply_blob.addr] = 0

\* ... and looks at the blob until its own reply is there.
OwnReply ==
  \A t \in Threads : Calm(t) =>
    /\ pc[t] = "poll" => cur[t].ptr = g_reply_blob.addr
    /\ pc[t] = "copy" => mem[g_reply_blob.addr] = cur[t].q

CalmInv == Alone /\ UndoIsTrouble /\ OwnStream /\ OwnReply

Outcomes == AnswerIsReal /\ IdleMeansDrained /\ FallbackMeansFailure

IInv == TypeOK /\ BlobInv /\ CalmInv /\ Outcomes

-----------------------------------------------------------------------------
(* Type correctness *)

\* Type correctness of the initial state.
LEMMA InitTypeOK == Init => TypeOK
<1> SUFFICES ASSUME Init PROVE TypeOK
  OBVIOUS
<1> USE VenusQueryAssumption
<1>1. gpu \in [ResIds -> Layer!States] /\ next_res \in 1..(MaxRes + 1)
  BY DEF Init, Layer!Init, Layer!States, Layer!ResIds, ResIds
<1>2. queries \in Seq(Kinds) /\ stream \in Seq([q : QueryIds, res : 0..MaxRes])
  BY DEF Init
<1>3. g_reply_blob \in [res : 0..MaxRes, mapped : BOOLEAN, addr : 0..MaxRes]
  BY DEF Init, NoBlob, Blob
<1>4. cur \in [Threads -> [q : {0} \cup QueryIds, ptr : 0..MaxRes]]
  BY DEF Init, NoQuery
<1>5. pc \in [Threads -> Steps] /\ Busy = {}
  BY DEF Init, Steps, Busy
<1>6. known \in [Cached -> {"untried", "real", "failed"}] /\ mem \in [ResIds -> {0} \cup QueryIds]
  BY DEF Init
<1>7. /\ g_reply_blob_ready \in BOOLEAN /\ g_device_created \in BOOLEAN /\ raced \in BOOLEAN
      /\ ran \in SUBSET QueryIds /\ succeeded \in SUBSET QueryIds
      /\ troubled \in SUBSET QueryIds /\ failed \in SUBSET ResIds
      /\ g_disp_lock = NoThread
  BY DEF Init
<1> QED
  BY <1>1, <1>2, <1>3, <1>4, <1>5, <1>6, <1>7 DEF TypeOK

\* The states BlobLayer's calls may leave are states.
LEMMA ResultsAreStates ==
  ASSUME NEW s \in Layer!States
  PROVE  /\ Layer!MapResults(s) \subseteq Layer!States
         /\ Layer!UnmapResults(s) \subseteq Layer!States
         /\ Layer!DestroyResults(s) \subseteq Layer!States
  BY DEF Layer!States, Layer!MapResults, Layer!UnmapResults, Layer!DestroyResults

\* A call on the reply blob moves its entry alone.
LEMMA MovesIs ==
  ASSUME TypeOK, NEW s \in Layer!States, Moves(s)
  PROVE  /\ gpu' \in [ResIds -> Layer!States] /\ UNCHANGED next_res
         /\ g_reply_blob.res # 0 => gpu'[g_reply_blob.res] = s
         /\ \A r \in ResIds : r # g_reply_blob.res => gpu'[r] = gpu[r]
  BY Typed DEF Moves, TypeOK

\* A resource id is taken.
LEMMA TakeIs ==
  ASSUME TypeOK, FreshIds, Layer!Take
  PROVE  /\ gpu' \in [ResIds -> Layer!States] /\ next_res' \in 1..(MaxRes + 1)
         /\ next_res \in ResIds /\ next_res' = next_res + 1
         /\ gpu'[next_res] \in {"none", "made"}
         /\ \A r \in ResIds : r # next_res => gpu'[r] = gpu[r]
<1>1. /\ gpu \in [ResIds -> Layer!States] /\ MaxRes \in Nat
      /\ next_res \in ResIds /\ next_res' = next_res + 1 /\ gpu[next_res] = "none"
      /\ gpu' = gpu \/ gpu' = [gpu EXCEPT ![next_res] = "made"]
  BY VenusQueryAssumption DEF TypeOK, FreshIds, Layer!Take, Layer!ResIds, ResIds
<1>2. "made" \in Layer!States
  BY DEF Layer!States
<1>3. next_res' \in 1..(MaxRes + 1)
  BY <1>1 DEF ResIds
<1> QED
  BY <1>1, <1>2, <1>3

\* The part of the types that a thread's way through its call is about.
CallerTypes ==
  /\ known \in [Cached -> {"untried", "real", "failed"}]
  /\ g_device_created \in BOOLEAN
  /\ g_disp_lock \in Threads \cup {NoThread}
  /\ pc \in [Threads -> Steps]
  /\ cur \in [Threads -> [q : {0} \cup QueryIds, ptr : 0..MaxRes]]
  /\ queries \in Seq(Kinds)
  /\ succeeded \in SUBSET QueryIds
  /\ \A t \in Busy : cur[t].q # 0
  /\ g_disp_lock # NoThread => pc[g_disp_lock] # "idle" /\ Kind(g_disp_lock) = "idle"

\* A thread that stays in its query keeps them,
LEMMA MovedOn ==
  ASSUME TypeOK, NEW t \in Threads, pc[t] # "idle",
         NEW step \in Steps \ {"idle"}, Goto(t, step),
         UNCHANGED <<callerVars, queries, succeeded>>,
         UNCHANGED cur \/ \E a \in 0..MaxRes : cur' = [cur EXCEPT ![t] = [q |-> cur[t].q, ptr |-> a]]
  PROVE  /\ CallerTypes' /\ QueryIds' = QueryIds
         /\ pc'[t] = step /\ (\A u \in Threads : u # t => pc'[u] = pc[u] /\ cur'[u] = cur[u])
         /\ \A u \in Threads : cur'[u].q = cur[u].q
<1> USE VenusQueryAssumption
<1>1. QueryIds' = QueryIds /\ queries' = queries
  BY DEF QueryIds
<1>2. /\ cur' \in [Threads -> [q : {0} \cup QueryIds, ptr : 0..MaxRes]]
      /\ \A u \in Threads : cur'[u].q = cur[u].q
      /\ \A u \in Threads : u # t => cur'[u] = cur[u]
  <2>1. CASE UNCHANGED cur
    BY <2>1, Typed
  <2>2. ASSUME NEW a \in 0..MaxRes, cur' = [cur EXCEPT ![t] = [q |-> cur[t].q, ptr |-> a]]
        PROVE  <1>2!:
    <3>1. [q |-> cur[t].q, ptr |-> a] \in [q : {0} \cup QueryIds, ptr : 0..MaxRes]
      BY Typed
    <3>2. cur'[t] = [q |-> cur[t].q, ptr |-> a]
      BY <2>2, Typed
    <3>3. cur'[t].q = cur[t].q
      BY <3>2
    <3> QED
      BY <2>2, <3>1, <3>3, Typed
  <2> QED
    BY <2>1, <2>2
<1>3. /\ pc' \in [Threads -> Steps] /\ pc'[t] = step /\ step # "idle"
      /\ \A u \in Threads : u # t => pc'[u] = pc[u]
  BY Typed DEF Goto
<1>4. \A u \in Busy' : cur'[u].q # 0
  BY <1>2, <1>3, Typed DEF TypeOK, Busy, QueryIds
<1>5. ASSUME g_disp_lock' # NoThread
      PROVE  pc'[g_disp_lock'] # "idle" /\ Kind(g_disp_lock)' = "idle"
  <2>1. g_disp_lock' = g_disp_lock /\ g_disp_lock \in Threads
    BY <1>5 DEF TypeOK, callerVars
  <2>2. pc[g_disp_lock] # "idle" /\ Kind(g_disp_lock) = "idle"
    BY <1>5, <2>1 DEF TypeOK
  <2> QED
    BY <1>1, <1>2, <1>3, <2>1, <2>2 DEF Kind
<1> QED
  BY <1>1, <1>2, <1>3, <1>4, <1>5 DEF CallerTypes, TypeOK, callerVars

\* and so does one that leaves it.
LEMMA Returned ==
  ASSUME TypeOK, NEW t \in Threads, pc[t] # "idle", NEW ok \in BOOLEAN, Finish(t, ok)
  PROVE  CallerTypes' /\ QueryIds' = QueryIds
<1> USE VenusQueryAssumption
<1>1. QueryIds' = QueryIds /\ queries' = queries
  BY Finished DEF QueryIds
<1>2. /\ pc'[t] = "idle" /\ pc' \in [Threads -> Steps]
      /\ cur' \in [Threads -> [q : {0} \cup QueryIds, ptr : 0..MaxRes]]
      /\ \A u \in Threads : u # t => cur'[u] = cur[u] /\ pc'[u] = pc[u]
      /\ g_disp_lock' = (IF g_disp_lock = t THEN NoThread ELSE g_disp_lock)
      /\ known' \in [Cached -> {"untried", "real", "failed"}]
      /\ succeeded' \in SUBSET QueryIds /\ UNCHANGED g_device_created
  BY Finished
<1>3. \A u \in Busy' : cur'[u].q # 0
  BY <1>2 DEF TypeOK, Busy
<1>4. ASSUME g_disp_lock' # NoThread
      PROVE  pc'[g_disp_lock'] # "idle" /\ Kind(g_disp_lock)' = "idle"
  <2>1. g_disp_lock' = g_disp_lock /\ g_disp_lock \in Threads /\ g_disp_lock # t
    BY <1>2, <1>4 DEF TypeOK
  <2>2. pc[g_disp_lock] # "idle" /\ Kind(g_disp_lock) = "idle"
    BY <2>1 DEF TypeOK
  <2> QED
    BY <1>1, <1>2, <2>1, <2>2 DEF Kind
<1> QED
  BY <1>1, <1>2, <1>3, <1>4 DEF CallerTypes, TypeOK

\* Every step keeps the types.
LEMMA NextTypeOK == TypeOK /\ FreshIds /\ [Next]_vars => TypeOK'
<1> SUFFICES ASSUME TypeOK, FreshIds, [Next]_vars PROVE TypeOK'
  OBVIOUS
<1> USE VenusQueryAssumption
<1>a. /\ g_reply_blob \in [res : 0..MaxRes, mapped : BOOLEAN, addr : 0..MaxRes]
      /\ g_reply_blob_ready \in BOOLEAN /\ g_device_created \in BOOLEAN
      /\ gpu \in [ResIds -> Layer!States] /\ next_res \in 1..(MaxRes + 1)
      /\ mem \in [ResIds -> {0} \cup QueryIds]
      /\ known \in [Cached -> {"untried", "real", "failed"}]
      /\ g_disp_lock \in Threads \cup {NoThread}
      /\ pc \in [Threads -> Steps]
      /\ cur \in [Threads -> [q : {0} \cup QueryIds, ptr : 0..MaxRes]]
      /\ stream \in Seq([q : QueryIds, res : 0..MaxRes]) /\ queries \in Seq(Kinds)
      /\ ran \in SUBSET QueryIds /\ succeeded \in SUBSET QueryIds
      /\ troubled \in SUBSET QueryIds /\ raced \in BOOLEAN /\ failed \in SUBSET ResIds
      /\ \A t \in Threads : pc[t] # "idle" => cur[t].q # 0
      /\ g_disp_lock # NoThread => pc[g_disp_lock] # "idle" /\ Kind(g_disp_lock) = "idle"
  BY DEF TypeOK, Busy
<1>1. ASSUME NEW t \in Threads, Call(t) PROVE TypeOK'
  <2>1. PICK k \in Kinds :
           /\ Start(t, k)
           /\ queries' \in Seq(Kinds) /\ queries'[NewQ] = k
           /\ QueryIds' = QueryIds \cup {NewQ} /\ NewQ \notin QueryIds
           /\ \A q \in QueryIds : queries'[q] = queries[q]
           /\ pc[t] = "idle" /\ cur'[t].q = NewQ /\ cur'[t].ptr = 0
           /\ pc'[t] \in {"clear", "create"}
           /\ \A u \in Threads : u # t => cur'[u] = cur[u] /\ pc'[u] = pc[u]
           /\ \/ UNCHANGED g_disp_lock
              \/ g_disp_lock' = t /\ k = "idle"
           /\ g_device_created' \in BOOLEAN
           /\ UNCHANGED <<known, stream, ran, succeeded, failed, g_reply_blob_ready,
                          gpu, next_res, mem>>
    BY <1>1, Begun
  <2>2. cur' \in [Threads -> [q : {0} \cup QueryIds', ptr : 0..MaxRes]]
    BY <1>a, <2>1 DEF Start, NewQ
  <2>3. pc' \in [Threads -> Steps]
    <3>1. Goto(t, "clear") \/ Goto(t, "create")
      BY <2>1 DEF Start
    <3> QED
      BY <3>1, Typed DEF Goto, Steps, Setup
  <2>4. troubled' \in SUBSET QueryIds'
    <3>1. \A u \in Busy : cur[u].q \in QueryIds
      BY Typed DEF Busy
    <3>2. NewQ \in QueryIds' /\ QueryIds \subseteq QueryIds'
      BY <2>1
    <3>3. troubled' \in {troubled, troubled \cup {NewQ} \cup {cur[u].q : u \in Busy}}
      BY <2>1 DEF Start, NewQ
    <3> QED
      BY <3>1, <3>2, <3>3, Typed
  <2>5. /\ g_reply_blob' \in [res : 0..MaxRes, mapped : BOOLEAN, addr : 0..MaxRes]
        /\ raced' \in BOOLEAN
    <3>1. g_reply_blob' \in {NoBlob, g_reply_blob} /\ raced' \in BOOLEAN
      BY <1>a, <2>1 DEF Start
    <3>2. NoBlob \in [res : 0..MaxRes, mapped : BOOLEAN, addr : 0..MaxRes]
      BY DEF NoBlob, Blob
    <3> QED
      BY <3>1, <3>2, Typed
  <2>6. \A u \in Threads : pc'[u] # "idle" => cur'[u].q # 0
    <3>1. NewQ # 0
      BY Typed DEF NewQ
    <3> QED
      BY <1>a, <2>1, <3>1
  <2>7. ASSUME g_disp_lock' # NoThread
        PROVE  pc'[g_disp_lock'] # "idle" /\ Kind(g_disp_lock)' = "idle"
    <3>1. CASE g_disp_lock' = t /\ k = "idle"
      BY <2>1, <3>1 DEF Kind
    <3>2. CASE UNCHANGED g_disp_lock
      <4>1. g_disp_lock \in Threads /\ g_disp_lock # t
        BY <1>a, <2>1, <2>7, <3>2
      <4>2. cur[g_disp_lock].q \in QueryIds
        BY <1>a, <2>7, <3>2, <4>1, Typed
      <4> QED
        BY <1>a, <2>1, <2>7, <3>2, <4>1, <4>2 DEF Kind
    <3> QED
      BY <2>1, <3>1, <3>2
  <2>8. stream' \in Seq([q : QueryIds', res : 0..MaxRes]) /\ mem' \in [ResIds -> {0} \cup QueryIds']
    <3>1. QueryIds \subseteq QueryIds'
      BY <2>1
    <3>2. [q : QueryIds, res : 0..MaxRes] \subseteq [q : QueryIds', res : 0..MaxRes]
      BY <3>1
    <3>3. stream \in Seq([q : QueryIds', res : 0..MaxRes])
      BY <3>2, Typed, SeqMonotonic
    <3> QED
      BY <1>a, <2>1, <3>1, <3>3
  <2> QED
    BY <1>a, <2>1, <2>2, <2>3, <2>4, <2>5, <2>6, <2>7, <2>8 DEF Busy, TypeOK
<1> DEFINE Blobs == [res : 0..MaxRes, mapped : BOOLEAN, addr : 0..MaxRes]
<1>b. ASSUME CallerTypes', QueryIds' = QueryIds,
             g_reply_blob' \in Blobs, g_reply_blob_ready' \in BOOLEAN,
             gpu' \in [ResIds -> Layer!States], next_res' \in 1..(MaxRes + 1),
             mem' \in [ResIds -> {0} \cup QueryIds],
             stream' \in Seq([q : QueryIds, res : 0..MaxRes]),
             ran' \in SUBSET QueryIds, troubled' \in SUBSET QueryIds,
             raced' \in BOOLEAN, failed' \in SUBSET ResIds
      PROVE  TypeOK'
  BY <1>b DEF CallerTypes, TypeOK
<1>2. ASSUME NEW t \in Threads, CreateBlob(t) PROVE TypeOK'
  <2>1. CASE g_reply_blob.res = 0 /\ Layer!Take /\ g_reply_blob' = Blob(next_res, FALSE, 0)
             /\ Goto(t, "map") /\ UNCHANGED <<callerVars, cur, queries, succeeded, troubled>>
    <3>1. CallerTypes' /\ QueryIds' = QueryIds
      BY <1>2, <2>1, MovedOn DEF CreateBlob, Steps, Setup
    <3>2. g_reply_blob' \in Blobs
      BY <2>1, TakeIs DEF Blob, ResIds
    <3> QED
      BY <1>a, <1>b, <1>2, <2>1, <3>1, <3>2, TakeIs DEF CreateBlob, hostVars
  <2>2. CASE /\ (Layer!Take /\ gpu' = gpu) \/ UNCHANGED <<gpu, next_res>>
             /\ UNCHANGED g_reply_blob /\ Trouble(t) /\ Finish(t, FALSE)
    <3>1. CallerTypes' /\ QueryIds' = QueryIds
      BY <1>2, <2>2, Returned DEF CreateBlob
    <3>2. gpu' \in [ResIds -> Layer!States] /\ next_res' \in 1..(MaxRes + 1)
      BY <1>a, <2>2, TakeIs
    <3>3. troubled' \in SUBSET QueryIds
      BY <1>a, <1>2, <2>2, Typed DEF CreateBlob, Trouble
    <3> QED
      BY <1>a, <1>b, <1>2, <2>2, <3>1, <3>2, <3>3 DEF CreateBlob, hostVars
  <2> QED
    BY <1>2, <2>1, <2>2 DEF CreateBlob
<1>3. ASSUME NEW t \in Threads, MapBlob(t) PROVE TypeOK'
  <2>1. PICK s \in Layer!MapResults(TableState) :
           /\ Moves(s)
           /\ \E done, half \in BOOLEAN :
                /\ g_reply_blob' = IF done THEN Blob(g_reply_blob.res, TRUE, g_reply_blob.res)
                                  ELSE IF half THEN Blob(g_reply_blob.res, TRUE, g_reply_blob.addr)
                                  ELSE g_reply_blob
                /\ half => TableState = "made"
                /\ failed' = IF half THEN failed \cup {g_reply_blob.res} ELSE failed
                /\ IF done THEN Goto(t, "attach") /\ UNCHANGED troubled
                           ELSE Goto(t, "undo_destroy") /\ Trouble(t)
    BY <1>3 DEF MapBlob
  <2>2. CallerTypes' /\ QueryIds' = QueryIds
    BY <1>3, <2>1, MovedOn DEF MapBlob, Steps, Setup
  <2>3. gpu' \in [ResIds -> Layer!States] /\ next_res' \in 1..(MaxRes + 1)
    BY <1>a, <2>1, MovesIs, ResultsAreStates, Typed
  <2>4. troubled' \in SUBSET QueryIds
    BY <1>a, <1>3, <2>1, Typed DEF MapBlob, Trouble
  <2>5. g_reply_blob' \in Blobs /\ failed' \in SUBSET ResIds
    <3>1. TableState = "made" => g_reply_blob.res \in ResIds
      BY Typed DEF TableState, ResIds
    <3> QED
      BY <2>1, <3>1, Typed DEF Blob
  <2> QED
    BY <1>a, <1>b, <1>3, <2>2, <2>3, <2>4, <2>5 DEF MapBlob, hostVars
<1>4. ASSUME NEW t \in Threads, Attach(t) PROVE TypeOK'
  <2>1. CallerTypes' /\ QueryIds' = QueryIds
    BY <1>4, MovedOn DEF Attach, Steps, Setup
  <2>2. troubled' \in SUBSET QueryIds /\ g_reply_blob_ready' \in BOOLEAN
    BY <1>a, <1>4, Typed DEF Attach, Trouble
  <2> QED
    BY <1>a, <1>b, <1>4, <2>1, <2>2 DEF Attach, hostVars
<1>5. ASSUME NEW t \in Threads, UndoUnmap(t) PROVE TypeOK'
  <2>1. PICK s \in Layer!UnmapResults(TableState) :
       /\ Moves(s)
       /\ g_reply_blob' = IF s = "made" /\ TableState # "made"
                          THEN Blob(g_reply_blob.res, FALSE, 0) ELSE g_reply_blob
       /\ failed' = IF s \in {"half", "mapped"} THEN failed \cup {g_reply_blob.res} ELSE failed
    BY <1>5 DEF UndoUnmap
  <2>2. CallerTypes' /\ QueryIds' = QueryIds
    BY <1>5, MovedOn DEF UndoUnmap, Steps, Setup
  <2>3. gpu' \in [ResIds -> Layer!States] /\ next_res' \in 1..(MaxRes + 1)
    BY <1>a, <2>1, MovesIs, ResultsAreStates, Typed
  <2>4. s \in {"half", "mapped"} => g_reply_blob.res \in ResIds
    BY <2>1, Typed DEF TableState, Layer!UnmapResults, ResIds
  <2>5. g_reply_blob' \in Blobs /\ failed' \in SUBSET ResIds
    BY <2>1, <2>4, Typed DEF Blob
  <2> QED
    BY <1>a, <1>b, <1>5, <2>2, <2>3, <2>5 DEF UndoUnmap, hostVars
<1>6. ASSUME NEW t \in Threads, UndoDestroy(t) PROVE TypeOK'
  <2>1. PICK s \in IF g_reply_blob.mapped THEN {TableState} ELSE Layer!DestroyResults(TableState) :
       /\ Moves(s)
       /\ failed' = IF s = "made" /\ ~g_reply_blob.mapped
                    THEN failed \cup {g_reply_blob.res} ELSE failed
    BY <1>6 DEF UndoDestroy
  <2>2. CallerTypes' /\ QueryIds' = QueryIds
    BY <1>6, Returned DEF UndoDestroy
  <2>3. s \in Layer!States
    BY <2>1, ResultsAreStates, Typed
  <2>4. gpu' \in [ResIds -> Layer!States] /\ next_res' \in 1..(MaxRes + 1)
    BY <1>a, <2>1, <2>3, MovesIs
  <2>5. s = "made" /\ ~g_reply_blob.mapped => g_reply_blob.res \in ResIds
    BY <2>1, Typed DEF TableState, Layer!DestroyResults, ResIds
  <2>6. failed' \in SUBSET ResIds /\ g_reply_blob' \in Blobs
    BY <1>a, <1>6, <2>1, <2>5 DEF UndoDestroy, NoBlob, Blob
  <2> QED
    BY <1>a, <1>b, <1>6, <2>2, <2>4, <2>6 DEF UndoDestroy, hostVars
<1>7. ASSUME NEW t \in Threads, Clear(t) PROVE TypeOK'
  <2>1. CallerTypes' /\ QueryIds' = QueryIds
    BY <1>7, MovedOn DEF Clear, Steps
  <2>2. troubled' \in SUBSET QueryIds /\ mem' \in [ResIds -> {0} \cup QueryIds]
    BY <1>a, <1>7, Typed DEF Clear
  <2> QED
    BY <1>a, <1>b, <1>7, <2>1, <2>2 DEF Clear, hostVars, blobVars
<1>8. ASSUME NEW t \in Threads, Submit(t) PROVE TypeOK'
  <2>1. CallerTypes' /\ QueryIds' = QueryIds
    BY <1>8, MovedOn, Returned DEF Submit, Steps
  <2>2. troubled' \in SUBSET QueryIds
    <3>1. troubled' \in {troubled, troubled \cup {cur[t].q}}
      BY <1>8 DEF Submit, Trouble
    <3> QED
      BY <1>8, <3>1, Typed DEF Submit
  <2>3. [q |-> cur[t].q, res |-> g_reply_blob.res] \in [q : QueryIds, res : 0..MaxRes]
    BY <1>8, Typed DEF Submit
  <2>4. stream' \in Seq([q : QueryIds, res : 0..MaxRes])
    <3>1. \/ stream' = stream
          \/ stream' = Append(stream, [q |-> cur[t].q, res |-> g_reply_blob.res])
      BY <1>8 DEF Submit
    <3>2. stream \in Seq([q : QueryIds, res : 0..MaxRes])
      BY Typed
    <3>3. Append(stream, [q |-> cur[t].q, res |-> g_reply_blob.res])
            \in Seq([q : QueryIds, res : 0..MaxRes])
      BY <2>3, <3>2, AppendProperties, Zenon
    <3> QED
      BY <3>1, <3>2, <3>3, Zenon
  <2> QED
    BY <1>a, <1>b, <1>8, <2>1, <2>2, <2>4 DEF Submit, blobVars
<1>9. ASSUME NEW t \in Threads, Look(t) PROVE TypeOK'
  <2>1. CallerTypes' /\ QueryIds' = QueryIds
    BY <1>9, MovedOn, Typed DEF Look, Steps, historyVars
  <2> QED
    BY <1>a, <1>b, <1>9, <2>1 DEF Look, hostVars, blobVars, historyVars
<1>10. ASSUME NEW t \in Threads, Answered(t) \/ GiveUp(t) PROVE TypeOK'
  <2>1. CallerTypes' /\ QueryIds' = QueryIds
    BY <1>10, MovedOn DEF Answered, GiveUp, Steps, historyVars
  <2>2. troubled' \in SUBSET QueryIds
    BY <1>a, <1>10, Typed DEF Answered, GiveUp, Trouble, historyVars
  <2> QED
    BY <1>a, <1>b, <1>10, <2>1, <2>2 DEF Answered, GiveUp, hostVars, blobVars, historyVars
<1>11. ASSUME NEW t \in Threads, Copy(t) PROVE TypeOK'
  <2>1. CallerTypes' /\ QueryIds' = QueryIds
    <3>1. PICK w \in {0, mem[g_reply_blob.addr]} : Finish(t, Accepts(t, w))
      BY <1>11 DEF Copy
    <3>2. Accepts(t, w) \in BOOLEAN
      BY DEF Accepts
    <3> QED
      BY <1>11, <3>1, <3>2, Returned DEF Copy
  <2> QED
    BY <1>a, <1>b, <1>11, <2>1 DEF Copy, hostVars, blobVars
<1>12. ASSUME HostRun PROVE TypeOK'
  <2>1. CallerTypes' /\ QueryIds' = QueryIds
    <3>1. UNCHANGED <<known, g_device_created, g_disp_lock, pc, cur, queries, succeeded>>
      BY <1>12 DEF HostRun, callerVars, historyVars
    <3>2. QueryIds' = QueryIds /\ Kind(g_disp_lock)' = Kind(g_disp_lock)
      BY <3>1 DEF QueryIds, Kind
    <3> QED
      BY <1>a, <3>1, <3>2 DEF CallerTypes, Busy
  <2>2. /\ Head(stream) \in [q : QueryIds, res : 0..MaxRes]
        /\ Tail(stream) \in Seq([q : QueryIds, res : 0..MaxRes])
    <3>1. stream \in Seq([q : QueryIds, res : 0..MaxRes]) /\ stream # <<>>
      BY <1>12, Typed DEF HostRun
    <3> QED
      BY <3>1, HeadTailProperties, Zenon
  <2>3. mem' \in [ResIds -> {0} \cup QueryIds] /\ ran' \in SUBSET QueryIds
    BY <1>a, <1>12, <2>2 DEF HostRun
  <2>4. stream' \in Seq([q : QueryIds, res : 0..MaxRes])
    BY <1>12, <2>2 DEF HostRun
  <2> QED
    BY <1>a, <1>b, <1>12, <2>1, <2>3, <2>4 DEF HostRun, blobVars, historyVars
<1>13. CASE UNCHANGED vars
  BY <1>a, <1>13 DEF TypeOK, vars, blobVars, callerVars, hostVars, historyVars, QueryIds, Busy, Kind
<1> QED
  BY <1>1, <1>2, <1>3, <1>4, <1>5, <1>6, <1>7, <1>8, <1>9, <1>10, <1>11, <1>12, <1>13
     DEF Next, SetupStep, QueryStep

-----------------------------------------------------------------------------
(* The reply blob *)

\* A step of a query under way: what it leaves alone.
LEMMA OwnStep ==
  ASSUME TypeOK, NEW t \in Threads, SetupStep(t) \/ QueryStep(t)
  PROVE  /\ pc[t] # "idle" /\ queries' = queries /\ ran' = ran /\ raced' = raced
         /\ \A u \in Threads : u # t => pc'[u] = pc[u] /\ cur'[u] = cur[u]
         /\ pc'[t] # "idle" => cur'[t].q = cur[t].q
         /\ troubled \subseteq troubled'
<1>1. pc[t] # "idle" /\ ran' = ran /\ raced' = raced
  BY DEF SetupStep, QueryStep, CreateBlob, MapBlob, Attach, UndoUnmap, UndoDestroy,
         Clear, Submit, Look, Answered, GiveUp, Copy, hostVars, historyVars
<1>2. troubled' = troubled \/ Trouble(t)
  BY DEF SetupStep, QueryStep, CreateBlob, MapBlob, Attach, UndoUnmap, UndoDestroy,
         Clear, Submit, Look, Answered, GiveUp, Copy, hostVars, historyVars, Trouble
<1>3. \/ \E ok \in BOOLEAN : Finish(t, ok)
      \/ /\ \E step \in Steps \ {"idle"} : Goto(t, step)
         /\ UNCHANGED <<callerVars, queries, succeeded>>
         /\ UNCHANGED cur \/ \E a \in 0..MaxRes : cur' = [cur EXCEPT ![t] = [q |-> cur[t].q, ptr |-> a]]
  <2>1. CASE SetupStep(t)
    BY <2>1 DEF SetupStep, CreateBlob, MapBlob, Attach, UndoUnmap, UndoDestroy, Steps, Setup
  <2>2. CASE Clear(t) \/ Submit(t) \/ Answered(t) \/ GiveUp(t)
    BY <2>2 DEF Clear, Submit, Answered, GiveUp, historyVars, Steps
  <2>3. CASE Look(t)
    BY <2>3, Typed DEF Look, historyVars, Steps
  <2>4. CASE Copy(t)
    <3>1. \E w \in {0, mem[g_reply_blob.addr]} : Finish(t, Accepts(t, w))
      BY <2>4 DEF Copy
    <3>2. \A w : Accepts(t, w) \in BOOLEAN
      BY DEF Accepts
    <3> QED
      BY <3>1, <3>2
  <2> QED
    BY <2>1, <2>2, <2>3, <2>4 DEF QueryStep
<1>4. CASE \E ok \in BOOLEAN : Finish(t, ok)
  <2>1. PICK ok \in BOOLEAN : Finish(t, ok)
    BY <1>4
  <2> QED
    BY <1>1, <1>2, <2>1, Finished DEF Trouble
<1>5. CASE /\ \E step \in Steps \ {"idle"} : Goto(t, step)
           /\ UNCHANGED <<callerVars, queries, succeeded>>
           /\ UNCHANGED cur \/ \E a \in 0..MaxRes : cur' = [cur EXCEPT ![t] = [q |-> cur[t].q, ptr |-> a]]
  <2>1. PICK step \in Steps \ {"idle"} : Goto(t, step)
    BY <1>5
  <2> QED
    BY <1>1, <1>2, <1>5, <2>1, MovedOn DEF Trouble
<1> QED
  BY <1>3, <1>4, <1>5

\* What holds of the blob whoever makes it.
LEMMA NextAnyway ==
  ASSUME TypeOK, TypeOK', FreshIds, MemIsRun, ReadyInside, [Next]_vars
  PROVE  FreshIds' /\ MemIsRun' /\ ReadyInside'
<1> USE VenusQueryAssumption
<1>1. ASSUME NEW t \in Threads, Call(t) PROVE FreshIds' /\ MemIsRun' /\ ReadyInside'
  <2>1. UNCHANGED <<gpu, next_res, mem, ran, g_reply_blob_ready>>
    BY <1>1, Begun
  <2>2. \A u \in Threads : u # t => pc'[u] = pc[u]
    BY <1>1, Begun
  <2>3. pc'[t] \in RoundTrip => g_reply_blob_ready
    BY <1>1, Typed, Begun DEF Start, Goto, RoundTrip
  <2> QED
    BY <2>1, <2>2, <2>3 DEF FreshIds, MemIsRun, ReadyInside
<1>2. ASSUME NEW t \in Threads, SetupStep(t) PROVE FreshIds' /\ MemIsRun' /\ ReadyInside'
  <2>1. UNCHANGED <<mem, ran>> /\ \A u \in Threads : u # t => pc'[u] = pc[u]
    BY <1>2, OwnStep DEF SetupStep, CreateBlob, MapBlob, Attach, UndoUnmap, UndoDestroy
  <2>2. pc'[t] \in RoundTrip => g_reply_blob_ready'
    BY <1>2, Typed, Finished DEF SetupStep, CreateBlob, MapBlob, Attach, UndoUnmap, UndoDestroy,
                                 Goto, RoundTrip
  <2>3. g_reply_blob_ready => g_reply_blob_ready'
    BY <1>2 DEF SetupStep, CreateBlob, MapBlob, Attach, UndoUnmap, UndoDestroy
  <2>4. FreshIds'
    <3>1. CASE CreateBlob(t)
      <4>1. UNCHANGED <<gpu, next_res>> \/ Layer!Take
        BY <3>1 DEF CreateBlob
      <4>2. ASSUME Layer!Take PROVE FreshIds'
        <5>1. \A r \in ResIds : r # next_res => gpu'[r] = gpu[r]
          BY <4>2, TakeIs
        <5>2. next_res' = next_res + 1 /\ next_res \in Nat
          BY <4>2, TakeIs, VenusQueryAssumption DEF ResIds
        <5> QED
          BY <5>1, <5>2 DEF FreshIds, ResIds
      <4> QED
        BY <4>1, <4>2 DEF FreshIds
    <3>2. CASE Attach(t)
      BY <3>2 DEF Attach, FreshIds
    <3>3. CASE MapBlob(t) \/ UndoUnmap(t) \/ UndoDestroy(t)
      <4>1. PICK s : /\ Moves(s)
                     /\ s \in Layer!MapResults(TableState) \cup Layer!UnmapResults(TableState)
                                \cup Layer!DestroyResults(TableState) \cup {TableState}
        BY <3>3 DEF MapBlob, UndoUnmap, UndoDestroy
      <4>2. s \in Layer!States
        BY <4>1, ResultsAreStates, Typed
      <4>3. TableState = "none" => s = "none"
        BY <4>1 DEF Layer!MapResults, Layer!UnmapResults, Layer!DestroyResults
      <4>4. g_reply_blob.res # 0 => TableState = gpu[g_reply_blob.res]
        BY DEF TableState
      <4> QED
        BY <4>1, <4>2, <4>3, <4>4, MovesIs, Typed DEF FreshIds, ResIds
    <3> QED
      BY <1>2, <3>1, <3>2, <3>3 DEF SetupStep
  <2> QED
    BY <2>1, <2>2, <2>3, <2>4 DEF MemIsRun, ReadyInside
<1>3. ASSUME NEW t \in Threads, QueryStep(t) PROVE FreshIds' /\ MemIsRun' /\ ReadyInside'
  <2>1. /\ UNCHANGED <<gpu, next_res, g_reply_blob_ready, ran>>
        /\ \A u \in Threads : u # t => pc'[u] = pc[u]
    BY <1>3, OwnStep DEF QueryStep, Clear, Submit, Look, Answered, GiveUp, Copy, blobVars
  <2>2. pc[t] \in RoundTrip
    BY <1>3 DEF QueryStep, Clear, Submit, Look, Answered, GiveUp, Copy, RoundTrip
  <2>3. mem' = mem \/ \E r \in ResIds : mem' = [mem EXCEPT ![r] = 0]
    <3>1. CASE Clear(t)
      <4>1. mem' = IF g_reply_blob.addr = 0 THEN mem ELSE [mem EXCEPT ![g_reply_blob.addr] = 0]
        BY <3>1 DEF Clear
      <4>2. g_reply_blob.addr # 0 => g_reply_blob.addr \in ResIds
        BY Typed DEF ResIds
      <4> QED
        BY <4>1, <4>2
    <3>2. CASE Submit(t) \/ Look(t) \/ Answered(t) \/ GiveUp(t) \/ Copy(t)
      BY <3>2 DEF Submit, Look, Answered, GiveUp, Copy
    <3> QED
      BY <1>3, <3>1, <3>2 DEF QueryStep
  <2>4. MemIsRun'
    <3>1. \A r \in ResIds : mem'[r] \in {0, mem[r]}
      BY <2>3 DEF TypeOK
    <3> QED
      BY <2>1, <3>1 DEF MemIsRun
  <2> QED
    BY <2>1, <2>2, <2>4 DEF FreshIds, ReadyInside
<1>4. ASSUME HostRun PROVE FreshIds' /\ MemIsRun' /\ ReadyInside'
  <2>1. UNCHANGED <<gpu, next_res, g_reply_blob_ready, pc>>
    BY <1>4 DEF HostRun, blobVars
  <2>2. \E r, q : mem' = [mem EXCEPT ![r] = q] /\ ran' = ran \cup {q}
    BY <1>4 DEF HostRun
  <2> QED
    BY <2>1, <2>2 DEF FreshIds, MemIsRun, ReadyInside, TypeOK
<1>5. CASE UNCHANGED vars
  BY <1>5 DEF vars, blobVars, hostVars, FreshIds, MemIsRun, ReadyInside
<1> QED
  BY <1>1, <1>2, <1>3, <1>4, <1>5 DEF Next

\* The object and its entry, while no two threads have made the blob at once.
Shapes == OneSetup /\ SetupShape /\ RestShape /\ SetupLeavesNothing

\* A thread that makes the blob does so alone.
LEMMA SetupAlone ==
  ASSUME OneSetup, SetupShape, NEW t \in Threads, pc[t] \in Setup
  PROVE  /\ ~g_reply_blob_ready
         /\ \A u \in Threads : u # t => pc[u] \notin Setup
  BY DEF OneSetup

\* It stays alone whatever its next step, as long as the others stay where they are.
LEMMA ShapesFrom ==
  ASSUME TypeOK, TypeOK', NEW t \in Threads,
         \A u \in Threads : u # t => pc'[u] \notin Setup,
         pc'[t] \in Setup => ~g_reply_blob_ready',
         pc'[t] = "create" => g_reply_blob' = NoBlob,
         pc'[t] = "map" => /\ g_reply_blob'.res # 0 /\ gpu'[g_reply_blob'.res] = "made"
                           /\ ~g_reply_blob'.mapped /\ g_reply_blob'.addr = 0,
         pc'[t] \in {"attach", "undo_unmap"} =>
           /\ g_reply_blob'.res # 0 /\ gpu'[g_reply_blob'.res] = "mapped"
           /\ g_reply_blob'.mapped /\ g_reply_blob'.addr = g_reply_blob'.res,
         pc'[t] = "undo_destroy" =>
           /\ g_reply_blob'.res # 0
           /\ IF g_reply_blob'.mapped THEN g_reply_blob'.res \in failed'
                                      ELSE gpu'[g_reply_blob'.res] = "made",
         pc'[t] \notin Setup =>
           IF g_reply_blob_ready'
           THEN g_reply_blob'.res # 0 /\ g_reply_blob'.addr = g_reply_blob'.res
           ELSE g_reply_blob' = NoBlob
  PROVE  OneSetup' /\ SetupShape' /\ RestShape'
<1>1. OneSetup'
  BY DEF OneSetup
<1>2. SetupShape'
  BY DEF SetupShape, Setup
<1>3. RestShape'
  <2>1. CASE pc'[t] \in Setup
    BY <2>1 DEF RestShape
  <2>2. CASE pc'[t] \notin Setup
    BY <2>2 DEF RestShape
  <2> QED
    BY <2>1, <2>2
<1> QED
  BY <1>1, <1>2, <1>3

\* A query begins.
LEMMA CallShapes ==
  ASSUME TypeOK, TypeOK', Shapes, ~raced', NEW t \in Threads, Call(t)
  PROVE  Shapes'
<1>1. PICK k \in Kinds : Start(t, k)
  BY Begun
<1>2. /\ pc[t] = "idle" /\ UNCHANGED <<gpu, failed, g_reply_blob_ready>>
      /\ \A u \in Threads : u # t => pc'[u] = pc[u]
  BY Begun
<1>3. CASE g_reply_blob_ready
  <2>1. pc'[t] = "clear" /\ UNCHANGED <<g_reply_blob, raced>>
    BY <1>1, <1>3, Typed DEF Start, Goto
  <2>2. \A u \in Threads : pc[u] \notin Setup /\ pc'[u] \notin Setup
    BY <1>2, <1>3, <2>1 DEF Shapes, OneSetup, Setup
  <2>3. g_reply_blob.res # 0 /\ g_reply_blob.addr = g_reply_blob.res
    BY <1>3 DEF Shapes, RestShape
  <2>4. OneSetup' /\ SetupShape' /\ RestShape'
    BY <1>2, <1>3, <2>1, <2>2, <2>3, ShapesFrom DEF Setup
  <2> QED
    BY <1>2, <2>1, <2>4 DEF Shapes, SetupLeavesNothing
<1>4. CASE ~g_reply_blob_ready
  <2>1. /\ pc'[t] = "create" /\ g_reply_blob' = NoBlob
        /\ ~raced /\ \A u \in Threads : pc[u] \notin Setup
    <3>1. raced' = (raced \/ \E u \in Threads : pc[u] \in Setup)
      BY <1>1, <1>4, Zenon DEF Start
    <3>2. Goto(t, "create") /\ g_reply_blob' = NoBlob
      BY <1>1, <1>4, Zenon DEF Start
    <3> QED
      BY <3>1, <3>2, Typed DEF Goto
  <2>2. g_reply_blob = NoBlob
    BY <1>4, <2>1 DEF Shapes, RestShape
  <2>3. OneSetup' /\ SetupShape' /\ RestShape'
    BY <1>2, <1>4, <2>1, ShapesFrom DEF Setup
  <2> QED
    BY <1>2, <2>1, <2>2, <2>3 DEF Shapes, SetupLeavesNothing
<1> QED
  BY <1>3, <1>4

\* A step of making the blob.
LEMMA SetupShapes ==
  ASSUME TypeOK, TypeOK', FreshIds, Shapes, NEW t \in Threads, SetupStep(t)
  PROVE  Shapes'
<1>1. pc[t] \in Setup
  BY DEF SetupStep, CreateBlob, MapBlob, Attach, UndoUnmap, UndoDestroy, Setup
<1>2. ~g_reply_blob_ready /\ \A u \in Threads : u # t => pc'[u] \notin Setup
  BY <1>1, SetupAlone, OwnStep DEF Shapes
<1>3. ASSUME OneSetup' /\ SetupShape' /\ RestShape', SetupLeavesNothing' PROVE Shapes'
  BY <1>3 DEF Shapes
<1>4. CASE CreateBlob(t)
  <2>1. g_reply_blob = NoBlob /\ pc[t] = "create"
    BY <1>4 DEF CreateBlob, Shapes, SetupShape
  <2>2. \A r \in ResIds : raced \/ gpu[r] = "none" \/ r \in failed
    BY <2>1 DEF Shapes, SetupLeavesNothing, NoBlob, Blob, ResIds
  <2>3. UNCHANGED <<g_reply_blob_ready, raced, failed>>
    BY <1>4 DEF CreateBlob
  <2>4. CASE Layer!Take /\ gpu'[next_res] = "made" /\ g_reply_blob' = Blob(next_res, FALSE, 0)
             /\ Goto(t, "map")
    <3>1. g_reply_blob'.res = next_res /\ ~g_reply_blob'.mapped /\ g_reply_blob'.addr = 0
      BY <2>4 DEF Blob
    <3>2. next_res # 0 /\ \A r \in ResIds : r # next_res => gpu'[r] = gpu[r]
      BY <2>4, TakeIs DEF ResIds
    <3>3. pc'[t] = "map"
      BY <2>4, Typed DEF Goto
    <3>4. OneSetup' /\ SetupShape' /\ RestShape'
      BY <1>2, <2>3, <2>4, <3>1, <3>2, <3>3, ShapesFrom DEF Setup
    <3>5. SetupLeavesNothing'
      BY <2>2, <2>3, <3>1, <3>2 DEF SetupLeavesNothing
    <3> QED
      BY <1>3, <3>4, <3>5
  <2>5. CASE /\ (Layer!Take /\ gpu' = gpu) \/ UNCHANGED <<gpu, next_res>>
             /\ UNCHANGED g_reply_blob /\ Finish(t, FALSE)
    <3>1. gpu' = gpu /\ pc'[t] = "idle" /\ g_reply_blob' = NoBlob
      BY <2>1, <2>5, Finished
    <3>2. OneSetup' /\ SetupShape' /\ RestShape'
      BY <1>2, <2>3, <3>1, ShapesFrom DEF Setup
    <3>3. SetupLeavesNothing'
      BY <2>2, <2>3, <3>1 DEF SetupLeavesNothing
    <3> QED
      BY <1>3, <3>2, <3>3
  <2> QED
    BY <1>4, <2>4, <2>5 DEF CreateBlob
<1>5. ASSUME MapBlob(t) \/ UndoUnmap(t) \/ UndoDestroy(t), NEW s \in Layer!States, Moves(s),
             failed \subseteq failed',
             \/ g_reply_blob'.res = g_reply_blob.res
             \/ s = "none"
             \/ g_reply_blob.res \in failed'
      PROVE  SetupLeavesNothing'
  <2>1. raced' = raced
    BY <1>5 DEF MapBlob, UndoUnmap, UndoDestroy
  <2>2. /\ g_reply_blob.res # 0 => gpu'[g_reply_blob.res] = s
        /\ \A r \in ResIds : r # g_reply_blob.res => gpu'[r] = gpu[r]
    BY <1>5, MovesIs
  <2> QED
    BY <1>5, <2>1, <2>2 DEF Shapes, SetupLeavesNothing, ResIds
<1>6. CASE MapBlob(t)
  <2>1. /\ g_reply_blob.res # 0 /\ gpu[g_reply_blob.res] = "made" /\ TableState = "made"
        /\ ~g_reply_blob.mapped /\ g_reply_blob.addr = 0
    BY <1>6 DEF MapBlob, Shapes, SetupShape, TableState
  <2>2. PICK s \in {"made", "half", "mapped"} :
           /\ Moves(s)
           /\ g_reply_blob' = IF s = "mapped" THEN Blob(g_reply_blob.res, TRUE, g_reply_blob.res)
                              ELSE IF s = "half" THEN Blob(g_reply_blob.res, TRUE, g_reply_blob.addr)
                              ELSE g_reply_blob
           /\ failed' = IF s = "half" THEN failed \cup {g_reply_blob.res} ELSE failed
           /\ IF s = "mapped" THEN Goto(t, "attach") ELSE Goto(t, "undo_destroy")
    BY <1>6, <2>1 DEF MapBlob, Layer!MapResults
  <2>3. s \in Layer!States
    BY <2>2 DEF Layer!States
  <2>4. gpu'[g_reply_blob.res] = s
    BY <2>1, <2>2, <2>3, MovesIs
  <2>5. /\ s = "mapped" => pc'[t] = "attach"
        /\ s # "mapped" => pc'[t] = "undo_destroy"
    BY <2>2, Typed DEF Goto
  <2>6. g_reply_blob'.res = g_reply_blob.res
    BY <2>2 DEF Blob
  <2>7. /\ s = "mapped" => g_reply_blob'.mapped /\ g_reply_blob'.addr = g_reply_blob.res
        /\ s = "half" => g_reply_blob'.mapped /\ g_reply_blob.res \in failed'
        /\ s = "made" => ~g_reply_blob'.mapped
    BY <2>1, <2>2 DEF Blob
  <2>8. SetupLeavesNothing'
    BY <1>5, <1>6, <2>2, <2>3, <2>6
  <2>9. g_reply_blob_ready' = g_reply_blob_ready
    BY <1>6 DEF MapBlob
  <2>10. OneSetup' /\ SetupShape' /\ RestShape'
    BY <1>2, <2>1, <2>2, <2>4, <2>5, <2>6, <2>7, <2>9, ShapesFrom DEF Setup
  <2> QED
    BY <1>3, <2>8, <2>10
<1>7. CASE Attach(t)
  <2>1. /\ g_reply_blob.res # 0 /\ gpu[g_reply_blob.res] = "mapped"
        /\ g_reply_blob.mapped /\ g_reply_blob.addr = g_reply_blob.res
    BY <1>7 DEF Attach, Shapes, SetupShape
  <2>2. UNCHANGED <<g_reply_blob, gpu, failed, raced>>
    BY <1>7 DEF Attach
  <2>3. \/ g_reply_blob_ready' = TRUE /\ pc'[t] = "clear"
        \/ UNCHANGED g_reply_blob_ready /\ pc'[t] = "undo_unmap"
    BY <1>7, Typed DEF Attach, Goto
  <2>4. OneSetup' /\ SetupShape' /\ RestShape'
    BY <1>2, <2>1, <2>2, <2>3, ShapesFrom DEF Setup
  <2>5. SetupLeavesNothing'
    BY <2>2 DEF Shapes, SetupLeavesNothing
  <2> QED
    BY <1>3, <2>4, <2>5
<1>8. CASE UndoUnmap(t)
  <2>1. /\ g_reply_blob.res # 0 /\ gpu[g_reply_blob.res] = "mapped" /\ TableState = "mapped"
        /\ g_reply_blob.mapped
    BY <1>8 DEF UndoUnmap, Shapes, SetupShape, TableState
  <2>2. PICK s \in {"mapped", "made"} :
           /\ Moves(s)
           /\ g_reply_blob' = IF s = "made" THEN Blob(g_reply_blob.res, FALSE, 0) ELSE g_reply_blob
           /\ failed' = IF s = "mapped" THEN failed \cup {g_reply_blob.res} ELSE failed
    BY <1>8, <2>1 DEF UndoUnmap, Layer!UnmapResults
  <2>3. s \in Layer!States
    BY <2>2 DEF Layer!States
  <2>4. gpu'[g_reply_blob.res] = s
    BY <2>1, <2>2, <2>3, MovesIs
  <2>5. pc'[t] = "undo_destroy" /\ g_reply_blob_ready' = g_reply_blob_ready
    BY <1>8, Typed DEF UndoUnmap, Goto
  <2>6. g_reply_blob'.res = g_reply_blob.res
    BY <2>2 DEF Blob
  <2>7. /\ s = "mapped" => g_reply_blob'.mapped /\ g_reply_blob.res \in failed'
        /\ s = "made" => ~g_reply_blob'.mapped
    BY <2>1, <2>2 DEF Blob
  <2>8. SetupLeavesNothing'
    BY <1>5, <1>8, <2>2, <2>3, <2>6
  <2>9. OneSetup' /\ SetupShape' /\ RestShape'
    BY <1>2, <2>1, <2>2, <2>4, <2>5, <2>6, <2>7, ShapesFrom DEF Setup
  <2> QED
    BY <1>3, <2>8, <2>9
<1>9. CASE UndoDestroy(t)
  <2>1. /\ g_reply_blob.res # 0
        /\ IF g_reply_blob.mapped THEN g_reply_blob.res \in failed
                                  ELSE gpu[g_reply_blob.res] = "made"
    BY <1>9 DEF UndoDestroy, Shapes, SetupShape
  <2>2. PICK s \in IF g_reply_blob.mapped THEN {TableState} ELSE Layer!DestroyResults(TableState) :
           /\ Moves(s)
           /\ failed' = IF s = "made" /\ ~g_reply_blob.mapped
                        THEN failed \cup {g_reply_blob.res} ELSE failed
    BY <1>9 DEF UndoDestroy
  <2>3. s \in Layer!States
    BY <2>2, Typed, ResultsAreStates
  <2>4. g_reply_blob.res \in failed' \/ s = "none"
    BY <2>1, <2>2 DEF TableState, Layer!DestroyResults
  <2>5. SetupLeavesNothing'
    BY <1>5, <1>9, <2>2, <2>3, <2>4
  <2>6. pc'[t] = "idle" /\ g_reply_blob' = NoBlob /\ g_reply_blob_ready' = g_reply_blob_ready
    BY <1>9, Finished DEF UndoDestroy
  <2>7. OneSetup' /\ SetupShape' /\ RestShape'
    BY <1>2, <2>6, ShapesFrom DEF Setup
  <2> QED
    BY <1>3, <2>5, <2>7
<1> QED
  BY <1>4, <1>6, <1>7, <1>8, <1>9 DEF SetupStep

\* Every step keeps what is known of the blob.
LEMMA NextBlobInv ==
  ASSUME TypeOK, TypeOK', BlobInv, [Next]_vars
  PROVE  BlobInv'
<1>1. FreshIds' /\ MemIsRun' /\ ReadyInside'
  BY NextAnyway DEF BlobInv
<1>2. ASSUME ~raced' PROVE Shapes'
  <2>1. ~raced
    <3>1. CASE \E t \in Threads : Call(t)
      <4>1. PICK t \in Threads : Call(t)
        BY <3>1
      <4>2. raced' = raced \/ raced' = (raced \/ \E u \in Threads : pc[u] \in Setup)
        BY <4>1, Zenon DEF Call, GetProperties, CreateDevice, Barrier, Start
      <4> QED
        BY <1>2, <4>2
    <3>2. CASE \E t \in Threads : SetupStep(t) \/ QueryStep(t)
      BY <1>2, <3>2, OwnStep
    <3>3. CASE HostRun \/ UNCHANGED vars
      BY <1>2, <3>3 DEF HostRun, vars, historyVars
    <3> QED
      BY <3>1, <3>2, <3>3 DEF Next
  <2>2. FreshIds /\ Shapes
    BY <2>1 DEF BlobInv, Shapes
  <2>3. CASE \E t \in Threads : Call(t)
    BY <1>2, <2>2, <2>3, CallShapes
  <2>4. CASE \E t \in Threads : SetupStep(t)
    BY <2>2, <2>4, SetupShapes
  <2>5. ASSUME NEW t \in Threads, QueryStep(t) PROVE Shapes'
    <3>1. /\ UNCHANGED <<g_reply_blob, g_reply_blob_ready, gpu, failed, raced>>
          /\ \A u \in Threads : u # t => pc'[u] = pc[u]
      BY <2>5, OwnStep DEF QueryStep, Clear, Submit, Look, Answered, GiveUp, Copy,
                           blobVars, historyVars
    <3>2. pc[t] \notin Setup /\ pc'[t] \notin Setup
      BY <2>5, Typed, Finished DEF QueryStep, Clear, Submit, Look, Answered, GiveUp, Copy,
                                   Goto, Finish, Setup
    <3>3. \A u \in Threads : pc[u] \in Setup <=> pc'[u] \in Setup
      BY <3>1, <3>2
    <3>4. OneSetup'
      BY <2>2, <3>1, <3>3 DEF Shapes, OneSetup
    <3>5. SetupShape'
      BY <2>2, <3>1, <3>2 DEF Shapes, SetupShape, Setup
    <3>6. RestShape'
      BY <2>2, <3>1, <3>3 DEF Shapes, RestShape
    <3> QED
      BY <2>2, <3>1, <3>4, <3>5, <3>6 DEF Shapes, SetupLeavesNothing
  <2>6. CASE HostRun \/ UNCHANGED vars
    <3>1. UNCHANGED <<g_reply_blob, g_reply_blob_ready, gpu, failed, raced, pc>>
      BY <2>6 DEF HostRun, vars, blobVars, historyVars
    <3> QED
      BY <2>2, <3>1 DEF Shapes, OneSetup, SetupShape, RestShape, SetupLeavesNothing
  <2> QED
    BY <2>3, <2>4, <2>5, <2>6 DEF Next
<1> QED
  BY <1>1, <1>2 DEF BlobInv, Shapes

-----------------------------------------------------------------------------
(* A query that nothing troubles *)

\* What CalmInv says of one thread.
CalmAt(t) ==
  Calm(t) =>
    /\ \A u \in Threads : u # t => pc[u] = "idle"
    /\ pc[t] \in {"submit", "look", "poll", "copy"} => ~raced
    /\ pc[t] = "submit" => stream = <<>> /\ mem[g_reply_blob.addr] = 0
    /\ pc[t] \in {"look", "poll", "copy"} =>
         \/ stream = <<>> /\ mem[g_reply_blob.addr] = cur[t].q
         \/ /\ stream = <<[q |-> cur[t].q, res |-> g_reply_blob.res]>>
            /\ mem[g_reply_blob.addr] = 0
    /\ pc[t] = "poll" => cur[t].ptr = g_reply_blob.addr
    /\ pc[t] = "copy" => mem[g_reply_blob.addr] = cur[t].q

\* CalmInv, thread by thread.
CalmThreads == UndoIsTrouble /\ \A t \in Threads : CalmAt(t)
LEMMA CalmByThread == (CalmInv => CalmThreads) /\ (CalmThreads' => CalmInv')
<1>1. ASSUME CalmThreads' PROVE CalmInv'
  <2> USE DEF CalmThreads
  <2>1. Alone'
    BY <1>1 DEF Alone, CalmAt
  <2>2. OwnStream'
    BY <1>1 DEF OwnStream, CalmAt
  <2>3. OwnReply'
    BY <1>1 DEF OwnReply, CalmAt
  <2> QED
    BY <1>1, <2>1, <2>2, <2>3 DEF CalmInv
<1> QED
  BY <1>1 DEF CalmInv, Alone, OwnStream, OwnReply, CalmAt, CalmThreads

\* The blob of a query that is past its set-up.
LEMMA BlobOfQuery ==
  ASSUME TypeOK, BlobInv, ~raced, NEW t \in Threads, pc[t] \in RoundTrip
  PROVE  /\ g_reply_blob.addr = g_reply_blob.res /\ g_reply_blob.addr # 0
         /\ g_reply_blob.addr \in ResIds
<1>1. g_reply_blob_ready /\ g_reply_blob.res # 0 /\ g_reply_blob.addr = g_reply_blob.res
  BY DEF BlobInv, ReadyInside, RestShape
<1> QED
  BY <1>1, Typed DEF ResIds

\* The step of a calm thread leaves what is said of it true.
LEMMA CalmStep ==
  ASSUME TypeOK, TypeOK', BlobInv, NEW t \in Threads, CalmAt(t), SetupStep(t) \/ QueryStep(t)
  PROVE  CalmAt(t)'
<1> SUFFICES ASSUME pc'[t] # "idle", cur'[t].q \notin troubled' PROVE CalmAt(t)'
  BY DEF CalmAt, Calm
<1>1. /\ pc[t] # "idle" /\ cur'[t].q = cur[t].q /\ cur[t].q \notin troubled /\ Calm(t)
      /\ raced' = raced /\ cur[t].q # 0
  BY OwnStep, Typed DEF Calm
<1>2. \A u \in Threads : u # t => pc'[u] = "idle"
  BY <1>1, OwnStep DEF CalmAt
<1>3. ASSUME pc'[t] \notin {"submit", "look", "poll", "copy"} PROVE CalmAt(t)'
  BY <1>2, <1>3 DEF CalmAt
<1>4. CASE SetupStep(t)
  <2>1. pc'[t] \in Setup \cup {"clear", "idle"}
    BY <1>4, Typed, Finished DEF SetupStep, CreateBlob, MapBlob, Attach, UndoUnmap, UndoDestroy,
                                 Goto, Setup
  <2> QED
    BY <1>3, <2>1 DEF Setup
<1>5. CASE Clear(t)
  <2>1. /\ pc[t] = "clear" /\ UNCHANGED <<g_reply_blob, stream>>
        /\ mem' = IF g_reply_blob.addr = 0 THEN mem ELSE [mem EXCEPT ![g_reply_blob.addr] = 0]
        /\ troubled' = IF stream # <<>> \/ raced THEN troubled \cup {cur[t].q} ELSE troubled
    BY <1>5 DEF Clear, blobVars, hostVars
  <2>2. pc'[t] = "submit"
    BY <1>5, Typed DEF Clear, Goto
  <2>3. stream = <<>> /\ ~raced
    BY <1>1, <2>1
  <2>4. g_reply_blob.addr # 0 /\ g_reply_blob.addr \in ResIds
    BY <2>1, <2>3, BlobOfQuery DEF RoundTrip
  <2>5. mem'[g_reply_blob.addr] = 0
    BY <2>1, <2>4 DEF TypeOK
  <2> QED
    BY <1>1, <1>2, <2>1, <2>2, <2>3, <2>5 DEF CalmAt
<1>6. CASE Submit(t)
  <2>1. pc[t] = "submit" /\ stream = <<>> /\ mem[g_reply_blob.addr] = 0 /\ ~raced
    BY <1>1, <1>6 DEF Submit, CalmAt
  <2>2. /\ UNCHANGED <<g_reply_blob, mem>>
        /\ \/ /\ Goto(t, "look")
              /\ stream' = Append(stream, [q |-> cur[t].q, res |-> g_reply_blob.res])
           \/ Finish(t, FALSE)
    BY <1>6 DEF Submit, blobVars
  <2>3. ~Finish(t, FALSE)
    BY <1>1, Finished
  <2>4. pc'[t] = "look"
    BY <2>2, <2>3, Typed DEF Goto
  <2>5. stream' = <<[q |-> cur[t].q, res |-> g_reply_blob.res]>>
    <3>1. \A e : Append(<<>>, e) = <<e>>
      OBVIOUS
    <3> QED
      BY <2>1, <2>2, <2>3, <3>1, Zenon
  <2> QED
    BY <1>1, <1>2, <2>1, <2>2, <2>4, <2>5 DEF CalmAt
<1>7. CASE Look(t)
  <2>1. /\ pc[t] = "look" /\ UNCHANGED <<g_reply_blob, mem, stream, raced>>
        /\ cur' = [cur EXCEPT ![t] = [q |-> cur[t].q, ptr |-> g_reply_blob.addr]]
    BY <1>7 DEF Look, blobVars, hostVars, historyVars
  <2>2. pc'[t] = "poll"
    BY <1>7, Typed DEF Look, Goto
  <2>3. cur'[t] = [q |-> cur[t].q, ptr |-> g_reply_blob.addr]
    BY <2>1 DEF TypeOK
  <2>4. cur'[t].ptr = g_reply_blob.addr
    BY <2>3
  <2> QED
    BY <1>1, <1>2, <2>1, <2>2, <2>4 DEF CalmAt
<1>8. CASE Answered(t)
  <2>1. pc[t] = "poll" /\ UNCHANGED <<g_reply_blob, mem, stream, raced, cur>> /\ Landed(t)
    BY <1>8 DEF Answered, blobVars, hostVars, historyVars
  <2>2. pc'[t] = "copy"
    BY <1>8, Typed DEF Answered, Goto
  <2>3. ~raced /\ cur[t].ptr = g_reply_blob.addr
    BY <1>1, <2>1 DEF CalmAt
  <2>4. g_reply_blob.addr # 0
    BY <2>1, <2>3, BlobOfQuery DEF RoundTrip
  <2>5. mem[g_reply_blob.addr] # 0
    BY <2>1, <2>3, <2>4 DEF Landed, Words
  <2>6. stream = <<>> /\ mem[g_reply_blob.addr] = cur[t].q
    BY <1>1, <2>1, <2>5 DEF CalmAt
  <2> QED
    BY <1>1, <1>2, <2>1, <2>2, <2>3, <2>6 DEF CalmAt
<1>9. CASE GiveUp(t)
  BY <1>1, <1>9 DEF GiveUp, Trouble
<1>10. CASE Copy(t)
  <2>1. \E w \in {0, mem[g_reply_blob.addr]} : Finish(t, Accepts(t, w))
    BY <1>10 DEF Copy
  <2>2. \A w : Accepts(t, w) \in BOOLEAN
    BY DEF Accepts
  <2> QED
    BY <1>1, <2>1, <2>2, Finished
<1> QED
  BY <1>4, <1>5, <1>6, <1>7, <1>8, <1>9, <1>10 DEF QueryStep

\* The host's answer to a calm query lands in the blob it looks at.
LEMMA CalmHost ==
  ASSUME TypeOK, BlobInv, NEW t \in Threads, CalmAt(t), HostRun
  PROVE  CalmAt(t)'
<1> SUFFICES ASSUME Calm(t) PROVE CalmAt(t)'
  BY DEF HostRun, historyVars, CalmAt, Calm
<1>1. /\ UNCHANGED <<g_reply_blob, pc, cur, troubled, raced>>
      /\ stream # <<>> /\ stream' = Tail(stream)
      /\ mem' = [mem EXCEPT ![Head(stream).res] = Head(stream).q]
  BY DEF HostRun, blobVars, historyVars
<1>2. \A u \in Threads : u # t => pc[u] = "idle"
  BY DEF CalmAt
<1>3. CASE pc[t] \notin {"submit", "look", "poll", "copy"}
  BY <1>1, <1>2, <1>3 DEF CalmAt
<1>4. CASE pc[t] \in {"submit", "look", "poll", "copy"}
  <2>1. ~raced /\ cur[t].q # 0
    BY <1>4, Typed DEF CalmAt, Calm
  <2>2. g_reply_blob.addr = g_reply_blob.res /\ g_reply_blob.addr \in ResIds
    BY <1>4, <2>1, BlobOfQuery DEF RoundTrip
  <2>3. /\ stream = <<[q |-> cur[t].q, res |-> g_reply_blob.res]>>
        /\ mem[g_reply_blob.addr] = 0 /\ pc[t] \in {"look", "poll"}
    BY <1>1, <1>4, <2>1 DEF CalmAt
  <2>4. stream' = <<>> /\ Head(stream) = [q |-> cur[t].q, res |-> g_reply_blob.res]
    BY <1>1, <2>3
  <2>5. Head(stream).q = cur[t].q /\ Head(stream).res = g_reply_blob.addr
    BY <2>2, <2>4
  <2>6. mem'[g_reply_blob.addr] = cur[t].q
    BY <1>1, <2>2, <2>5 DEF TypeOK
  <2> QED
    BY <1>1, <1>2, <2>1, <2>3, <2>4, <2>6 DEF CalmAt
<1> QED
  BY <1>3, <1>4

\* Every step keeps what is known of the queries nothing troubles.
LEMMA NextCalmInv ==
  ASSUME TypeOK, TypeOK', BlobInv, CalmInv, [Next]_vars
  PROVE  CalmInv'
<1>0. UndoIsTrouble /\ \A u \in Threads : CalmAt(u)
  BY CalmByThread DEF CalmThreads
<1>1. ASSUME NEW t \in Threads, Call(t) PROVE CalmThreads'
  <2>1. /\ pc[t] = "idle" /\ cur'[t].q = NewQ /\ pc'[t] \in {"clear", "create"}
        /\ \A u \in Threads : u # t => cur'[u] = cur[u] /\ pc'[u] = pc[u]
    BY <1>1, Begun
  <2>2. troubled' = IF Busy = {} THEN troubled
                    ELSE troubled \cup {NewQ} \cup {cur[u].q : u \in Busy}
    <3>1. \E k \in Kinds : Start(t, k)
      BY <1>1, Begun
    <3> QED
      BY <3>1 DEF Start, NewQ
  <2>3. UndoIsTrouble'
    BY <1>0, <2>1, <2>2 DEF UndoIsTrouble
  <2>4. ASSUME NEW u \in Threads, Calm(u)' PROVE u = t /\ Busy = {}
    <3>1. CASE u # t
      <4>1. u \in Busy /\ cur'[u].q = cur[u].q
        BY <2>1, <2>4, <3>1 DEF Calm, Busy
      <4>2. cur'[u].q \in troubled'
        BY <2>2, <4>1
      <4> QED
        BY <2>4, <4>2 DEF Calm
    <3>2. CASE u = t
      BY <2>1, <2>2, <2>4, <3>2 DEF Calm
    <3> QED
      BY <3>1, <3>2
  <2>5. \A u \in Threads : CalmAt(u)'
    BY <2>1, <2>4 DEF CalmAt, Busy
  <2> QED
    BY <2>3, <2>5 DEF CalmThreads
<1>2. ASSUME NEW t \in Threads, SetupStep(t) \/ QueryStep(t)
      PROVE  CalmThreads'
  <2>1. /\ pc[t] # "idle" /\ troubled \subseteq troubled'
        /\ \A u \in Threads : u # t => pc'[u] = pc[u] /\ cur'[u] = cur[u]
        /\ pc'[t] # "idle" => cur'[t].q = cur[t].q
    BY <1>2, OwnStep
  <2>2. ASSUME pc'[t] \in {"undo_unmap", "undo_destroy"} PROVE cur'[t].q \in troubled'
    <3>1. cur'[t].q = cur[t].q
      BY <2>1, <2>2
    <3>2. CASE UndoUnmap(t)
      BY <1>0, <2>1, <3>1, <3>2 DEF UndoUnmap, UndoIsTrouble
    <3>3. CASE MapBlob(t) \/ Attach(t)
      BY <2>2, <3>1, <3>3, Typed DEF MapBlob, Attach, Goto, Trouble
    <3>4. CASE CreateBlob(t) \/ UndoDestroy(t)
      BY <2>2, <3>4, Typed, Finished DEF CreateBlob, UndoDestroy, Goto
    <3>5. CASE QueryStep(t)
      BY <2>2, <3>5, Typed, Finished DEF QueryStep, Clear, Submit, Look, Answered, GiveUp, Copy,
                                         Goto, Finish
    <3> QED
      BY <1>2, <3>2, <3>3, <3>4, <3>5 DEF SetupStep
  <2>3. UndoIsTrouble'
    BY <1>0, <2>1, <2>2 DEF UndoIsTrouble
  <2>4. CalmAt(t)'
    BY <1>0, <1>2, CalmStep
  <2>5. ASSUME NEW u \in Threads, u # t PROVE CalmAt(u)'
    BY <1>0, <2>1, <2>5 DEF CalmAt, Calm
  <2> QED
    BY <2>3, <2>4, <2>5 DEF CalmThreads
<1>3. ASSUME HostRun PROVE CalmThreads'
  <2>1. UndoIsTrouble'
    BY <1>0, <1>3 DEF HostRun, historyVars, UndoIsTrouble
  <2> QED
    BY <1>0, <1>3, <2>1, CalmHost DEF CalmThreads
<1>4. ASSUME UNCHANGED vars PROVE CalmThreads'
  <2>1. UNCHANGED <<pc, cur, troubled, raced, stream, mem, g_reply_blob>>
    BY <1>4 DEF vars, blobVars, hostVars, historyVars
  <2>2. UndoIsTrouble'
    BY <1>0, <2>1 DEF UndoIsTrouble
  <2>3. ASSUME NEW u \in Threads PROVE CalmAt(u)'
    BY <1>0, <2>1 DEF CalmAt, Calm
  <2> QED
    BY <2>2, <2>3 DEF CalmThreads
<1>5. CalmThreads'
  BY <1>1, <1>2, <1>3, <1>4 DEF Next
<1> QED
  BY <1>5, CalmByThread

-----------------------------------------------------------------------------
(* What the callers make of the answers *)

\* What a returning query was worth: one that a caller believed has its answer, and
\* one that failed has its trouble.
LEMMA WorthOf ==
  ASSUME TypeOK, BlobInv, CalmInv, NEW t \in Threads, SetupStep(t) \/ QueryStep(t)
  PROVE  \/ UNCHANGED <<known, succeeded>>
         \/ \E ok \in BOOLEAN :
              /\ Finish(t, ok) /\ pc[t] # "idle"
              /\ ok /\ Kind(t) # "idle" => \E p \in ran : queries[p] = Kind(t)
              /\ ok /\ cur[t].q \notin troubled' => cur[t].q \in ran
              /\ ~ok => cur[t].q \in troubled' \/ Kind(t) = "idle"
<1>1. CASE MapBlob(t) \/ Attach(t) \/ UndoUnmap(t)
  BY <1>1 DEF MapBlob, Attach, UndoUnmap, callerVars
<1>2. CASE CreateBlob(t)
  BY <1>2 DEF CreateBlob, Trouble, callerVars
<1>3. CASE UndoDestroy(t)
  <2>1. Finish(t, FALSE) /\ pc[t] = "undo_destroy" /\ troubled' = troubled
    BY <1>3 DEF UndoDestroy
  <2>2. cur[t].q \in troubled'
    BY <2>1 DEF CalmInv, UndoIsTrouble
  <2> QED
    BY <2>1, <2>2
<1>4. CASE Clear(t) \/ Look(t) \/ Answered(t) \/ GiveUp(t)
  BY <1>4 DEF Clear, Look, Answered, GiveUp, callerVars, historyVars
<1>5. CASE Submit(t)
  BY <1>5 DEF Submit, Trouble, callerVars
<1>6. CASE Copy(t)
  <2> DEFINE w == IF g_reply_blob.addr = 0 THEN 0 ELSE mem[g_reply_blob.addr]
  <2>1. Finish(t, Accepts(t, w)) /\ pc[t] = "copy" /\ troubled' = troubled
    BY <1>6 DEF Copy
  <2>2. Accepts(t, w) \in BOOLEAN
    BY DEF Accepts
  <2>3. w # 0 => w \in ran
    <3>1. g_reply_blob.addr # 0 => g_reply_blob.addr \in ResIds
      BY Typed, VenusQueryAssumption DEF ResIds
    <3> QED
      BY <3>1 DEF BlobInv, MemIsRun
  <2>4. ASSUME cur[t].q \notin troubled PROVE w = cur[t].q /\ w # 0
    <3>1. ~raced /\ mem[g_reply_blob.addr] = cur[t].q /\ cur[t].q # 0
      BY <2>1, <2>4, Typed DEF CalmInv, OwnStream, OwnReply, Calm
    <3>2. g_reply_blob.addr # 0
      BY <2>1, <3>1, BlobOfQuery DEF RoundTrip
    <3> QED
      BY <3>1, <3>2
  <2>5. Accepts(t, w) /\ Kind(t) # "idle" => \E p \in ran : queries[p] = Kind(t)
    BY <2>3 DEF Accepts
  <2>6. ~Accepts(t, w) => cur[t].q \in troubled
    BY <2>4 DEF Accepts, Kind
  <2> HIDE DEF w
  <2> QED
    BY <2>1, <2>2, <2>3, <2>4, <2>5, <2>6
<1> QED
  BY <1>1, <1>2, <1>3, <1>4, <1>5, <1>6 DEF SetupStep, QueryStep

\* Every step keeps the three properties of the answers.
LEMMA NextOutcomes ==
  ASSUME TypeOK, BlobInv, CalmInv, Outcomes, [Next]_vars
  PROVE  Outcomes'
<1> USE DEF Outcomes
<1>0. /\ ran \in SUBSET QueryIds /\ succeeded \in SUBSET QueryIds /\ troubled \in SUBSET QueryIds
      /\ known \in [Cached -> {"untried", "real", "failed"}]
  BY DEF TypeOK
<1>1. ASSUME NEW t \in Threads, Call(t) PROVE Outcomes'
  <2>1. /\ \A q \in QueryIds : queries'[q] = queries[q]
        /\ UNCHANGED <<ran, succeeded, known>>
    BY <1>1, Begun
  <2>2. troubled \subseteq troubled'
    <3>1. \E k \in Kinds : Start(t, k)
      BY <1>1, Begun
    <3> QED
      BY <3>1 DEF Start
  <2>3. AnswerIsReal'
    BY <1>0, <2>1 DEF AnswerIsReal
  <2>4. IdleMeansDrained'
    BY <1>0, <2>1, <2>2 DEF IdleMeansDrained
  <2>5. FallbackMeansFailure'
    BY <1>0, <2>1, <2>2 DEF FallbackMeansFailure
  <2> QED
    BY <2>3, <2>4, <2>5
<1>2. ASSUME NEW t \in Threads, SetupStep(t) \/ QueryStep(t) PROVE Outcomes'
  <2>1. queries' = queries /\ ran' = ran /\ troubled \subseteq troubled'
    BY <1>2, OwnStep
  <2>2. CASE UNCHANGED <<known, succeeded>>
    BY <2>1, <2>2 DEF AnswerIsReal, IdleMeansDrained, FallbackMeansFailure
  <2>3. CASE \E ok \in BOOLEAN :
               /\ Finish(t, ok) /\ pc[t] # "idle"
               /\ ok /\ Kind(t) # "idle" => \E p \in ran : queries[p] = Kind(t)
               /\ ok /\ cur[t].q \notin troubled' => cur[t].q \in ran
               /\ ~ok => cur[t].q \in troubled' \/ Kind(t) = "idle"
    <3>1. PICK ok \in BOOLEAN :
               /\ Finish(t, ok) /\ pc[t] # "idle"
               /\ ok /\ Kind(t) # "idle" => \E p \in ran : queries[p] = Kind(t)
               /\ ok /\ cur[t].q \notin troubled' => cur[t].q \in ran
               /\ ~ok => cur[t].q \in troubled' \/ Kind(t) = "idle"
      BY <2>3
    <3>2. succeeded' = IF ok THEN succeeded \cup {cur[t].q} ELSE succeeded
      BY <3>1, Finished
    <3>3. AnswerIsReal'
      BY <2>1, <3>1, <3>2 DEF AnswerIsReal, Kind
    <3>4. IdleMeansDrained'
      BY <2>1, <3>1, <3>2 DEF IdleMeansDrained
    <3>5. FallbackMeansFailure'
      <4>1. known' = IF Kind(t) \in Cached
                     THEN [known EXCEPT ![Kind(t)] = IF ok THEN "real" ELSE "failed"] ELSE known
        BY <3>1 DEF Finish
      <4>2. Kind(t) \in Cached => Kind(t) # "idle"
        BY DEF Cached
      <4>3. ASSUME NEW k \in Cached, known'[k] = "failed" PROVE \E q \in troubled' : queries'[q] = k
        <5>1. CASE known[k] = "failed"
          BY <2>1, <5>1 DEF FallbackMeansFailure
        <5>2. CASE known[k] # "failed"
          <6>1. k = Kind(t) /\ ~ok
            BY <1>0, <4>1, <4>3, <5>2
          <6>2. cur[t].q \in troubled'
            BY <3>1, <4>2, <6>1
          <6> QED
            BY <2>1, <6>1, <6>2 DEF Kind
        <5> QED
          BY <5>1, <5>2
      <4> QED
        BY <4>3 DEF FallbackMeansFailure
    <3> QED
      BY <3>3, <3>4, <3>5
  <2> QED
    BY <1>2, <2>2, <2>3, WorthOf
<1>3. ASSUME HostRun PROVE Outcomes'
  <2>1. UNCHANGED <<queries, succeeded, troubled, known>> /\ ran \subseteq ran'
    BY <1>3 DEF HostRun, historyVars, callerVars
  <2> QED
    BY <2>1 DEF AnswerIsReal, IdleMeansDrained, FallbackMeansFailure
<1>4. CASE UNCHANGED vars
  BY <1>4 DEF vars, historyVars, callerVars, hostVars, AnswerIsReal, IdleMeansDrained,
              FallbackMeansFailure
<1> QED
  BY <1>1, <1>2, <1>3, <1>4 DEF Next

-----------------------------------------------------------------------------
(* Theorems *)

\* The initial state satisfies the invariant.
LEMMA InitIInv == Init => IInv
<1> SUFFICES ASSUME Init PROVE IInv
  OBVIOUS
<1>1. TypeOK
  BY InitTypeOK
<1>2. \A t \in Threads : pc[t] = "idle" /\ ~Calm(t)
  BY DEF Init, Calm
<1>3. FreshIds /\ MemIsRun /\ SetupLeavesNothing
  BY DEF Init, Layer!Init, Layer!ResIds, ResIds, FreshIds, MemIsRun, SetupLeavesNothing
<1>4. BlobInv
  BY <1>2, <1>3 DEF Init, BlobInv, ReadyInside, RoundTrip, OneSetup, SetupShape, RestShape, Setup
<1>5. CalmInv
  BY <1>2 DEF CalmInv, Alone, UndoIsTrouble, OwnStream, OwnReply
<1>6. Outcomes
  BY DEF Init, Outcomes, AnswerIsReal, IdleMeansDrained, FallbackMeansFailure
<1> QED
  BY <1>1, <1>4, <1>5, <1>6 DEF IInv

\* Every step keeps it.
LEMMA NextIInv == IInv /\ [Next]_vars => IInv'
<1> SUFFICES ASSUME IInv, [Next]_vars PROVE IInv'
  OBVIOUS
<1> USE DEF IInv
<1>1. TypeOK'
  BY NextTypeOK DEF BlobInv
<1> QED
  BY <1>1, NextBlobInv, NextCalmInv, NextOutcomes

\* The invariant holds of every behaviour.
LEMMA Invariant == Spec => []IInv
<1> QED
  BY InitIInv, NextIInv, PTL DEF Spec

\* Types: in particular the lock of the barrier is held only by a thread inside it.
THEOREM TypeCorrect == Spec => []TypeOK
<1>1. IInv => TypeOK
  BY DEF IInv
<1> QED
  BY <1>1, Invariant, PTL

\* A caller that compares the command type of its reply accepts only what the host
\* wrote for a query like its own, whatever other threads did to the blob meanwhile.
THEOREM AnswersAreReal == Spec => []AnswerIsReal
<1>1. IInv => AnswerIsReal
  BY DEF IInv, Outcomes
<1> QED
  BY <1>1, Invariant, PTL

\* The barrier's return means an idle queue when nothing troubled its query.
THEOREM IdleIsDrained == Spec => []IdleMeansDrained
<1>1. IInv => IdleMeansDrained
  BY DEF IInv, Outcomes
<1> QED
  BY <1>1, Invariant, PTL

\* Placeholder answers are given only after a query of that kind had trouble.
THEOREM FallbacksHaveCauses == Spec => []FallbackMeansFailure
<1>1. IInv => FallbackMeansFailure
  BY DEF IInv, Outcomes
<1> QED
  BY <1>1, Invariant, PTL

\* A failed making of the reply blob leaves no entry behind.
THEOREM SetupIsUndone == Spec => []SetupLeavesNothing
<1>1. IInv => SetupLeavesNothing
  BY DEF IInv, BlobInv, SetupLeavesNothing
<1> QED
  BY <1>1, Invariant, PTL
===============================================================================
