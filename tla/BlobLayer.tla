------------------------------- MODULE BlobLayer -------------------------------
(***************************************************************************)
(* What the blob calls of libukvirtio_gpu promise their callers, seen from *)
(* the driver's resource table: every blob is known by its resource id,    *)
(* and each call either takes the blob to the state it names or leaves it  *)
(* where a failing command left it.  GpuResources implements this module;  *)
(* the users of blobs (VenusQuery, VulkanMemory, DrmVirtgpu) are written   *)
(* on top of it.                                                           *)
(*                                                                         *)
(*   "none"    no entry: not created, or destroyed                         *)
(*   "made"    created and not mapped                                      *)
(*   "half"    mapped as far as the table goes, but without an address:    *)
(*             the blob lies beyond the region and its undo failed         *)
(*   "mapped"  mapped at an address                                        *)
(***************************************************************************)
EXTENDS Naturals

CONSTANT MaxRes   (* bound: resource ids given out *)

ResIds == 1..MaxRes
States == {"none", "made", "half", "mapped"}

VARIABLES state,   \* the state of each resource id as a blob
          next     \* the next resource id

Init == state = [r \in ResIds |-> "none"] /\ next = 1

\* The states a call may leave a blob in; a call that returned 0 left it in the
\* state it is named for.
MapResults(s)     == IF s = "made" THEN {"made", "half", "mapped"} ELSE {s}
UnmapResults(s)   == IF s \in {"half", "mapped"} THEN {s, "made"} ELSE {s}
DestroyResults(s) == IF s = "made" THEN {"made", "none"} ELSE {s}

\* A resource id is taken: by a blob that comes to be, or by a create that fails
\* or that makes a resource of another kind.
Take ==
  /\ next \in ResIds
  /\ next' = next + 1
  /\ state' \in {state, [state EXCEPT ![next] = "made"]}

\* A call on a blob.
Call(r) ==
  /\ state' \in {[state EXCEPT ![r] = s] :
                   s \in MapResults(state[r]) \cup UnmapResults(state[r])
                           \cup DestroyResults(state[r])}
  /\ UNCHANGED next

Next == Take \/ \E r \in ResIds : Call(r)

Spec == Init /\ [][Next]_<<state, next>>
=============================================================================
