----------------------------- MODULE CommandService -----------------------------
(***************************************************************************)
(* What the control virtqueue promises those who submit to it (cmd_submit, *)
(* virtio_gpu_real.c): one command is waited for at a time; the device     *)
(* takes commands in the order they were sent and each of them once; a     *)
(* call that returns 0 had its command carried out.  Until a call gives up *)
(* waiting, every answer is that of the caller's own command; from then on *)
(* a failure says nothing of the command, which may be carried out later,  *)
(* and a command sent from buffers that an unanswered one still uses is    *)
(* doubtful: its success may be another's.                                 *)
(*                                                                         *)
(* CtrlQueue implements this module.  A command that is done, refused or   *)
(* late in GpuResources is one sent, dealt with and returned here.         *)
(***************************************************************************)
EXTENDS Naturals

CONSTANT Threads   (* the threads that submit commands *)

VARIABLES
  waiting,    \* the thread whose command has been sent and not returned, as a set
  sent,       \* number of commands sent; a command is its number
  done,       \* commands the device carried out
  refused,    \* commands it did not
  succeeded,  \* commands whose caller was told 0
  doubtful,   \* commands sent at addresses still in use
  late        \* a caller has given up waiting

vars == <<waiting, sent, done, refused, succeeded, doubtful, late>>

Init ==
  /\ waiting = {} /\ sent = 0 /\ late = FALSE
  /\ done = {} /\ refused = {} /\ succeeded = {} /\ doubtful = {}

\* The commands the device has yet to take.
Pending == (1..sent) \ (done \cup refused)

Send(t) ==
  /\ waiting = {} /\ waiting' = {t}
  /\ sent' = sent + 1
  /\ doubtful' \in {doubtful} \cup (IF late THEN {doubtful \cup {sent'}} ELSE {})
  /\ UNCHANGED <<done, refused, succeeded, late>>

\* The device takes the oldest command.
Take ==
  /\ \E c \in Pending :
       /\ \A d \in Pending : c <= d
       /\ \/ done' = done \cup {c} /\ UNCHANGED refused
          \/ refused' = refused \cup {c} /\ UNCHANGED done
  /\ UNCHANGED <<waiting, sent, succeeded, doubtful, late>>

\* The caller, who waits for the last command sent, is told that it succeeded ...
Succeed ==
  /\ sent \in done \cup doubtful
  /\ succeeded' = succeeded \cup {sent}
  /\ UNCHANGED late

\* ... or that it failed ...
Fail ==
  /\ late \/ sent \notin Pending
  /\ UNCHANGED <<succeeded, late>>

\* ... or gives up.
GiveUp == late' = TRUE /\ UNCHANGED succeeded

Return(t) ==
  /\ waiting = {t} /\ waiting' = {}
  /\ Succeed \/ Fail \/ GiveUp
  /\ UNCHANGED <<sent, done, refused, doubtful>>

Next == Take \/ \E t \in Threads : Send(t) \/ Return(t)

Spec == Init /\ [][Next]_vars
=============================================================================
