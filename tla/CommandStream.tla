---------------------------- MODULE CommandStream ----------------------------
(***************************************************************************)
(* What the Venus command ring promises (venus.h, "Protocol mode"): a      *)
(* bounded stream of command words.  Words are written, published, taken   *)
(* and completed once each, in the order they were written, and words that *)
(* were not published are not taken.                                       *)
(***************************************************************************)
EXTENDS Integers, Sequences

CONSTANTS Data,      (* command words                              *)
          Capacity,  (* words written and not completed, at most   *)
          MaxLen     (* words in one write, at most                *)

VARIABLES
  open,      \* the ring is registered
  offer,     \* what the writer has found space for, <<>> when it is not writing
  draft,     \* written, not published
  pending,   \* published, not taken
  running    \* taken by the host, not completed

vars == <<open, offer, draft, pending, running>>

Init ==
  /\ open = FALSE
  /\ offer = <<>>
  /\ draft = <<>> /\ pending = <<>> /\ running = <<>>

Open ==
  /\ ~open
  /\ open' = TRUE
  /\ UNCHANGED <<offer, draft, pending, running>>

\* The writer finds space for the words of d.
OfferWords(d) ==
  /\ open
  /\ offer = <<>>
  /\ Len(draft) + Len(pending) + Len(running) + Len(d) <= Capacity
  /\ offer' = d
  /\ UNCHANGED <<open, draft, pending, running>>

Offer == \E n \in 1..MaxLen : \E d \in [1..n -> Data] : OfferWords(d)

\* The words offered, and no others, join the stream.
Write ==
  /\ offer # <<>>
  /\ draft' = draft \o offer
  /\ offer' = <<>>
  /\ UNCHANGED <<open, pending, running>>

Publish ==
  /\ open
  /\ pending' = pending \o draft
  /\ draft' = <<>>
  /\ UNCHANGED <<open, offer, running>>

Take ==
  /\ open
  /\ running = <<>>
  /\ \E n \in 1..Len(pending) :
       /\ running' = SubSeq(pending, 1, n)
       /\ pending' = SubSeq(pending, n + 1, Len(pending))
  /\ UNCHANGED <<open, offer, draft>>

Complete ==
  /\ running' = <<>>
  /\ UNCHANGED <<open, offer, draft, pending>>

\* Words not completed are dropped.
Close ==
  /\ open
  /\ offer = <<>>
  /\ open' = FALSE
  /\ draft' = <<>> /\ pending' = <<>> /\ running' = <<>>
  /\ UNCHANGED offer

Next == Open \/ Offer \/ Write \/ Publish \/ Take \/ Complete \/ Close

Spec == Init /\ [][Next]_vars
=============================================================================
