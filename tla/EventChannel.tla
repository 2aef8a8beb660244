----------------------------- MODULE EventChannel -----------------------------
(***************************************************************************)
(* What the events file promises the loop: the events appended are handed  *)
(* to it, each of them once, and in the order of the appends.  They are    *)
(* numbered as they are appended.  This is what module EventLoop takes the *)
(* file for (its variable unread); module EventsFile is about when it is   *)
(* true.                                                                   *)
(***************************************************************************)
EXTENDS Naturals

VARIABLES
  sent,       \* the number of events appended
  taken       \* the events handed over

Init == sent = 0 /\ taken = {}

Put == sent' = sent + 1 /\ UNCHANGED taken

\* The next ones, if there are any.
Take == \E n \in 0..sent : taken' = 1..n /\ taken \subseteq taken' /\ UNCHANGED sent

Next == Put \/ Take

Spec == Init /\ [][Next]_<<sent, taken>>
=============================================================================
