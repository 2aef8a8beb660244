------------------------------- MODULE EventBus -------------------------------
(***************************************************************************)
(* Routing of events to hats (ralph-proto/src/event_bus.rs) and the        *)
(* registry's choice of the hats a batch of events activates               *)
(* (ralph-core/src/hat_registry.rs, event_loop/mod.rs).                    *)
(*                                                                         *)
(* An event is its topic here.  Subscription patterns are given by what    *)
(* they match: Triggers[h] is the set of topics a pattern of h other than  *)
(* "*" matches, CatchAll the hats that also list "*".  A queue of pending  *)
(* events is a set: only emptiness and membership decide anything.         *)
(***************************************************************************)
EXTENDS Naturals

CONSTANTS
  Hats,         \* ids of the configured hats
  Ralph,        \* the coordinator, always registered with subscription "*"
  Human,        \* the separate queue of human.* events
  Topics,       \* every topic that can occur
  HumanTopics,  \* the topics that start with "human."
  Triggers,     \* Triggers[h]: topics hat h subscribes to specifically
  CatchAll,     \* hats that subscribe to "*"
  EntryTopics,  \* task.start, task.resume, *.start and the starting event
  Rank          \* Rank[h]: the place of h in the order of hat ids

ASSUME BusAssumption ==
  /\ Ralph \notin Hats /\ Human \notin Hats /\ Human # Ralph
  /\ HumanTopics \subseteq Topics /\ EntryTopics \subseteq Topics
  /\ Triggers \in [Hats -> SUBSET Topics]
  /\ CatchAll \subseteq Hats
  /\ Rank \in [Hats -> Nat]
  /\ \A g, h \in Hats : Rank[g] = Rank[h] => g = h

\* RalphConfig::validate reserves these triggers for Ralph.
ASSUME ReservedAssumption ==
  \A h \in Hats : Triggers[h] \cap {"task.start", "task.resume"} = {}

Queues == Hats \cup {Ralph, Human}

Specific(t) == {h \in Hats : t \in Triggers[h]}

\* Mutant: no fallback to the wildcard subscribers.
RecipientsSpecificOnly(t) ==
  IF t \in HumanTopics THEN {Human} ELSE Specific(t)

\* EventBus::publish: human events to their own queue; otherwise the specific
\* subscribers, and only if there is none the wildcard ones.
Recipients(t) ==
  CASE t \in HumanTopics                        -> {Human}
    [] t \notin HumanTopics /\ Specific(t) # {} -> Specific(t)
    [] OTHER                                    -> CatchAll \cup {Ralph}

\* Publishing a set of topics on the queues p.
Deliver(p, T) == [q \in Queues |-> p[q] \cup {t \in T : q \in Recipients(t)}]

Queued(p) == UNION {p[q] : q \in Queues}

-----------------------------------------------------------------------------
(* The registry *)

Subscribers(t) == Specific(t) \cup CatchAll

\* get_for_topic: the first subscriber in the order of hat ids.
FirstHat(t) ==
  CHOOSE h \in Subscribers(t) : \A g \in Subscribers(t) : Rank[h] <= Rank[g]

\* determine_active_hat_ids: the hats of the topics that are not entry points;
\* those of the entry points only if there are no others.
ActiveHats(T) ==
  LET owned == {t \in T : Subscribers(t) # {}}
      later == owned \ EntryTopics
  IN  {FirstHat(t) : t \in IF later = {} THEN owned ELSE later}
=============================================================================
