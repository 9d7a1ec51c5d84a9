--------------------------- MODULE MCEventTopics ---------------------------
(* Instances of EventTopics for TLC. *)
EXTENDS EventTopics, TLC

\* Topics, records and callers of one kind are told apart only by equality.
Symmetry ==
  Permutations(Topic) \cup Permutations(Event) \cup Permutations(Producer) \cup Permutations(Subscriber)
=============================================================================
