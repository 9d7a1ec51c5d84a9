---------------------------- MODULE MCFactoryNet ----------------------------
(***************************************************************************)
(* A small instance of FactoryNet: the task loop of the repository's own   *)
(* factory/factory.json, shortened to one executor, one reviewer and the   *)
(* escalation of failures, which share a resource, with a loop breaker     *)
(* that watches the reviewer as in docs/reference/authoring-factories.md.  *)
(***************************************************************************)
EXTENDS FactoryNet, TLC

CONSTANTS Limit, Tries

Categories == "task:init" :> "INITIAL" @@ "task:in-review" :> "PROCESSING" @@
              "task:complete" :> "TERMINAL" @@
              "task:failed" :> "FAILED" @@ "task:escalated" :> "FAILED"

Inputs == [process  |-> "task:init",
           review   |-> "task:in-review",
           breaker  |-> "task:init",
           escalate |-> "task:failed"]

\* The outcomes of each transition: the loops back are those of the documentation.
To(accepted, other, failed) ==
  [accepted |-> accepted, continue |-> other, rejected |-> other, failed |-> failed]
Routes == [process  |-> To("task:in-review", "task:init", "task:failed"),
           review   |-> To("task:complete", "task:init", "task:failed"),
           breaker  |-> To("task:failed", "task:failed", "task:failed"),
           escalate |-> To("task:escalated", "task:escalated", "task:escalated")]

Stations == DOMAIN Inputs
Attempts == [t \in Stations |-> IF t = "process" THEN Tries ELSE 0]
Watches  == [breaker |-> "review"]
Limits   == [breaker |-> Limit]

Chain       == [w \in Work |-> {v \in Work : v + 1 = w}]
Independent == [w \in Work |-> {}]

\* The first and the last Work are of one trace; all have the same name.
Traces   == [w \in Work |-> IF w = 2 THEN "b" ELSE "a"]
Separate == [w \in Work |-> IF w = 1 THEN "a" ELSE "b"]
Same     == [w \in Work |-> "lane"]
=============================================================================
