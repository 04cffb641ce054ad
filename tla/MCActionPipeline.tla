-------------------------- MODULE MCActionPipeline --------------------------
(***************************************************************************)
(* Small instances of ActionPipeline: two actions over two targets, the    *)
(* second declared idempotent.                                             *)
(***************************************************************************)
EXTENDS ActionPipeline, TLC

NoParams == [n \in {} |-> "str"]
MCScope == {"api", "worker"}

MCAllowlist ==
  [ restart_service |->
      [ scope |-> MCScope, idempotent |-> FALSE, maxTargets |-> 2,
        parameters |-> [graceful |-> [type |-> "boolean", required |-> FALSE]] ],
    scale_service |->
      [ scope |-> MCScope, idempotent |-> TRUE, maxTargets |-> NoLimit,
        parameters |-> [graceful |-> [type |-> "boolean", required |-> FALSE]] ] ]

MCReserved == {"disable_audit"}

Proposal(action, targets, dry) ==
  [action |-> action, targets |-> targets, params |-> NoParams, dryRun |-> dry]

RestartBoth == Proposal("restart_service", << "api", "worker" >>, FALSE)
RestartOne  == Proposal("restart_service", << "api" >>, FALSE)
ScaleOne    == Proposal("scale_service", << "api" >>, FALSE)
PlanOne     == Proposal("restart_service", << "api" >>, TRUE)
PlanBoth    == Proposal("restart_service", << "api", "worker" >>, TRUE)
OffList     == Proposal("drop_tables", << "api" >>, FALSE)

\* An ActionRequest of the abstract interface, its targets among its
\* parameters.
MCRequest ==
  [ action |-> "restart_service", listed |-> << "api" >>,
    params |-> [targets |-> "list"] ]

MixedProposals == { RestartBoth, ScaleOne, PlanOne, OffList }
LoneProposals  == { RestartOne }
LiveProposals  == { ScaleOne, PlanBoth }
MCRequests     == { MCRequest }

\* Calls and ids are interchangeable: nothing compares or orders them.
MCSymmetry == Permutations(Calls) \cup Permutations(Ids)
=============================================================================
