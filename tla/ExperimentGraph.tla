--------------------------- MODULE ExperimentGraph ---------------------------
(***************************************************************************)
(* The graph store as TrainingRepository uses it: Experiment nodes with    *)
(* their one DERIVED_FROM / RETRY_FROM edge, and the Model catalogue.      *)
(* Every operator below is one Cypher query, hence one transaction.        *)
(***************************************************************************)
EXTENDS LineageData

VARIABLES
  graph,   \* the Experiment nodes, a function of their ids 1 .. n
  models   \* the Model nodes, name -> uri

graphVars == <<graph, models>>

GraphInit ==
  /\ graph = <<>>
  /\ models = CatalogModel

GraphTypeOK ==
  /\ graph \in Seq(Node)
  /\ DOMAIN models \subseteq ModelName
  /\ \A n \in DOMAIN models : models[n] \in Uri \cup {NoUri}

-----------------------------------------------------------------------------
(* Reads *)

Exists(id) == id \in DOMAIN graph

(* The codebase property read as a {file: content} dict: of an experiment  *)
(* below a base it holds a diff, which is no codebase.                     *)
StoredCodebase(id) ==
  IF IsBase(graph[id].strategy) THEN graph[id].snap ELSE Garbled

(* The loop up the chain ends at the first experiment read as a base, and  *)
(* as neither creation query stores the base property every one is, by the *)
(* default of CodeRun.base: no stored diff is ever applied.                *)
ReconstructedCodebase(id) == StoredCodebase(id)

(* find_model_by_name and the comparison of uris that follows it: a Model  *)
(* is missing, or both sides name a uri and the uris differ.               *)
CatalogMismatch(snap) ==
  ~ /\ ModelOf[snap] \in DOMAIN models
    /\ UriOf[snap] = NoUri \/ models[ModelOf[snap]] \in {NoUri, UriOf[snap]}

-----------------------------------------------------------------------------
(* Writes *)

NewId == Len(graph) + 1

(* Mutant: the status is left out.                                         *)
NewNodeWithoutStatus(snap, from, parent, strategy, by) ==
  [snap |-> snap, from |-> from, parent |-> parent, strategy |-> strategy,
   status |-> "null", by |-> by]

(* Mutant: the status is copied from the parent, with its properties.      *)
NewNodeLikeParent(snap, from, parent, strategy, by) ==
  [snap |-> snap, from |-> from, parent |-> parent, strategy |-> strategy,
   status |-> IF parent = 0 THEN "RUNNING" ELSE graph[parent].status, by |-> by]

NewNode(snap, from, parent, strategy, by) ==
  [snap |-> snap, from |-> from, parent |-> parent, strategy |-> strategy,
   status |-> "RUNNING", by |-> by]

CreateBaseExperiment(snap, strategy, by) ==
  graph' = Append(graph, NewNode(snap, snap, 0, strategy, by))

(* Mutant: the arguments of compute_snapshot_diff are swapped.             *)
CreateDiffedBackwards(snap, from, parent, strategy, by) ==
  graph' = Append(graph, NewNode(snap, snap, parent, strategy, by))

CreateNonBaseExperiment(snap, from, parent, strategy, by) ==
  graph' = Append(graph, NewNode(snap, from, parent, strategy, by))

(* Mutant: the MATCH is on a property no node has.                         *)
UpdateNoExperiment(id, status) == graph' = graph

(* MATCH ... SET: no node, no effect; whatever the status was before.      *)
UpdateExperimentStatus(id, status) ==
  graph' = IF Exists(id) THEN [graph EXCEPT ![id].status = status] ELSE graph

(* Needs a Checkpoint with that uri; a second Model of the same name is    *)
(* refused by the uniqueness constraint.                                   *)
PromoteCheckpoint(name, uri) ==
  models' = IF uri \in CheckpointUri /\ name \notin DOMAIN models
            THEN [n \in DOMAIN models \cup {name} |->
                    IF n = name THEN uri ELSE models[n]]
            ELSE models
=============================================================================
