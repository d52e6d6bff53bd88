----------------------------- MODULE LineageData -----------------------------
(***************************************************************************)
(* The values the client SDK and the lineage server exchange and store:    *)
(* the constants of a deployment, the identity block of                    *)
(* .lineage/experiment.yml, and the Experiment nodes of the graph.         *)
(*                                                                         *)
(* A snapshot (what capture_codebase reads) is one abstract value.  It     *)
(* contains config.yml, so it determines the model name and the model uri  *)
(* the run asks for: ModelOf and UriOf.  Files under .lineage/ are left    *)
(* out of it, as state_provider.py leaves them out of every comparison.    *)
(* Experiment ids are 1, 2, 3, ... in the order the nodes are created (a   *)
(* fresh uuid4 each); 0 stands for Python's None.                          *)
(***************************************************************************)
EXTENDS Integers, Sequences, FiniteSets

CONSTANTS
  Runner,        \* training processes; the ranks of one launch are several
  Project,       \* scaffold directories, each with its .lineage/experiment.yml
  ProjectOf,     \* the directory a runner runs in
  Orchestrated,  \* projects whose config.yml carries an id-less experiment block
  Blocking,      \* projects whose server.yml says blocking: true
  Training,      \* projects whose user_domain is "training"
  Snapshot,      \* codebases, config.yml included
  Garbled,       \* what a diff is when it is read as if it were a codebase
  ModelName, Uri, NoUri,
  ModelOf, UriOf,
  CatalogModel,  \* the Model nodes of the catalogue at the start: name -> uri
  CheckpointUri, \* the uris some Checkpoint node of the graph carries
  Retries,       \* retries: of server.yml
  MaxRuns,       \* bound: launches of one runner
  MaxNest,       \* bound: handlers at work at the same time
  Faults         \* the kinds of fault that may happen

ASSUME DeploymentAssumption ==
  /\ ProjectOf \in [Runner -> Project]
  /\ Orchestrated \subseteq Project
  /\ Blocking \subseteq Project
  /\ Training \subseteq Project
  /\ Garbled \notin Snapshot
  /\ NoUri \notin Uri
  /\ ModelOf \in [Snapshot -> ModelName]
  /\ UriOf \in [Snapshot -> Uri \cup {NoUri}]
  /\ DOMAIN CatalogModel \subseteq ModelName
  /\ \A n \in DOMAIN CatalogModel : CatalogModel[n] \in Uri \cup {NoUri}
  /\ CheckpointUri \subseteq Uri
  /\ Retries \in Nat
  /\ MaxRuns \in Nat
  /\ MaxNest \in Nat \ {0}
  /\ Faults \subseteq {"timeout", "broken", "refused", "killed", "database", "crash"}
  /\ "crash" \in Faults => "broken" \in Faults

Outcome  == {"COMPLETED", "FAILED"}
Status   == {"RUNNING"} \cup Outcome
Strategy == {"NEW", "RESUME", "RETRY", "BRANCH"}

(* The strategies whose node is a base: it stores the whole codebase.      *)
IsBase(strategy) == strategy \in {"NEW", "RESUME"}

(* The identity fields of .lineage/experiment.yml; base is null or false   *)
(* alike, every reader tests its truth.                                    *)
Identity == [id : Nat, prev : Nat, baseId : Nat, base : BOOLEAN]

NoIdentity == [id |-> 0, prev |-> 0, baseId |-> 0, base |-> FALSE]

(* The experiment block of .lineage/experiment.yml; the status is null     *)
(* until the first run.                                                    *)
LocalState == [ident : Identity, status : Status \cup {"null"}]

VirginState == [ident |-> NoIdentity, status |-> "null"]

(* A call is one HTTP request of one attempt of one run of one runner.     *)
CallId == Runner \X Nat \X {"pre", "post"} \X Nat

RunnerOf(c)  == c[1]
RunOf(c)     == c[2]
KindOf(c)    == c[3]
AttemptOf(c) == c[4]

(* An Experiment node.  "from" is the codebase its stored diff starts from *)
(* (for a base, which stores the codebase whole, the codebase itself).     *)
(* "by", the call that created the node, is not stored in the graph: it is *)
(* kept to say which attempt a node belongs to.                            *)
Node == [snap : Snapshot, from : Snapshot \cup {Garbled}, parent : Nat,
         strategy : Strategy, status : Status, by : CallId]
=============================================================================
