---------------------------- MODULE LineageSystem ----------------------------
(***************************************************************************)
(* The server, its graph and the clients composed, and what they must      *)
(* keep together.                                                          *)
(***************************************************************************)
EXTENDS LineageServer, LineageClient

vars == <<graphVars, calls, serverVars, clientVars>>

Init == GraphInit /\ WireInit /\ ServerInit /\ ClientInit

ServerStep == ServerNext /\ UNCHANGED clientVars

ClientStep == ClientNext /\ UNCHANGED <<graphVars, serverVars>>

Next == ServerStep \/ ClientStep

Spec == Init /\ [][Next]_vars

(* The event loop runs what it can run and the database executes what was  *)
(* issued; an attempt ends, if by nothing else by the timeout of httpx;    *)
(* the write after an acknowledgement is plain code.  Nothing obliges a    *)
(* user to launch, a training function to end or a fault to happen.        *)
Fairness ==
  /\ \A c \in Runner \X (0 .. MaxRuns) \X {"pre", "post"} \X (0 .. Retries) :
       WF_vars(Handle(c) /\ UNCHANGED clientVars)
  /\ \A r \in Runner :
       WF_vars((Resolve(r) \/ SaveStatus(r)) /\ UNCHANGED <<graphVars, serverVars>>)

FairSpec == Spec /\ Fairness

-----------------------------------------------------------------------------
(* Safety *)

(* Every variable holds a value of its kind.                               *)
TypeOK == GraphTypeOK /\ WireTypeOK /\ ServerTypeOK /\ ClientTypeOK

(* RETRY is said only of an experiment whose codebase, config.yml and its  *)
(* model included, is that of the experiment its RETRY_FROM edge leads to: *)
(* detect_branch_or_retry against a codebase read queries before the node  *)
(* is created, whatever the other handlers did in between.                 *)
RetryIsUnchanged ==
  \A e \in DOMAIN graph :
    graph[e].strategy = "RETRY" => graph[graph[e].parent].snap = graph[e].snap

(* A status other than RUNNING is what the one run that adopted the node   *)
(* reported of itself.  So the nodes that retries and lost answers leave   *)
(* behind stay RUNNING, and no POST of a run lands on another's node.      *)
StatusIsOwnReport ==
  \A e \in DOMAIN graph :
    graph[e].status # "RUNNING" => e \in DOMAIN fate /\ graph[e].status = fate[e]

(* A run adopts a node its own PRE created, never another run's.           *)
ContextIsOwn ==
  \A r \in Runner :
    proc[r].ctx # 0 =>
      /\ Exists(proc[r].ctx)
      /\ RunnerOf(graph[proc[r].ctx].by) = r
      /\ RunOf(graph[proc[r].ctx].by) = proc[r].run

(* The base of the chain of e, found along the edges of the graph.         *)
RootOf(e) ==
  LET root[n \in DOMAIN graph] ==
        IF graph[n].parent = 0 THEN n ELSE root[graph[n].parent]
  IN  root[e]

(* What a project's experiment.yml says of its place in the lineage agrees *)
(* with the graph: the ids name the node, the node before it, and the base *)
(* its chain of edges ends at.  (An id-less experiment block overrides the *)
(* file, not what is saved to it.)                                         *)
LocalIdentityConsistent ==
  \A p \in Project :
    LET me == files[p].ident IN
    me.id # 0 =>
      /\ Exists(me.id)
      /\ me.baseId = RootOf(me.id)
      /\ me.base <=> IsBase(graph[me.id].strategy)
      /\ ~me.base => me.prev = graph[me.id].parent
      /\ me.id \in DOMAIN fate

NotShared(p) == \A r, q \in Runner : Dir(r) = p /\ Dir(q) = p => r = q

(* In a directory that runners do not share, a status other than RUNNING   *)
(* in experiment.yml is also the status in the graph: it is written after  *)
(* the server acknowledged it.                                             *)
LocalStatusBacked ==
  \A p \in Project :
    files[p].status \in Outcome /\ NotShared(p) =>
      /\ Exists(files[p].ident.id)
      /\ graph[files[p].ident.id].status = files[p].status

(* A project with blocking: true trains nothing untracked, and changes its *)
(* model in the middle of a lineage neither silently nor by a RESUME: the  *)
(* client exits on every failure of PRE and the server refuses the switch. *)
BlockingIsStrict ==
  /\ \A r \in Runner : Dir(r) \in Blocking => proc[r].pc # "bare"
  /\ \A e \in DOMAIN graph :
       Dir(RunnerOf(graph[e].by)) \in Blocking => graph[e].strategy # "RESUME"

(* The model check compares a new experiment with the one before the one   *)
(* it derives from: two generations apart, the model name is the same.     *)
ModelKeptTwoApart ==
  \A e \in DOMAIN graph :
    LET p == graph[e].parent IN
    p # 0 /\ graph[p].parent # 0 =>
      ModelOf[graph[e].snap] = ModelOf[graph[graph[p].parent].snap]

(* The diff an experiment stores was computed, steps before the write and  *)
(* perhaps for a request that others overtook, from what the very          *)
(* experiment it hangs off stores: below a base, from the code that ran.   *)
DiffFromParent ==
  \A e \in DOMAIN graph :
    graph[e].parent # 0 => graph[e].from = StoredCodebase(graph[e].parent)

-----------------------------------------------------------------------------
(* Action properties *)

(* Once an experiment has a status other than RUNNING no step changes it,  *)
(* although the server never looks at the status it replaces and a POST    *)
(* may be executed several times and late.                                 *)
StatusSettles ==
  [][\A e \in DOMAIN graph :
       graph[e].status # "RUNNING" => graph'[e].status = graph[e].status]_graph

-----------------------------------------------------------------------------
(* Liveness *)

(* PRE comes to an end: tracked, untracked or with an exit code.           *)
PreEnds == \A r \in Runner : proc[r].pc = "pre" ~> proc[r].pc # "pre"

(* A handler that was started is finished, however many were nested in it. *)
HandlersFinish ==
  \A c \in Runner \X (0 .. MaxRuns) \X {"pre", "post"} \X (0 .. Retries) :
    (\E i \in DOMAIN nest : nest[i] = c) ~> ~(\E i \in DOMAIN nest : nest[i] = c)

-----------------------------------------------------------------------------
(* Refinement *)

Ledger == INSTANCE RunLedger WITH
  Worker <- Runner,
  runs   <- [n \in DOMAIN graph |->
              [parent |-> graph[n].parent, status |-> graph[n].status]],
  report <- fate,
  holds  <- [r \in Runner |-> proc[r].ctx]

(* Clients, server and graph together behave as the ledger of runs.        *)
ImplementsLedger == Ledger!Spec

-----------------------------------------------------------------------------
(* What the documentation says and the code does not do *)

(* README: RETRY is "Same config+code, re-run".  An experiment derived     *)
(* from one whose codebase, config.yml included, is the same is a RETRY.   *)
UnchangedRerunIsRetry ==
  \A e \in DOMAIN graph :
    LET p == graph[e].parent IN
    p # 0 /\ graph[p].snap = graph[e].snap => graph[e].strategy = "RETRY"

(* docs/modules/lineage.md: a model changed from the parent's is an error. *)
(* No experiment is derived from one that ran another model.               *)
LineageKeepsModel ==
  \A e \in DOMAIN graph :
    LET p == graph[e].parent IN
    p # 0 => ModelOf[graph[e].snap] = ModelOf[graph[p].snap]
=============================================================================
