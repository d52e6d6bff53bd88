---------------------------- MODULE EventEmission ----------------------------
(***************************************************************************)
(* Events a training function reports while it runs: emit_node of the      *)
(* client, POST /graph/nodes of the server, and the deletion of an         *)
(* experiment by the UI, which races with both.                            *)
(*                                                                         *)
(* One event is tried up to Retries + 1 times.  Every attempt is a request *)
(* of its own, for which the server makes a node with a fresh id and then, *)
(* in a second transaction, the edge from the run to it.  A node and an    *)
(* edge are therefore named by the attempt they were made for.             *)
(*                                                                         *)
(* The handlers of this endpoint nest as those of LineageServer do.  They  *)
(* read nothing another one writes, so their order is left free here.      *)
(***************************************************************************)
EXTENDS Naturals, Sequences, FiniteSets

CONSTANTS
  Run,        \* the runs that report events, each with its Experiment node
  MaxEvents,  \* bound: events of one run
  Retries,    \* retries: of server.yml
  Faults      \* the kinds of fault that may happen

ASSUME EmissionAssumption ==
  /\ MaxEvents \in Nat
  /\ Retries \in Nat
  /\ Faults \subseteq {"refused", "reset", "timeout", "killed", "database", "crash"}

(* What emit_node may be given: an event of label Checkpoint, another one, *)
(* a label or an edge type the server rejects, a payload json cannot dump. *)
EventKind ==
  {"checkpoint", "metric", "badNodeType", "badEdgeType", "unserializable"}

VARIABLES
  experiments,  \* the runs whose Experiment node is in the graph
  nodes,        \* the attempts whose event node is in the graph
  edges,        \* the attempts whose edge is in the graph
  handler,      \* how far the server is with the request of each attempt
  client,       \* what each run does, and the attempt it is at
  events,       \* the events each run has reported so far
  seen,         \* how each attempt ended for the client
  doomed        \* experiments the UI has found deletable and not yet deleted

graphVars  == <<experiments, nodes, edges>>
clientVars == <<client, events, seen>>
vars == <<experiments, nodes, edges, handler, client, events, seen, doomed>>

Attempt == Run \X (1 .. MaxEvents) \X (0 .. Retries)

RunOf(a)     == a[1]
EventOf(a)   == <<a[1], a[2]>>
AttemptOf(a) == a[3]
KindOf(a)    == events[a[1]][a[2]]

Current(r) == <<r, Len(events[r]), client[r].attempt>>
Open(a)    == client[RunOf(a)].phase = "waiting" /\ a = Current(RunOf(a))

AtWork == {"sent", "creating", "linking"}

TypeOK ==
  /\ experiments \subseteq Run
  /\ nodes \subseteq Attempt
  /\ edges \subseteq nodes
  /\ handler \in [Attempt -> AtWork \cup {"unsent", "answered", "failed", "gone"}]
  /\ client \in [Run -> [phase : {"training", "ready", "waiting", "over"},
                         attempt : 0 .. Retries]]
  /\ events \in [Run -> Seq(EventKind)]
  /\ \A r \in Run : Len(events[r]) <= MaxEvents
  /\ seen \in [Attempt -> {"nothing", "ok", "error", "refused", "reset", "timeout"}]
  /\ doomed \subseteq experiments

Init ==
  /\ experiments = Run
  /\ nodes = {} /\ edges = {}
  /\ handler = [a \in Attempt |-> "unsent"]
  /\ client = [r \in Run |-> [phase |-> "training", attempt |-> 0]]
  /\ events = [r \in Run |-> <<>>]
  /\ seen = [a \in Attempt |-> "nothing"]
  /\ doomed = {}

-----------------------------------------------------------------------------
(* The client: emit_node and _retry *)

(* The training function calls lineage_emit.  A payload that cannot be     *)
(* dumped raises TypeError before anything is sent: logged, not retried.   *)
Emit(r, kind) ==
  /\ client[r].phase = "training"
  /\ Len(events[r]) < MaxEvents
  /\ events' = [events EXCEPT ![r] = Append(@, kind)]
  /\ client' = IF kind = "unserializable" THEN client
               ELSE [client EXCEPT ![r] = [phase |-> "ready", attempt |-> 0]]
  /\ UNCHANGED <<graphVars, handler, seen, doomed>>

Send(r) ==
  /\ client[r].phase = "ready"
  /\ client' = [client EXCEPT ![r].phase = "waiting"]
  /\ handler' = [handler EXCEPT ![Current(r)] = "sent"]
  /\ UNCHANGED <<graphVars, events, seen, doomed>>

(* Mutant: the attempts are not counted.                                   *)
RetriedForever(r) ==
  client' = [client EXCEPT ![r].phase = "ready"]

(* A ConnectionError inside _retry.                                        *)
Retried(r) ==
  client' = [client EXCEPT ![r] =
               IF client[r].attempt < Retries
               THEN [phase |-> "ready", attempt |-> client[r].attempt + 1]
               ELSE [phase |-> "training", attempt |-> client[r].attempt]]

(* Any other end of emit_node: it returns, whatever happened.              *)
Returned(r) == client' = [client EXCEPT ![r].phase = "training"]

Ended(r, how) == seen' = [seen EXCEPT ![Current(r)] = how]

(* urlopen cannot connect, or not in time: URLError.                       *)
Refused(r) ==
  /\ "refused" \in Faults
  /\ client[r].phase = "ready"
  /\ Retried(r) /\ Ended(r, "refused")
  /\ UNCHANGED <<graphVars, handler, events, doomed>>

ReadAnswer(r) ==
  /\ client[r].phase = "waiting"
  /\ handler[Current(r)] = "answered"
  /\ Returned(r) /\ Ended(r, "ok")
  /\ UNCHANGED <<graphVars, handler, events, doomed>>

(* HTTPError is a URLError: a 500 is retried as if nothing had been done.  *)
ReadError(r) ==
  /\ client[r].phase = "waiting"
  /\ handler[Current(r)] = "failed"
  /\ Retried(r) /\ Ended(r, "error")
  /\ UNCHANGED <<graphVars, handler, events, doomed>>

(* The peer closes the connection: RemoteDisconnected, a ConnectionError.  *)
Reset(r) ==
  /\ client[r].phase = "waiting"
  /\ "reset" \in Faults \/ handler[Current(r)] = "gone"
  /\ Retried(r) /\ Ended(r, "reset")
  /\ UNCHANGED <<graphVars, handler, events, doomed>>

(* Mutant: a timeout is retried like a connection error.                   *)
RetriedTimeOut(r) ==
  /\ "timeout" \in Faults
  /\ client[r].phase = "waiting"
  /\ Retried(r) /\ Ended(r, "timeout")
  /\ UNCHANGED <<graphVars, handler, events, doomed>>

(* The answer does not come in time: getresponse raises TimeoutError,      *)
(* which is neither a URLError nor a ConnectionError.                      *)
TimeOut(r) ==
  /\ "timeout" \in Faults
  /\ client[r].phase = "waiting"
  /\ Returned(r) /\ Ended(r, "timeout")
  /\ UNCHANGED <<graphVars, handler, events, doomed>>

(* The training function returns, or the process is killed in a call.      *)
Stop(r) ==
  /\ \/ client[r].phase = "training"
     \/ "killed" \in Faults /\ client[r].phase \in {"ready", "waiting"}
  /\ client' = [client EXCEPT ![r].phase = "over"]
  /\ UNCHANGED <<graphVars, handler, events, seen, doomed>>

-----------------------------------------------------------------------------
(* The server: create_event_node *)

At(a, phase) == handler' = [handler EXCEPT ![a] = phase]

(* The request is read; a bad label is rejected before the first query.    *)
Accept(a) ==
  /\ handler[a] = "sent"
  /\ At(a, IF KindOf(a) = "badNodeType" THEN "failed" ELSE "creating")
  /\ UNCHANGED <<graphVars, clientVars, doomed>>

(* Mutant: the endpoint answers as soon as the node exists.                *)
CreateNodeAndAnswer(a) ==
  /\ handler[a] = "creating"
  /\ nodes' = nodes \cup {a}
  /\ At(a, "answered")
  /\ UNCHANGED <<experiments, edges, clientVars, doomed>>

(* CREATE (n); the edge type is looked at only now.                        *)
CreateNode(a) ==
  /\ handler[a] = "creating"
  /\ nodes' = nodes \cup {a}
  /\ At(a, IF KindOf(a) = "badEdgeType" THEN "failed" ELSE "linking")
  /\ UNCHANGED <<experiments, edges, clientVars, doomed>>

Linked(a) == IF RunOf(a) \in experiments THEN edges \cup {a} ELSE edges

(* Mutant: the MATCH of the run finds nothing.                             *)
LinkNothing(a) ==
  /\ handler[a] = "linking"
  /\ At(a, "answered")
  /\ UNCHANGED <<graphVars, clientVars, doomed>>

(* MATCH parent, MATCH child, CREATE edge: no run, no edge, a warning.     *)
CreateEdge(a) ==
  /\ handler[a] = "linking"
  /\ edges' = Linked(a)
  /\ At(a, "answered")
  /\ UNCHANGED <<experiments, nodes, clientVars, doomed>>

(* The driver raises, whether the query was committed or not: a 500.       *)
DatabaseFails(a) ==
  /\ "database" \in Faults
  /\ \/ handler[a] = "creating" /\ nodes' \in {nodes, nodes \cup {a}} /\ edges' = edges
     \/ handler[a] = "linking" /\ edges' \in {edges, Linked(a)} /\ nodes' = nodes
  /\ At(a, "failed")
  /\ UNCHANGED <<experiments, clientVars, doomed>>

(* A request nobody read and nobody waits for vanishes.                    *)
Vanish(a) ==
  /\ handler[a] = "sent" /\ ~Open(a)
  /\ At(a, "gone")
  /\ UNCHANGED <<graphVars, clientVars, doomed>>

(* The server process dies, with every handler and every unread answer.    *)
Crash ==
  LET lost == {a \in Attempt : handler[a] \in AtWork
                  \/ (Open(a) /\ handler[a] \in {"answered", "failed"})}
  IN  /\ "crash" \in Faults
      /\ lost # {}
      /\ handler' = [a \in Attempt |-> IF a \in lost THEN "gone" ELSE handler[a]]
      /\ UNCHANGED <<graphVars, clientVars, doomed>>

-----------------------------------------------------------------------------
(* The UI: ExperimentRepository.delete, a query to check and one to delete *)

Produced(r) == {a \in edges : RunOf(a) = r /\ KindOf(a) = "checkpoint"}

CheckDeletable(r) ==
  /\ r \in experiments \ doomed
  /\ Produced(r) = {}
  /\ doomed' = doomed \cup {r}
  /\ UNCHANGED <<graphVars, handler, clientVars>>

(* DETACH DELETE: the edges go, the event nodes stay.                      *)
DeleteExperiment(r) ==
  /\ r \in doomed
  /\ doomed' = doomed \ {r}
  /\ experiments' = experiments \ {r}
  /\ edges' = {a \in edges : RunOf(a) # r}
  /\ UNCHANGED <<nodes, handler, clientVars>>

-----------------------------------------------------------------------------
Attempting(r) == Send(r) \/ Refused(r)
Ending(r)     == ReadAnswer(r) \/ ReadError(r) \/ Reset(r) \/ TimeOut(r)
Handling(a)   == Accept(a) \/ CreateNode(a) \/ CreateEdge(a) \/ DatabaseFails(a)

Next ==
  \/ \E r \in Run :
       \/ \E kind \in EventKind : Emit(r, kind)
       \/ Attempting(r) \/ Ending(r) \/ Stop(r)
       \/ CheckDeletable(r) \/ DeleteExperiment(r)
  \/ \E a \in Attempt : Handling(a) \/ Vanish(a)
  \/ Crash

Spec == Init /\ [][Next]_vars

(* The client's calls are straight-line code around urlopen; the event     *)
(* loop runs a handler that is ready.  Emitting, stopping, deleting and    *)
(* faults are up to others.                                                *)
Fairness ==
  /\ \A r \in Run : WF_vars(Attempting(r)) /\ WF_vars(Ending(r))
  /\ \A a \in Attempt : WF_vars(Handling(a))

FairSpec == Spec /\ Fairness

-----------------------------------------------------------------------------
(* Properties *)

(* What the client logs as emitted is in the graph: the node, and its edge *)
(* to the run unless the experiment was deleted; and it was a valid event. *)
AcknowledgedIsStored ==
  \A a \in Attempt : seen[a] = "ok" =>
    /\ a \in nodes
    /\ a \in edges \/ RunOf(a) \notin experiments
    /\ KindOf(a) \in {"checkpoint", "metric"}

(* An event is in the graph twice, linked both times, only if the answer   *)
(* to the earlier attempt was lost, or was a 500 for a query the database  *)
(* had in fact committed; a timeout is never repeated.                     *)
RepeatedOnlyWhenUnanswered ==
  \A a, b \in edges : EventOf(a) = EventOf(b) /\ AttemptOf(a) < AttemptOf(b) =>
    \/ seen[a] = "reset"
    \/ seen[a] = "error" /\ "database" \in Faults

(* A node left without its edge once its handler is over is explained by   *)
(* the event itself, by a fault between the two transactions, or by the    *)
(* deletion of the experiment.                                             *)
StrayExplained ==
  \A a \in nodes \ edges : handler[a] \in {"answered", "failed", "gone"} =>
    \/ KindOf(a) = "badEdgeType"
    \/ RunOf(a) \notin experiments
    \/ "database" \in Faults /\ handler[a] = "failed"
    \/ "crash" \in Faults /\ handler[a] = "gone"

(* A call of lineage_emit returns to the training function.                *)
EmitReturns ==
  \A r \in Run : client[r].phase \in {"ready", "waiting"}
                   ~> client[r].phase \in {"training", "over"}
=============================================================================
