-------------------------- MODULE ExperimentHistory --------------------------
(***************************************************************************)
(* The chains of experiments under the triggers of 02-triggers.cypher:     *)
(* sessions that know nothing of each other create experiments             *)
(* (TrainingRepository) and delete them (ExperimentRepository).            *)
(*                                                                         *)
(* A query is a transaction and one step, but a creation is two: its       *)
(* triggers fire in the phase 'before', when what other transactions have  *)
(* not committed is not seen, and it is committed by a step of its own.    *)
(***************************************************************************)
EXTENDS Integers, Sequences, FiniteSets

CONSTANTS
  Session,       \* sessions that create or delete experiments
  Name,          \* names of experiments
  MaxExperiments \* bound: experiments ever created

VARIABLES
  exps,    \* every experiment ever created, its chain_id and its deep
  live,    \* the ids of those in the graph
  session  \* the query each session is at

vars == <<exps, live, session>>

Maximum(S) == CHOOSE x \in S : \A y \in S : y <= x

(* The other end of the one DERIVED_FROM or RETRY_FROM of an experiment,   *)
(* 0 if it has none.                                                       *)
Parent(id) == exps[id].parent

(* The experiments the chain of either relationship leads to.  A parent is *)
(* older than its child.                                                   *)
Ancestors ==
  LET above[id \in 0..Len(exps)] ==
        IF id = 0 \/ Parent(id) = 0 THEN {}
        ELSE {Parent(id)} \cup above[Parent(id)]
  IN  above

-----------------------------------------------------------------------------
Idle == [op |-> "idle"]

Init == exps = <<>> /\ live = {} /\ session = [s \in Session |-> Idle]

(* A session goes on to something else; nothing is written.                *)
Continue(s, task) ==
  /\ session' = [session EXCEPT ![s] = task]
  /\ UNCHANGED <<exps, live>>

-----------------------------------------------------------------------------
(* Creation *)

(* Mutant: the experiments of that name are counted.                       *)
CountedChainId(name) == 1 + Cardinality({i \in live : exps[i].name = name})

(* Mutant: the other experiments are looked up by a property none has.     *)
LoneChainId(name) == 1

(* auto_increment_chain_id, over what is committed.                        *)
NextChainId(name) ==
  1 + Maximum({0} \cup {exps[i].chain : i \in {j \in live : exps[j].name = name}})

(* calculate_deep_trigger, over what is committed.                         *)
Depth(parent) == IF parent = 0 THEN 0 ELSE exps[parent].deep + 1

(* The creation query, alone or with the relationship to a parent that is  *)
(* there, and its triggers.                                                *)
BeginCreation(s, name, parent) ==
  /\ session[s] = Idle
  /\ Len(exps) < MaxExperiments
  /\ Continue(s, [op |-> "create", name |-> name, parent |-> parent,
                  deep |-> Depth(parent), chain |-> NextChainId(name)])

CommitCreation(s) ==
  LET task == session[s]
  IN  /\ task.op = "create"
      /\ Len(exps) < MaxExperiments
      /\ exps' = Append(exps, [name |-> task.name, parent |-> task.parent,
                               deep |-> task.deep, chain |-> task.chain])
      /\ live' = live \cup {Len(exps) + 1}
      /\ session' = [session EXCEPT ![s] = Idle]

-----------------------------------------------------------------------------
(* Deletion *)

(* is_deletable looks at the relationships that leave the experiment: it   *)
(* refuses one that has a parent, or a checkpoint (which is why this step  *)
(* may not be taken), and never one for its children.                      *)
CheckDeletable(s, id) ==
  /\ session[s] = Idle
  /\ Parent(id) = 0
  /\ Continue(s, [op |-> "delete", target |-> id])

(* DETACH DELETE, of whatever the experiment has become since: its         *)
(* children lose their parent.  A creation that holds the node makes it    *)
(* wait; if the node is gone nothing is deleted.                           *)
DeleteExperiment(s) ==
  LET target == session[s].target
  IN  /\ session[s].op = "delete"
      /\ \A t \in Session : session[t].op = "create" => session[t].parent # target
      /\ exps' = [i \in DOMAIN exps |->
           IF Parent(i) = target THEN [exps[i] EXCEPT !.parent = 0] ELSE exps[i]]
      /\ live' = live \ {target}
      /\ session' = [session EXCEPT ![s] = Idle]

(* A query raises, or the session is closed.                               *)
Abandon(s) == session[s] # Idle /\ Continue(s, Idle)

-----------------------------------------------------------------------------
Next ==
  \E s \in Session :
    \/ \E name \in Name, parent \in live \cup {0} : BeginCreation(s, name, parent)
    \/ CommitCreation(s)
    \/ \E id \in live : CheckDeletable(s, id)
    \/ DeleteExperiment(s)
    \/ Abandon(s)

Spec == Init /\ [][Next]_vars

-----------------------------------------------------------------------------
(* Along a chain deep grows, and so does chain_id among the experiments of *)
(* one name, however many others were created or deleted meanwhile         *)
(* (02-triggers.cypher:30-67, experiment_repository.py:439-478).           *)
OrderedAlongChains ==
  \A j \in live : \A i \in Ancestors[j] :
    /\ exps[i].deep < exps[j].deep
    /\ exps[i].name = exps[j].name => exps[i].chain < exps[j].chain

(* chain_id is not unique for a name, but no more experiments share one    *)
(* than can be under creation at a time (02-triggers.cypher:30-47).        *)
ClashBounded ==
  \A i \in live :
    Cardinality({j \in live : /\ exps[j].name = exps[i].name
                              /\ exps[j].chain = exps[i].chain}) <= Cardinality(Session)
=============================================================================
