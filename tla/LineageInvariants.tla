-------------------------- MODULE LineageInvariants --------------------------
(***************************************************************************)
(* The inductive invariant behind the safety properties of LineageSystem:  *)
(* what is true of every call under way, of every process, and of the      *)
(* history "fate", at every step.  Its parts take the graph g and the      *)
(* history f as parameters, to be read before and after a step.            *)
(***************************************************************************)
EXTENDS LineageSystem

PrePhase  == {"previous", "model", "compare", "resume", "promote", "create"}
PostPhase == {"update", "find"}

(* The request of the call is still to be made something of.               *)
Pending(c, call, kind, phases) ==
  call.phase \in phases \/ (call.phase = "wire" /\ KindOf(c) = kind)

(* A POST carries the final report of the run that sent it.                *)
ReportOK(f, call) ==
  /\ call.id \in DOMAIN f
  /\ f[call.id] = call.status
  /\ call.status \in Outcome

(* A successful answer to PRE names the node that very attempt created.    *)
AnswerOK(g, c, answer) ==
  KindOf(c) = "pre" /\ answer.code = 200 =>
    answer.id \in DOMAIN g /\ g[answer.id].by = c

(* A strategy is known when the node is created, and RETRY was decided on  *)
(* the codebase of the node the new one will hang off.                     *)
StrategyOK(g, call) ==
  /\ call.phase \in {"resume", "promote"} => call.strategy = "RESUME"
  /\ call.phase = "create" => call.strategy \in Strategy
  /\ call.phase = "create" /\ call.strategy = "RETRY" =>
       call.ident.id \in DOMAIN g /\ g[call.ident.id].snap = call.snap

CallOK(g, f, c, call) ==
  /\ call \in Call
  /\ call.phase \in PrePhase  => KindOf(c) = "pre"
  /\ call.phase \in PostPhase => KindOf(c) = "post"
  /\ Pending(c, call, "pre", PrePhase)   => call.snap \in Snapshot
  /\ Pending(c, call, "post", PostPhase) => ReportOK(f, call)
  /\ StrategyOK(g, call)
  /\ call.phase \in {"reply", "answered"} => AnswerOK(g, c, call.answer)

CallsOK(g, f, cs) ==
  /\ DOMAIN cs \subseteq CallId
  /\ \A c \in DOMAIN cs : CallOK(g, f, c, cs[c])

(* A process has a context from the moment it adopts its node to its end,  *)
(* and its fate is open exactly while it trains.                           *)
ProcOK(g, f, r, p) ==
  /\ p.pc = "pre" => p.snap \in Snapshot
  /\ p.pc \in {"idle", "pre", "bare"} => p.ctx = 0
  /\ p.pc \in {"train", "post", "save"} =>
       /\ p.ctx \in DOMAIN f
       /\ p.ctx \in DOMAIN g
       /\ RunnerOf(g[p.ctx].by) = r
       /\ RunOf(g[p.ctx].by) = p.run
  /\ p.pc = "train" => f[p.ctx] = "RUNNING"
  /\ p.pc \in {"post", "save"} => f[p.ctx] \in Outcome

(* An adopted node belongs to a run that has got past its PRE: no answer   *)
(* still to be read can name it.                                           *)
PastPre(by, p) == RunOf(by) <= p.run /\ (RunOf(by) = p.run => p.pc # "pre")

FateOK ==
  \A e \in DOMAIN fate :
    e \in DOMAIN graph /\ PastPre(graph[e].by, proc[RunnerOf(graph[e].by)])

(* RetryIsUnchanged, with the parent known to be there.                    *)
RetriesOK ==
  \A e \in DOMAIN graph :
    graph[e].strategy = "RETRY" =>
      /\ graph[e].parent \in DOMAIN graph
      /\ graph[graph[e].parent].snap = graph[e].snap

(* Types, calls, processes, history and graph together: what every step    *)
(* of client and server preserves, and what the safety properties of       *)
(* LineageSystem follow from.                                              *)
IInv ==
  /\ GraphTypeOK
  /\ ServerTypeOK
  /\ ClientTypeOK
  /\ CallsOK(graph, fate, calls)
  /\ \A r \in Runner : ProcOK(graph, fate, r, proc[r])
  /\ FateOK
  /\ RetriesOK
  /\ StatusIsOwnReport
=============================================================================
