------------------------ MODULE LineageRefusalProofs ------------------------
(***************************************************************************)
(* What the refusals of client and server are good for.  A blocking        *)
(* project is spared runs without tracking and a RESUME in the middle of a *)
(* lineage; and no lineage changes its model two generations apart.  Both  *)
(* were decided queries before the node is written, so the invariants      *)
(* follow the calls; the second also follows the identity a project keeps  *)
(* from one run to the next.  The last part is about the place of an       *)
(* experiment in its chain: what a project keeps of it is right, and the   *)
(* first diff of a chain applies to the codebase of its base.              *)
(***************************************************************************)
EXTENDS LineageSystemProofs, ChainRecursion

StrictCall(c, call) ==
  ProjectOf[RunnerOf(c)] \in Blocking => call.strategy # "RESUME"

(* No call of a blocking project is on its way to a RESUME.                *)
StrictCalls(cs) == \A c \in DOMAIN cs : StrictCall(c, cs[c])

StrictInv == StrictCalls(calls) /\ BlockingIsStrict

-----------------------------------------------------------------------------
(* Calls                                                                   *)

LEMMA StrictOneChanges ==
  ASSUME NEW cs, StrictCalls(cs), NEW c \in DOMAIN cs, NEW call, StrictCall(c, call)
  PROVE  StrictCalls([cs EXCEPT ![c] = call])
  BY DEF StrictCalls

LEMMA StrictOneComes ==
  ASSUME NEW cs, StrictCalls(cs), NEW c, NEW call, StrictCall(c, call)
  PROVE  StrictCalls(With(cs, c, call))
  BY DEF StrictCalls, With

LEMMA StrictOneGoes ==
  ASSUME NEW cs, StrictCalls(cs), NEW c
  PROVE  StrictCalls(Without(cs, c))
  BY DEF StrictCalls, Without

(* A request, and an answer, have no strategy.                             *)
LEMMA StrictRequests ==
  ASSUME NEW c
  PROVE  /\ \A ident, snap : StrictCall(c, PreCall(ident, snap))
         /\ \A id, status : StrictCall(c, PostCall(id, status))
         /\ \A open, answer : StrictCall(c, Done(open, answer))
<1>1. \A ident, snap : PreCall(ident, snap).strategy = "unknown"
  BY DEF PreCall
<1>2. \A id, status : PostCall(id, status).strategy = "unknown"
  BY DEF PreCall, PostCall
<1>3. \A open, answer : Done(open, answer).strategy = "unknown"
  BY DEF PreCall, Done
<1> QED
  BY <1>1, <1>2, <1>3 DEF StrictCall

LEMMA StrictLeft ==
  ASSUME IInv, StrictCalls(calls), NEW c
  PROVE  /\ \A left \in HungUp(c) : StrictCalls(left)
         /\ \A left \in ConnectionErrors(c) : StrictCalls(left)
         /\ \A left \in OtherErrors(c) : StrictCalls(left)
<1>1. StrictCalls(Without(calls, c))
  BY StrictOneGoes
<1>2. c \in DOMAIN calls => StrictCalls([calls EXCEPT ![c].open = FALSE])
  <2>1. SUFFICES ASSUME c \in DOMAIN calls
                 PROVE  StrictCalls([calls EXCEPT ![c].open = FALSE])
    OBVIOUS
  <2>2. calls[c] \in Call /\ StrictCall(c, calls[c])
    BY <2>1, CallFacts DEF StrictCalls
  <2>3. StrictCall(c, [calls[c] EXCEPT !.open = FALSE])
    BY <2>2 DEF StrictCall, Call
  <2> QED
    BY <2>1, <2>3, StrictOneChanges
<1>3. \A left \in HungUp(c) : StrictCalls(left)
  BY <1>1, <1>2 DEF HungUp
<1> QED
  BY <1>1, <1>3 DEF ConnectionErrors, OtherErrors

LEMMA StrictProceed ==
  ASSUME StrictCalls(calls), NEW c \in DOMAIN calls,
         NEW call \in Call, StrictCall(c, call), Proceed(c, call)
  PROVE  StrictCalls(calls')
<1>1. [call EXCEPT !.issued = OnTop(c)].strategy = call.strategy
  BY DEF Call
<1> QED
  BY <1>1, StrictOneChanges DEF Proceed, StrictCall

LEMMA StrictGoTo ==
  ASSUME IInv, StrictCalls(calls), NEW c \in DOMAIN calls, NEW phase \in Phase,
         GoTo(c, phase)
  PROVE  StrictCalls(calls')
<1>1. calls[c] \in Call /\ StrictCall(c, calls[c])
  BY CallFacts DEF StrictCalls
<1>2. /\ [calls[c] EXCEPT !.phase = phase] \in Call
      /\ StrictCall(c, [calls[c] EXCEPT !.phase = phase])
  BY <1>1 DEF StrictCall, Call
<1> QED
  BY <1>2, StrictProceed DEF GoTo

LEMMA StrictAnswer ==
  ASSUME StrictCalls(calls), NEW c \in DOMAIN calls, NEW answer, AnswerWith(c, answer)
  PROVE  StrictCalls(calls')
<1> DEFINE done == Done(calls[c].open, answer)
<1>1. [done EXCEPT !.issued = OnTop(c)].strategy = "unknown"
  BY DEF Done, PreCall
<1>2. calls' = [calls EXCEPT ![c] = [done EXCEPT !.issued = OnTop(c)]]
  BY DEF AnswerWith, Proceed
<1> HIDE DEF done
<1> QED
  BY <1>1, <1>2, StrictOneChanges DEF StrictCall

-----------------------------------------------------------------------------
(* Steps of the server                                                     *)

LEMMA StrictHandle ==
  ASSUME IInv, StrictCalls(calls), NEW c \in DOMAIN calls, Handle(c)
  PROVE  StrictCalls(calls')
<1>1. calls[c] \in Call /\ StrictCall(c, calls[c])
  BY CallFacts DEF StrictCalls
<1>2. CASE Accept(c)
  <2>1. StrictCall(c, Unsupported(c))
    <3>1. Unsupported(c).strategy = "unknown"
      BY DEF Unsupported, Done, PreCall
    <3> QED
      BY <3>1 DEF StrictCall
  <2>2. StrictCall(c, Started(c))
    <3>1. Started(c).strategy \in {"NEW", calls[c].strategy}
      BY <1>1 DEF Started, Call
    <3> QED
      BY <1>1, <3>1 DEF StrictCall
  <2> QED
    BY <1>2, <2>1, <2>2, StrictOneChanges DEF Accept
<1>3. CASE ReadPrevious(c)
  <2> DEFINE prev == calls[c].ident.prev
             old  == IF Exists(prev) THEN graph[prev].snap ELSE Garbled
             next == [calls[c] EXCEPT !.phase = "model", !.prevSnap = old]
  <2>1. old \in Snapshot \cup {Garbled}
    BY GraphFacts DEF IInv, Exists, Node
  <2> HIDE DEF old
  <2>2. next \in Call /\ StrictCall(c, next)
    BY <1>1, <2>1 DEF Call, Phase, DbPhase, StrictCall
  <2>3. Proceed(c, next)
    BY <1>3 DEF ReadPrevious, old
  <2> HIDE DEF next
  <2> QED
    BY <2>2, <2>3, StrictProceed
<1>4. CASE SwitchModel(c)
  <2> DEFINE next == [calls[c] EXCEPT !.phase = "resume", !.strategy = "RESUME"]
  <2>1. next \in Call /\ StrictCall(c, next)
    BY <1>1, <1>4 DEF SwitchModel, IsBlocking, Call, Phase, DbPhase, Strategy, StrictCall
  <2>2. Proceed(c, next)
    BY <1>4 DEF SwitchModel
  <2> HIDE DEF next
  <2> QED
    BY <2>1, <2>2, StrictProceed
<1>5. CASE CompareCodebase(c)
  <2> DEFINE old  == ReconstructedCodebase(calls[c].ident.id)
             next == [calls[c] EXCEPT !.phase = "create", !.from = old,
                        !.strategy = IF old = calls[c].snap THEN "RETRY" ELSE "BRANCH"]
  <2>1. CASE Exists(calls[c].ident.id)
    <3>1. Proceed(c, next)
      BY <1>5, <2>1 DEF CompareCodebase
    <3>2. [next EXCEPT !.issued = OnTop(c)].strategy # "RESUME"
      <4> HIDE DEF old
      <4> QED BY <1>1 DEF Call
    <3>3. calls' = [calls EXCEPT ![c] = [next EXCEPT !.issued = OnTop(c)]]
      BY <3>1 DEF Proceed
    <3> HIDE DEF next
    <3> QED
      BY <3>2, <3>3, StrictOneChanges DEF StrictCall
  <2>2. CASE ~Exists(calls[c].ident.id)
    BY <1>5, <2>2, StrictAnswer DEF CompareCodebase
  <2> QED
    BY <2>1, <2>2
<1>6. CASE LookForModel(c)
  <2>1. GoTo(c, "promote") \/ GoTo(c, "create")
    BY <1>6 DEF LookForModel
  <2> QED
    BY <2>1, StrictGoTo DEF Phase, DbPhase
<1>7. CASE KeepModel(c) \/ PromoteToModel(c) \/ SetStatus(c)
  <2>1. GoTo(c, "compare") \/ GoTo(c, "create") \/ GoTo(c, "find")
    BY <1>7 DEF KeepModel, PromoteToModel, SetStatus
  <2> QED
    BY <2>1, StrictGoTo DEF Phase, DbPhase
<1>8. CASE RefuseModelSwitch(c) \/ CreateExperiment(c) \/ FailToCreate(c) \/ ConfirmStatus(c)
  <2>1. \E answer : AnswerWith(c, answer)
    BY <1>8 DEF RefuseModelSwitch, CreateExperiment, FailToCreate, ConfirmStatus
  <2> QED
    BY <2>1, StrictAnswer
<1>9. CASE Reply(c)
  <2> DEFINE answered == [calls[c] EXCEPT !.phase = "answered", !.issued = FALSE]
             rest == IF calls[c].open THEN [calls EXCEPT ![c] = answered]
                                      ELSE Without(calls, c)
  <2>1. StrictCall(c, answered)
    BY <1>1 DEF StrictCall, Call
  <2>2. StrictCalls(rest)
    <3> HIDE DEF answered
    <3>1. StrictCalls([calls EXCEPT ![c] = answered]) /\ StrictCalls(Without(calls, c))
      BY <2>1, StrictOneChanges, StrictOneGoes
    <3> QED
      BY <3>1
  <2>3. calls' = Resumed(rest, nest')
    BY <1>9 DEF Reply
  <2> HIDE DEF rest
  <2> QED
    BY <2>2, <2>3 DEF Resumed, StrictCalls, StrictCall
<1> QED
  BY <1>2, <1>3, <1>4, <1>5, <1>6, <1>7, <1>8, <1>9 DEF Handle

LEMMA StrictServer ==
  ASSUME IInv, StrictCalls(calls), ServerStep
  PROVE  StrictCalls(calls')
<1>1. ASSUME NEW c \in DOMAIN calls, DbFails(c) \/ CreationUnconfirmed(c)
      PROVE  StrictCalls(calls')
  <2>1. GoTo(c, "create") \/ AnswerWith(c, Refusal(500))
    BY <1>1 DEF DbFails, CreationUnconfirmed
  <2> QED
    BY <2>1, StrictGoTo, StrictAnswer DEF Phase, DbPhase
<1>2. CASE Crash
  BY <1>2 DEF Crash, StrictCalls
<1> QED
  BY <1>1, <1>2, StrictHandle DEF ServerStep, ServerNext

-----------------------------------------------------------------------------
(* Steps of the clients                                                    *)

LEMMA StrictClient ==
  ASSUME IInv, StrictCalls(calls), ClientStep
  PROVE  StrictCalls(calls')
<1>1. ASSUME NEW r \in Runner, NEW snap \in Snapshot, Launch(r, snap)
      PROVE  StrictCalls(calls')
  BY <1>1, StrictRequests, StrictOneComes DEF Launch
<1>2. ASSUME NEW r \in Runner, NEW outcome \in Outcome, FinishTraining(r, outcome)
      PROVE  StrictCalls(calls')
  BY <1>2, StrictRequests, StrictOneComes DEF FinishTraining
<1>3. ASSUME NEW r \in Runner, Adopt(r) \/ Refused(r) \/ Acknowledged(r) \/ Unacknowledged(r)
      PROVE  StrictCalls(calls')
  BY <1>3, StrictOneGoes DEF Adopt, Refused, Acknowledged, Unacknowledged
<1>4. ASSUME NEW r \in Runner, Retry(r)
      PROVE  StrictCalls(calls')
  <2> DEFINE c == <<r, proc[r].run, proc[r].pc, proc[r].attempt + 1>>
  <2>1. PICK left \in ConnectionErrors(CurrentCall(r)) : calls' = With(left, c, Request(r))
    BY <1>4 DEF Retry
  <2>2. StrictCalls(left)
    BY <2>1, StrictLeft
  <2>3. StrictCall(c, Request(r))
    BY StrictRequests DEF Request
  <2> HIDE DEF c
  <2> QED
    BY <2>1, <2>2, <2>3, StrictOneComes
<1>5. ASSUME NEW r \in Runner, GiveUp(r) \/ Killed(r)
      PROVE  StrictCalls(calls')
  BY <1>5, StrictLeft DEF GiveUp, Killed
<1>6. ASSUME NEW r \in Runner, LaunchUnsent(r) \/ FinishUntracked(r) \/ SaveStatus(r)
      PROVE  StrictCalls(calls')
  BY <1>6 DEF LaunchUnsent, FinishUntracked, SaveStatus
<1> QED
  BY <1>1, <1>2, <1>3, <1>4, <1>5, <1>6 DEF ClientStep, ClientNext, Resolve

(* A process of a blocking project never goes on without tracking.         *)
LEMMA NeverBare ==
  ASSUME IInv, Next, NEW r \in Runner, Dir(r) \in Blocking, proc[r].pc # "bare"
  PROVE  proc'[r].pc # "bare"
<1>1. CASE ServerStep
  BY <1>1 DEF ServerStep, clientVars
<1>2. CASE ClientStep
  <2>1. proc \in [Runner -> Proc]
    BY DEF IInv, ClientTypeOK
  <2>2. \A run : Resting(run).pc = "idle"
    BY DEF Resting
  <2>3. ASSUME NEW q \in Runner, NEW p, p.pc # "bare", proc' = [proc EXCEPT ![q] = p]
        PROVE  proc'[r].pc # "bare"
    BY <2>1, <2>3
  <2>4. ASSUME NEW q \in Runner, Ended(q) PROVE proc'[r].pc # "bare"
    BY <2>2, <2>3, <2>4 DEF Ended
  <2>5. ASSUME NEW q \in Runner, Untracked(q), ~IsBlockingRunner(q)
        PROVE  proc'[r].pc # "bare"
    <3>1. q # r
      BY <2>5 DEF IsBlockingRunner
    <3> QED
      BY <2>1, <2>5, <3>1 DEF Untracked
  <2>6. ASSUME NEW q \in Runner, PreFailed(q) PROVE proc'[r].pc # "bare"
    BY <2>4, <2>5, <2>6 DEF PreFailed
  <2>7. ASSUME NEW q \in Runner, NEW snap \in Snapshot, Launch(q, snap)
        PROVE  proc'[r].pc # "bare"
    <3> DEFINE ident == IF Dir(q) \in Orchestrated THEN NoIdentity ELSE files[Dir(q)].ident
               p == [Resting(proc[q].run + 1) EXCEPT
                       !.pc = "pre", !.ident = ident, !.snap = snap]
    <3>1. p.pc = "pre" /\ proc' = [proc EXCEPT ![q] = p]
      BY <2>7 DEF Launch, Resting
    <3> HIDE DEF p
    <3> QED
      BY <2>3, <3>1
  <2>8. ASSUME NEW q \in Runner, Adopt(q)
        PROVE  proc'[r].pc # "bare"
    <3> DEFINE p == [Resting(proc[q].run) EXCEPT !.pc = "train", !.ctx = AnswerOf(q).id]
    <3>1. p.pc = "train" /\ proc' = [proc EXCEPT ![q] = p]
      BY <2>1, <2>8 DEF Adopt, Resting
    <3> HIDE DEF p
    <3> QED
      BY <2>3, <3>1
  <2>9. ASSUME NEW q \in Runner,
               Acknowledged(q) \/ Retry(q) \/ \E outcome \in Outcome : FinishTraining(q, outcome)
        PROVE  proc'[r].pc # "bare"
    BY <2>1, <2>9 DEF Acknowledged, Retry, FinishTraining, Proc
  <2>10. ASSUME NEW q \in Runner,
                FinishUntracked(q) \/ SaveStatus(q) \/ Killed(q) \/ Unacknowledged(q)
         PROVE  proc'[r].pc # "bare"
    BY <2>4, <2>10 DEF FinishUntracked, SaveStatus, Killed, Unacknowledged
  <2>11. ASSUME NEW q \in Runner, Refused(q) \/ GiveUp(q)
         PROVE  proc'[r].pc # "bare"
    BY <2>4, <2>6, <2>11 DEF Refused, GiveUp
  <2>12. ASSUME NEW q \in Runner, LaunchUnsent(q)
         PROVE  proc'[r].pc # "bare"
    BY <2>5, <2>12 DEF LaunchUnsent
  <2> QED
    BY <1>2, <2>7, <2>8, <2>9, <2>10, <2>11, <2>12 DEF ClientStep, ClientNext, Resolve
<1> QED
  BY <1>1, <1>2 DEF Next

-----------------------------------------------------------------------------
(* The graph                                                               *)

LEMMA StrictGraph ==
  ASSUME IInv, StrictInv, Next,
         NEW e \in DOMAIN graph', Dir(RunnerOf(graph'[e].by)) \in Blocking
  PROVE  graph'[e].strategy # "RESUME"
<1>1. GraphTypeOK
  BY DEF IInv
<1>2. CASE graph' = graph
  BY <1>2 DEF StrictInv, BlockingIsStrict
<1>3. ASSUME NEW c \in DOMAIN calls, Creation(c)
      PROVE  graph'[e].strategy # "RESUME"
  <2>1. PICK node \in Node : graph' = Append(graph, node) /\ node.by = c
    BY <1>3, CreatedNode DEF Creation
  <2>2. /\ DOMAIN graph' = DOMAIN graph \cup {NewId}
        /\ graph'[NewId] = node
        /\ \A d \in DOMAIN graph : graph'[d] = graph[d]
    BY <1>1, <2>1, AppendFacts
  <2>3. node.strategy = calls[c].strategy
    <3>1. \E snap, from, parent :
            graph' = Append(graph, NewNode(snap, from, parent, calls[c].strategy, c))
      BY <1>3 DEF Creation, CreateNode, CreateBaseExperiment, CreateNonBaseExperiment
    <3>2. PICK snap, from, parent :
            graph' = Append(graph, NewNode(snap, from, parent, calls[c].strategy, c))
      BY <3>1
    <3>3. graph'[NewId] = NewNode(snap, from, parent, calls[c].strategy, c)
      BY <1>1, <3>2, GraphFacts DEF GraphTypeOK, NewId
    <3> QED
      BY <2>2, <3>3 DEF NewNode
  <2>4. StrictCall(c, calls[c])
    BY DEF StrictInv, StrictCalls
  <2>5. CASE e = NewId
    BY <2>1, <2>2, <2>3, <2>4, <2>5 DEF StrictCall, Dir
  <2>6. CASE e \in DOMAIN graph
    BY <2>2, <2>6 DEF StrictInv, BlockingIsStrict
  <2> QED
    BY <2>2, <2>5, <2>6
<1>4. ASSUME NEW c \in DOMAIN calls, Update(c)
      PROVE  graph'[e].strategy # "RESUME"
  <2>1. calls[c] \in Call
    BY CallFacts
  <2>2. \A d \in DOMAIN graph : graph[d] \in Node
    BY <1>1, GraphFacts
  <2>3. /\ DOMAIN graph' = DOMAIN graph
        /\ graph'[e].by = graph[e].by /\ graph'[e].strategy = graph[e].strategy
    BY <1>4, <2>2 DEF Update, UpdateExperimentStatus, Node
  <2> QED
    BY <2>3 DEF StrictInv, BlockingIsStrict
<1> QED
  BY <1>2, <1>3, <1>4, GraphStep

LEMMA StrictNext == IInv /\ StrictInv /\ [Next]_vars => StrictInv'
<1>1. ASSUME IInv, StrictInv, Next PROVE StrictInv'
  <2>1. StrictCalls(calls)'
    <3>1. StrictCalls(calls)
      BY <1>1 DEF StrictInv
    <3> QED
      BY <1>1, <3>1, StrictServer, StrictClient DEF Next, StrictCalls
  <2>2. \A r \in Runner : Dir(r) \in Blocking => proc'[r].pc # "bare"
    BY <1>1, NeverBare DEF StrictInv, BlockingIsStrict
  <2>3. \A e \in DOMAIN graph' :
          Dir(RunnerOf(graph'[e].by)) \in Blocking => graph'[e].strategy # "RESUME"
    BY <1>1, StrictGraph
  <2> QED
    BY <2>1, <2>2, <2>3 DEF StrictInv, BlockingIsStrict, Dir, RunnerOf
<1>2. ASSUME StrictInv, UNCHANGED vars PROVE StrictInv'
  BY <1>2 DEF StrictInv, StrictCalls, StrictCall, BlockingIsStrict, Dir, RunnerOf,
              vars, clientVars, graphVars
<1> QED
  BY <1>1, <1>2

(* A blocking project trains nothing untracked and never gets a RESUME,    *)
(* whatever is refused, retried, late or lost (client.py, the exits of     *)
(* pre_execution; training_run_case_handler.py, ModelIdMismatchError).     *)
THEOREM StrictlyBlocked == Spec => []BlockingIsStrict
<1>1. Init => StrictInv
  <2> SUFFICES ASSUME Init PROVE StrictInv
    OBVIOUS
  <2>1. calls = <<>> /\ graph = <<>> /\ proc = [r \in Runner |-> Resting(0)]
    BY DEF Init, WireInit, GraphInit, ClientInit
  <2>2. DOMAIN calls = {} /\ DOMAIN graph = {}
    BY <2>1
  <2>3. \A r \in Runner : proc[r].pc = "idle"
    BY <2>1 DEF Resting
  <2> QED
    BY <2>2, <2>3 DEF StrictInv, StrictCalls, BlockingIsStrict
<1>2. IInv /\ StrictInv /\ [Next]_vars => StrictInv'
  BY StrictNext
<1>3. StrictInv => BlockingIsStrict
  BY DEF StrictInv
<1> QED
  BY <1>1, <1>2, <1>3, Invariance, PTL DEF Spec

-----------------------------------------------------------------------------
(* The model two generations apart                                         *)

(* What experiment.yml, a process or a request says of the lineage: the    *)
(* experiment is there, and the one before it is its parent, if it has one. *)
IdentOK(g, ident) ==
  /\ ident.prev # 0 => ident.prev \in DOMAIN g
  /\ ident.id # 0 =>
       /\ ident.id \in DOMAIN g
       /\ g[ident.id].parent # 0 => ident.prev = g[ident.id].parent

(* How far the model check of a call has come.                             *)
ModelCallOK(g, call) ==
  /\ IdentOK(g, call.ident)
  /\ call.phase = "model" /\ call.ident.prev # 0 =>
       call.prevSnap = g[call.ident.prev].snap
  /\ /\ call.phase = "compare" \/ (call.phase = "create" /\ ~IsBase(call.strategy))
     /\ call.ident.prev # 0
     => ModelOf[call.snap] = ModelOf[g[call.ident.prev].snap]

(* A call of the run its runner is at has the identity that run began with. *)
OwnCallOK(ps, c, call) ==
  LET p == ps[RunnerOf(c)] IN
  /\ RunOf(c) <= p.run
  /\ RunOf(c) = p.run /\ p.pc = "pre" /\ Pending(c, call, "pre", PrePhase) =>
       call.ident = p.ident

(* ... and the nodes of that run hang off the experiment it names.         *)
OwnNodeOK(ps, node) ==
  LET p == ps[RunnerOf(node.by)] IN
  /\ RunOf(node.by) <= p.run
  /\ RunOf(node.by) = p.run /\ p.pc = "pre" /\ node.parent # 0 =>
       node.parent = p.ident.id

KeptCall(g, ps, c, call) == ModelCallOK(g, call) /\ OwnCallOK(ps, c, call)

KeptCalls(g, ps, cs) == \A c \in DOMAIN cs : KeptCall(g, ps, c, cs[c])

KeptNodes(g, ps) == \A e \in DOMAIN g : OwnNodeOK(ps, g[e])

KeptIdents(g, ps, fs) ==
  /\ \A r \in Runner : IdentOK(g, ps[r].ident) /\ IdentOK(g, ps[r].held.ident)
  /\ \A p \in Project : IdentOK(g, fs[p].ident)

(* ModelKeptTwoApart of a graph whose nodes hang off nodes.                *)
KeptModels(g) ==
  \A e \in DOMAIN g :
    g[e].parent # 0 =>
      /\ g[e].parent \in DOMAIN g
      /\ LET before == g[g[e].parent].parent IN
         before # 0 => before \in DOMAIN g /\ ModelOf[g[e].snap] = ModelOf[g[before].snap]

KeptInv ==
  /\ KeptCalls(graph, proc, calls)
  /\ KeptNodes(graph, proc)
  /\ KeptIdents(graph, proc, files)
  /\ KeptModels(graph)

-----------------------------------------------------------------------------
(* What grows keeps                                                        *)

LEMMA IdentGrows ==
  ASSUME NEW g, NEW h, GraphKeeps(g, h), NEW ident, IdentOK(g, ident)
  PROVE  IdentOK(h, ident)
  BY DEF IdentOK, GraphKeeps

LEMMA ModelCallGrows ==
  ASSUME NEW g, NEW h, GraphKeeps(g, h), NEW call, ModelCallOK(g, call)
  PROVE  ModelCallOK(h, call)
<1>1. IdentOK(h, call.ident)
  BY IdentGrows DEF ModelCallOK
<1>2. call.ident.prev # 0 => h[call.ident.prev].snap = g[call.ident.prev].snap
  BY DEF ModelCallOK, IdentOK, GraphKeeps
<1> QED
  BY <1>1, <1>2 DEF ModelCallOK

LEMMA KeptCallsGrow ==
  ASSUME NEW g, NEW h, GraphKeeps(g, h), NEW ps, NEW cs, KeptCalls(g, ps, cs)
  PROVE  KeptCalls(h, ps, cs)
  BY ModelCallGrows DEF KeptCalls, KeptCall

LEMMA NoIdentityOK ==
  ASSUME NEW g
  PROVE  IdentOK(g, NoIdentity)
  BY DEF IdentOK, NoIdentity

-----------------------------------------------------------------------------
(* Calls                                                                   *)

LEMMA KeptOneChanges ==
  ASSUME NEW g, NEW ps, NEW cs, KeptCalls(g, ps, cs),
         NEW c \in DOMAIN cs, NEW call, KeptCall(g, ps, c, call)
  PROVE  KeptCalls(g, ps, [cs EXCEPT ![c] = call])
  BY DEF KeptCalls

LEMMA KeptOneComes ==
  ASSUME NEW g, NEW ps, NEW cs, KeptCalls(g, ps, cs),
         NEW c, NEW call, KeptCall(g, ps, c, call)
  PROVE  KeptCalls(g, ps, With(cs, c, call))
  BY DEF KeptCalls, With

LEMMA KeptOneGoes ==
  ASSUME NEW g, NEW ps, NEW cs, KeptCalls(g, ps, cs), NEW c
  PROVE  KeptCalls(g, ps, Without(cs, c))
  BY DEF KeptCalls, Without

LEMMA KeptFlags ==
  ASSUME NEW g, NEW ps, NEW c, NEW call \in Call, KeptCall(g, ps, c, call),
         NEW flag \in BOOLEAN
  PROVE  /\ KeptCall(g, ps, c, [call EXCEPT !.issued = flag])
         /\ KeptCall(g, ps, c, [call EXCEPT !.open = flag])
<1>1. ASSUME NEW new, new.phase = call.phase, new.ident = call.ident, new.snap = call.snap,
             new.prevSnap = call.prevSnap, new.strategy = call.strategy
      PROVE  KeptCall(g, ps, c, new)
  BY <1>1 DEF KeptCall, ModelCallOK, OwnCallOK, Pending
<1> DEFINE issued == [call EXCEPT !.issued = flag]
           open   == [call EXCEPT !.open = flag]
<1>2. /\ issued.phase = call.phase /\ issued.ident = call.ident /\ issued.snap = call.snap
      /\ issued.prevSnap = call.prevSnap /\ issued.strategy = call.strategy
  BY DEF Call
<1>3. /\ open.phase = call.phase /\ open.ident = call.ident /\ open.snap = call.snap
      /\ open.prevSnap = call.prevSnap /\ open.strategy = call.strategy
  BY DEF Call
<1> HIDE DEF issued, open
<1>4. KeptCall(g, ps, c, issued) /\ KeptCall(g, ps, c, open)
  BY <1>1, <1>2, <1>3
<1> QED
  BY <1>4 DEF issued, open

(* An answered call claims nothing.                                        *)
LEMMA KeptDone ==
  ASSUME NEW g, NEW ps, NEW c, RunOf(c) <= ps[RunnerOf(c)].run,
         NEW call, call.phase \in {"reply", "answered", "update", "find"},
         IdentOK(g, call.ident)
  PROVE  KeptCall(g, ps, c, call)
  BY DEF KeptCall, ModelCallOK, OwnCallOK, Pending, PrePhase

LEMMA KeptLeft ==
  ASSUME IInv, NEW ps, KeptCalls(graph, ps, calls), NEW c
  PROVE  /\ \A left \in HungUp(c) : KeptCalls(graph, ps, left)
         /\ \A left \in ConnectionErrors(c) : KeptCalls(graph, ps, left)
         /\ \A left \in OtherErrors(c) : KeptCalls(graph, ps, left)
<1>1. KeptCalls(graph, ps, Without(calls, c))
  BY KeptOneGoes
<1>2. c \in DOMAIN calls => KeptCalls(graph, ps, [calls EXCEPT ![c].open = FALSE])
  <2>1. SUFFICES ASSUME c \in DOMAIN calls
                 PROVE  KeptCalls(graph, ps, [calls EXCEPT ![c].open = FALSE])
    OBVIOUS
  <2>2. calls[c] \in Call /\ KeptCall(graph, ps, c, calls[c])
    BY <2>1, CallFacts DEF KeptCalls
  <2>3. KeptCall(graph, ps, c, [calls[c] EXCEPT !.open = FALSE])
    BY <2>2, KeptFlags
  <2> QED
    BY <2>1, <2>3, KeptOneChanges
<1>3. \A left \in HungUp(c) : KeptCalls(graph, ps, left)
  BY <1>1, <1>2 DEF HungUp
<1> QED
  BY <1>1, <1>3 DEF ConnectionErrors, OtherErrors

LEMMA KeptProceed ==
  ASSUME NEW g, KeptCalls(g, proc, calls), NEW c \in DOMAIN calls,
         NEW call \in Call, KeptCall(g, proc, c, call), Proceed(c, call)
  PROVE  KeptCalls(g, proc, calls')
<1>1. OnTop(c) \in BOOLEAN
  BY DEF OnTop
<1>2. KeptCall(g, proc, c, [call EXCEPT !.issued = OnTop(c)])
  BY <1>1, KeptFlags
<1> QED
  BY <1>2, KeptOneChanges DEF Proceed

LEMMA KeptAnswer ==
  ASSUME NEW g, KeptCalls(g, proc, calls), NEW c \in DOMAIN calls, NEW answer,
         AnswerWith(c, answer)
  PROVE  KeptCalls(g, proc, calls')
<1> DEFINE done == [Done(calls[c].open, answer) EXCEPT !.issued = OnTop(c)]
<1>1. done.phase = "reply" /\ done.ident = NoIdentity
  BY DEF Done, PreCall
<1>2. RunOf(c) <= proc[RunnerOf(c)].run
  BY DEF KeptCalls, KeptCall, OwnCallOK
<1>3. calls' = [calls EXCEPT ![c] = done]
  BY DEF AnswerWith, Proceed
<1> HIDE DEF done
<1>4. KeptCall(g, proc, c, done)
  BY <1>1, <1>2, KeptDone, NoIdentityOK
<1> QED
  BY <1>3, <1>4, KeptOneChanges

-----------------------------------------------------------------------------
(* Steps of the server                                                     *)

LEMMA KeptAdvance ==
  ASSUME IInv, KeptCalls(graph, proc, calls), NEW c, NEW phase \in PrePhase,
         Executing(c, phase), NEW call \in Call, call.ident = calls[c].ident,
         ModelCallOK(graph, call), Proceed(c, call)
  PROVE  KeptCalls(graph, proc, calls')
<1>1. c \in DOMAIN calls /\ calls[c].phase = phase
  BY DEF Executing
<1>2. OwnCallOK(proc, c, calls[c])
  BY <1>1 DEF KeptCalls, KeptCall
<1>3. OwnCallOK(proc, c, call)
  BY <1>1, <1>2 DEF OwnCallOK, Pending
<1> QED
  BY <1>1, <1>3, KeptProceed DEF KeptCall

LEMMA KeptAccept ==
  ASSUME IInv, KeptCalls(graph, proc, calls), NEW c, Accept(c)
  PROVE  KeptCalls(graph, proc, calls')
<1>1. c \in DOMAIN calls /\ calls[c].phase = "wire"
  BY DEF Accept
<1>2. /\ KindOf(c) \in {"pre", "post"} /\ calls[c] \in Call
      /\ ModelCallOK(graph, calls[c]) /\ OwnCallOK(proc, c, calls[c])
  BY <1>1, CallFacts DEF KeptCalls, KeptCall
<1>3. RunOf(c) <= proc[RunnerOf(c)].run
  BY <1>2 DEF OwnCallOK
<1>4. KeptCall(graph, proc, c, Unsupported(c))
  <2>1. Unsupported(c).phase = "reply" /\ Unsupported(c).ident = NoIdentity
    BY DEF Unsupported, Done, PreCall
  <2> QED
    BY <1>3, <2>1, KeptDone, NoIdentityOK
<1>5. KeptCall(graph, proc, c, Started(c))
  <2>1. /\ Started(c).phase = FirstPhase(c) /\ Started(c).ident = calls[c].ident
        /\ KindOf(c) = "pre" /\ IsNew(calls[c].ident) => Started(c).strategy = "NEW"
    BY <1>2 DEF Started, Call
  <2>2. IdentOK(graph, Started(c).ident)
    BY <1>2, <2>1 DEF ModelCallOK
  <2>3. CASE KindOf(c) = "post"
    <3>1. Started(c).phase = "update"
      BY <2>1, <2>3 DEF FirstPhase
    <3> QED
      BY <1>3, <2>2, <3>1, KeptDone
  <2>4. CASE KindOf(c) = "pre"
    <3>1. /\ Started(c).phase \in {"create", "previous", "model"}
          /\ Started(c).phase = "create" => Started(c).strategy = "NEW"
          /\ Started(c).phase = "model" => calls[c].ident.prev = 0
      BY <2>1, <2>4 DEF FirstPhase
    <3>2. ModelCallOK(graph, Started(c))
      BY <2>1, <2>2, <3>1 DEF ModelCallOK, IsBase
    <3>3. OwnCallOK(proc, c, Started(c))
      BY <1>1, <1>2, <2>1, <2>4 DEF OwnCallOK, Pending
    <3> QED
      BY <3>2, <3>3 DEF KeptCall
  <2> QED
    BY <1>2, <2>3, <2>4
<1> QED
  BY <1>1, <1>4, <1>5, KeptOneChanges DEF Accept

LEMMA KeptReadPrevious ==
  ASSUME IInv, KeptCalls(graph, proc, calls), NEW c, ReadPrevious(c)
  PROVE  KeptCalls(graph, proc, calls')
<1> DEFINE prev == calls[c].ident.prev
           old  == IF Exists(prev) THEN graph[prev].snap ELSE Garbled
           next == [calls[c] EXCEPT !.phase = "model", !.prevSnap = old]
<1>1. "previous" \in PrePhase
  BY DEF PrePhase
<1>2. Executing(c, "previous") /\ Proceed(c, next)
  BY DEF ReadPrevious
<1>3. c \in DOMAIN calls /\ calls[c] \in Call /\ ModelCallOK(graph, calls[c])
  BY <1>1, <1>2, PreFacts DEF KeptCalls, KeptCall
<1>4. old \in Snapshot \cup {Garbled}
  BY GraphFacts DEF IInv, Exists, Node
<1>5. prev # 0 => old = graph[prev].snap
  BY <1>3 DEF ModelCallOK, IdentOK, Exists
<1> HIDE DEF old
<1>6. /\ next \in Call /\ next.ident = calls[c].ident
      /\ next.phase = "model" /\ next.prevSnap = old
  BY <1>3, <1>4 DEF Call, Phase, DbPhase
<1> HIDE DEF next
<1>7. ModelCallOK(graph, next)
  BY <1>3, <1>5, <1>6 DEF ModelCallOK
<1> QED
  BY <1>1, <1>2, <1>6, <1>7, KeptAdvance

(* A node that was read and is not of another model is of this one.        *)
LEMMA KeptKeepModel ==
  ASSUME IInv, KeptCalls(graph, proc, calls), NEW c, KeepModel(c)
  PROVE  KeptCalls(graph, proc, calls')
<1> DEFINE next == [calls[c] EXCEPT !.phase = "compare"]
<1>1. "model" \in PrePhase
  BY DEF PrePhase
<1>2. Executing(c, "model") /\ Proceed(c, next) /\ ~PreviousMismatch(calls[c])
  BY DEF KeepModel, GoTo, ModelMismatch
<1>3. /\ c \in DOMAIN calls /\ calls[c] \in Call /\ ModelCallOK(graph, calls[c])
      /\ calls[c].phase = "model"
  BY <1>1, <1>2, PreFacts DEF KeptCalls, KeptCall
<1>4. /\ next \in Call /\ next.ident = calls[c].ident /\ next.snap = calls[c].snap
      /\ next.phase = "compare"
  BY <1>3 DEF Call, Phase, DbPhase
<1>5. calls[c].ident.prev # 0 =>
        ModelOf[calls[c].snap] = ModelOf[graph[calls[c].ident.prev].snap]
  <2>1. SUFFICES ASSUME calls[c].ident.prev # 0
                 PROVE  ModelOf[calls[c].snap] = ModelOf[graph[calls[c].ident.prev].snap]
    OBVIOUS
  <2>2. /\ calls[c].prevSnap = graph[calls[c].ident.prev].snap
        /\ calls[c].ident.prev \in DOMAIN graph
    BY <1>3, <2>1 DEF ModelCallOK, IdentOK
  <2>3. calls[c].prevSnap # Garbled
    BY <2>2, GraphFacts, DeploymentAssumption DEF IInv, Node
  <2> QED
    BY <1>2, <2>2, <2>3 DEF PreviousMismatch
<1> HIDE DEF next
<1>6. ModelCallOK(graph, next)
  BY <1>3, <1>4, <1>5 DEF ModelCallOK
<1> QED
  BY <1>1, <1>2, <1>4, <1>6, KeptAdvance

LEMMA KeptCompare ==
  ASSUME IInv, KeptCalls(graph, proc, calls), NEW c, CompareCodebase(c)
  PROVE  KeptCalls(graph, proc, calls')
<1> DEFINE old  == ReconstructedCodebase(calls[c].ident.id)
           strategy == IF old = calls[c].snap THEN "RETRY" ELSE "BRANCH"
           next == [calls[c] EXCEPT !.phase = "create", !.from = old, !.strategy = strategy]
<1>1. "compare" \in PrePhase
  BY DEF PrePhase
<1>2. Executing(c, "compare")
  BY DEF CompareCodebase
<1>3. /\ c \in DOMAIN calls /\ calls[c] \in Call /\ ModelCallOK(graph, calls[c])
      /\ calls[c].phase = "compare"
  BY <1>1, <1>2, PreFacts DEF KeptCalls, KeptCall
<1>4. CASE ~Exists(calls[c].ident.id)
  <2>1. AnswerWith(c, Refusal(500))
    BY <1>4 DEF CompareCodebase
  <2> QED
    BY <1>3, <2>1, KeptAnswer
<1>5. CASE Exists(calls[c].ident.id)
  <2>1. Proceed(c, next)
    BY <1>5 DEF CompareCodebase
  <2>2. old \in Snapshot \cup {Garbled}
    BY <1>5, GraphFacts DEF IInv, Exists, ReconstructedCodebase, StoredCodebase, Node
  <2>3. strategy \in {"RETRY", "BRANCH"}
    OBVIOUS
  <2> HIDE DEF old, strategy
  <2>4. /\ next \in Call /\ next.ident = calls[c].ident /\ next.snap = calls[c].snap
        /\ next.phase = "create"
    BY <1>3, <2>2, <2>3 DEF Call, Phase, DbPhase, Strategy
  <2> HIDE DEF next
  <2>5. ModelCallOK(graph, next)
    BY <1>3, <2>4 DEF ModelCallOK
  <2> QED
    BY <1>1, <1>2, <2>1, <2>4, <2>5, KeptAdvance
<1> QED
  BY <1>4, <1>5

(* On the way to a RESUME, whose node is a base, there is nothing to keep. *)
LEMMA KeptResumes ==
  ASSUME IInv, KeptCalls(graph, proc, calls), NEW c, NEW phase \in {"model", "resume", "promote"},
         Executing(c, phase), NEW call \in Call, call.ident = calls[c].ident,
         call.phase \in {"resume", "promote", "create"}, call.strategy = "RESUME",
         Proceed(c, call)
  PROVE  KeptCalls(graph, proc, calls')
<1>1. phase \in PrePhase
  BY DEF PrePhase
<1>2. ModelCallOK(graph, calls[c])
  BY DEF Executing, KeptCalls, KeptCall
<1>3. ModelCallOK(graph, call)
  BY <1>2 DEF ModelCallOK, IsBase
<1> QED
  BY <1>1, <1>3, KeptAdvance

LEMMA KeptGoesOn ==
  ASSUME IInv, KeptCalls(graph, proc, calls), NEW c,
         NEW phase \in {"resume", "promote"}, Executing(c, phase),
         NEW to \in {"promote", "create"}, GoTo(c, to)
  PROVE  KeptCalls(graph, proc, calls')
<1> DEFINE next == [calls[c] EXCEPT !.phase = to]
<1>1. phase \in PrePhase
  BY DEF PrePhase
<1>2. calls[c] \in Call /\ calls[c].strategy = "RESUME"
  BY <1>1, PreFacts DEF StrategyOK
<1>3. /\ next \in Call /\ next.ident = calls[c].ident
      /\ next.phase = to /\ next.strategy = "RESUME"
  BY <1>2 DEF Call, Phase, DbPhase
<1>4. Proceed(c, next)
  BY DEF GoTo
<1> HIDE DEF next
<1> QED
  BY <1>3, <1>4, KeptResumes

LEMMA KeptReply ==
  ASSUME IInv, KeptCalls(graph, proc, calls), NEW c, Reply(c)
  PROVE  KeptCalls(graph, proc, calls')
<1> DEFINE answered == [calls[c] EXCEPT !.phase = "answered", !.issued = FALSE]
           rest == IF calls[c].open THEN [calls EXCEPT ![c] = answered]
                                    ELSE Without(calls, c)
<1>1. c \in DOMAIN calls
  BY DEF Reply, Executing
<1>2. calls[c] \in Call /\ KeptCall(graph, proc, c, calls[c])
  BY <1>1, CallFacts DEF KeptCalls
<1>3. answered \in Call /\ KeptCall(graph, proc, c, answered)
  <2>1. answered \in Call /\ answered.phase = "answered" /\ answered.ident = calls[c].ident
    BY <1>2 DEF Call, Phase
  <2> HIDE DEF answered
  <2>2. RunOf(c) <= proc[RunnerOf(c)].run /\ IdentOK(graph, answered.ident)
    BY <1>2, <2>1 DEF KeptCall, OwnCallOK, ModelCallOK
  <2> QED
    BY <2>1, <2>2, KeptDone
<1>4. KeptCalls(graph, proc, rest) /\ \A d \in DOMAIN rest : rest[d] \in Call
  <2> HIDE DEF answered
  <2>1. /\ KeptCalls(graph, proc, [calls EXCEPT ![c] = answered])
        /\ KeptCalls(graph, proc, Without(calls, c))
    BY <1>1, <1>3, KeptOneChanges, KeptOneGoes
  <2>2. \A d \in DOMAIN calls : calls[d] \in Call
    BY CallFacts
  <2> QED
    BY <1>3, <2>1, <2>2 DEF Without
<1>5. calls' = Resumed(rest, nest')
  BY DEF Reply
<1> HIDE DEF rest
<1> DEFINE d == nest'[Len(nest')]
<1>6. CASE nest' = <<>> \/ d \notin DOMAIN rest
  BY <1>4, <1>5, <1>6 DEF Resumed, KeptCalls
<1>7. CASE nest' # <<>> /\ d \in DOMAIN rest
  <2>1. KeptCall(graph, proc, d, [rest[d] EXCEPT !.issued = TRUE])
    BY <1>4, <1>7, KeptFlags DEF KeptCalls
  <2>2. calls' = [rest EXCEPT ![d] = [rest[d] EXCEPT !.issued = TRUE]]
    BY <1>5, <1>7 DEF Resumed
  <2> QED
    BY <1>4, <1>7, <2>1, <2>2, KeptOneChanges
<1> QED
  BY <1>6, <1>7

(* The new node: a base, or one that hangs off the experiment the request  *)
(* names, whose model is that of the experiment before that.               *)
LEMMA KeptNode ==
  ASSUME IInv, KeptInv, NEW c, Executing(c, "create"), CanCreate(calls[c]), CreateNode(c)
  PROVE  \E node \in Node :
           /\ graph' = Append(graph, node)
           /\ OwnNodeOK(proc, node)
           /\ node.parent # 0 =>
                /\ node.parent \in DOMAIN graph
                /\ LET before == graph[node.parent].parent IN
                   before # 0 => /\ before \in DOMAIN graph
                                 /\ ModelOf[node.snap] = ModelOf[graph[before].snap]
<1> DEFINE call == calls[c]
<1>1. "create" \in PrePhase
  BY DEF PrePhase
<1>2. /\ c \in DOMAIN calls /\ KindOf(c) = "pre" /\ call.phase = "create"
      /\ ModelCallOK(graph, call) /\ OwnCallOK(proc, c, call)
  BY <1>1, PreFacts DEF KeptInv, KeptCalls, KeptCall
<1>3. RunOf(c) <= proc[RunnerOf(c)].run
  BY <1>2 DEF OwnCallOK
<1>4. PICK node \in Node : graph' = Append(graph, node) /\ node.by = c
  BY CreatedNode
<1>5. graph'[NewId] = node
  BY <1>4, AppendFacts DEF IInv
<1>6. CASE IsBase(call.strategy)
  <2>1. graph' = Append(graph, NewNode(call.snap, call.snap, 0, call.strategy, c))
    BY <1>6 DEF CreateNode, CreateBaseExperiment
  <2>2. node.parent = 0
    BY <1>5, <2>1, GraphFacts DEF IInv, GraphTypeOK, NewId, NewNode
  <2> QED
    BY <1>3, <1>4, <2>2 DEF OwnNodeOK
<1>7. CASE ~IsBase(call.strategy)
  <2>1. graph' = Append(graph, NewNode(call.snap, call.from, call.ident.id, call.strategy, c))
    BY <1>7 DEF CreateNode, CreateNonBaseExperiment
  <2>2. node.parent = call.ident.id /\ node.snap = call.snap
    BY <1>5, <2>1, GraphFacts DEF IInv, GraphTypeOK, NewId, NewNode
  <2>3. call.ident.id \in DOMAIN graph
    BY <1>7 DEF CanCreate, Exists
  <2>4. OwnNodeOK(proc, node)
    BY <1>1, <1>2, <1>3, <1>4, <2>2 DEF OwnNodeOK, OwnCallOK, Pending
  <2>5. call.ident.id # 0
    BY <2>3, GraphFacts DEF IInv
  <2>6. graph[call.ident.id].parent # 0 => call.ident.prev = graph[call.ident.id].parent
    BY <1>2, <2>5 DEF ModelCallOK, IdentOK
  <2>7. call.ident.prev # 0 =>
          /\ call.ident.prev \in DOMAIN graph
          /\ ModelOf[call.snap] = ModelOf[graph[call.ident.prev].snap]
    BY <1>2, <1>7 DEF ModelCallOK, IdentOK
  <2> QED
    BY <1>4, <2>2, <2>3, <2>4, <2>6, <2>7
<1> QED
  BY <1>6, <1>7

LEMMA KeptCreation ==
  ASSUME IInv, KeptInv, NEW c, Executing(c, "create"), CanCreate(calls[c]), CreateNode(c),
         NEW answer, AnswerWith(c, answer), UNCHANGED clientVars
  PROVE  KeptInv'
<1>1. PICK node \in Node :
        /\ graph' = Append(graph, node)
        /\ OwnNodeOK(proc, node)
        /\ node.parent # 0 =>
             /\ node.parent \in DOMAIN graph
             /\ LET before == graph[node.parent].parent IN
                before # 0 => /\ before \in DOMAIN graph
                              /\ ModelOf[node.snap] = ModelOf[graph[before].snap]
  BY KeptNode
<1>2. /\ DOMAIN graph' = DOMAIN graph \cup {NewId} /\ graph'[NewId] = node
      /\ \A e \in DOMAIN graph : graph'[e] = graph[e]
      /\ GraphKeeps(graph, graph')
  BY <1>1, AppendFacts DEF IInv
<1>3. proc' = proc /\ files' = files
  BY DEF clientVars
<1>4. c \in DOMAIN calls
  BY DEF Executing
<1>5. KeptCalls(graph', proc, calls')
  <2>1. KeptCalls(graph', proc, calls)
    BY <1>2, KeptCallsGrow DEF KeptInv
  <2> QED
    BY <1>4, <2>1, KeptAnswer
<1>6. KeptNodes(graph', proc)
  BY <1>1, <1>2 DEF KeptInv, KeptNodes
<1>7. KeptIdents(graph', proc, files)
  BY <1>2, IdentGrows DEF KeptInv, KeptIdents
<1>8. KeptModels(graph')
  <2>1. ASSUME NEW e \in DOMAIN graph', graph'[e].parent # 0
        PROVE  /\ graph'[e].parent \in DOMAIN graph
               /\ LET before == graph[graph'[e].parent].parent IN
                  before # 0 => /\ before \in DOMAIN graph
                                /\ ModelOf[graph'[e].snap] = ModelOf[graph[before].snap]
    BY <1>1, <1>2, <2>1 DEF KeptInv, KeptModels
  <2> QED
    BY <1>2, <2>1 DEF KeptModels
<1> QED
  BY <1>3, <1>5, <1>6, <1>7, <1>8 DEF KeptInv

LEMMA KeptSetStatus ==
  ASSUME IInv, KeptInv, NEW c, SetStatus(c), UNCHANGED clientVars
  PROVE  KeptInv'
<1> DEFINE next == [calls[c] EXCEPT !.phase = "find"]
<1>1. Executing(c, "update") /\ "update" \in PostPhase /\ Proceed(c, next)
  BY DEF SetStatus, PostPhase, GoTo
<1>2. c \in DOMAIN calls /\ calls[c] \in Call /\ KeptCall(graph, proc, c, calls[c])
  BY <1>1, PostFacts DEF KeptInv, KeptCalls
<1>3. calls[c].status \in Status
  BY <1>2 DEF Call
<1>4. DOMAIN graph' = DOMAIN graph /\ GraphKeeps(graph, graph')
  BY <1>3, UpdateFacts DEF IInv, SetStatus
<1>5. proc' = proc /\ files' = files
  BY DEF clientVars
<1>6. KeptCalls(graph', proc, calls')
  <2>1. KeptCalls(graph', proc, calls)
    BY <1>4, KeptCallsGrow DEF KeptInv
  <2>2. next \in Call /\ next.phase = "find" /\ next.ident = calls[c].ident
    BY <1>2 DEF Call, Phase, DbPhase
  <2>3. /\ RunOf(c) <= proc[RunnerOf(c)].run
        /\ IdentOK(graph', calls[c].ident)
    BY <1>2, <2>1 DEF KeptCalls, KeptCall, OwnCallOK, ModelCallOK
  <2> HIDE DEF next
  <2>4. KeptCall(graph', proc, c, next)
    BY <2>2, <2>3, KeptDone
  <2> QED
    BY <1>1, <1>2, <2>1, <2>2, <2>4, KeptProceed
<1>7. KeptNodes(graph', proc)
  BY <1>4 DEF KeptInv, KeptNodes, OwnNodeOK, GraphKeeps
<1>8. KeptIdents(graph', proc, files)
  BY <1>4, IdentGrows DEF KeptInv, KeptIdents
<1>9. KeptModels(graph')
  BY <1>4 DEF KeptInv, KeptModels, GraphKeeps
<1> QED
  BY <1>5, <1>6, <1>7, <1>8, <1>9 DEF KeptInv

(* Steps that leave graph and clients alone.                               *)
LEMMA KeptStill ==
  ASSUME KeptInv, KeptCalls(graph, proc, calls'), graph' = graph, UNCHANGED clientVars
  PROVE  KeptInv'
  BY DEF KeptInv, KeptCalls, KeptNodes, KeptIdents, KeptModels, clientVars

LEMMA KeptHandle ==
  ASSUME IInv, KeptInv, NEW c \in DOMAIN calls, Handle(c), UNCHANGED clientVars
  PROVE  KeptInv'
<1>1. KeptCalls(graph, proc, calls)
  BY DEF KeptInv
<1>2. CASE Accept(c)
  BY <1>1, <1>2, KeptAccept, KeptStill DEF Accept, graphVars
<1>3. CASE ReadPrevious(c)
  BY <1>1, <1>3, KeptReadPrevious, KeptStill DEF ReadPrevious, graphVars
<1>4. CASE KeepModel(c)
  BY <1>1, <1>4, KeptKeepModel, KeptStill DEF KeepModel, graphVars
<1>5. CASE CompareCodebase(c)
  BY <1>1, <1>5, KeptCompare, KeptStill DEF CompareCodebase, graphVars
<1>6. CASE SwitchModel(c)
  <2> DEFINE next == [calls[c] EXCEPT !.phase = "resume", !.strategy = "RESUME"]
  <2>1. calls[c] \in Call /\ Executing(c, "model") /\ Proceed(c, next) /\ graph' = graph
    BY <1>6, CallFacts DEF SwitchModel, graphVars
  <2>2. /\ next \in Call /\ next.ident = calls[c].ident
        /\ next.phase = "resume" /\ next.strategy = "RESUME"
    BY <2>1 DEF Call, Phase, DbPhase, Strategy
  <2> HIDE DEF next
  <2> QED
    BY <1>1, <2>1, <2>2, KeptResumes, KeptStill
<1>7. CASE LookForModel(c) \/ PromoteToModel(c)
  <2>1. /\ \E phase \in {"resume", "promote"}, to \in {"promote", "create"} :
             Executing(c, phase) /\ GoTo(c, to)
        /\ graph' = graph
    BY <1>7 DEF LookForModel, PromoteToModel, graphVars
  <2> QED
    BY <1>1, <2>1, KeptGoesOn, KeptStill
<1>8. CASE CreateExperiment(c)
  BY <1>8, KeptCreation DEF CreateExperiment
<1>9. CASE SetStatus(c)
  BY <1>9, KeptSetStatus
<1>10. CASE RefuseModelSwitch(c) \/ FailToCreate(c) \/ ConfirmStatus(c)
  <2>1. graph' = graph /\ \E answer : AnswerWith(c, answer)
    BY <1>10 DEF RefuseModelSwitch, FailToCreate, ConfirmStatus, graphVars
  <2> QED
    BY <1>1, <2>1, KeptAnswer, KeptStill
<1>11. CASE Reply(c)
  BY <1>1, <1>11, KeptReply, KeptStill DEF Reply, graphVars
<1> QED
  BY <1>2, <1>3, <1>4, <1>5, <1>6, <1>7, <1>8, <1>9, <1>10, <1>11 DEF Handle

LEMMA KeptServer ==
  ASSUME IInv, KeptInv, ServerStep
  PROVE  KeptInv'
<1>1. UNCHANGED clientVars /\ KeptCalls(graph, proc, calls)
  BY DEF ServerStep, KeptInv
<1>2. ASSUME NEW c \in DOMAIN calls, DbFails(c)
      PROVE  KeptInv'
  <2>1. graph' = graph
    BY <1>2 DEF DbFails, graphVars
  <2>2. CASE calls[c].phase = "promote"
    <3>1. Executing(c, "promote") /\ GoTo(c, "create")
      BY <1>2, <2>2 DEF DbFails, Executing
    <3> QED
      BY <1>1, <2>1, <3>1, KeptGoesOn, KeptStill
  <2>3. CASE calls[c].phase # "promote"
    BY <1>1, <1>2, <2>1, <2>3, KeptAnswer, KeptStill DEF DbFails
  <2> QED
    BY <2>2, <2>3
<1>3. ASSUME NEW c \in DOMAIN calls, CreationUnconfirmed(c)
      PROVE  KeptInv'
  BY <1>1, <1>3, KeptCreation DEF CreationUnconfirmed
<1>4. CASE Crash
  <2>1. graph' = graph /\ KeptCalls(graph, proc, calls')
    BY <1>1, <1>4 DEF Crash, KeptCalls, graphVars
  <2> QED
    BY <1>1, <2>1, KeptStill
<1> QED
  BY <1>1, <1>2, <1>3, <1>4, KeptHandle DEF ServerStep, ServerNext

-----------------------------------------------------------------------------
(* Steps of the clients                                                    *)

(* A process that goes on with another record: it keeps its run and        *)
(* identity as long as it is at its PRE, or is at a later run.             *)
Follows(old, new) ==
  /\ new \in Proc
  /\ new.run >= old.run
  /\ new.pc = "pre" =>
       new.run > old.run \/ (old.pc = "pre" /\ new.run = old.run /\ new.ident = old.ident)

LEMMA KeptMoves ==
  ASSUME IInv, KeptInv, NEW r \in Runner, NEW p, Follows(proc[r], p),
         proc' = [proc EXCEPT ![r] = p]
  PROVE  KeptCalls(graph, proc', calls) /\ KeptNodes(graph, proc')
<1>1. proc[r] \in Proc /\ proc[r].run \in Nat /\ p.run \in Nat
  BY ProcFacts DEF Follows, Proc
<1>2. proc'[r] = p /\ \A q \in Runner : q # r => proc'[q] = proc[q]
  BY DEF IInv, ClientTypeOK
<1>3. ASSUME NEW c \in DOMAIN calls
      PROVE  KeptCall(graph, proc', c, calls[c])
  <2>1. c \in CallId /\ KeptCall(graph, proc, c, calls[c])
    BY CallFacts DEF KeptInv, KeptCalls
  <2>2. RunnerOf(c) \in Runner /\ RunOf(c) \in Nat
    BY <2>1 DEF CallId, RunnerOf, RunOf
  <2>3. OwnCallOK(proc', c, calls[c])
    <3>1. CASE RunnerOf(c) = r
      BY <1>1, <1>2, <2>1, <2>2, <3>1 DEF KeptCall, OwnCallOK, Follows
    <3>2. CASE RunnerOf(c) # r
      BY <1>2, <2>1, <2>2, <3>2 DEF KeptCall, OwnCallOK
    <3> QED
      BY <3>1, <3>2
  <2> QED
    BY <2>1, <2>3 DEF KeptCall
<1>4. ASSUME NEW e \in DOMAIN graph
      PROVE  OwnNodeOK(proc', graph[e])
  <2> DEFINE c == graph[e].by
  <2>1. c \in CallId /\ OwnNodeOK(proc, graph[e])
    BY GraphFacts DEF IInv, Node, KeptInv, KeptNodes
  <2>2. RunnerOf(c) \in Runner /\ RunOf(c) \in Nat
    BY <2>1 DEF CallId, RunnerOf, RunOf
  <2> HIDE DEF c
  <2>3. CASE RunnerOf(c) = r
    BY <1>1, <1>2, <2>1, <2>2, <2>3 DEF OwnNodeOK, Follows, c
  <2>4. CASE RunnerOf(c) # r
    BY <1>2, <2>1, <2>2, <2>4 DEF OwnNodeOK, c
  <2> QED
    BY <2>3, <2>4
<1> QED
  BY <1>3, <1>4 DEF KeptCalls, KeptNodes

LEMMA KeptProcess ==
  ASSUME IInv, KeptInv, graph' = graph, NEW r \in Runner, NEW p, Follows(proc[r], p),
         proc' = [proc EXCEPT ![r] = p],
         IdentOK(graph, p.ident), IdentOK(graph, p.held.ident),
         \A q \in Project : IdentOK(graph, files'[q].ident),
         KeptCalls(graph, proc', calls')
  PROVE  KeptInv'
<1>1. KeptNodes(graph, proc')
  BY KeptMoves
<1>2. KeptIdents(graph, proc', files')
  BY DEF KeptInv, KeptIdents, IInv, ClientTypeOK
<1> QED
  BY <1>1, <1>2 DEF KeptInv, KeptCalls, KeptNodes, KeptIdents, KeptModels

(* A process that has nothing to remember.                                 *)
AtRest(old, new) ==
  /\ new \in Proc /\ new.pc # "pre" /\ new.run = old.run
  /\ new.ident = NoIdentity /\ new.held = VirginState

LEMMA RestIsAtRest ==
  ASSUME NEW old, old.run \in Nat, NEW pc \in Pc \ {"pre"}, NEW ctx \in Nat
  PROVE  /\ AtRest(old, Resting(old.run))
         /\ AtRest(old, [Resting(old.run) EXCEPT !.pc = pc])
         /\ AtRest(old, [Resting(old.run) EXCEPT !.pc = pc, !.ctx = ctx])
<1> DEFINE rest == Resting(old.run)
<1>1. rest \in Proc /\ rest.pc = "idle" /\ rest.run = old.run
  BY RestingFacts
<1>2. rest.ident = NoIdentity /\ rest.held = VirginState
  BY DEF Resting
<1> HIDE DEF rest
<1>3. /\ AtRest(old, rest) /\ AtRest(old, [rest EXCEPT !.pc = pc])
      /\ AtRest(old, [rest EXCEPT !.pc = pc, !.ctx = ctx])
  <2>1. AtRest(old, rest)
    BY <1>1, <1>2 DEF AtRest
  <2>2. AtRest(old, [rest EXCEPT !.pc = pc])
    BY <1>1, <1>2 DEF AtRest, Proc
  <2>3. AtRest(old, [rest EXCEPT !.pc = pc, !.ctx = ctx])
    BY <1>1, <1>2 DEF AtRest, Proc
  <2> QED
    BY <2>1, <2>2, <2>3
<1> QED
  BY <1>3 DEF rest

LEMMA KeptAtRest ==
  ASSUME IInv, KeptInv, graph' = graph, NEW r \in Runner,
         NEW p, AtRest(proc[r], p), proc' = [proc EXCEPT ![r] = p],
         \A q \in Project : IdentOK(graph, files'[q].ident),
         KeptCalls(graph, proc, calls) /\ KeptCalls(graph, proc', calls)
            => KeptCalls(graph, proc', calls')
  PROVE  KeptInv'
<1>1. proc[r].run \in Nat
  BY ProcFacts
<1>2. p.ident = NoIdentity /\ p.held.ident = NoIdentity
  BY DEF AtRest, VirginState
<1>3. Follows(proc[r], p)
  BY <1>1 DEF Follows, AtRest
<1>4. KeptCalls(graph, proc', calls')
  BY <1>3, KeptMoves DEF KeptInv
<1> QED
  BY <1>2, <1>3, <1>4, KeptProcess, NoIdentityOK

LEMMA KeptEnds ==
  ASSUME IInv, KeptInv, graph' = graph, NEW r \in Runner, Ended(r) \/ Untracked(r),
         \A q \in Project : IdentOK(graph, files'[q].ident),
         KeptCalls(graph, proc, calls) /\ KeptCalls(graph, proc', calls)
            => KeptCalls(graph, proc', calls')
  PROVE  KeptInv'
<1>1. proc[r].run \in Nat /\ "bare" \in Pc \ {"pre"} /\ 0 \in Nat
  BY ProcFacts DEF Pc
<1>2. /\ AtRest(proc[r], Resting(proc[r].run))
      /\ AtRest(proc[r], [Resting(proc[r].run) EXCEPT !.pc = "bare"])
  BY <1>1, RestIsAtRest
<1>3. \E p : AtRest(proc[r], p) /\ proc' = [proc EXCEPT ![r] = p]
  BY <1>2 DEF Ended, Untracked
<1> QED
  BY <1>3, KeptAtRest

LEMMA KeptFiles ==
  ASSUME KeptInv, files' = files
  PROVE  \A q \in Project : IdentOK(graph, files'[q].ident)
  BY DEF KeptInv, KeptIdents

LEMMA KeptLaunch ==
  ASSUME IInv, KeptInv, NEW r \in Runner, NEW snap \in Snapshot, Launch(r, snap),
         UNCHANGED <<graphVars, serverVars>>
  PROVE  KeptInv'
<1> DEFINE ident == IF Dir(r) \in Orchestrated THEN NoIdentity ELSE files[Dir(r)].ident
           run   == proc[r].run + 1
           rest  == Resting(run)
           p     == [rest EXCEPT !.pc = "pre", !.ident = ident, !.snap = snap]
           c     == <<r, run, "pre", 0>>
<1>1. /\ proc' = [proc EXCEPT ![r] = p]
      /\ calls' = With(calls, c, PreCall(ident, snap))
      /\ files' = files /\ graph' = graph
  BY DEF Launch, graphVars
<1>2. /\ proc[r].run \in Nat /\ files[Dir(r)].ident \in Identity /\ Dir(r) \in Project
  BY ProcFacts
<1>3. ident \in Identity /\ IdentOK(graph, ident)
  BY <1>2, NoIdentityOK DEF NoIdentity, Identity, KeptInv, KeptIdents
<1> HIDE DEF ident
<1>4. rest \in Proc /\ rest.held = VirginState /\ rest.run = run
  BY <1>2, RestingFacts DEF Resting
<1> HIDE DEF rest
<1>5. /\ p \in Proc /\ p.pc = "pre" /\ p.run = run /\ p.ident = ident
      /\ p.held.ident = NoIdentity
  <2>1. rest.held.ident = NoIdentity
    BY <1>4 DEF VirginState
  <2>2. p.held = rest.held
    BY <1>4 DEF Proc
  <2>3. p \in Proc /\ p.pc = "pre" /\ p.run = run /\ p.ident = ident
    BY <1>3, <1>4 DEF Proc, Pc
  <2> QED
    BY <2>1, <2>2, <2>3
<1> HIDE DEF p
<1>6. Follows(proc[r], p)
  BY <1>2, <1>5 DEF Follows
<1>7. KeptCall(graph, proc', c, PreCall(ident, snap))
  <2>1. PreCall(ident, snap).ident = ident /\ PreCall(ident, snap).phase = "wire"
    BY DEF PreCall
  <2>2. ModelCallOK(graph, PreCall(ident, snap))
    BY <1>3, <2>1 DEF ModelCallOK
  <2>3. proc'[r] = p
    BY <1>1 DEF IInv, ClientTypeOK
  <2>4. RunnerOf(c) = r /\ RunOf(c) = run /\ run <= run
    BY <1>2 DEF RunnerOf, RunOf
  <2>5. OwnCallOK(proc', c, PreCall(ident, snap))
    BY <1>5, <2>1, <2>3, <2>4 DEF OwnCallOK
  <2> QED
    BY <2>2, <2>5 DEF KeptCall
<1> HIDE DEF c
<1>8. KeptCalls(graph, proc', calls')
  BY <1>1, <1>6, <1>7, KeptMoves, KeptOneComes
<1> QED
  BY <1>1, <1>3, <1>5, <1>6, <1>8, KeptProcess, KeptFiles, NoIdentityOK

(* A request that is sent again says what it said.                         *)
LEMMA KeptRetry ==
  ASSUME IInv, KeptInv, NEW r \in Runner, Retry(r), UNCHANGED <<graphVars, serverVars>>
  PROVE  KeptInv'
<1> DEFINE p == [proc[r] EXCEPT !.attempt = @ + 1]
           c == <<r, proc[r].run, proc[r].pc, proc[r].attempt + 1>>
<1>1. /\ proc' = [proc EXCEPT ![r] = p] /\ files' = files /\ graph' = graph
      /\ proc[r].pc \in {"pre", "post"}
  BY DEF Retry, graphVars, Awaiting
<1>2. PICK left \in ConnectionErrors(CurrentCall(r)) : calls' = With(left, c, Request(r))
  BY DEF Retry
<1>3. proc[r] \in Proc /\ proc[r].run \in Nat
  BY ProcFacts
<1>4. /\ p \in Proc /\ p.run = proc[r].run /\ p.pc = proc[r].pc
      /\ p.ident = proc[r].ident /\ p.held = proc[r].held
  BY <1>3 DEF Proc
<1> HIDE DEF p
<1>5. Follows(proc[r], p)
  BY <1>3, <1>4 DEF Follows
<1>6. IdentOK(graph, proc[r].ident) /\ IdentOK(graph, proc[r].held.ident)
  BY DEF KeptInv, KeptIdents
<1>7. KeptCall(graph, proc', c, Request(r))
  <2>1. Request(r).phase = "wire" /\ Request(r).ident \in {proc[r].ident, NoIdentity}
    BY DEF Request, PreCall, PostCall
  <2>2. proc[r].pc = "pre" => Request(r).ident = proc[r].ident
    BY DEF Request, PreCall
  <2>3. ModelCallOK(graph, Request(r))
    BY <1>6, <2>1, NoIdentityOK DEF ModelCallOK
  <2>4. proc'[r] = p
    BY <1>1 DEF IInv, ClientTypeOK
  <2>5. RunnerOf(c) = r /\ RunOf(c) = proc[r].run
    BY DEF RunnerOf, RunOf
  <2>6. OwnCallOK(proc', c, Request(r))
    BY <1>3, <1>4, <2>2, <2>4, <2>5 DEF OwnCallOK
  <2> QED
    BY <2>3, <2>6 DEF KeptCall
<1> HIDE DEF c
<1>8. KeptCalls(graph, proc', calls')
  <2>1. KeptCalls(graph, proc', left)
    BY <1>1, <1>2, <1>5, KeptMoves, KeptLeft
  <2> QED
    BY <1>2, <1>7, <2>1, KeptOneComes
<1> QED
  BY <1>1, <1>4, <1>5, <1>6, <1>8, KeptProcess, KeptFiles

(* The identity that is adopted: the node hangs off the experiment that    *)
(* the request, hence the process, named.                                  *)
LEMMA KeptAdopt ==
  ASSUME IInv, KeptInv, NEW r \in Runner, Adopt(r), UNCHANGED <<graphVars, serverVars>>
  PROVE  KeptInv'
<1> DEFINE id == AnswerOf(r).id
           state == [ident |-> SavedIdentity(r), status |-> "RUNNING"]
<1>1. /\ files' = [files EXCEPT ![Dir(r)] = state]
      /\ proc' = [proc EXCEPT ![r] = [Resting(proc[r].run) EXCEPT !.pc = "train", !.ctx = id]]
      /\ calls' = Without(calls, CurrentCall(r))
      /\ proc[r].pc = "pre" /\ graph' = graph
  BY DEF Adopt, graphVars
<1>2. /\ id \in DOMAIN graph /\ RunnerOf(graph[id].by) = r
      /\ RunOf(graph[id].by) = proc[r].run
  BY AdoptFacts
<1>3. id \in Nat /\ "train" \in Pc \ {"pre"}
  BY <1>2, GraphFacts DEF IInv, Pc
<1>4. graph[id].parent # 0 => graph[id].parent = proc[r].ident.id
  BY <1>1, <1>2 DEF KeptInv, KeptNodes, OwnNodeOK
<1>5. IdentOK(graph, SavedIdentity(r))
  <2>1. SavedIdentity(r).id = id /\ SavedIdentity(r).prev = proc[r].ident.id
    BY DEF SavedIdentity
  <2>2. proc[r].ident.id # 0 => proc[r].ident.id \in DOMAIN graph
    BY DEF KeptInv, KeptIdents, IdentOK
  <2> HIDE DEF id
  <2> QED
    BY <1>2, <1>4, <2>1, <2>2 DEF IdentOK
<1>6. \A q \in Project : IdentOK(graph, files'[q].ident)
  BY <1>1, <1>5 DEF KeptInv, KeptIdents, IInv, ClientTypeOK
<1>7. KeptCalls(graph, proc', calls) => KeptCalls(graph, proc', calls')
  BY <1>1, KeptOneGoes
<1>8. AtRest(proc[r], [Resting(proc[r].run) EXCEPT !.pc = "train", !.ctx = id])
  <2>1. proc[r].run \in Nat
    BY ProcFacts
  <2> QED
    BY <1>3, <2>1, RestIsAtRest
<1> HIDE DEF id
<1> QED
  BY <1>1, <1>6, <1>7, <1>8, KeptAtRest

LEMMA KeptFinishTraining ==
  ASSUME IInv, KeptInv, NEW r \in Runner, NEW outcome \in Outcome, FinishTraining(r, outcome),
         UNCHANGED <<graphVars, serverVars>>
  PROVE  KeptInv'
<1> DEFINE p == [proc[r] EXCEPT !.pc = "post"]
           c == <<r, proc[r].run, "post", 0>>
           call == PostCall(proc[r].ctx, outcome)
<1>1. /\ proc' = [proc EXCEPT ![r] = p] /\ calls' = With(calls, c, call)
      /\ files' = files /\ graph' = graph
  BY DEF FinishTraining, graphVars
<1>2. proc[r] \in Proc /\ proc[r].run \in Nat
  BY ProcFacts
<1>3. /\ p \in Proc /\ p.run = proc[r].run /\ p.pc = "post"
      /\ p.ident = proc[r].ident /\ p.held = proc[r].held
  BY <1>2 DEF Proc, Pc
<1> HIDE DEF p
<1>4. Follows(proc[r], p)
  BY <1>2, <1>3 DEF Follows
<1>5. KeptCall(graph, proc', c, call)
  <2>1. call.phase = "wire" /\ call.ident = NoIdentity
    BY DEF PostCall, PreCall
  <2>2. RunnerOf(c) = r /\ RunOf(c) = proc[r].run /\ proc'[r] = p
    BY <1>1 DEF RunnerOf, RunOf, IInv, ClientTypeOK
  <2> HIDE DEF c, call
  <2> QED
    BY <1>2, <1>3, <2>1, <2>2, NoIdentityOK DEF KeptCall, ModelCallOK, OwnCallOK
<1>6. KeptCalls(graph, proc', calls')
  <2> HIDE DEF c, call
  <2> QED BY <1>1, <1>4, <1>5, KeptMoves, KeptOneComes
<1>7. IdentOK(graph, p.ident) /\ IdentOK(graph, p.held.ident)
  BY <1>3 DEF KeptInv, KeptIdents
<1> QED
  BY <1>1, <1>4, <1>6, <1>7, KeptProcess, KeptFiles

LEMMA KeptAcknowledged ==
  ASSUME IInv, KeptInv, NEW r \in Runner, Acknowledged(r), UNCHANGED <<graphVars, serverVars>>
  PROVE  KeptInv'
<1> DEFINE p == [proc[r] EXCEPT !.pc = "save", !.held = files[Dir(r)]]
<1>1. /\ proc' = [proc EXCEPT ![r] = p] /\ calls' = Without(calls, CurrentCall(r))
      /\ files' = files /\ graph' = graph
  <2>1. proc' = [proc EXCEPT ![r].pc = "save", ![r].held = files[Dir(r)]]
    BY DEF Acknowledged
  <2>2. [proc EXCEPT ![r].pc = "save", ![r].held = files[Dir(r)]] = [proc EXCEPT ![r] = p]
    BY DEF IInv, ClientTypeOK, Proc
  <2>3. proc' = [proc EXCEPT ![r] = p]
    BY <2>1, <2>2
  <2> QED
    BY <2>3 DEF Acknowledged, graphVars
<1>2. /\ proc[r] \in Proc /\ proc[r].run \in Nat
      /\ files[Dir(r)] \in LocalState /\ Dir(r) \in Project
  BY ProcFacts
<1>3. /\ p \in Proc /\ p.run = proc[r].run /\ p.pc = "save"
      /\ p.ident = proc[r].ident /\ p.held = files[Dir(r)]
  BY <1>2 DEF Proc, Pc
<1> HIDE DEF p
<1>4. Follows(proc[r], p)
  BY <1>2, <1>3 DEF Follows
<1>5. KeptCalls(graph, proc', calls')
  BY <1>1, <1>4, KeptMoves, KeptOneGoes
<1>6. IdentOK(graph, p.ident) /\ IdentOK(graph, p.held.ident)
  BY <1>2, <1>3 DEF KeptInv, KeptIdents
<1> QED
  BY <1>1, <1>4, <1>5, <1>6, KeptProcess, KeptFiles

LEMMA KeptSaveStatus ==
  ASSUME IInv, KeptInv, NEW r \in Runner, SaveStatus(r), UNCHANGED <<graphVars, serverVars>>
  PROVE  KeptInv'
<1> DEFINE state == [proc[r].held EXCEPT !.status = fate[proc[r].ctx]]
<1>1. /\ files' = [files EXCEPT ![Dir(r)] = state] /\ Ended(r)
      /\ calls' = calls /\ graph' = graph
  BY DEF SaveStatus, graphVars
<1>2. proc[r].held \in LocalState
  BY ProcFacts DEF Proc
<1>3. state.ident = proc[r].held.ident
  BY <1>2 DEF LocalState
<1> HIDE DEF state
<1>4. \A q \in Project : IdentOK(graph, files'[q].ident)
  BY <1>1, <1>3 DEF KeptInv, KeptIdents, IInv, ClientTypeOK
<1> QED
  BY <1>1, <1>4, KeptEnds

LEMMA KeptClient ==
  ASSUME IInv, KeptInv, ClientStep
  PROVE  KeptInv'
<1>1. UNCHANGED <<graphVars, serverVars>> /\ graph' = graph
  BY DEF ClientStep, graphVars
<1>2. ASSUME NEW r \in Runner, Refused(r) \/ Unacknowledged(r)
      PROVE  KeptInv'
  <2>1. /\ Ended(r) \/ Untracked(r)
        /\ calls' = Without(calls, CurrentCall(r)) /\ files' = files
    BY <1>2 DEF Refused, Unacknowledged, PreFailed
  <2> QED
    BY <1>1, <2>1, KeptEnds, KeptOneGoes, KeptFiles
<1>3. ASSUME NEW r \in Runner, GiveUp(r) \/ Killed(r)
      PROVE  KeptInv'
  <2>1. /\ Ended(r) \/ Untracked(r)
        /\ files' = files
        /\ \/ calls' \in OtherErrors(CurrentCall(r))
           \/ calls' \in ConnectionErrors(CurrentCall(r))
           \/ calls' \in HungUp(CurrentCall(r))
    BY <1>3 DEF GiveUp, Killed, PreFailed
  <2>2. KeptCalls(graph, proc', calls) => KeptCalls(graph, proc', calls')
    BY <2>1, KeptLeft
  <2> QED
    BY <1>1, <2>1, <2>2, KeptEnds, KeptFiles
<1>4. ASSUME NEW r \in Runner, LaunchUnsent(r) \/ FinishUntracked(r)
      PROVE  KeptInv'
  <2>1. (Ended(r) \/ Untracked(r)) /\ calls' = calls /\ files' = files
    BY <1>4 DEF LaunchUnsent, FinishUntracked
  <2> QED
    BY <1>1, <2>1, KeptEnds, KeptFiles
<1>5. ASSUME NEW r \in Runner, Resolve(r)
      PROVE  KeptInv'
  BY <1>1, <1>2, <1>3, <1>5, KeptAdopt, KeptAcknowledged, KeptRetry DEF Resolve
<1> QED
  BY <1>1, <1>2, <1>3, <1>4, <1>5, KeptLaunch, KeptFinishTraining, KeptSaveStatus
     DEF ClientStep, ClientNext

LEMMA KeptAlways == Spec => []KeptInv
<1>1. Init => KeptInv
  <2> SUFFICES ASSUME Init PROVE KeptInv
    OBVIOUS
  <2>1. /\ calls = <<>> /\ graph = <<>>
        /\ proc = [r \in Runner |-> Resting(0)] /\ files = [p \in Project |-> VirginState]
    BY DEF Init, WireInit, GraphInit, ClientInit
  <2>2. DOMAIN calls = {} /\ DOMAIN graph = {}
    BY <2>1
  <2>3. /\ \A r \in Runner : proc[r].ident = NoIdentity /\ proc[r].held.ident = NoIdentity
        /\ \A p \in Project : files[p].ident = NoIdentity
    BY <2>1 DEF Resting, VirginState
  <2>4. KeptIdents(graph, proc, files)
    BY <2>3, NoIdentityOK DEF KeptIdents
  <2> QED
    BY <2>2, <2>4 DEF KeptInv, KeptCalls, KeptNodes, KeptModels
<1>2. IInv /\ KeptInv /\ [Next]_vars => KeptInv'
  <2>1. CASE IInv /\ KeptInv /\ Next
    BY <2>1, KeptServer, KeptClient DEF Next
  <2>2. CASE KeptInv /\ UNCHANGED vars
    BY <2>2 DEF KeptInv, KeptCalls, KeptNodes, KeptIdents, KeptModels,
                vars, clientVars, graphVars
  <2> QED
    BY <2>1, <2>2
<1> QED
  BY <1>1, <1>2, Invariance, PTL DEF Spec

(* Along a lineage no experiment runs another model than the one before    *)
(* the one it derives from, however the runs in between ended, whoever     *)
(* shares the directory, and whatever was refused, retried or lost         *)
(* (training_run_case_handler.py, detect_strategy).                        *)
THEOREM ModelKept == Spec => []ModelKeptTwoApart
<1>1. KeptInv => ModelKeptTwoApart
  BY DEF KeptInv, KeptModels, ModelKeptTwoApart
<1> QED
  BY <1>1, KeptAlways, PTL

-----------------------------------------------------------------------------
(* The base of a chain and the codebase of a base                          *)

(* Every experiment is a base or hangs off an earlier one.                 *)
Linked(g) ==
  \A e \in DOMAIN g :
    /\ g[e].parent < e
    /\ IsBase(g[e].strategy) <=> g[e].parent = 0

(* RootOf, of any graph.                                                   *)
AreRoots(g, root) ==
  root = [n \in DOMAIN g |-> IF g[n].parent = 0 THEN n ELSE root[g[n].parent]]

Roots(g) == CHOOSE root : AreRoots(g, root)

(* StoredCodebase, of any graph.                                           *)
Stored(g, n) == IF IsBase(g[n].strategy) THEN g[n].snap ELSE Garbled

LEMMA LinkedForest ==
  ASSUME NEW g \in Seq(Node), Linked(g)
  PROVE  /\ DOMAIN g = 1 .. Len(g)
         /\ Forest(Len(g), [e \in 1 .. Len(g) |-> g[e].parent])
         /\ \A e \in DOMAIN g : g[e].parent # 0 => g[e].parent \in DOMAIN g
<1>1. DOMAIN g = 1 .. Len(g) /\ Len(g) \in Nat /\ \A e \in DOMAIN g : g[e] \in Node
  OBVIOUS
<1>2. \A e \in 1 .. Len(g) : g[e].parent \in Nat /\ g[e].parent < e
  BY <1>1 DEF Linked, Node
<1>3. \A e \in 1 .. Len(g) : g[e].parent \in 0 .. Len(g)
  BY <1>1, <1>2
<1> QED
  BY <1>1, <1>2, <1>3 DEF Forest

LEMMA RootsFacts ==
  ASSUME NEW g \in Seq(Node), Linked(g), NEW e \in DOMAIN g
  PROVE  /\ Roots(g)[e] = IF g[e].parent = 0 THEN e ELSE Roots(g)[g[e].parent]
         /\ Roots(g)[e] \in DOMAIN g
<1> DEFINE n == Len(g)
           parent == [i \in 1 .. n |-> g[i].parent]
           V == 1 .. n
           start == [i \in 1 .. n |-> i]
           step == [pair \in (1 .. n) \X V |-> pair[2]]
<1>1. /\ DOMAIN g = 1 .. n /\ Forest(n, parent)
      /\ \A i \in 1 .. n : g[i].parent # 0 => g[i].parent \in 1 .. n
  BY LinkedForest
<1>2. start \in [1 .. n -> V] /\ step \in [(1 .. n) \X V -> V]
  OBVIOUS
<1>3. PICK root \in [1 .. n -> V] : Solves(root, n, parent, start, step)
  <2> HIDE DEF n, parent, V, start, step
  <2> QED
    BY <1>1, <1>2, ForestRecursion
<1>4. \A i \in 1 .. n : root[i] = IF g[i].parent = 0 THEN i ELSE root[g[i].parent]
  BY <1>1, <1>3 DEF Solves
<1>5. AreRoots(g, root)
  BY <1>1, <1>4 DEF AreRoots
<1>6. AreRoots(g, Roots(g))
  BY <1>5 DEF Roots
<1>7. Roots(g) = [i \in 1 .. n |-> IF g[i].parent = 0 THEN i ELSE Roots(g)[g[i].parent]]
  BY <1>1, <1>6 DEF AreRoots
<1>8. \A i \in 1 .. n : Roots(g)[i] = IF g[i].parent = 0 THEN i ELSE Roots(g)[g[i].parent]
  BY <1>7
<1> DEFINE S == {i \in 1 .. n : Roots(g)[i] \in 1 .. n}
<1>9. \A i \in 1 .. n : parent[i] = 0 \/ parent[i] \in S => i \in S
  BY <1>8
<1>10. \A i \in 1 .. n : i \in S
  <2> HIDE DEF S, n, parent
  <2> QED
    BY <1>1, <1>9, ForestInduction
<1> QED
  BY <1>1, <1>8, <1>10

LEMMA RootsStay ==
  ASSUME NEW g \in Seq(Node), NEW h \in Seq(Node), Linked(g), Linked(h), GraphKeeps(g, h)
  PROVE  \A e \in DOMAIN g : Roots(h)[e] = Roots(g)[e]
<1> DEFINE n == Len(g)
           parent == [i \in 1 .. n |-> g[i].parent]
           S == {i \in 1 .. n : Roots(h)[i] = Roots(g)[i]}
<1>1. DOMAIN g = 1 .. n /\ Forest(n, parent)
  BY LinkedForest
<1>2. ASSUME NEW i \in 1 .. n
      PROVE  /\ Roots(g)[i] = IF parent[i] = 0 THEN i ELSE Roots(g)[parent[i]]
             /\ Roots(h)[i] = IF parent[i] = 0 THEN i ELSE Roots(h)[parent[i]]
  <2>1. i \in DOMAIN g /\ i \in DOMAIN h /\ h[i].parent = g[i].parent
    BY <1>1 DEF GraphKeeps
  <2> QED
    BY <2>1, RootsFacts
<1>3. \A i \in 1 .. n : parent[i] = 0 \/ parent[i] \in S => i \in S
  <2> HIDE DEF parent
  <2> QED
    BY <1>2
<1>4. \A i \in 1 .. n : i \in S
  <2> HIDE DEF S, n, parent
  <2> QED
    BY <1>1, <1>3, ForestInduction
<1> QED
  BY <1>1, <1>4

LEMMA RootOfIsRoot ==
  ASSUME NEW e
  PROVE  RootOf(e) = Roots(graph)[e]
  BY DEF RootOf, Roots, AreRoots

-----------------------------------------------------------------------------
(* The place in the lineage                                                *)

(* What experiment.yml, a process, a request or the answer to a PRE says   *)
(* of the place of an experiment: its base is the root of its chain.       *)
PlaceOK(g, place) ==
  place.id # 0 =>
    /\ place.id \in DOMAIN g
    /\ place.baseId = Roots(g)[place.id]
    /\ place.base <=> IsBase(g[place.id].strategy)

(* A call names places that are right, and the experiment it is to create  *)
(* starts its diff from the codebase stored by the one it hangs off.       *)
PlacedCall(g, c, call) ==
  /\ PlaceOK(g, call.ident)
  /\ KindOf(c) = "pre" /\ call.answer.code = 200 => PlaceOK(g, call.answer)
  /\ call.phase = "create" /\ ~IsBase(call.strategy) =>
       /\ call.ident.id \in DOMAIN g
       /\ call.from = Stored(g, call.ident.id)

PlacedCalls(g, cs) == \A c \in DOMAIN cs : PlacedCall(g, c, cs[c])

(* The diff of a node starts from the codebase stored by its parent.       *)
PlacedNodes(g) ==
  \A e \in DOMAIN g : g[e].parent # 0 => g[e].from = Stored(g, g[e].parent)

(* What is kept of the lineage is right, and was adopted.                  *)
Kept(g, f, place) == PlaceOK(g, place) /\ (place.id # 0 => place.id \in DOMAIN f)

PlacedIdents(g, f, ps, fs) ==
  /\ \A r \in Runner : PlaceOK(g, ps[r].ident) /\ Kept(g, f, ps[r].held.ident)
  /\ \A p \in Project : Kept(g, f, fs[p].ident)

PlacedInv ==
  /\ Linked(graph)
  /\ PlacedNodes(graph)
  /\ PlacedCalls(graph, calls)
  /\ PlacedIdents(graph, fate, proc, files)

LEMMA NoPlaceOK ==
  ASSUME NEW g, NEW f
  PROVE  /\ PlaceOK(g, NoIdentity) /\ Kept(g, f, NoIdentity) /\ Kept(g, f, VirginState.ident)
         /\ \A code : PlaceOK(g, Refusal(code))
  BY DEF PlaceOK, Kept, NoIdentity, VirginState, Refusal, Silence

LEMMA PlaceStays ==
  ASSUME NEW g \in Seq(Node), NEW h \in Seq(Node), Linked(g), Linked(h), GraphKeeps(g, h),
         NEW place, PlaceOK(g, place)
  PROVE  PlaceOK(h, place)
  BY RootsStay DEF PlaceOK, GraphKeeps

LEMMA StoredStays ==
  ASSUME NEW g, NEW h, GraphKeeps(g, h), NEW e \in DOMAIN g
  PROVE  Stored(h, e) = Stored(g, e)
  BY DEF Stored, GraphKeeps

LEMMA PlacedCallsStay ==
  ASSUME NEW g \in Seq(Node), NEW h \in Seq(Node), Linked(g), Linked(h), GraphKeeps(g, h),
         NEW cs, PlacedCalls(g, cs)
  PROVE  PlacedCalls(h, cs)
<1>1. ASSUME NEW c \in DOMAIN cs
      PROVE  PlacedCall(h, c, cs[c])
  <2>1. PlacedCall(g, c, cs[c])
    BY DEF PlacedCalls
  <2>2. PlaceOK(h, cs[c].ident)
    BY <2>1, PlaceStays DEF PlacedCall
  <2>3. PlaceOK(g, cs[c].answer) => PlaceOK(h, cs[c].answer)
    BY PlaceStays
  <2>4. cs[c].ident.id \in DOMAIN g =>
          /\ cs[c].ident.id \in DOMAIN h
          /\ Stored(h, cs[c].ident.id) = Stored(g, cs[c].ident.id)
    BY StoredStays DEF GraphKeeps
  <2> QED
    BY <2>1, <2>2, <2>3, <2>4 DEF PlacedCall
<1> QED
  BY <1>1 DEF PlacedCalls

LEMMA PlacedIdentsStay ==
  ASSUME NEW g \in Seq(Node), NEW h \in Seq(Node), Linked(g), Linked(h), GraphKeeps(g, h),
         NEW f, NEW ps, NEW fs, PlacedIdents(g, f, ps, fs)
  PROVE  PlacedIdents(h, f, ps, fs)
  BY PlaceStays DEF PlacedIdents, Kept

-----------------------------------------------------------------------------
(* Calls *)

LEMMA PlacedOneChanges ==
  ASSUME NEW g, NEW cs, PlacedCalls(g, cs), NEW c \in DOMAIN cs, NEW call, PlacedCall(g, c, call)
  PROVE  PlacedCalls(g, [cs EXCEPT ![c] = call])
  BY DEF PlacedCalls

LEMMA PlacedOneComes ==
  ASSUME NEW g, NEW cs, PlacedCalls(g, cs), NEW c, NEW call, PlacedCall(g, c, call)
  PROVE  PlacedCalls(g, With(cs, c, call))
  BY DEF PlacedCalls, With

LEMMA PlacedOneGoes ==
  ASSUME NEW g, NEW cs, PlacedCalls(g, cs), NEW c
  PROVE  PlacedCalls(g, Without(cs, c))
  BY DEF PlacedCalls, Without

(* A call that says no more of the lineage than it did.                    *)
Quieter(new, old) ==
  /\ new.ident = old.ident /\ new.answer = old.answer
  /\ new.phase = "create" /\ ~IsBase(new.strategy) =>
       /\ old.phase = "create" /\ ~IsBase(old.strategy)
       /\ new.from = old.from

LEMMA QuieterPlaced ==
  ASSUME NEW g, NEW c, NEW old, NEW new, PlacedCall(g, c, old), Quieter(new, old)
  PROVE  PlacedCall(g, c, new)
  BY DEF PlacedCall, Quieter

LEMMA QuieterFlags ==
  ASSUME NEW call \in Call, NEW flag
  PROVE  /\ Quieter([call EXCEPT !.issued = flag], call)
         /\ Quieter([call EXCEPT !.open = flag], call)
<1>1. ASSUME NEW new, new.phase = call.phase, new.ident = call.ident, new.from = call.from,
             new.answer = call.answer, new.strategy = call.strategy
      PROVE  Quieter(new, call)
  BY <1>1 DEF Quieter
<1> DEFINE issued == [call EXCEPT !.issued = flag]
           open   == [call EXCEPT !.open = flag]
<1>2. /\ issued.phase = call.phase /\ issued.ident = call.ident /\ issued.from = call.from
      /\ issued.answer = call.answer /\ issued.strategy = call.strategy
  BY DEF Call
<1>3. /\ open.phase = call.phase /\ open.ident = call.ident /\ open.from = call.from
      /\ open.answer = call.answer /\ open.strategy = call.strategy
  BY DEF Call
<1> HIDE DEF issued, open
<1>4. Quieter(issued, call) /\ Quieter(open, call)
  BY <1>1, <1>2, <1>3
<1> QED
  BY <1>4 DEF issued, open

LEMMA PlacedLeft ==
  ASSUME IInv, NEW g, PlacedCalls(g, calls), NEW c
  PROVE  /\ \A left \in HungUp(c) : PlacedCalls(g, left)
         /\ \A left \in ConnectionErrors(c) : PlacedCalls(g, left)
         /\ \A left \in OtherErrors(c) : PlacedCalls(g, left)
<1>1. PlacedCalls(g, Without(calls, c))
  BY PlacedOneGoes
<1>2. c \in DOMAIN calls => PlacedCalls(g, [calls EXCEPT ![c].open = FALSE])
  <2>1. SUFFICES ASSUME c \in DOMAIN calls
                 PROVE  PlacedCalls(g, [calls EXCEPT ![c].open = FALSE])
    OBVIOUS
  <2>2. calls[c] \in Call /\ PlacedCall(g, c, calls[c])
    BY <2>1, CallFacts DEF PlacedCalls
  <2>3. PlacedCall(g, c, [calls[c] EXCEPT !.open = FALSE])
    BY <2>2, QuieterFlags, QuieterPlaced
  <2> QED
    BY <2>1, <2>3, PlacedOneChanges
<1>3. \A left \in HungUp(c) : PlacedCalls(g, left)
  BY <1>1, <1>2 DEF HungUp
<1> QED
  BY <1>1, <1>3 DEF ConnectionErrors, OtherErrors

LEMMA PlacedProceed ==
  ASSUME NEW g, PlacedCalls(g, calls), NEW c \in DOMAIN calls,
         NEW call \in Call, PlacedCall(g, c, call), Proceed(c, call)
  PROVE  PlacedCalls(g, calls')
<1>1. PlacedCall(g, c, [call EXCEPT !.issued = OnTop(c)])
  BY QuieterFlags, QuieterPlaced
<1> QED
  BY <1>1, PlacedOneChanges DEF Proceed

LEMMA PlacedDone ==
  ASSUME NEW g, NEW c, NEW open, NEW answer,
         KindOf(c) = "pre" /\ answer.code = 200 => PlaceOK(g, answer),
         NEW flag
  PROVE  /\ PlacedCall(g, c, Done(open, answer))
         /\ PlacedCall(g, c, [Done(open, answer) EXCEPT !.issued = flag])
<1> DEFINE done == Done(open, answer)
           next == [done EXCEPT !.issued = flag]
<1>1. /\ done.phase = "reply" /\ done.ident = NoIdentity /\ done.answer = answer
      /\ next.phase = "reply" /\ next.ident = NoIdentity /\ next.answer = answer
  BY DEF Done, PreCall
<1> HIDE DEF done, next
<1>2. PlacedCall(g, c, done) /\ PlacedCall(g, c, next)
  BY <1>1, NoPlaceOK DEF PlacedCall
<1> QED
  BY <1>2 DEF done, next

LEMMA PlacedAnswer ==
  ASSUME NEW g, PlacedCalls(g, calls), NEW c \in DOMAIN calls, NEW answer,
         KindOf(c) = "pre" /\ answer.code = 200 => PlaceOK(g, answer),
         AnswerWith(c, answer)
  PROVE  PlacedCalls(g, calls')
<1>1. PlacedCall(g, c, [Done(calls[c].open, answer) EXCEPT !.issued = OnTop(c)])
  BY PlacedDone
<1> QED
  BY <1>1, PlacedOneChanges DEF AnswerWith, Proceed

LEMMA PlacedRefusal ==
  ASSUME NEW g, PlacedCalls(g, calls), NEW c \in DOMAIN calls, NEW code,
         AnswerWith(c, Refusal(code))
  PROVE  PlacedCalls(g, calls')
  BY PlacedAnswer, NoPlaceOK

LEMMA PlacedRequests ==
  ASSUME NEW g, NEW c
  PROVE  /\ \A ident, snap : PlaceOK(g, ident) => PlacedCall(g, c, PreCall(ident, snap))
         /\ \A id, status : PlacedCall(g, c, PostCall(id, status))
<1>1. ASSUME NEW ident, NEW snap, PlaceOK(g, ident)
      PROVE  PlacedCall(g, c, PreCall(ident, snap))
  <2>1. /\ PreCall(ident, snap).phase = "wire" /\ PreCall(ident, snap).ident = ident
        /\ PreCall(ident, snap).answer = Silence
    BY DEF PreCall
  <2> QED
    BY <1>1, <2>1 DEF PlacedCall, Silence
<1>2. ASSUME NEW id, NEW status
      PROVE  PlacedCall(g, c, PostCall(id, status))
  <2>1. /\ PostCall(id, status).phase = "wire" /\ PostCall(id, status).ident = NoIdentity
        /\ PostCall(id, status).answer = Silence
    BY DEF PostCall, PreCall
  <2> QED
    BY <2>1, NoPlaceOK DEF PlacedCall, Silence
<1> QED
  BY <1>1, <1>2
LEMMA PlacedAdvance ==
  ASSUME IInv, NEW g, PlacedCalls(g, calls), NEW c \in DOMAIN calls,
         NEW call \in Call, Quieter(call, calls[c]), Proceed(c, call)
  PROVE  PlacedCalls(g, calls')
<1>1. PlacedCall(g, c, call)
  BY QuieterPlaced DEF PlacedCalls
<1> QED
  BY <1>1, PlacedProceed

LEMMA PlacedGoTo ==
  ASSUME IInv, NEW g, PlacedCalls(g, calls), NEW c \in DOMAIN calls,
         NEW phase \in Phase, phase = "create" => IsBase(calls[c].strategy), GoTo(c, phase)
  PROVE  PlacedCalls(g, calls')
<1> DEFINE next == [calls[c] EXCEPT !.phase = phase]
<1>1. calls[c] \in Call
  BY CallFacts
<1>2. /\ next \in Call /\ next.phase = phase /\ next.ident = calls[c].ident
      /\ next.answer = calls[c].answer /\ next.strategy = calls[c].strategy
  BY <1>1 DEF Call
<1>3. Proceed(c, next)
  BY DEF GoTo
<1> HIDE DEF next
<1>4. Quieter(next, calls[c])
  BY <1>2 DEF Quieter
<1> QED
  BY <1>2, <1>3, <1>4, PlacedAdvance

-----------------------------------------------------------------------------
(* Steps of the server                                                     *)

LEMMA PlacedAccept ==
  ASSUME IInv, NEW g, PlacedCalls(g, calls), NEW c, Accept(c)
  PROVE  PlacedCalls(g, calls')
<1>1. c \in DOMAIN calls /\ calls[c] \in Call /\ PlacedCall(g, c, calls[c])
  BY CallFacts DEF Accept, PlacedCalls
<1>2. PlacedCall(g, c, Unsupported(c))
  <2> DEFINE answer == Refusal(422)
  <2>1. PlaceOK(g, answer)
    BY NoPlaceOK
  <2> HIDE DEF answer
  <2>2. PlacedCall(g, c, [Done(calls[c].open, answer) EXCEPT !.issued = TRUE])
    BY <2>1, PlacedDone
  <2> QED
    BY <2>2 DEF Unsupported, answer
<1>3. PlacedCall(g, c, Started(c))
  <2>1. /\ Started(c).ident = calls[c].ident /\ Started(c).answer = calls[c].answer
        /\ Started(c).phase = FirstPhase(c)
        /\ KindOf(c) = "pre" /\ IsNew(calls[c].ident) => Started(c).strategy = "NEW"
    BY <1>1 DEF Started, Call
  <2>2. FirstPhase(c) = "create" => KindOf(c) # "post" /\ IsNew(calls[c].ident)
    BY DEF FirstPhase
  <2>3. KindOf(c) \in {"pre", "post"}
    BY <1>1, CallFacts
  <2>4. Started(c).phase = "create" => IsBase(Started(c).strategy)
    BY <2>1, <2>2, <2>3 DEF IsBase
  <2> QED
    BY <1>1, <2>1, <2>4 DEF PlacedCall
<1> QED
  BY <1>1, <1>2, <1>3, PlacedOneChanges DEF Accept

LEMMA PlacedReadPrevious ==
  ASSUME IInv, NEW g, PlacedCalls(g, calls), NEW c, ReadPrevious(c)
  PROVE  PlacedCalls(g, calls')
<1> DEFINE prev == calls[c].ident.prev
           old  == IF Exists(prev) THEN graph[prev].snap ELSE Garbled
           next == [calls[c] EXCEPT !.phase = "model", !.prevSnap = old]
<1>1. c \in DOMAIN calls /\ Proceed(c, next)
  BY DEF ReadPrevious, Executing
<1>2. calls[c] \in Call
  BY <1>1, CallFacts
<1>3. old \in Snapshot \cup {Garbled}
  BY GraphFacts DEF IInv, Exists, Node
<1> HIDE DEF old
<1>4. /\ next \in Call /\ next.phase = "model" /\ next.ident = calls[c].ident
      /\ next.answer = calls[c].answer
  BY <1>2, <1>3 DEF Call, Phase, DbPhase
<1> HIDE DEF next
<1>5. Quieter(next, calls[c])
  BY <1>4 DEF Quieter
<1> QED
  BY <1>1, <1>4, <1>5, PlacedAdvance

LEMMA PlacedSwitchModel ==
  ASSUME IInv, NEW g, PlacedCalls(g, calls), NEW c, SwitchModel(c)
  PROVE  PlacedCalls(g, calls')
<1> DEFINE next == [calls[c] EXCEPT !.phase = "resume", !.strategy = "RESUME"]
<1>1. c \in DOMAIN calls /\ Proceed(c, next)
  BY DEF SwitchModel, Executing
<1>2. calls[c] \in Call
  BY <1>1, CallFacts
<1>3. /\ next \in Call /\ next.phase = "resume" /\ next.ident = calls[c].ident
      /\ next.answer = calls[c].answer
  BY <1>2 DEF Call, Phase, DbPhase, Strategy
<1> HIDE DEF next
<1>4. Quieter(next, calls[c])
  BY <1>3 DEF Quieter
<1> QED
  BY <1>1, <1>3, <1>4, PlacedAdvance

(* The codebase read is the one the experiment of the request stores, read *)
(* as a base whatever it is.                                               *)
LEMMA PlacedCompare ==
  ASSUME IInv, PlacedCalls(graph, calls), NEW c, CompareCodebase(c)
  PROVE  PlacedCalls(graph, calls')
<1> DEFINE id   == calls[c].ident.id
           old  == ReconstructedCodebase(id)
           strategy == IF old = calls[c].snap THEN "RETRY" ELSE "BRANCH"
           next == [calls[c] EXCEPT !.phase = "create", !.from = old, !.strategy = strategy]
<1>1. c \in DOMAIN calls
  BY DEF CompareCodebase, Executing
<1>2. calls[c] \in Call /\ PlacedCall(graph, c, calls[c])
  BY <1>1, CallFacts DEF PlacedCalls
<1>3. CASE ~Exists(id)
  <2>1. AnswerWith(c, Refusal(500))
    BY <1>3 DEF CompareCodebase
  <2> QED
    BY <1>1, <2>1, PlacedRefusal
<1>4. CASE Exists(id)
  <2>1. Proceed(c, next)
    BY <1>4 DEF CompareCodebase
  <2>2. old = Stored(graph, id) /\ id \in DOMAIN graph
    BY <1>4 DEF ReconstructedCodebase, StoredCodebase, Stored, Exists
  <2>3. old \in Snapshot \cup {Garbled}
    BY <2>2, GraphFacts DEF IInv, Stored, Node
  <2>4. strategy \in {"RETRY", "BRANCH"}
    OBVIOUS
  <2> HIDE DEF old, strategy
  <2>5. /\ next \in Call /\ next.ident = calls[c].ident /\ next.answer = calls[c].answer
        /\ next.from = old
    BY <1>2, <2>3, <2>4 DEF Call, Phase, DbPhase, Strategy
  <2> HIDE DEF next
  <2>6. PlacedCall(graph, c, next)
    BY <1>2, <2>2, <2>5 DEF PlacedCall
  <2> QED
    BY <1>1, <2>1, <2>5, <2>6, PlacedProceed
<1> QED
  BY <1>3, <1>4

LEMMA PlacedReply ==
  ASSUME IInv, NEW g, PlacedCalls(g, calls), NEW c, Reply(c)
  PROVE  PlacedCalls(g, calls')
<1> DEFINE answered == [calls[c] EXCEPT !.phase = "answered", !.issued = FALSE]
           rest == IF calls[c].open THEN [calls EXCEPT ![c] = answered]
                                    ELSE Without(calls, c)
<1>1. c \in DOMAIN calls
  BY DEF Reply, Executing
<1>2. calls[c] \in Call
  BY <1>1, CallFacts
<1>3. answered \in Call /\ PlacedCall(g, c, answered)
  <2>1. /\ answered \in Call /\ answered.phase = "answered"
        /\ answered.ident = calls[c].ident /\ answered.answer = calls[c].answer
    BY <1>2 DEF Call, Phase
  <2> HIDE DEF answered
  <2> QED
    BY <1>1, <2>1, QuieterPlaced DEF PlacedCalls, Quieter
<1>4. PlacedCalls(g, rest) /\ \A d \in DOMAIN rest : rest[d] \in Call
  <2> HIDE DEF answered
  <2>1. PlacedCalls(g, [calls EXCEPT ![c] = answered]) /\ PlacedCalls(g, Without(calls, c))
    BY <1>1, <1>3, PlacedOneChanges, PlacedOneGoes
  <2>2. \A d \in DOMAIN calls : calls[d] \in Call
    BY CallFacts
  <2> QED
    BY <1>3, <2>1, <2>2 DEF Without
<1>5. calls' = Resumed(rest, nest')
  BY DEF Reply
<1> HIDE DEF rest
<1> DEFINE d == nest'[Len(nest')]
<1>6. CASE nest' = <<>> \/ d \notin DOMAIN rest
  BY <1>4, <1>5, <1>6 DEF Resumed, PlacedCalls
<1>7. CASE nest' # <<>> /\ d \in DOMAIN rest
  <2>1. PlacedCall(g, d, [rest[d] EXCEPT !.issued = TRUE])
    BY <1>4, <1>7, QuieterFlags, QuieterPlaced DEF PlacedCalls
  <2>2. calls' = [rest EXCEPT ![d] = [rest[d] EXCEPT !.issued = TRUE]]
    BY <1>5, <1>7 DEF Resumed
  <2> QED
    BY <1>4, <1>7, <2>1, <2>2, PlacedOneChanges
<1> QED
  BY <1>6, <1>7

(* The new node: a base, its own root, or one that hangs off the           *)
(* experiment of the request, whose root the request named.                *)
LEMMA PlacedCreation ==
  ASSUME IInv, PlacedInv, NEW c, Executing(c, "create"), CanCreate(calls[c]), CreateNode(c),
         UNCHANGED clientVars,
         \/ AnswerWith(c, Created(c, NewId))
         \/ AnswerWith(c, Refusal(500))
  PROVE  PlacedInv'
<1> DEFINE call == calls[c]
<1>1. "create" \in PrePhase
  BY DEF PrePhase
<1>2. /\ c \in DOMAIN calls /\ call.phase = "create" /\ PlacedCall(graph, c, call)
      /\ call.strategy \in Strategy /\ call \in Call
  BY <1>1, PreFacts DEF PlacedInv, PlacedCalls, StrategyOK
<1>3. PICK node \in Node : graph' = Append(graph, node)
  BY CreatedNode
<1>4. /\ graph' \in Seq(Node)
      /\ DOMAIN graph' = DOMAIN graph \cup {NewId} /\ graph'[NewId] = node
      /\ NewId \notin DOMAIN graph /\ NewId \in Nat
      /\ \A e \in DOMAIN graph : graph'[e] = graph[e]
      /\ GraphKeeps(graph, graph')
  BY <1>3, AppendFacts DEF IInv
<1>5. /\ graph \in Seq(Node) /\ Linked(graph) /\ NewId # 0
      /\ \A e \in DOMAIN graph : e < NewId /\ e # 0
  BY GraphFacts DEF IInv, GraphTypeOK, PlacedInv, NewId
<1>6. /\ node.strategy = call.strategy
      /\ IF IsBase(call.strategy)
         THEN node.parent = 0
         ELSE /\ node.parent = call.ident.id /\ node.from = call.from
              /\ call.ident.id \in DOMAIN graph
  <2>1. CASE IsBase(call.strategy)
    <3>1. graph' = Append(graph, NewNode(call.snap, call.snap, 0, call.strategy, c))
      BY <2>1 DEF CreateNode, CreateBaseExperiment
    <3>2. node = NewNode(call.snap, call.snap, 0, call.strategy, c)
      BY <1>4, <3>1, GraphFacts DEF IInv, GraphTypeOK, NewId
    <3> QED
      BY <2>1, <3>2 DEF NewNode
  <2>2. CASE ~IsBase(call.strategy)
    <3>1. graph' = Append(graph, NewNode(call.snap, call.from, call.ident.id, call.strategy, c))
      BY <2>2 DEF CreateNode, CreateNonBaseExperiment
    <3>2. node = NewNode(call.snap, call.from, call.ident.id, call.strategy, c)
      BY <1>4, <3>1, GraphFacts DEF IInv, GraphTypeOK, NewId
    <3>3. call.ident.id \in DOMAIN graph
      BY <2>2 DEF CanCreate, Exists
    <3> QED
      BY <2>2, <3>2, <3>3 DEF NewNode
  <2> QED
    BY <2>1, <2>2
<1>7. Linked(graph')
  BY <1>4, <1>5, <1>6 DEF Linked
<1>8. PlacedNodes(graph')
  <2>1. ASSUME NEW e \in DOMAIN graph', graph'[e].parent # 0
        PROVE  /\ graph'[e].parent \in DOMAIN graph
               /\ graph'[e].from = Stored(graph, graph'[e].parent)
    <3>1. CASE e = NewId
      BY <1>2, <1>4, <1>6, <2>1, <3>1 DEF PlacedCall
    <3>2. CASE e \in DOMAIN graph
      BY <1>4, <1>5, <2>1, <3>2, LinkedForest DEF PlacedInv, PlacedNodes
    <3> QED
      BY <1>4, <3>1, <3>2
  <2> QED
    BY <1>4, <2>1, StoredStays DEF PlacedNodes
<1>9. PlacedCalls(graph', calls')
  <2>1. PlacedCalls(graph', calls)
    BY <1>4, <1>5, <1>7, PlacedCallsStay DEF PlacedInv
  <2>2. CASE AnswerWith(c, Refusal(500))
    BY <1>2, <2>1, <2>2, PlacedRefusal
  <2>3. CASE AnswerWith(c, Created(c, NewId))
    <3> DEFINE answer == Created(c, NewId)
               home == call.ident.id
    <3>1. /\ answer.id = NewId /\ answer.base = IsBase(call.strategy)
          /\ answer.baseId = IF IsBase(call.strategy) THEN NewId
                             ELSE IF call.ident.baseId # 0 THEN call.ident.baseId
                             ELSE call.ident.prev
      BY DEF Created
    <3>2. NewId \in DOMAIN graph' /\ graph'[NewId].strategy = call.strategy
      BY <1>4, <1>6
    <3>3. Roots(graph')[NewId] = IF graph'[NewId].parent = 0 THEN NewId
                                 ELSE Roots(graph')[graph'[NewId].parent]
      BY <1>4, <1>7, <3>2, RootsFacts
    <3>4. ASSUME IsBase(call.strategy)
          PROVE  PlaceOK(graph', answer)
      <4>1. graph'[NewId].parent = 0
        BY <1>4, <1>6, <3>4
      <4> HIDE DEF answer
      <4> QED
        BY <3>1, <3>2, <3>3, <3>4, <4>1 DEF PlaceOK
    <3>5. ASSUME ~IsBase(call.strategy)
          PROVE  PlaceOK(graph', answer)
      <4>1. graph'[NewId].parent = home /\ home \in DOMAIN graph /\ home # 0
        BY <1>4, <1>5, <1>6, <3>5
      <4>2. call.ident.baseId = Roots(graph)[home]
        BY <1>2, <4>1 DEF PlacedCall, PlaceOK
      <4>3. Roots(graph)[home] \in DOMAIN graph
        BY <1>5, <4>1, RootsFacts
      <4>4. Roots(graph')[home] = Roots(graph)[home]
        BY <1>4, <1>5, <1>7, <4>1, RootsStay
      <4>5. call.ident.baseId # 0
        BY <1>5, <4>2, <4>3
      <4> HIDE DEF answer, home
      <4> QED
        BY <3>1, <3>2, <3>3, <3>5, <4>1, <4>2, <4>4, <4>5 DEF PlaceOK
    <3>6. KindOf(c) = "pre" /\ answer.code = 200 => PlaceOK(graph', answer)
      BY <3>4, <3>5
    <3> HIDE DEF answer
    <3> QED
      BY <1>2, <2>1, <2>3, <3>6, PlacedAnswer DEF answer
  <2> QED
    BY <2>2, <2>3
<1>10. PlacedIdents(graph', fate', proc', files')
  BY <1>4, <1>5, <1>7, PlacedIdentsStay DEF PlacedInv, clientVars
<1> QED
  BY <1>7, <1>8, <1>9, <1>10 DEF PlacedInv

LEMMA PlacedSetStatus ==
  ASSUME IInv, PlacedInv, NEW c, SetStatus(c), UNCHANGED clientVars
  PROVE  PlacedInv'
<1>1. /\ c \in DOMAIN calls /\ GoTo(c, "find")
      /\ UpdateExperimentStatus(calls[c].id, calls[c].status)
  BY DEF SetStatus, Executing
<1>2. calls[c].status \in Status
  BY <1>1, CallFacts DEF Call
<1>3. /\ graph' \in Seq(Node) /\ DOMAIN graph' = DOMAIN graph
      /\ GraphKeeps(graph, graph')
  BY <1>1, <1>2, UpdateFacts DEF IInv
<1>4. graph \in Seq(Node) /\ Linked(graph)
  BY DEF IInv, GraphTypeOK, PlacedInv
<1>5. Linked(graph')
  BY <1>3, <1>4 DEF Linked, GraphKeeps
<1>6. PlacedNodes(graph')
  <2>1. \A e \in DOMAIN graph : graph[e].parent # 0 => graph[e].parent \in DOMAIN graph
    BY <1>4, LinkedForest
  <2> QED
    BY <1>3, <2>1, StoredStays DEF PlacedInv, PlacedNodes, GraphKeeps
<1>7. PlacedCalls(graph', calls')
  <2>1. PlacedCalls(graph', calls)
    BY <1>3, <1>4, <1>5, PlacedCallsStay DEF PlacedInv
  <2>2. "find" \in Phase
    BY DEF Phase, DbPhase
  <2> QED
    BY <1>1, <2>1, <2>2, PlacedGoTo
<1>8. PlacedIdents(graph', fate', proc', files')
  BY <1>3, <1>4, <1>5, PlacedIdentsStay DEF PlacedInv, clientVars
<1> QED
  BY <1>5, <1>6, <1>7, <1>8 DEF PlacedInv

LEMMA PlacedStill ==
  ASSUME PlacedInv, PlacedCalls(graph, calls'), graph' = graph, UNCHANGED clientVars
  PROVE  PlacedInv'
  BY DEF PlacedInv, clientVars

LEMMA PlacedServer ==
  ASSUME IInv, PlacedInv, ServerStep
  PROVE  PlacedInv'
<1>1. UNCHANGED clientVars /\ PlacedCalls(graph, calls)
  BY DEF ServerStep, PlacedInv
<1>2. /\ "compare" \in Phase /\ "promote" \in Phase /\ "create" \in Phase
      /\ "resume" \in PrePhase /\ "promote" \in PrePhase
  BY DEF Phase, DbPhase, PrePhase
<1>3. ASSUME NEW c \in DOMAIN calls, Executing(c, "resume") \/ Executing(c, "promote")
      PROVE  IsBase(calls[c].strategy)
  BY <1>2, <1>3, PreFacts DEF StrategyOK, IsBase
<1>4. ASSUME NEW c \in DOMAIN calls, Handle(c)
      PROVE  PlacedInv'
  <2>1. CASE Accept(c) \/ ReadPrevious(c) \/ SwitchModel(c)
    <3>1. graph' = graph
      BY <2>1 DEF Accept, ReadPrevious, SwitchModel, graphVars
    <3> QED
      BY <1>1, <2>1, <3>1, PlacedAccept, PlacedReadPrevious, PlacedSwitchModel, PlacedStill
  <2>2. CASE CompareCodebase(c)
    BY <1>1, <2>2, PlacedCompare, PlacedStill DEF CompareCodebase, graphVars
  <2>3. CASE KeepModel(c)
    <3>1. GoTo(c, "compare") /\ graph' = graph
      BY <2>3 DEF KeepModel, graphVars
    <3> QED
      BY <1>1, <1>2, <3>1, PlacedGoTo, PlacedStill
  <2>4. CASE LookForModel(c) \/ PromoteToModel(c)
    <3>1. /\ Executing(c, "resume") \/ Executing(c, "promote")
          /\ GoTo(c, "promote") \/ GoTo(c, "create")
          /\ graph' = graph
      BY <2>4 DEF LookForModel, PromoteToModel, graphVars
    <3> QED
      BY <1>1, <1>2, <1>3, <3>1, PlacedGoTo, PlacedStill
  <2>5. CASE CreateExperiment(c)
    BY <1>1, <2>5, PlacedCreation DEF CreateExperiment
  <2>6. CASE SetStatus(c)
    BY <1>1, <2>6, PlacedSetStatus
  <2>7. CASE RefuseModelSwitch(c) \/ FailToCreate(c) \/ ConfirmStatus(c)
    <3>1. graph' = graph /\ \E code : AnswerWith(c, Refusal(code))
      BY <2>7 DEF RefuseModelSwitch, FailToCreate, ConfirmStatus, graphVars
    <3> QED
      BY <1>1, <3>1, PlacedRefusal, PlacedStill
  <2>8. CASE Reply(c)
    BY <1>1, <2>8, PlacedReply, PlacedStill DEF Reply, graphVars
  <2> QED
    BY <1>4, <2>1, <2>2, <2>3, <2>4, <2>5, <2>6, <2>7, <2>8 DEF Handle
<1>5. ASSUME NEW c \in DOMAIN calls, DbFails(c)
      PROVE  PlacedInv'
  <2>1. graph' = graph
    BY <1>5 DEF DbFails, graphVars
  <2>2. CASE calls[c].phase = "promote"
    <3>1. Executing(c, "promote") /\ GoTo(c, "create")
      BY <1>5, <2>2 DEF DbFails, Executing
    <3> QED
      BY <1>1, <1>2, <1>3, <2>1, <3>1, PlacedGoTo, PlacedStill
  <2>3. CASE calls[c].phase # "promote"
    BY <1>1, <1>5, <2>1, <2>3, PlacedRefusal, PlacedStill DEF DbFails
  <2> QED
    BY <2>2, <2>3
<1>6. ASSUME NEW c \in DOMAIN calls, CreationUnconfirmed(c)
      PROVE  PlacedInv'
  BY <1>1, <1>6, PlacedCreation DEF CreationUnconfirmed
<1>7. CASE Crash
  <2>1. graph' = graph /\ PlacedCalls(graph, calls')
    BY <1>1, <1>7 DEF Crash, PlacedCalls, graphVars
  <2> QED
    BY <1>1, <2>1, PlacedStill
<1> QED
  BY <1>4, <1>5, <1>6, <1>7 DEF ServerStep, ServerNext

-----------------------------------------------------------------------------
(* Steps of the clients                                                    *)

LEMMA PlacedProcess ==
  ASSUME IInv, PlacedInv, graph' = graph, DOMAIN fate \subseteq DOMAIN fate',
         NEW r \in Runner, NEW p, proc' = [proc EXCEPT ![r] = p],
         PlaceOK(graph, p.ident), Kept(graph, fate', p.held.ident),
         \A q \in Project : Kept(graph, fate', files'[q].ident),
         PlacedCalls(graph, calls')
  PROVE  PlacedInv'
<1>1. \A q \in Runner : q # r => proc'[q] = proc[q]
  BY DEF IInv, ClientTypeOK
<1>2. proc'[r] = p
  BY DEF IInv, ClientTypeOK
<1>3. \A q \in Runner : q # r => Kept(graph, fate', proc[q].held.ident)
  BY DEF PlacedInv, PlacedIdents, Kept
<1>4. PlacedIdents(graph, fate', proc', files')
  BY <1>1, <1>2, <1>3 DEF PlacedInv, PlacedIdents
<1> QED
  BY <1>4 DEF PlacedInv

LEMMA PlacedFiles ==
  ASSUME PlacedInv, files' = files, DOMAIN fate \subseteq DOMAIN fate'
  PROVE  \A q \in Project : Kept(graph, fate', files'[q].ident)
  BY DEF PlacedInv, PlacedIdents, Kept

LEMMA PlacedAtRest ==
  ASSUME IInv, PlacedInv, graph' = graph, DOMAIN fate \subseteq DOMAIN fate', NEW r \in Runner,
         NEW p, AtRest(proc[r], p), proc' = [proc EXCEPT ![r] = p],
         \A q \in Project : Kept(graph, fate', files'[q].ident),
         PlacedCalls(graph, calls')
  PROVE  PlacedInv'
<1>1. p.ident = NoIdentity /\ p.held.ident = VirginState.ident
  BY DEF AtRest
<1>2. PlaceOK(graph, p.ident) /\ Kept(graph, fate', p.held.ident)
  BY <1>1, NoPlaceOK
<1> QED
  BY <1>2, PlacedProcess

LEMMA PlacedEnds ==
  ASSUME IInv, PlacedInv, graph' = graph, fate' = fate, NEW r \in Runner,
         Ended(r) \/ Untracked(r),
         \A q \in Project : Kept(graph, fate', files'[q].ident),
         PlacedCalls(graph, calls')
  PROVE  PlacedInv'
<1>1. proc[r].run \in Nat /\ "bare" \in Pc \ {"pre"} /\ 0 \in Nat
  BY ProcFacts DEF Pc
<1>2. /\ AtRest(proc[r], Resting(proc[r].run))
      /\ AtRest(proc[r], [Resting(proc[r].run) EXCEPT !.pc = "bare"])
  BY <1>1, RestIsAtRest
<1>3. \E p : AtRest(proc[r], p) /\ proc' = [proc EXCEPT ![r] = p]
  BY <1>2 DEF Ended, Untracked
<1> QED
  BY <1>3, PlacedAtRest

LEMMA PlacedLaunch ==
  ASSUME IInv, PlacedInv, NEW r \in Runner, NEW snap \in Snapshot, Launch(r, snap),
         graph' = graph
  PROVE  PlacedInv'
<1> DEFINE ident == IF Dir(r) \in Orchestrated THEN NoIdentity ELSE files[Dir(r)].ident
           run   == proc[r].run + 1
           rest  == Resting(run)
           p     == [rest EXCEPT !.pc = "pre", !.ident = ident, !.snap = snap]
           c     == <<r, run, "pre", 0>>
<1>1. /\ proc' = [proc EXCEPT ![r] = p]
      /\ calls' = With(calls, c, PreCall(ident, snap))
      /\ files' = files /\ fate' = fate
  BY DEF Launch
<1>2. proc[r].run \in Nat /\ files[Dir(r)].ident \in Identity /\ Dir(r) \in Project
  BY ProcFacts
<1>3. ident \in Identity /\ PlaceOK(graph, ident)
  BY <1>2, NoPlaceOK DEF NoIdentity, Identity, PlacedInv, PlacedIdents, Kept
<1> HIDE DEF ident
<1>4. rest \in Proc /\ rest.held = VirginState
  BY <1>2, RestingFacts DEF Resting
<1> HIDE DEF rest
<1>5. p.ident = ident /\ p.held = rest.held
  BY <1>3, <1>4 DEF Proc
<1> HIDE DEF p
<1>6. PlaceOK(graph, p.ident) /\ Kept(graph, fate', p.held.ident)
  BY <1>3, <1>4, <1>5, NoPlaceOK
<1> HIDE DEF c
<1>7. PlacedCalls(graph, calls')
  BY <1>1, <1>3, PlacedRequests, PlacedOneComes DEF PlacedInv
<1> QED
  BY <1>1, <1>6, <1>7, PlacedProcess, PlacedFiles

LEMMA PlacedRetry ==
  ASSUME IInv, PlacedInv, NEW r \in Runner, Retry(r), graph' = graph
  PROVE  PlacedInv'
<1> DEFINE p == [proc[r] EXCEPT !.attempt = @ + 1]
           c == <<r, proc[r].run, proc[r].pc, proc[r].attempt + 1>>
<1>1. proc' = [proc EXCEPT ![r] = p] /\ files' = files /\ fate' = fate
  BY DEF Retry
<1>2. PICK left \in ConnectionErrors(CurrentCall(r)) : calls' = With(left, c, Request(r))
  BY DEF Retry
<1>3. proc[r] \in Proc
  BY ProcFacts
<1>4. p.ident = proc[r].ident /\ p.held = proc[r].held
  BY <1>3 DEF Proc
<1> HIDE DEF p
<1>5. PlaceOK(graph, proc[r].ident) /\ Kept(graph, fate, proc[r].held.ident)
  BY DEF PlacedInv, PlacedIdents
<1> HIDE DEF c
<1>6. PlacedCall(graph, c, Request(r))
  BY <1>5, PlacedRequests DEF Request
<1>7. PlacedCalls(graph, calls')
  <2>1. PlacedCalls(graph, left)
    BY <1>2, PlacedLeft DEF PlacedInv
  <2> QED
    BY <1>2, <1>6, <2>1, PlacedOneComes
<1> QED
  BY <1>1, <1>4, <1>5, <1>7, PlacedProcess, PlacedFiles

(* What is adopted is what the answer says of the node it names.           *)
LEMMA PlacedAdopt ==
  ASSUME IInv, PlacedInv, NEW r \in Runner, Adopt(r), graph' = graph
  PROVE  PlacedInv'
<1> DEFINE id == AnswerOf(r).id
           saved == SavedIdentity(r)
           state == [ident |-> saved, status |-> "RUNNING"]
           p == [Resting(proc[r].run) EXCEPT !.pc = "train", !.ctx = id]
<1>1. /\ files' = [files EXCEPT ![Dir(r)] = state]
      /\ proc' = [proc EXCEPT ![r] = p]
      /\ calls' = Without(calls, CurrentCall(r))
      /\ DOMAIN fate' = DOMAIN fate \cup {id}
      /\ proc[r].pc = "pre" /\ Answered(r) /\ AnswerOf(r).code = 200
  BY DEF Adopt
<1>2. /\ CurrentCall(r) \in DOMAIN calls /\ KindOf(CurrentCall(r)) = "pre"
      /\ AnswerOf(r) = calls[CurrentCall(r)].answer
  BY <1>1 DEF Answered, CurrentCall, KindOf, AnswerOf
<1>3. PlaceOK(graph, AnswerOf(r))
  BY <1>1, <1>2 DEF PlacedInv, PlacedCalls, PlacedCall
<1>4. /\ saved.id = id /\ saved.baseId = AnswerOf(r).baseId /\ saved.base = AnswerOf(r).base
  BY DEF SavedIdentity
<1> HIDE DEF saved
<1>5. Kept(graph, fate', saved)
  BY <1>1, <1>3, <1>4 DEF PlaceOK, Kept
<1>6. \A q \in Project : Kept(graph, fate', files'[q].ident)
  BY <1>1, <1>5 DEF PlacedInv, PlacedIdents, Kept, IInv, ClientTypeOK
<1>7. AtRest(proc[r], p)
  <2>1. proc[r].run \in Nat /\ id \in Nat /\ "train" \in Pc \ {"pre"}
    BY ProcFacts, AdoptFacts, GraphFacts DEF Pc, IInv
  <2> QED
    BY <2>1, RestIsAtRest
<1>8. PlacedCalls(graph, calls')
  BY <1>1, PlacedOneGoes DEF PlacedInv
<1> HIDE DEF p, id, state
<1> QED
  BY <1>1, <1>6, <1>7, <1>8, PlacedAtRest

LEMMA PlacedFinish ==
  ASSUME IInv, PlacedInv, NEW r \in Runner, NEW outcome \in Outcome,
         FinishTraining(r, outcome), graph' = graph
  PROVE  PlacedInv'
<1> DEFINE p == [proc[r] EXCEPT !.pc = "post"]
<1>1. /\ proc' = [proc EXCEPT ![r] = p] /\ files' = files
      /\ calls' = With(calls, <<r, proc[r].run, "post", 0>>, PostCall(proc[r].ctx, outcome))
      /\ DOMAIN fate \subseteq DOMAIN fate'
  BY DEF FinishTraining
<1>2. proc[r] \in Proc
  BY ProcFacts
<1>3. p.ident = proc[r].ident /\ p.held = proc[r].held
  BY <1>2 DEF Proc
<1> HIDE DEF p
<1>4. PlaceOK(graph, p.ident) /\ Kept(graph, fate', p.held.ident)
  BY <1>1, <1>3 DEF PlacedInv, PlacedIdents, Kept
<1>5. PlacedCalls(graph, calls')
  BY <1>1, PlacedRequests, PlacedOneComes DEF PlacedInv
<1> QED
  BY <1>1, <1>4, <1>5, PlacedProcess, PlacedFiles

LEMMA PlacedAcknowledged ==
  ASSUME IInv, PlacedInv, NEW r \in Runner, Acknowledged(r), graph' = graph
  PROVE  PlacedInv'
<1> DEFINE p == [proc[r] EXCEPT !.pc = "save", !.held = files[Dir(r)]]
<1>1. /\ calls' = Without(calls, CurrentCall(r)) /\ files' = files /\ fate' = fate
  BY DEF Acknowledged
<1>2. proc' = [proc EXCEPT ![r] = p]
  <2>1. proc' = [proc EXCEPT ![r].pc = "save", ![r].held = files[Dir(r)]]
    BY DEF Acknowledged
  <2>2. [proc EXCEPT ![r].pc = "save", ![r].held = files[Dir(r)]] = [proc EXCEPT ![r] = p]
    BY DEF IInv, ClientTypeOK, Proc
  <2> QED
    BY <2>1, <2>2
<1>3. proc[r] \in Proc /\ Dir(r) \in Project
  BY ProcFacts
<1>4. p.ident = proc[r].ident /\ p.held = files[Dir(r)]
  BY <1>3 DEF Proc
<1> HIDE DEF p
<1>5. PlaceOK(graph, p.ident) /\ Kept(graph, fate', p.held.ident)
  BY <1>1, <1>3, <1>4 DEF PlacedInv, PlacedIdents
<1>6. PlacedCalls(graph, calls')
  BY <1>1, PlacedOneGoes DEF PlacedInv
<1> QED
  BY <1>1, <1>2, <1>5, <1>6, PlacedProcess, PlacedFiles

LEMMA PlacedSave ==
  ASSUME IInv, PlacedInv, NEW r \in Runner, SaveStatus(r), graph' = graph
  PROVE  PlacedInv'
<1> DEFINE state == [proc[r].held EXCEPT !.status = fate[proc[r].ctx]]
<1>1. /\ files' = [files EXCEPT ![Dir(r)] = state] /\ Ended(r)
      /\ calls' = calls /\ fate' = fate
  BY DEF SaveStatus
<1>2. proc[r].held \in LocalState
  BY ProcFacts DEF Proc
<1>3. state.ident = proc[r].held.ident
  BY <1>2 DEF LocalState
<1> HIDE DEF state
<1>4. \A q \in Project : Kept(graph, fate', files'[q].ident)
  BY <1>1, <1>3 DEF PlacedInv, PlacedIdents, IInv, ClientTypeOK
<1>5. PlacedCalls(graph, calls')
  BY <1>1 DEF PlacedInv
<1> QED
  BY <1>1, <1>4, <1>5, PlacedEnds

LEMMA PlacedClient ==
  ASSUME IInv, PlacedInv, ClientStep
  PROVE  PlacedInv'
<1>1. graph' = graph
  BY DEF ClientStep, graphVars
<1>2. ASSUME NEW r \in Runner, Refused(r) \/ Unacknowledged(r)
      PROVE  PlacedInv'
  <2>1. /\ Ended(r) \/ Untracked(r)
        /\ calls' = Without(calls, CurrentCall(r)) /\ files' = files /\ fate' = fate
    BY <1>2 DEF Refused, Unacknowledged, PreFailed
  <2>2. PlacedCalls(graph, calls')
    BY <2>1, PlacedOneGoes DEF PlacedInv
  <2> QED
    BY <1>1, <2>1, <2>2, PlacedEnds, PlacedFiles
<1>3. ASSUME NEW r \in Runner, GiveUp(r) \/ Killed(r)
      PROVE  PlacedInv'
  <2>1. /\ Ended(r) \/ Untracked(r)
        /\ files' = files /\ fate' = fate
        /\ \/ calls' \in OtherErrors(CurrentCall(r))
           \/ calls' \in ConnectionErrors(CurrentCall(r))
           \/ calls' \in HungUp(CurrentCall(r))
    BY <1>3 DEF GiveUp, Killed, PreFailed
  <2>2. PlacedCalls(graph, calls')
    BY <2>1, PlacedLeft DEF PlacedInv
  <2> QED
    BY <1>1, <2>1, <2>2, PlacedEnds, PlacedFiles
<1>4. ASSUME NEW r \in Runner, LaunchUnsent(r) \/ FinishUntracked(r)
      PROVE  PlacedInv'
  <2>1. (Ended(r) \/ Untracked(r)) /\ calls' = calls /\ files' = files /\ fate' = fate
    BY <1>4 DEF LaunchUnsent, FinishUntracked
  <2>2. PlacedCalls(graph, calls')
    BY <2>1 DEF PlacedInv
  <2> QED
    BY <1>1, <2>1, <2>2, PlacedEnds, PlacedFiles
<1>5. ASSUME NEW r \in Runner, Resolve(r)
      PROVE  PlacedInv'
  BY <1>1, <1>2, <1>3, <1>5, PlacedAdopt, PlacedAcknowledged, PlacedRetry DEF Resolve
<1> QED
  BY <1>1, <1>2, <1>3, <1>4, <1>5, PlacedLaunch, PlacedFinish, PlacedSave
     DEF ClientStep, ClientNext

LEMMA PlacedAlways == Spec => []PlacedInv
<1>1. Init => PlacedInv
  <2> SUFFICES ASSUME Init PROVE PlacedInv
    OBVIOUS
  <2>1. /\ calls = <<>> /\ graph = <<>>
        /\ proc = [r \in Runner |-> Resting(0)] /\ files = [p \in Project |-> VirginState]
    BY DEF Init, WireInit, GraphInit, ClientInit
  <2>2. DOMAIN calls = {} /\ DOMAIN graph = {}
    BY <2>1
  <2>3. /\ \A r \in Runner : proc[r].ident = NoIdentity /\ proc[r].held = VirginState
        /\ \A p \in Project : files[p] = VirginState
    BY <2>1 DEF Resting
  <2>4. PlacedIdents(graph, fate, proc, files)
    BY <2>3, NoPlaceOK DEF PlacedIdents
  <2> QED
    BY <2>2, <2>4 DEF PlacedInv, PlacedCalls, PlacedNodes, Linked
<1>2. IInv /\ PlacedInv /\ [Next]_vars => PlacedInv'
  <2>1. CASE IInv /\ PlacedInv /\ Next
    BY <2>1, PlacedServer, PlacedClient DEF Next
  <2>2. CASE PlacedInv /\ UNCHANGED vars
    BY <2>2 DEF PlacedInv, vars, clientVars, graphVars
  <2> QED
    BY <2>1, <2>2
<1> QED
  BY <1>1, <1>2, Invariance, PTL DEF Spec

(* The diff of an experiment is computed from what its parent stores,      *)
(* whatever ran in between the comparison and the write                    *)
(* (training_run_case_handler.py, detect_strategy; training_repository.py, *)
(* create_non_base_experiment).                                            *)
THEOREM DiffsFromParents == Spec => []DiffFromParent
<1>1. PlacedInv => DiffFromParent
  BY DEF PlacedInv, PlacedNodes, DiffFromParent, StoredCodebase, Stored
<1> QED
  BY <1>1, PlacedAlways, PTL

(* A project's experiment.yml names its experiment, the one before it and  *)
(* the base of its chain as the graph has them, although the identity went *)
(* through a request, its retries and an answer, and other processes write *)
(* the same file (tracker.py; http/client.py, _save_experiment_yml).       *)
THEOREM IdentityConsistent == Spec => []LocalIdentityConsistent
<1>1. IInv /\ KeptInv /\ PlacedInv => LocalIdentityConsistent
  <2>1. SUFFICES ASSUME IInv, KeptInv, PlacedInv, NEW p \in Project, files[p].ident.id # 0
                 PROVE  LET me == files[p].ident IN
                        /\ Exists(me.id)
                        /\ me.baseId = RootOf(me.id)
                        /\ me.base <=> IsBase(graph[me.id].strategy)
                        /\ ~me.base => me.prev = graph[me.id].parent
                        /\ me.id \in DOMAIN fate
    BY DEF LocalIdentityConsistent
  <2> DEFINE me == files[p].ident
  <2>2. /\ me.id \in DOMAIN graph /\ me.baseId = Roots(graph)[me.id]
        /\ me.base <=> IsBase(graph[me.id].strategy)
        /\ me.id \in DOMAIN fate
    BY <2>1 DEF PlacedInv, PlacedIdents, Kept, PlaceOK
  <2>3. graph[me.id].parent # 0 => me.prev = graph[me.id].parent
    BY <2>1 DEF KeptInv, KeptIdents, IdentOK
  <2>4. ~IsBase(graph[me.id].strategy) => graph[me.id].parent # 0
    BY <2>1, <2>2 DEF PlacedInv, Linked
  <2>5. RootOf(me.id) = Roots(graph)[me.id]
    BY RootOfIsRoot
  <2> HIDE DEF me
  <2>6. /\ Exists(me.id) /\ me.baseId = RootOf(me.id)
        /\ me.base <=> IsBase(graph[me.id].strategy)
        /\ ~me.base => me.prev = graph[me.id].parent
        /\ me.id \in DOMAIN fate
    BY <2>2, <2>3, <2>4, <2>5 DEF Exists
  <2> QED
    BY <2>6 DEF me
<1> QED
  BY <1>1, Invariance, KeptAlways, PlacedAlways, PTL
=============================================================================
