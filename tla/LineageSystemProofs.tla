------------------------- MODULE LineageSystemProofs -------------------------
(***************************************************************************)
(* Proofs about LineageSystem, for every deployment its constants          *)
(* describe: IInv is inductive, and the type invariant, the safety         *)
(* properties about statuses, contexts and retries, and the action         *)
(* property StatusSettles follow from it.                                  *)
(***************************************************************************)
EXTENDS LineageInvariants, SequenceTheorems, TLAPS

-----------------------------------------------------------------------------
(* What a step does to the graph and to the history, as far as calls and   *)
(* processes are concerned.                                                *)

(* No node goes away, and only its status may change.                      *)
GraphKeeps(g, h) ==
  \A e \in DOMAIN g :
    /\ e \in DOMAIN h
    /\ h[e].snap = g[e].snap
    /\ h[e].from = g[e].from
    /\ h[e].by = g[e].by
    /\ h[e].parent = g[e].parent
    /\ h[e].strategy = g[e].strategy

(* No experiment is forgotten, and a report is never taken back.           *)
FateKeeps(f, h) ==
  \A e \in DOMAIN f :
    /\ e \in DOMAIN h
    /\ f[e] \in Outcome => h[e] = f[e]

LEMMA GraphFacts ==
  ASSUME GraphTypeOK
  PROVE  /\ Len(graph) \in Nat
         /\ DOMAIN graph = 1 .. Len(graph)
         /\ \A e \in DOMAIN graph : graph[e] \in Node /\ e \in Nat /\ e # 0
  BY DEF GraphTypeOK

(* A new node leaves the others alone.                                     *)
LEMMA AppendFacts ==
  ASSUME GraphTypeOK, NEW node \in Node, graph' = Append(graph, node)
  PROVE  /\ graph' \in Seq(Node)
         /\ DOMAIN graph' = DOMAIN graph \cup {NewId}
         /\ NewId \notin DOMAIN graph
         /\ NewId \in Nat
         /\ graph'[NewId] = node
         /\ \A e \in DOMAIN graph : graph'[e] = graph[e]
         /\ GraphKeeps(graph, graph')
<1>1. graph \in Seq(Node)
  BY DEF GraphTypeOK
<1>2. /\ graph' \in Seq(Node)
      /\ Len(graph') = Len(graph) + 1
      /\ \A i \in 1 .. Len(graph) : graph'[i] = graph[i]
      /\ graph'[Len(graph) + 1] = node
  BY <1>1, AppendProperties
<1>3. DOMAIN graph = 1 .. Len(graph) /\ Len(graph) \in Nat
  BY <1>1
<1>4. DOMAIN graph' = 1 .. Len(graph')
  BY <1>2
<1>5. DOMAIN graph' = DOMAIN graph \cup {NewId}
  BY <1>2, <1>3, <1>4 DEF NewId
<1> QED
  BY <1>2, <1>3, <1>5 DEF NewId, GraphKeeps

(* A status update changes one status and nothing else.                    *)
LEMMA UpdateFacts ==
  ASSUME GraphTypeOK, NEW id, NEW status \in Status, UpdateExperimentStatus(id, status)
  PROVE  /\ graph' \in Seq(Node)
         /\ DOMAIN graph' = DOMAIN graph
         /\ \A e \in DOMAIN graph :
              graph'[e].status = IF e = id THEN status ELSE graph[e].status
         /\ GraphKeeps(graph, graph')
<1>1. graph \in Seq(Node) /\ DOMAIN graph = 1 .. Len(graph)
  BY DEF GraphTypeOK
<1>2. CASE id \notin DOMAIN graph
  <2>1. graph' = graph
    BY <1>2 DEF UpdateExperimentStatus, Exists
  <2> QED
    BY <1>1, <1>2, <2>1 DEF GraphKeeps
<1>3. CASE id \in DOMAIN graph
  <2> DEFINE node == [graph[id] EXCEPT !.status = status]
  <2>1. graph' = [graph EXCEPT ![id] = node]
    BY <1>3 DEF UpdateExperimentStatus, Exists
  <2>2. graph[id] \in Node
    BY <1>1, <1>3
  <2>3. node \in Node
    BY <2>2 DEF Node
  <2>4. graph' \in Seq(Node)
    BY <1>1, <1>3, <2>1, <2>3, ExceptSeq
  <2>5. \A e \in DOMAIN graph : graph'[e] = IF e = id THEN node ELSE graph[e]
    BY <1>1, <2>1
  <2>6. /\ node.status = status /\ node.snap = graph[id].snap
        /\ node.from = graph[id].from
        /\ node.by = graph[id].by /\ node.parent = graph[id].parent
        /\ node.strategy = graph[id].strategy
    BY <2>2 DEF Node
  <2>7. DOMAIN graph' = DOMAIN graph
    BY <2>1
  <2> HIDE DEF node
  <2> QED
    BY <2>4, <2>5, <2>6, <2>7 DEF GraphKeeps
<1> QED
  BY <1>2, <1>3

-----------------------------------------------------------------------------
(* Calls *)

(* What is true of a call stays true when graph and history are kept.      *)
LEMMA CallStays ==
  ASSUME NEW g, NEW h, NEW f, NEW k, GraphKeeps(g, h), FateKeeps(f, k),
         NEW c, NEW call, CallOK(g, f, c, call)
  PROVE  CallOK(h, k, c, call)
<1>1. ReportOK(f, call) => ReportOK(k, call)
  BY DEF ReportOK, FateKeeps
<1>2. AnswerOK(g, c, call.answer) => AnswerOK(h, c, call.answer)
  BY DEF AnswerOK, GraphKeeps
<1>3. StrategyOK(g, call) => StrategyOK(h, call)
  BY DEF StrategyOK, GraphKeeps
<1> QED
  BY <1>1, <1>2, <1>3 DEF CallOK

(* Neither "issued" nor "open" matters to what is true of a call.          *)
LEMMA FlagsDoNotMatter ==
  ASSUME NEW g, NEW f, NEW c, NEW call, CallOK(g, f, c, call), NEW flag \in BOOLEAN
  PROVE  /\ CallOK(g, f, c, [call EXCEPT !.issued = flag])
         /\ CallOK(g, f, c, [call EXCEPT !.open = flag])
<1>1. call \in Call
  BY DEF CallOK
<1>2. ASSUME NEW d \in Call,
             d.phase = call.phase, d.ident = call.ident, d.snap = call.snap,
             d.strategy = call.strategy, d.id = call.id,
             d.status = call.status, d.answer = call.answer
      PROVE  CallOK(g, f, c, d)
  BY <1>2 DEF CallOK, Pending, ReportOK, StrategyOK
<1>3. [call EXCEPT !.issued = flag] \in Call /\ [call EXCEPT !.open = flag] \in Call
  BY <1>1 DEF Call
<1> DEFINE d1 == [call EXCEPT !.issued = flag]
           d2 == [call EXCEPT !.open = flag]
<1>4. /\ d1.phase = call.phase /\ d1.ident = call.ident /\ d1.snap = call.snap
      /\ d1.strategy = call.strategy /\ d1.id = call.id
      /\ d1.status = call.status /\ d1.answer = call.answer
  BY <1>1 DEF Call
<1>5. /\ d2.phase = call.phase /\ d2.ident = call.ident /\ d2.snap = call.snap
      /\ d2.strategy = call.strategy /\ d2.id = call.id
      /\ d2.status = call.status /\ d2.answer = call.answer
  BY <1>1 DEF Call
<1> HIDE DEF d1, d2
<1>6. d1 \in Call /\ d2 \in Call
  BY <1>3 DEF d1, d2
<1>7. CallOK(g, f, c, d1) /\ CallOK(g, f, c, d2)
  BY <1>2, <1>4, <1>5, <1>6
<1> QED
  BY <1>7 DEF d1, d2

(* A finished handler needs only its answer to be right.                   *)
LEMMA DoneOK ==
  ASSUME NEW g, NEW f, NEW c, NEW open \in BOOLEAN, NEW answer \in Answer,
         AnswerOK(g, c, answer)
  PROVE  CallOK(g, f, c, Done(open, answer))
<1> DEFINE d == Done(open, answer)
<1> DEFINE blank == PreCall(NoIdentity, Garbled)
<1>1. blank \in Call
  BY DEF PreCall, NoIdentity, Identity, Silence, Call, Phase, DbPhase, Answer, Status
<1>2. d = [blank EXCEPT !.phase = "reply", !.open = open, !.answer = answer]
  BY DEF Done
<1> HIDE DEF blank
<1>3. d \in Call
  BY <1>1, <1>2 DEF Call, Phase
<1>4. d.phase = "reply" /\ d.answer = answer
  BY <1>1, <1>2 DEF Call
<1> HIDE DEF d
<1>5. CallOK(g, f, c, d)
  BY <1>3, <1>4 DEF CallOK, Pending, PrePhase, PostPhase, StrategyOK
<1> QED
  BY <1>5 DEF d

LEMMA RefusalFacts ==
  ASSUME NEW code \in {200, 409, 422, 500}
  PROVE  Refusal(code) \in Answer /\ Refusal(code).code = code
<1>1. Silence \in Answer
  BY DEF Silence, Answer
<1>2. Refusal(code) = [Silence EXCEPT !.code = code]
  BY DEF Refusal
<1> QED
  BY <1>1, <1>2 DEF Answer

(* New requests.                                                           *)
LEMMA PreCallOK ==
  ASSUME NEW g, NEW f, NEW c, NEW ident \in Identity, NEW snap \in Snapshot,
         KindOf(c) = "pre"
  PROVE  CallOK(g, f, c, PreCall(ident, snap))
<1> DEFINE d == PreCall(ident, snap)
<1>1. /\ d \in Call
      /\ d.phase = "wire" /\ d.snap = snap
  BY DEF PreCall, Identity, Silence, Call, Phase, DbPhase, Answer, Status
<1> HIDE DEF d
<1>2. CallOK(g, f, c, d)
  BY <1>1 DEF CallOK, Pending, PrePhase, PostPhase, StrategyOK
<1> QED
  BY <1>2 DEF d

LEMMA PostCallOK ==
  ASSUME NEW g, NEW f, NEW c, NEW id \in Nat, NEW status \in Outcome,
         KindOf(c) = "post", id \in DOMAIN f, f[id] = status
  PROVE  CallOK(g, f, c, PostCall(id, status))
<1> DEFINE d == PostCall(id, status)
<1>1. /\ d \in Call
      /\ d.phase = "wire" /\ d.id = id /\ d.status = status
  BY DEF PostCall, PreCall, NoIdentity, Identity, Silence, Call, Phase, DbPhase, Answer,
         Status
<1> HIDE DEF d
<1>2. CallOK(g, f, c, d)
  BY <1>1 DEF CallOK, Pending, PrePhase, PostPhase, StrategyOK, ReportOK
<1> QED
  BY <1>2 DEF d

(* The calls as a whole: kept, with one of them changed, added or dropped. *)
LEMMA CallsStay ==
  ASSUME NEW g, NEW h, NEW f, NEW k, GraphKeeps(g, h), FateKeeps(f, k),
         NEW cs, CallsOK(g, f, cs)
  PROVE  CallsOK(h, k, cs)
  BY CallStays DEF CallsOK

LEMMA OneCallChanges ==
  ASSUME NEW g, NEW f, NEW cs, CallsOK(g, f, cs),
         NEW c \in DOMAIN cs, NEW call, CallOK(g, f, c, call)
  PROVE  CallsOK(g, f, [cs EXCEPT ![c] = call])
  BY DEF CallsOK

LEMMA OneCallComes ==
  ASSUME NEW g, NEW f, NEW cs, CallsOK(g, f, cs),
         NEW c \in CallId, NEW call, CallOK(g, f, c, call)
  PROVE  CallsOK(g, f, With(cs, c, call))
  BY DEF CallsOK, With

LEMMA OneCallGoes ==
  ASSUME NEW g, NEW f, NEW cs, CallsOK(g, f, cs), NEW c
  PROVE  CallsOK(g, f, Without(cs, c))
  BY DEF CallsOK, Without

(* Whatever the client leaves behind of a call is in order.                *)
LEMMA LeftOK ==
  ASSUME NEW g, NEW f, CallsOK(g, f, calls), NEW c
  PROVE  /\ \A left \in HungUp(c) : CallsOK(g, f, left)
         /\ \A left \in ConnectionErrors(c) : CallsOK(g, f, left)
         /\ \A left \in OtherErrors(c) : CallsOK(g, f, left)
<1>1. CallsOK(g, f, Without(calls, c))
  BY OneCallGoes
<1>2. c \in DOMAIN calls => CallsOK(g, f, [calls EXCEPT ![c].open = FALSE])
  <2>1. SUFFICES ASSUME c \in DOMAIN calls
                 PROVE  CallsOK(g, f, [calls EXCEPT ![c].open = FALSE])
    OBVIOUS
  <2>2. CallOK(g, f, c, calls[c])
    BY <2>1 DEF CallsOK
  <2>3. CallOK(g, f, c, [calls[c] EXCEPT !.open = FALSE])
    BY <2>2, FlagsDoNotMatter
  <2> QED
    BY <2>1, <2>3, OneCallChanges
<1>3. \A left \in HungUp(c) : CallsOK(g, f, left)
  BY <1>1, <1>2 DEF HungUp
<1> QED
  BY <1>1, <1>3 DEF ConnectionErrors, OtherErrors

-----------------------------------------------------------------------------
(* Steps of the server *)

LEMMA CallFacts ==
  ASSUME IInv, NEW c \in DOMAIN calls
  PROVE  /\ c \in CallId
         /\ KindOf(c) \in {"pre", "post"}
         /\ calls[c] \in Call
         /\ CallOK(graph, fate, c, calls[c])
<1>1. c \in CallId /\ CallOK(graph, fate, c, calls[c])
  BY DEF IInv, CallsOK
<1> QED
  BY <1>1 DEF CallId, KindOf, CallOK

(* Only the calls and the stack of handlers change.                        *)
LEMMA CallStep ==
  ASSUME IInv, UNCHANGED <<graphVars, clientVars>>, nest' \in Seq(CallId),
         CallsOK(graph, fate, calls')
  PROVE  IInv'
<1>1. /\ graph' = graph /\ models' = models
      /\ proc' = proc /\ files' = files /\ fate' = fate
  BY DEF graphVars, clientVars
<1>2. GraphTypeOK' /\ ClientTypeOK'
  BY <1>1 DEF IInv, GraphTypeOK, ClientTypeOK
<1>3. FateOK' /\ RetriesOK' /\ StatusIsOwnReport'
  BY <1>1 DEF IInv, FateOK, RetriesOK, StatusIsOwnReport
<1>4. \A r \in Runner : ProcOK(graph', fate', r, proc'[r])
  BY <1>1 DEF IInv
<1> QED
  BY <1>1, <1>2, <1>3, <1>4 DEF IInv, ServerTypeOK

(* A handler goes on: the new state of its call is all there is to check.  *)
LEMMA ProceedCalls ==
  ASSUME NEW g, CallsOK(g, fate, calls), NEW c \in DOMAIN calls,
         NEW call, CallOK(g, fate, c, call), Proceed(c, call)
  PROVE  CallsOK(g, fate, calls')
<1> DEFINE flag == OnTop(c)
<1>1. flag \in BOOLEAN
  BY DEF OnTop
<1>2. calls' = [calls EXCEPT ![c] = [call EXCEPT !.issued = flag]]
  BY DEF Proceed
<1> HIDE DEF flag
<1>3. CallOK(g, fate, c, [call EXCEPT !.issued = flag])
  BY <1>1, FlagsDoNotMatter
<1> QED
  BY <1>2, <1>3, OneCallChanges

LEMMA ProceedStep ==
  ASSUME IInv, NEW c \in DOMAIN calls, NEW call, CallOK(graph, fate, c, call),
         Proceed(c, call), UNCHANGED <<graphVars, nest, clientVars>>
  PROVE  IInv'
<1>1. CallsOK(graph, fate, calls')
  BY ProceedCalls DEF IInv
<1>2. nest' \in Seq(CallId)
  BY DEF IInv, ServerTypeOK
<1> QED
  BY <1>1, <1>2, CallStep

(* A handler gives up without having created anything.                     *)
LEMMA RefusalStep ==
  ASSUME IInv, NEW c \in DOMAIN calls, NEW code \in {200, 409, 422, 500},
         KindOf(c) = "pre" => code # 200,
         AnswerWith(c, Refusal(code)), UNCHANGED <<graphVars, nest, clientVars>>
  PROVE  IInv'
<1>1. Refusal(code) \in Answer /\ Refusal(code).code = code
  BY RefusalFacts
<1>2. AnswerOK(graph, c, Refusal(code))
  BY <1>1 DEF AnswerOK
<1>3. calls[c].open \in BOOLEAN
  BY CallFacts DEF Call
<1>4. CallOK(graph, fate, c, Done(calls[c].open, Refusal(code)))
  BY <1>1, <1>2, <1>3, DoneOK
<1> QED
  BY <1>4, ProceedStep DEF AnswerWith

LEMMA AcceptStep ==
  ASSUME IInv, NEW c \in DOMAIN calls, Accept(c), UNCHANGED clientVars
  PROVE  IInv'
<1> DEFINE call == calls[c]
<1>1. /\ c \in CallId /\ KindOf(c) \in {"pre", "post"}
      /\ call \in Call /\ CallOK(graph, fate, c, call)
  BY CallFacts
<1>2. call.phase = "wire"
  BY DEF Accept
<1>3. /\ KindOf(c) = "post" => FirstPhase(c) = "update"
      /\ KindOf(c) # "post" /\ IsNew(call.ident) => FirstPhase(c) = "create"
      /\ KindOf(c) # "post" /\ ~IsNew(call.ident) =>
           FirstPhase(c) \in {"previous", "model"}
  BY DEF FirstPhase
<1>4. CallOK(graph, fate, c, Started(c))
  <2> DEFINE started == Started(c)
  <2> DEFINE strategy == IF KindOf(c) = "pre" /\ IsNew(call.ident)
                         THEN "NEW" ELSE call.strategy
  <2>1. /\ started \in Call /\ started.phase = FirstPhase(c)
        /\ started.id = call.id /\ started.status = call.status /\ started.snap = call.snap
        /\ started.strategy = strategy
    <3> DEFINE phase == FirstPhase(c)
    <3>1. phase \in Phase
      BY <1>1, <1>3 DEF Phase, DbPhase
    <3>2. strategy \in Strategy \cup {"unknown"}
      BY <1>1 DEF Call, Strategy
    <3>3. started = [call EXCEPT !.phase = phase, !.issued = TRUE, !.strategy = strategy]
      BY DEF Started
    <3> HIDE DEF phase, strategy, started
    <3>4. /\ started \in Call /\ started.phase = phase
          /\ started.id = call.id /\ started.status = call.status
          /\ started.snap = call.snap /\ started.strategy = strategy
      BY <1>1, <3>1, <3>2, <3>3 DEF Call
    <3> QED
      BY <3>4 DEF phase
  <2>2. KindOf(c) = "post" => ReportOK(fate, call)
    BY <1>1, <1>2 DEF CallOK, Pending
  <2>3. KindOf(c) = "pre" => call.snap \in Snapshot
    BY <1>1, <1>2 DEF CallOK, Pending
  <2> HIDE DEF started
  <2>4. CallOK(graph, fate, c, started)
    BY <1>1, <1>3, <2>1, <2>2, <2>3
    DEF CallOK, Pending, PrePhase, PostPhase, StrategyOK, Strategy, ReportOK
  <2> QED
    BY <2>4 DEF started
<1>5. CallOK(graph, fate, c, Unsupported(c))
  <2>1. Refusal(422) \in Answer /\ AnswerOK(graph, c, Refusal(422))
    BY RefusalFacts DEF AnswerOK
  <2> DEFINE done == Done(call.open, Refusal(422))
  <2>2. CallOK(graph, fate, c, done)
    BY <1>1, <2>1, DoneOK DEF Call
  <2>3. Unsupported(c) = [done EXCEPT !.issued = TRUE]
    BY DEF Unsupported
  <2> HIDE DEF done
  <2>4. CallOK(graph, fate, c, [done EXCEPT !.issued = TRUE])
    BY <2>2, FlagsDoNotMatter
  <2> QED
    BY <2>3, <2>4
<1>6. CallsOK(graph, fate, calls')
  <2>1. calls' = [calls EXCEPT ![c] = IF InDomain(c) THEN Started(c) ELSE Unsupported(c)]
    BY DEF Accept
  <2> QED
    BY <1>4, <1>5, <2>1, OneCallChanges DEF IInv
<1>7. nest' \in Seq(CallId)
  BY <1>1, AppendProperties DEF Accept, IInv, ServerTypeOK
<1> QED
  BY <1>6, <1>7, CallStep DEF Accept

(* What is known of a PRE at one of its queries.                           *)
LEMMA PreFacts ==
  ASSUME IInv, NEW c, NEW phase \in PrePhase, Executing(c, phase)
  PROVE  /\ c \in DOMAIN calls
         /\ c \in CallId
         /\ KindOf(c) = "pre"
         /\ calls[c] \in Call
         /\ calls[c].phase = phase
         /\ calls[c].snap \in Snapshot
         /\ StrategyOK(graph, calls[c])
         /\ CallOK(graph, fate, c, calls[c])
<1>1. c \in DOMAIN calls /\ calls[c].phase = phase
  BY DEF Executing
<1>2. c \in CallId /\ CallOK(graph, fate, c, calls[c])
  BY <1>1, CallFacts
<1> QED
  BY <1>1, <1>2 DEF CallOK, Pending

(* A PRE goes on to another of its queries.                                *)
LEMMA AdvanceOK ==
  ASSUME NEW g, NEW f, NEW c, KindOf(c) = "pre",
         NEW call \in Call, call.phase \in PrePhase, call.snap \in Snapshot,
         StrategyOK(g, call)
  PROVE  CallOK(g, f, c, call)
  BY DEF CallOK, Pending, PrePhase, PostPhase

LEMMA AdvanceStep ==
  ASSUME IInv, NEW c, NEW phase \in PrePhase, Executing(c, phase),
         NEW call \in Call, call.phase \in PrePhase, call.snap = calls[c].snap,
         StrategyOK(graph, call),
         Proceed(c, call), UNCHANGED <<graphVars, nest, clientVars>>
  PROVE  IInv'
<1>1. /\ c \in DOMAIN calls /\ KindOf(c) = "pre" /\ calls[c].snap \in Snapshot
  BY PreFacts
<1>2. CallOK(graph, fate, c, call)
  BY <1>1, AdvanceOK
<1> QED
  BY <1>1, <1>2, ProceedStep

LEMMA ReadPreviousStep ==
  ASSUME IInv, NEW c, ReadPrevious(c), UNCHANGED clientVars
  PROVE  IInv'
<1> DEFINE prev == calls[c].ident.prev
           found == IF Exists(prev) THEN graph[prev].snap ELSE Garbled
           call == [calls[c] EXCEPT !.phase = "model", !.prevSnap = found]
<1>1. /\ Executing(c, "previous") /\ "previous" \in PrePhase
      /\ Proceed(c, call) /\ UNCHANGED <<graphVars, nest>>
  BY DEF ReadPrevious, PrePhase
<1>2. calls[c] \in Call
  BY <1>1, PreFacts
<1>3. found \in Snapshot \cup {Garbled}
  BY GraphFacts DEF IInv, Exists, Node
<1> HIDE DEF found
<1>4. call \in Call /\ call.phase = "model" /\ call.snap = calls[c].snap
  BY <1>2, <1>3 DEF Call, Phase, DbPhase
<1> HIDE DEF call
<1>5. call.phase \in PrePhase /\ StrategyOK(graph, call)
  BY <1>4 DEF PrePhase, StrategyOK
<1> QED
  BY <1>1, <1>4, <1>5, AdvanceStep

LEMMA RefuseModelSwitchStep ==
  ASSUME IInv, NEW c, RefuseModelSwitch(c), UNCHANGED clientVars
  PROVE  IInv'
<1>1. /\ Executing(c, "model") /\ "model" \in PrePhase
      /\ AnswerWith(c, Refusal(409)) /\ UNCHANGED <<graphVars, nest>>
  BY DEF RefuseModelSwitch, PrePhase
<1>2. c \in DOMAIN calls
  BY <1>1, PreFacts
<1> QED
  BY <1>1, <1>2, RefusalStep

LEMMA SwitchModelStep ==
  ASSUME IInv, NEW c, SwitchModel(c), UNCHANGED clientVars
  PROVE  IInv'
<1> DEFINE call == [calls[c] EXCEPT !.phase = "resume", !.strategy = "RESUME"]
<1>1. /\ Executing(c, "model") /\ "model" \in PrePhase
      /\ Proceed(c, call) /\ UNCHANGED <<graphVars, nest>>
  BY DEF SwitchModel, PrePhase
<1>2. calls[c] \in Call
  BY <1>1, PreFacts
<1>3. /\ call \in Call /\ call.phase = "resume" /\ call.strategy = "RESUME"
      /\ call.snap = calls[c].snap
  BY <1>2 DEF Call, Phase, DbPhase, Strategy
<1> HIDE DEF call
<1>4. call.phase \in PrePhase /\ StrategyOK(graph, call)
  BY <1>3 DEF PrePhase, StrategyOK
<1> QED
  BY <1>1, <1>3, <1>4, AdvanceStep

LEMMA KeepModelStep ==
  ASSUME IInv, NEW c, KeepModel(c), UNCHANGED clientVars
  PROVE  IInv'
<1> DEFINE call == [calls[c] EXCEPT !.phase = "compare"]
<1>1. /\ Executing(c, "model") /\ "model" \in PrePhase
      /\ Proceed(c, call) /\ UNCHANGED <<graphVars, nest>>
  BY DEF KeepModel, GoTo, PrePhase
<1>2. calls[c] \in Call
  BY <1>1, PreFacts
<1>3. call \in Call /\ call.phase = "compare" /\ call.snap = calls[c].snap
  BY <1>2 DEF Call, Phase, DbPhase
<1> HIDE DEF call
<1>4. call.phase \in PrePhase /\ StrategyOK(graph, call)
  BY <1>3 DEF PrePhase, StrategyOK
<1> QED
  BY <1>1, <1>3, <1>4, AdvanceStep

LEMMA CompareCodebaseStep ==
  ASSUME IInv, NEW c, CompareCodebase(c), UNCHANGED clientVars
  PROVE  IInv'
<1> DEFINE id   == calls[c].ident.id
           old  == ReconstructedCodebase(id)
           call == [calls[c] EXCEPT !.phase = "create", !.from = old,
                      !.strategy = IF old = calls[c].snap THEN "RETRY" ELSE "BRANCH"]
<1>1. /\ Executing(c, "compare") /\ "compare" \in PrePhase
      /\ UNCHANGED <<graphVars, nest>>
  BY DEF CompareCodebase, PrePhase
<1>2. c \in DOMAIN calls /\ calls[c] \in Call /\ calls[c].snap \in Snapshot
  BY <1>1, PreFacts
<1>3. CASE ~Exists(id)
  <2>1. AnswerWith(c, Refusal(500))
    BY <1>3 DEF CompareCodebase
  <2> QED
    BY <1>1, <1>2, <2>1, RefusalStep
<1>4. CASE Exists(id)
  <2>1. Proceed(c, call)
    BY <1>4 DEF CompareCodebase
  <2>2. graph[id].snap \in Snapshot
    BY <1>4, GraphFacts DEF IInv, Exists, Node
  <2>3. old \in {Garbled, graph[id].snap}
    BY DEF ReconstructedCodebase, StoredCodebase
  <2> HIDE DEF old
  <2>4. /\ call \in Call /\ call.phase = "create" /\ call.snap = calls[c].snap
        /\ call.ident = calls[c].ident
        /\ call.strategy = IF old = calls[c].snap THEN "RETRY" ELSE "BRANCH"
    BY <1>2, <2>2, <2>3 DEF Call, Phase, DbPhase, Strategy
  <2> HIDE DEF call
  <2>5. call.strategy = "RETRY" => graph[id].snap = call.snap
    BY <1>2, <2>3, <2>4, DeploymentAssumption
  <2>6. call.phase \in PrePhase /\ StrategyOK(graph, call)
    BY <1>4, <2>4, <2>5 DEF PrePhase, StrategyOK, Strategy, Exists
  <2> QED
    BY <1>1, <2>1, <2>4, <2>6, AdvanceStep
<1> QED
  BY <1>3, <1>4

LEMMA LookForModelStep ==
  ASSUME IInv, NEW c, LookForModel(c), UNCHANGED clientVars
  PROVE  IInv'
<1> DEFINE missing == /\ ModelOf[calls[c].snap] \notin DOMAIN models
                      /\ UriOf[calls[c].snap] # NoUri
           next == IF missing THEN "promote" ELSE "create"
           call == [calls[c] EXCEPT !.phase = next]
<1>1. /\ Executing(c, "resume") /\ "resume" \in PrePhase
      /\ Proceed(c, call) /\ UNCHANGED <<graphVars, nest>>
  BY DEF LookForModel, GoTo, PrePhase
<1>2. calls[c] \in Call /\ calls[c].strategy = "RESUME"
  BY <1>1, PreFacts DEF StrategyOK
<1>3. next \in {"promote", "create"}
  OBVIOUS
<1> HIDE DEF next
<1>4. /\ call \in Call /\ call.phase = next /\ call.snap = calls[c].snap
      /\ call.strategy = "RESUME"
  BY <1>2, <1>3 DEF Call, Phase, DbPhase
<1> HIDE DEF call
<1>5. call.phase \in PrePhase /\ StrategyOK(graph, call)
  BY <1>3, <1>4 DEF PrePhase, StrategyOK, Strategy
<1> QED
  BY <1>1, <1>4, <1>5, AdvanceStep

(* The call of a RESUME whose promotion is over, well or badly.            *)
LEMMA PromotedOK ==
  ASSUME IInv, NEW c, Executing(c, "promote")
  PROVE  /\ c \in DOMAIN calls
         /\ CallOK(graph, fate, c, [calls[c] EXCEPT !.phase = "create"])
<1> DEFINE call == [calls[c] EXCEPT !.phase = "create"]
<1>1. "promote" \in PrePhase
  BY DEF PrePhase
<1>2. /\ c \in DOMAIN calls /\ calls[c] \in Call /\ calls[c].strategy = "RESUME"
      /\ KindOf(c) = "pre" /\ calls[c].snap \in Snapshot
  BY <1>1, PreFacts DEF StrategyOK
<1>3. /\ call \in Call /\ call.phase = "create" /\ call.snap = calls[c].snap
      /\ call.strategy = "RESUME"
  BY <1>2 DEF Call, Phase, DbPhase
<1> HIDE DEF call
<1>4. call.phase \in PrePhase /\ StrategyOK(graph, call)
  BY <1>3 DEF PrePhase, StrategyOK, Strategy
<1>5. CallOK(graph, fate, c, call)
  BY <1>2, <1>3, <1>4, AdvanceOK
<1> QED
  BY <1>2, <1>5 DEF call

LEMMA PromoteToModelStep ==
  ASSUME IInv, NEW c, PromoteToModel(c), UNCHANGED clientVars
  PROVE  IInv'
<1> DEFINE name == ModelOf[calls[c].snap]
           uri  == UriOf[calls[c].snap]
<1>1. /\ Executing(c, "promote") /\ "promote" \in PrePhase
      /\ PromoteCheckpoint(name, uri) /\ GoTo(c, "create") /\ UNCHANGED <<graph, nest>>
  BY DEF PromoteToModel, PrePhase
<1>2. CallsOK(graph, fate, calls')
  BY <1>1, PromotedOK, ProceedCalls DEF GoTo, IInv
<1>3. calls[c].snap \in Snapshot
  BY <1>1, PreFacts
<1>4. name \in ModelName /\ uri \in Uri \cup {NoUri}
  BY <1>3, DeploymentAssumption
<1> HIDE DEF name, uri
<1>5. GraphTypeOK'
  BY <1>1, <1>4 DEF IInv, GraphTypeOK, PromoteCheckpoint
<1>6. /\ graph' = graph /\ proc' = proc /\ files' = files /\ fate' = fate /\ nest' = nest
  BY <1>1 DEF clientVars
<1>7. ClientTypeOK' /\ ServerTypeOK'
  BY <1>6 DEF IInv, ClientTypeOK, ServerTypeOK
<1>8. FateOK' /\ RetriesOK' /\ StatusIsOwnReport'
  BY <1>6 DEF IInv, FateOK, RetriesOK, StatusIsOwnReport
<1>9. \A r \in Runner : ProcOK(graph', fate', r, proc'[r])
  BY <1>6 DEF IInv
<1> QED
  BY <1>2, <1>5, <1>6, <1>7, <1>8, <1>9 DEF IInv

LEMMA FailToCreateStep ==
  ASSUME IInv, NEW c, FailToCreate(c), UNCHANGED clientVars
  PROVE  IInv'
<1>1. /\ Executing(c, "create") /\ "create" \in PrePhase
      /\ AnswerWith(c, Refusal(500)) /\ UNCHANGED <<graphVars, nest>>
  BY DEF FailToCreate, PrePhase
<1>2. c \in DOMAIN calls
  BY <1>1, PreFacts
<1> QED
  BY <1>1, <1>2, RefusalStep

(* The node a creation appends: RUNNING, of the call that creates it, and  *)
(* a RETRY only beside a parent with its codebase.                         *)
LEMMA CreatedNode ==
  ASSUME IInv, NEW c, Executing(c, "create"), CanCreate(calls[c]), CreateNode(c)
  PROVE  \E node \in Node :
           /\ graph' = Append(graph, node)
           /\ node.by = c
           /\ node.status = "RUNNING"
           /\ node.strategy = "RETRY" =>
                /\ node.parent \in DOMAIN graph
                /\ graph[node.parent].snap = node.snap
<1> DEFINE call == calls[c]
<1>1. "create" \in PrePhase
  BY DEF PrePhase
<1>2. /\ c \in CallId /\ call \in Call /\ call.snap \in Snapshot
      /\ call.strategy \in Strategy
      /\ call.strategy = "RETRY" =>
           call.ident.id \in DOMAIN graph /\ graph[call.ident.id].snap = call.snap
  BY <1>1, PreFacts DEF StrategyOK
<1>3. CASE IsBase(call.strategy)
  <2> DEFINE node == NewNode(call.snap, call.snap, 0, call.strategy, c)
  <2>1. graph' = Append(graph, node)
    BY <1>3 DEF CreateNode, CreateBaseExperiment
  <2>2. node \in Node /\ node.by = c /\ node.status = "RUNNING"
    BY <1>2 DEF NewNode, Node, Status
  <2>3. node.strategy # "RETRY"
    BY <1>3 DEF NewNode, IsBase
  <2> HIDE DEF node
  <2> QED
    BY <2>1, <2>2, <2>3
<1>4. CASE ~IsBase(call.strategy)
  <2> DEFINE node == NewNode(call.snap, call.from, call.ident.id, call.strategy, c)
  <2>1. graph' = Append(graph, node)
    BY <1>4 DEF CreateNode, CreateNonBaseExperiment
  <2>2. call.from \in Snapshot \cup {Garbled} /\ call.ident.id \in Nat
    BY <1>2 DEF Call, Identity
  <2>3. node \in Node /\ node.by = c /\ node.status = "RUNNING"
    BY <1>2, <2>2 DEF NewNode, Node, Status
  <2>4. /\ node.parent = call.ident.id /\ node.snap = call.snap
        /\ node.strategy = call.strategy
    BY DEF NewNode
  <2> HIDE DEF node
  <2> QED
    BY <1>2, <2>1, <2>3, <2>4
<1> QED
  BY <1>3, <1>4

(* Creation and answer: the answer names the new node or is a refusal.     *)
LEMMA CreationStep ==
  ASSUME IInv, NEW c, Executing(c, "create"), CanCreate(calls[c]), CreateNode(c),
         NEW answer \in Answer, answer.code = 200 => answer.id = NewId,
         AnswerWith(c, answer), UNCHANGED <<models, nest, clientVars>>
  PROVE  IInv'
<1>1. PICK node \in Node :
        /\ graph' = Append(graph, node)
        /\ node.by = c
        /\ node.status = "RUNNING"
        /\ node.strategy = "RETRY" =>
             node.parent \in DOMAIN graph /\ graph[node.parent].snap = node.snap
  BY CreatedNode
<1>2. GraphTypeOK
  BY DEF IInv
<1>3. /\ graph' \in Seq(Node)
      /\ DOMAIN graph' = DOMAIN graph \cup {NewId}
      /\ NewId \notin DOMAIN graph
      /\ graph'[NewId] = node
      /\ \A e \in DOMAIN graph : graph'[e] = graph[e]
      /\ GraphKeeps(graph, graph')
  BY <1>1, <1>2, AppendFacts
<1>4. /\ models' = models /\ nest' = nest
      /\ proc' = proc /\ files' = files /\ fate' = fate
  BY DEF clientVars
<1>5. "create" \in PrePhase
  BY DEF PrePhase
<1>6. c \in DOMAIN calls /\ KindOf(c) = "pre" /\ calls[c].open \in BOOLEAN
  BY <1>5, PreFacts DEF Call
<1>7. CallsOK(graph', fate, calls')
  <2>1. FateKeeps(fate, fate)
    BY DEF FateKeeps
  <2>2. CallsOK(graph', fate, calls)
    BY <1>3, <2>1, CallsStay DEF IInv
  <2>3. AnswerOK(graph', c, answer)
    BY <1>1, <1>3 DEF AnswerOK
  <2>4. CallOK(graph', fate, c, Done(calls[c].open, answer))
    BY <1>6, <2>3, DoneOK
  <2> QED
    BY <1>6, <2>2, <2>4, ProceedCalls DEF AnswerWith
<1>8. ASSUME NEW r \in Runner
      PROVE  ProcOK(graph', fate, r, proc[r])
  BY <1>3 DEF IInv, ProcOK
<1>9. GraphTypeOK' /\ ServerTypeOK' /\ ClientTypeOK'
  BY <1>3, <1>4 DEF IInv, GraphTypeOK, ServerTypeOK, ClientTypeOK
<1>10. FateOK'
  BY <1>3, <1>4 DEF IInv, FateOK
<1>11. RetriesOK'
  BY <1>1, <1>3 DEF IInv, RetriesOK
<1>12. StatusIsOwnReport'
  BY <1>1, <1>3, <1>4 DEF IInv, StatusIsOwnReport
<1> QED
  BY <1>4, <1>7, <1>8, <1>9, <1>10, <1>11, <1>12 DEF IInv

LEMMA CreateExperimentStep ==
  ASSUME IInv, NEW c, CreateExperiment(c), UNCHANGED clientVars
  PROVE  IInv'
<1> DEFINE answer == Created(c, NewId)
<1>1. /\ Executing(c, "create") /\ CanCreate(calls[c]) /\ CreateNode(c)
      /\ AnswerWith(c, answer) /\ UNCHANGED <<models, nest>>
  BY DEF CreateExperiment
<1>2. NewId \in Nat
  BY GraphFacts DEF IInv, NewId
<1>3. calls[c] \in Call /\ "create" \in PrePhase
  BY <1>1, PreFacts DEF PrePhase
<1>4. answer \in Answer /\ answer.id = NewId
  BY <1>2, <1>3 DEF Created, Answer, Call, Identity, IsBase
<1> HIDE DEF answer
<1> QED
  BY <1>1, <1>4, CreationStep

LEMMA CreationUnconfirmedStep ==
  ASSUME IInv, NEW c, CreationUnconfirmed(c), UNCHANGED clientVars
  PROVE  IInv'
<1>1. /\ Executing(c, "create") /\ CanCreate(calls[c]) /\ CreateNode(c)
      /\ AnswerWith(c, Refusal(500)) /\ UNCHANGED <<models, nest>>
  BY DEF CreationUnconfirmed
<1>2. Refusal(500) \in Answer /\ Refusal(500).code # 200
  BY RefusalFacts
<1> QED
  BY <1>1, <1>2, CreationStep

(* What is known of a POST at one of its queries.                          *)
LEMMA PostFacts ==
  ASSUME IInv, NEW c, NEW phase \in PostPhase, Executing(c, phase)
  PROVE  /\ c \in DOMAIN calls
         /\ KindOf(c) = "post"
         /\ calls[c] \in Call
         /\ ReportOK(fate, calls[c])
<1>1. c \in DOMAIN calls /\ calls[c].phase = phase
  BY DEF Executing
<1>2. CallOK(graph, fate, c, calls[c])
  BY <1>1, CallFacts
<1> QED
  BY <1>1, <1>2 DEF CallOK, Pending

LEMMA SetStatusStep ==
  ASSUME IInv, NEW c, SetStatus(c), UNCHANGED clientVars
  PROVE  IInv'
<1> DEFINE id     == calls[c].id
           status == calls[c].status
           call   == [calls[c] EXCEPT !.phase = "find"]
<1>1. /\ Executing(c, "update") /\ "update" \in PostPhase
      /\ UpdateExperimentStatus(id, status)
      /\ Proceed(c, call) /\ UNCHANGED <<models, nest>>
  BY DEF SetStatus, GoTo, PostPhase
<1>2. /\ c \in DOMAIN calls /\ KindOf(c) = "post" /\ calls[c] \in Call
      /\ ReportOK(fate, calls[c])
  BY <1>1, PostFacts
<1>3. status \in Status /\ id \in DOMAIN fate /\ fate[id] = status
  BY <1>2 DEF Call, ReportOK
<1>4. GraphTypeOK
  BY DEF IInv
<1>5. /\ graph' \in Seq(Node) /\ DOMAIN graph' = DOMAIN graph
      /\ \A e \in DOMAIN graph :
           graph'[e].status = IF e = id THEN status ELSE graph[e].status
      /\ GraphKeeps(graph, graph')
  BY <1>1, <1>3, <1>4, UpdateFacts
<1>6. /\ models' = models /\ nest' = nest
      /\ proc' = proc /\ files' = files /\ fate' = fate
  BY <1>1 DEF clientVars
<1>7. CallsOK(graph', fate, calls')
  <2>1. FateKeeps(fate, fate)
    BY DEF FateKeeps
  <2>2. CallsOK(graph', fate, calls)
    BY <1>5, <2>1, CallsStay DEF IInv
  <2>3. /\ call \in Call /\ call.phase = "find"
        /\ call.id = calls[c].id /\ call.status = calls[c].status
    BY <1>2 DEF Call, Phase, DbPhase
  <2> HIDE DEF call
  <2>4. CallOK(graph', fate, c, call)
    BY <1>2, <2>3 DEF CallOK, Pending, PrePhase, PostPhase, StrategyOK, ReportOK
  <2> QED
    BY <1>1, <1>2, <2>2, <2>4, ProceedCalls
<1>8. ASSUME NEW r \in Runner
      PROVE  ProcOK(graph', fate, r, proc[r])
  BY <1>5 DEF IInv, ProcOK, GraphKeeps
<1>9. GraphTypeOK' /\ ServerTypeOK' /\ ClientTypeOK'
  BY <1>4, <1>5, <1>6 DEF IInv, GraphTypeOK, ServerTypeOK, ClientTypeOK
<1>10. FateOK'
  BY <1>5, <1>6 DEF IInv, FateOK, GraphKeeps
<1>11. RetriesOK'
  BY <1>5 DEF IInv, RetriesOK, GraphKeeps
<1>12. StatusIsOwnReport'
  BY <1>3, <1>5, <1>6 DEF IInv, StatusIsOwnReport
<1> QED
  BY <1>6, <1>7, <1>8, <1>9, <1>10, <1>11, <1>12 DEF IInv

LEMMA ConfirmStatusStep ==
  ASSUME IInv, NEW c, ConfirmStatus(c), UNCHANGED clientVars
  PROVE  IInv'
<1> DEFINE code == IF Exists(calls[c].id) THEN 200 ELSE 422
<1>1. /\ Executing(c, "find") /\ "find" \in PostPhase
      /\ AnswerWith(c, Refusal(code)) /\ UNCHANGED <<graphVars, nest>>
  BY DEF ConfirmStatus, PostPhase
<1>2. c \in DOMAIN calls /\ KindOf(c) = "post"
  BY <1>1, PostFacts
<1>3. code \in {200, 409, 422, 500}
  OBVIOUS
<1> HIDE DEF code
<1> QED
  BY <1>1, <1>2, <1>3, RefusalStep

(* The answer reaches the client, or nobody; the handler below goes on.    *)
LEMMA ReplyStep ==
  ASSUME IInv, NEW c, Reply(c), UNCHANGED clientVars
  PROVE  IInv'
<1> DEFINE answered == [calls[c] EXCEPT !.phase = "answered", !.issued = FALSE]
           rest == IF calls[c].open THEN [calls EXCEPT ![c] = answered]
                                    ELSE Without(calls, c)
<1>1. c \in DOMAIN calls /\ calls[c].phase = "reply" /\ UNCHANGED graphVars
  BY DEF Reply, Executing
<1>2. calls[c] \in Call /\ CallOK(graph, fate, c, calls[c])
  BY <1>1, CallFacts
<1>3. CallOK(graph, fate, c, answered)
  <2>1. /\ answered \in Call /\ answered.phase = "answered"
        /\ answered.answer = calls[c].answer
    BY <1>2 DEF Call, Phase
  <2>2. AnswerOK(graph, c, calls[c].answer)
    BY <1>1, <1>2 DEF CallOK
  <2> HIDE DEF answered
  <2> QED
    BY <2>1, <2>2 DEF CallOK, Pending, PrePhase, PostPhase, StrategyOK
<1>4. CallsOK(graph, fate, calls)
  BY DEF IInv
<1>5. CallsOK(graph, fate, rest)
  <2> HIDE DEF answered
  <2>1. CallsOK(graph, fate, [calls EXCEPT ![c] = answered])
    BY <1>1, <1>3, <1>4, OneCallChanges
  <2>2. CallsOK(graph, fate, Without(calls, c))
    BY <1>4, OneCallGoes
  <2> QED
    BY <2>1, <2>2
<1>6. calls' = Resumed(rest, nest')
  BY DEF Reply
<1> HIDE DEF rest
<1>7. CallsOK(graph, fate, calls')
  <2> DEFINE d == nest'[Len(nest')]
  <2>1. CASE nest' = <<>> \/ d \notin DOMAIN rest
    BY <1>5, <1>6, <2>1 DEF Resumed, CallsOK
  <2>2. CASE nest' # <<>> /\ d \in DOMAIN rest
    <3>1. CallOK(graph, fate, d, rest[d])
      BY <1>5, <2>2 DEF CallsOK
    <3>2. CallOK(graph, fate, d, [rest[d] EXCEPT !.issued = TRUE])
      BY <3>1, FlagsDoNotMatter
    <3>3. calls' = [rest EXCEPT ![d] = [rest[d] EXCEPT !.issued = TRUE]]
      BY <1>6, <2>2 DEF Resumed
    <3> QED
      BY <1>5, <2>2, <3>2, <3>3, OneCallChanges
  <2> QED
    BY <2>1, <2>2
<1>8. nest' \in Seq(CallId)
  BY SubSeqProperties DEF IInv, ServerTypeOK, Reply, OnTop
<1> QED
  BY <1>1, <1>7, <1>8, CallStep

LEMMA DbFailsStep ==
  ASSUME IInv, NEW c, DbFails(c), UNCHANGED clientVars
  PROVE  IInv'
<1>1. c \in DOMAIN calls /\ UNCHANGED <<graphVars, nest>>
  BY DEF DbFails, Executing
<1>2. CASE calls[c].phase = "promote"
  <2>1. Executing(c, "promote") /\ GoTo(c, "create")
    BY <1>2 DEF DbFails, Executing
  <2> QED
    BY <1>1, <2>1, PromotedOK, ProceedStep DEF GoTo
<1>3. CASE calls[c].phase # "promote"
  <2>1. AnswerWith(c, Refusal(500))
    BY <1>3 DEF DbFails
  <2> QED
    BY <1>1, <2>1, RefusalStep
<1> QED
  BY <1>2, <1>3

LEMMA CrashStep ==
  ASSUME IInv, Crash, UNCHANGED clientVars
  PROVE  IInv'
<1>1. CallsOK(graph, fate, calls')
  BY DEF Crash, IInv, CallsOK
<1>2. nest' \in Seq(CallId)
  BY DEF Crash
<1> QED
  BY <1>1, <1>2, CallStep DEF Crash

-----------------------------------------------------------------------------
(* Steps of the clients                                                    *)

LEMMA ProcFacts ==
  ASSUME IInv, NEW r \in Runner
  PROVE  /\ proc[r] \in Proc
         /\ ProcOK(graph, fate, r, proc[r])
         /\ proc[r].run \in Nat
         /\ Dir(r) \in Project
         /\ files[Dir(r)] \in LocalState
         /\ files[Dir(r)].ident \in Identity
<1>1. proc[r] \in Proc /\ ProcOK(graph, fate, r, proc[r])
  BY DEF IInv, ClientTypeOK
<1>2. Dir(r) \in Project
  BY DeploymentAssumption DEF Dir
<1>3. files[Dir(r)] \in LocalState
  BY <1>2 DEF IInv, ClientTypeOK
<1> QED
  BY <1>1, <1>2, <1>3 DEF Proc, LocalState

(* What is left of graph and handlers when a client steps, for any change  *)
(* of the history that keeps its reports.                                  *)
LEMMA ClientFrame ==
  ASSUME IInv, UNCHANGED <<graphVars, serverVars>>,
         ClientTypeOK', CallsOK(graph, fate', calls'), FateKeeps(fate, fate'),
         \A r \in Runner : ProcOK(graph, fate', r, proc'[r]),
         \A e \in DOMAIN fate' :
           e \in DOMAIN graph /\ PastPre(graph[e].by, proc'[RunnerOf(graph[e].by)])
  PROVE  IInv'
<1>1. graph' = graph /\ models' = models /\ nest' = nest
  BY DEF graphVars, serverVars
<1>2. GraphTypeOK' /\ ServerTypeOK' /\ RetriesOK'
  BY <1>1 DEF IInv, GraphTypeOK, ServerTypeOK, RetriesOK
<1>3. FateOK'
  BY <1>1 DEF FateOK
<1>4. StatusIsOwnReport'
  <2>1. SUFFICES ASSUME NEW e \in DOMAIN graph, graph[e].status # "RUNNING"
                 PROVE  e \in DOMAIN fate' /\ graph[e].status = fate'[e]
    BY <1>1 DEF StatusIsOwnReport
  <2>2. e \in DOMAIN fate /\ graph[e].status = fate[e]
    BY <2>1 DEF IInv, StatusIsOwnReport
  <2>3. graph[e].status \in Outcome
    BY <2>1, GraphFacts DEF IInv, Node, Status
  <2> QED
    BY <2>2, <2>3 DEF FateKeeps
<1> QED
  BY <1>1, <1>2, <1>3, <1>4 DEF IInv

(* A process that goes on never goes back to the PRE of a run.             *)
LEMMA PastPreStays ==
  ASSUME IInv, NEW r \in Runner, NEW p \in Proc,
         p.run >= proc[r].run,
         p.run = proc[r].run /\ p.pc = "pre" => proc[r].pc = "pre",
         proc' = [proc EXCEPT ![r] = p]
  PROVE  \A e \in DOMAIN fate :
           e \in DOMAIN graph /\ PastPre(graph[e].by, proc'[RunnerOf(graph[e].by)])
<1>1. SUFFICES ASSUME NEW e \in DOMAIN fate
               PROVE  /\ e \in DOMAIN graph
                      /\ PastPre(graph[e].by, proc'[RunnerOf(graph[e].by)])
  OBVIOUS
<1> DEFINE by == graph[e].by
<1>2. e \in DOMAIN graph /\ PastPre(by, proc[RunnerOf(by)])
  BY DEF IInv, FateOK
<1>3. by \in CallId
  BY <1>2, GraphFacts DEF IInv, Node
<1>4. RunnerOf(by) \in Runner /\ RunOf(by) \in Nat
  BY <1>3 DEF CallId, RunnerOf, RunOf
<1>5. proc \in [Runner -> Proc]
  BY DEF IInv, ClientTypeOK
<1>6. p.run \in Nat /\ proc[r].run \in Nat
  BY <1>5 DEF Proc
<1>7. CASE RunnerOf(by) # r
  BY <1>2, <1>4, <1>5, <1>7
<1>8. CASE RunnerOf(by) = r
  <2>1. proc'[RunnerOf(by)] = p
    BY <1>5, <1>8
  <2>2. PastPre(by, p)
    BY <1>2, <1>4, <1>6, <1>8 DEF PastPre
  <2> QED
    BY <1>2, <2>1, <2>2
<1> QED
  BY <1>7, <1>8

(* One process changes and the history does not.                           *)
LEMMA OneProcess ==
  ASSUME IInv, NEW r \in Runner, NEW p \in Proc,
         p.run >= proc[r].run,
         p.run = proc[r].run /\ p.pc = "pre" => proc[r].pc = "pre",
         ProcOK(graph, fate, r, p),
         proc' = [proc EXCEPT ![r] = p],
         files' \in [Project -> LocalState], fate' = fate,
         CallsOK(graph, fate, calls'),
         UNCHANGED <<graphVars, serverVars>>
  PROVE  IInv'
<1>1. ClientTypeOK'
  BY DEF IInv, ClientTypeOK
<1>2. \A q \in Runner : ProcOK(graph, fate, q, proc'[q])
  BY DEF IInv, ClientTypeOK
<1>3. \A e \in DOMAIN fate :
        e \in DOMAIN graph /\ PastPre(graph[e].by, proc'[RunnerOf(graph[e].by)])
  BY PastPreStays
<1>4. FateKeeps(fate, fate')
  BY DEF FateKeeps
<1> QED
  BY <1>1, <1>2, <1>3, <1>4, ClientFrame

LEMMA RestingFacts ==
  ASSUME NEW run \in Nat
  PROVE  /\ Resting(run) \in Proc
         /\ Resting(run).pc = "idle" /\ Resting(run).run = run
         /\ Resting(run).ctx = 0
  BY DEF Resting, Proc, Pc, NoIdentity, Identity, VirginState, LocalState, Status

(* The process ends, or goes on untracked.                                 *)
LEMMA ProcessEnds ==
  ASSUME IInv, NEW r \in Runner, Ended(r) \/ Untracked(r),
         files' \in [Project -> LocalState], fate' = fate,
         CallsOK(graph, fate, calls'),
         UNCHANGED <<graphVars, serverVars>>
  PROVE  IInv'
<1> DEFINE rest == Resting(proc[r].run)
           bare == [rest EXCEPT !.pc = "bare"]
<1>1. proc[r].run \in Nat
  BY ProcFacts
<1>2. rest \in Proc /\ rest.pc = "idle" /\ rest.run = proc[r].run /\ rest.ctx = 0
  BY <1>1, RestingFacts
<1>3. (proc' = [proc EXCEPT ![r] = rest]) \/ (proc' = [proc EXCEPT ![r] = bare])
  BY DEF Ended, Untracked
<1> HIDE DEF rest
<1>4. bare \in Proc /\ bare.pc = "bare" /\ bare.run = proc[r].run /\ bare.ctx = 0
  BY <1>2 DEF Proc, Pc
<1> HIDE DEF bare
<1>5. ProcOK(graph, fate, r, rest) /\ ProcOK(graph, fate, r, bare)
  BY <1>2, <1>4 DEF ProcOK
<1>6. rest.run >= proc[r].run /\ bare.run >= proc[r].run
  BY <1>1, <1>2, <1>4
<1> QED
  BY <1>2, <1>3, <1>4, <1>5, <1>6, OneProcess

LEMMA LaunchStep ==
  ASSUME IInv, NEW r \in Runner, NEW snap \in Snapshot, Launch(r, snap),
         UNCHANGED <<graphVars, serverVars>>
  PROVE  IInv'
<1> DEFINE ident == IF Dir(r) \in Orchestrated THEN NoIdentity ELSE files[Dir(r)].ident
           run   == proc[r].run + 1
           rest  == Resting(run)
           p     == [rest EXCEPT !.pc = "pre", !.ident = ident, !.snap = snap]
           c     == <<r, run, "pre", 0>>
<1>1. /\ proc' = [proc EXCEPT ![r] = p]
      /\ calls' = With(calls, c, PreCall(ident, snap))
      /\ files' = files /\ fate' = fate
  BY DEF Launch
<1>2. proc[r].run \in Nat /\ files[Dir(r)].ident \in Identity
  BY ProcFacts
<1>3. ident \in Identity
  BY <1>2 DEF NoIdentity, Identity
<1>4. c \in CallId /\ KindOf(c) = "pre"
  BY <1>2 DEF CallId, KindOf
<1> HIDE DEF ident, c
<1>5. CallsOK(graph, fate, calls')
  BY <1>1, <1>3, <1>4, PreCallOK, OneCallComes DEF IInv
<1>6. rest \in Proc /\ rest.pc = "idle" /\ rest.run = run /\ rest.ctx = 0
  BY <1>2, RestingFacts
<1> HIDE DEF rest
<1>7. p \in Proc /\ p.pc = "pre" /\ p.snap = snap /\ p.ctx = 0 /\ p.run = run
  BY <1>3, <1>6 DEF Proc, Pc
<1> HIDE DEF p
<1>8. ProcOK(graph, fate, r, p)
  BY <1>7 DEF ProcOK
<1>9. p.run >= proc[r].run /\ p.run # proc[r].run
  BY <1>2, <1>7
<1>10. files' \in [Project -> LocalState]
  BY <1>1 DEF IInv, ClientTypeOK
<1> QED
  BY <1>1, <1>5, <1>7, <1>8, <1>9, <1>10, OneProcess

LEMMA LaunchUnsentStep ==
  ASSUME IInv, NEW r \in Runner, LaunchUnsent(r), UNCHANGED <<graphVars, serverVars>>
  PROVE  IInv'
<1>1. Untracked(r) /\ calls' = calls /\ files' = files /\ fate' = fate
  BY DEF LaunchUnsent
<1>2. CallsOK(graph, fate, calls') /\ files' \in [Project -> LocalState]
  BY <1>1 DEF IInv, ClientTypeOK
<1> QED
  BY <1>1, <1>2, ProcessEnds

LEMMA FinishUntrackedStep ==
  ASSUME IInv, NEW r \in Runner, FinishUntracked(r), UNCHANGED <<graphVars, serverVars>>
  PROVE  IInv'
<1>1. Ended(r) /\ calls' = calls /\ files' = files /\ fate' = fate
  BY DEF FinishUntracked
<1>2. CallsOK(graph, fate, calls') /\ files' \in [Project -> LocalState]
  BY <1>1 DEF IInv, ClientTypeOK
<1> QED
  BY <1>1, <1>2, ProcessEnds

LEMMA RefusedStep ==
  ASSUME IInv, NEW r \in Runner, Refused(r), UNCHANGED <<graphVars, serverVars>>
  PROVE  IInv'
<1>1. /\ Ended(r) \/ Untracked(r)
      /\ calls' = Without(calls, CurrentCall(r)) /\ files' = files /\ fate' = fate
  BY DEF Refused, PreFailed
<1>2. CallsOK(graph, fate, calls') /\ files' \in [Project -> LocalState]
  BY <1>1, OneCallGoes DEF IInv, ClientTypeOK
<1> QED
  BY <1>1, <1>2, ProcessEnds

LEMMA UnacknowledgedStep ==
  ASSUME IInv, NEW r \in Runner, Unacknowledged(r), UNCHANGED <<graphVars, serverVars>>
  PROVE  IInv'
<1>1. /\ Ended(r)
      /\ calls' = Without(calls, CurrentCall(r)) /\ files' = files /\ fate' = fate
  BY DEF Unacknowledged
<1>2. CallsOK(graph, fate, calls') /\ files' \in [Project -> LocalState]
  BY <1>1, OneCallGoes DEF IInv, ClientTypeOK
<1> QED
  BY <1>1, <1>2, ProcessEnds

LEMMA KilledStep ==
  ASSUME IInv, NEW r \in Runner, Killed(r), UNCHANGED <<graphVars, serverVars>>
  PROVE  IInv'
<1>1. /\ Ended(r)
      /\ calls' \in HungUp(CurrentCall(r)) /\ files' = files /\ fate' = fate
  BY DEF Killed
<1>2. CallsOK(graph, fate, calls') /\ files' \in [Project -> LocalState]
  BY <1>1, LeftOK DEF IInv, ClientTypeOK
<1> QED
  BY <1>1, <1>2, ProcessEnds

LEMMA GiveUpStep ==
  ASSUME IInv, NEW r \in Runner, GiveUp(r), UNCHANGED <<graphVars, serverVars>>
  PROVE  IInv'
<1> DEFINE c == CurrentCall(r)
<1>1. /\ Ended(r) \/ Untracked(r)
      /\ calls' \in OtherErrors(c) \cup ConnectionErrors(c)
      /\ files' = files /\ fate' = fate
  BY DEF GiveUp, PreFailed
<1> HIDE DEF c
<1>2. CallsOK(graph, fate, calls') /\ files' \in [Project -> LocalState]
  BY <1>1, LeftOK DEF IInv, ClientTypeOK
<1> QED
  BY <1>1, <1>2, ProcessEnds

LEMMA SaveStatusStep ==
  ASSUME IInv, NEW r \in Runner, SaveStatus(r), UNCHANGED <<graphVars, serverVars>>
  PROVE  IInv'
<1> DEFINE state == [proc[r].held EXCEPT !.status = fate[proc[r].ctx]]
<1>1. /\ Ended(r) /\ calls' = calls /\ fate' = fate
      /\ proc[r].pc = "save" /\ files' = [files EXCEPT ![Dir(r)] = state]
  BY DEF SaveStatus
<1>2. proc[r].held \in LocalState /\ fate[proc[r].ctx] \in Outcome
  BY <1>1, ProcFacts DEF Proc, ProcOK
<1>3. state \in LocalState
  BY <1>2 DEF LocalState, Status
<1> HIDE DEF state
<1>4. files' \in [Project -> LocalState]
  BY <1>1, <1>3 DEF IInv, ClientTypeOK
<1>5. CallsOK(graph, fate, calls')
  BY <1>1 DEF IInv
<1> QED
  BY <1>1, <1>4, <1>5, ProcessEnds

LEMMA AcknowledgedStep ==
  ASSUME IInv, NEW r \in Runner, Acknowledged(r), UNCHANGED <<graphVars, serverVars>>
  PROVE  IInv'
<1> DEFINE old == proc[r]
           p   == [old EXCEPT !.pc = "save", !.held = files[Dir(r)]]
<1>1. /\ old.pc = "post" /\ proc' = [proc EXCEPT ![r] = p]
      /\ calls' = Without(calls, CurrentCall(r)) /\ files' = files /\ fate' = fate
  <2>1. proc \in [Runner -> Proc]
    BY DEF IInv, ClientTypeOK
  <2>2. proc' = [proc EXCEPT ![r].pc = "save", ![r].held = files[Dir(r)]]
    BY DEF Acknowledged
  <2>3. proc' = [proc EXCEPT ![r] = p]
    BY <2>1, <2>2
  <2> QED
    BY <2>3 DEF Acknowledged
<1>2. CallsOK(graph, fate, calls') /\ files' \in [Project -> LocalState]
  BY <1>1, OneCallGoes DEF IInv, ClientTypeOK
<1>3. /\ old \in Proc /\ ProcOK(graph, fate, r, old) /\ old.run \in Nat
      /\ files[Dir(r)] \in LocalState
  BY ProcFacts
<1>4. p \in Proc /\ p.pc = "save" /\ p.run = old.run /\ p.ctx = old.ctx
  BY <1>3 DEF Proc, Pc
<1> HIDE DEF p
<1>5. ProcOK(graph, fate, r, p)
  BY <1>1, <1>3, <1>4 DEF ProcOK
<1>6. p.run >= proc[r].run
  BY <1>3, <1>4
<1> QED
  BY <1>1, <1>2, <1>4, <1>5, <1>6, OneProcess

(* Every attempt carries what the first one did.                           *)
LEMMA RequestOK ==
  ASSUME IInv, NEW r \in Runner, Awaiting(r), NEW c, KindOf(c) = proc[r].pc
  PROVE  CallOK(graph, fate, c, Request(r))
<1>1. proc[r] \in Proc /\ ProcOK(graph, fate, r, proc[r])
  BY ProcFacts
<1>2. CASE proc[r].pc = "pre"
  <2>1. Request(r) = PreCall(proc[r].ident, proc[r].snap)
    BY <1>2 DEF Request
  <2>2. proc[r].ident \in Identity /\ proc[r].snap \in Snapshot
    BY <1>1, <1>2 DEF Proc, ProcOK
  <2> QED
    BY <1>2, <2>1, <2>2, PreCallOK
<1>3. CASE proc[r].pc = "post"
  <2> DEFINE status == fate[proc[r].ctx]
  <2>1. Request(r) = PostCall(proc[r].ctx, status)
    BY <1>3 DEF Request
  <2>2. proc[r].ctx \in Nat /\ proc[r].ctx \in DOMAIN fate /\ status \in Outcome
    BY <1>1, <1>3 DEF Proc, ProcOK
  <2> HIDE DEF status
  <2>3. CallOK(graph, fate, c, PostCall(proc[r].ctx, status))
    BY <1>3, <2>2, PostCallOK DEF status
  <2> QED
    BY <2>1, <2>3
<1> QED
  BY <1>2, <1>3 DEF Awaiting

LEMMA RetryStep ==
  ASSUME IInv, NEW r \in Runner, Retry(r), UNCHANGED <<graphVars, serverVars>>
  PROVE  IInv'
<1> DEFINE old == proc[r]
           p   == [old EXCEPT !.attempt = @ + 1]
           c   == <<r, old.run, old.pc, old.attempt + 1>>
           left == ConnectionErrors(CurrentCall(r))
<1>1. /\ Awaiting(r) /\ proc' = [proc EXCEPT ![r] = p]
      /\ \E cs \in left : calls' = With(cs, c, Request(r))
      /\ files' = files /\ fate' = fate
  <2>1. proc \in [Runner -> Proc]
    BY DEF IInv, ClientTypeOK
  <2>2. proc' = [proc EXCEPT ![r].attempt = @ + 1]
    BY DEF Retry
  <2>3. proc' = [proc EXCEPT ![r] = p]
    BY <2>1, <2>2
  <2> QED
    BY <2>3 DEF Retry
<1>2. /\ old \in Proc /\ ProcOK(graph, fate, r, old)
  BY ProcFacts
<1>3. old.run \in Nat /\ old.attempt \in Nat /\ old.pc \in {"pre", "post"}
  BY <1>1, <1>2 DEF Proc, Awaiting
<1>4. c \in CallId /\ KindOf(c) = old.pc
  BY <1>3 DEF CallId, KindOf
<1>5. CallOK(graph, fate, c, Request(r))
  BY <1>1, <1>4, RequestOK
<1> HIDE DEF c
<1>6. \A cs \in left : CallsOK(graph, fate, cs)
  BY LeftOK DEF IInv
<1> HIDE DEF left
<1>7. CallsOK(graph, fate, calls')
  BY <1>1, <1>4, <1>5, <1>6, OneCallComes
<1>8. /\ p \in Proc /\ p.pc = old.pc /\ p.run = old.run /\ p.ctx = old.ctx
      /\ p.snap = old.snap
  BY <1>2, <1>3 DEF Proc
<1> HIDE DEF p
<1>9. ProcOK(graph, fate, r, p)
  BY <1>2, <1>8 DEF ProcOK
<1>10. p.run >= proc[r].run
  BY <1>3, <1>8
<1>11. files' \in [Project -> LocalState]
  BY <1>1 DEF IInv, ClientTypeOK
<1> QED
  BY <1>1, <1>7, <1>8, <1>9, <1>10, <1>11, OneProcess

(* The node a run adopts was created by the very attempt it waits for, and *)
(* no run has adopted it before.                                           *)
LEMMA AdoptFacts ==
  ASSUME IInv, NEW r \in Runner, Adopt(r)
  PROVE  LET id == AnswerOf(r).id IN
         /\ id \in DOMAIN graph
         /\ RunnerOf(graph[id].by) = r
         /\ RunOf(graph[id].by) = proc[r].run
         /\ id \notin DOMAIN fate
         /\ AnswerOf(r) \in Answer
<1> DEFINE c == CurrentCall(r)
           id == AnswerOf(r).id
<1>1. /\ c \in DOMAIN calls /\ calls[c].phase = "answered" /\ calls[c].answer.code = 200
      /\ AnswerOf(r) = calls[c].answer /\ proc[r].pc = "pre"
  BY DEF Adopt, Answered, AnswerOf
<1>2. CallOK(graph, fate, c, calls[c]) /\ calls[c] \in Call
  BY <1>1, CallFacts
<1>3. KindOf(c) = "pre" /\ RunnerOf(c) = r /\ RunOf(c) = proc[r].run
  BY <1>1 DEF CurrentCall, KindOf, RunnerOf, RunOf
<1> HIDE DEF c
<1>4. id \in DOMAIN graph /\ graph[id].by = c
  BY <1>1, <1>2, <1>3 DEF CallOK, AnswerOK
<1>5. id \notin DOMAIN fate
  BY <1>1, <1>3, <1>4 DEF IInv, FateOK, PastPre
<1>6. AnswerOf(r) \in Answer
  BY <1>1, <1>2 DEF Call
<1> QED
  BY <1>3, <1>4, <1>5, <1>6

LEMMA AdoptStep ==
  ASSUME IInv, NEW r \in Runner, Adopt(r), UNCHANGED <<graphVars, serverVars>>
  PROVE  IInv'
<1> DEFINE answer == AnswerOf(r)
           id   == answer.id
           rest == Resting(proc[r].run)
           p    == [rest EXCEPT !.pc = "train", !.ctx = id]
           state == [ident |-> SavedIdentity(r), status |-> "RUNNING"]
<1>1. /\ files' = [files EXCEPT ![Dir(r)] = state]
      /\ fate' = [e \in DOMAIN fate \cup {id} |-> IF e = id THEN "RUNNING" ELSE fate[e]]
      /\ proc' = [proc EXCEPT ![r] = p]
      /\ calls' = Without(calls, CurrentCall(r))
  BY DEF Adopt
<1>2. /\ id \in DOMAIN graph /\ RunnerOf(graph[id].by) = r
      /\ RunOf(graph[id].by) = proc[r].run /\ id \notin DOMAIN fate
      /\ answer \in Answer
  BY AdoptFacts
<1>3. id \in Nat /\ answer.baseId \in Nat /\ answer.base \in BOOLEAN
  BY <1>2 DEF Answer
<1>4. proc[r] \in Proc /\ proc[r].run \in Nat /\ proc[r].ident \in Identity
  BY ProcFacts DEF Proc
<1>5. state \in LocalState
  <2>1. SavedIdentity(r) \in Identity
    BY <1>3, <1>4 DEF SavedIdentity, Identity
  <2> QED
    BY <2>1 DEF LocalState, Status
<1>6. rest \in Proc /\ rest.run = proc[r].run
  BY <1>4, RestingFacts
<1> HIDE DEF rest, state, answer
<1>7. p \in Proc /\ p.pc = "train" /\ p.run = proc[r].run /\ p.ctx = id
  BY <1>3, <1>6 DEF Proc, Pc
<1> HIDE DEF p
<1>8. FateKeeps(fate, fate')
  BY <1>1, <1>2 DEF FateKeeps
<1>9. ClientTypeOK'
  BY <1>1, <1>3, <1>5, <1>7 DEF IInv, ClientTypeOK, Status
<1>10. CallsOK(graph, fate', calls')
  <2>1. GraphKeeps(graph, graph)
    BY DEF GraphKeeps
  <2>2. CallsOK(graph, fate', calls)
    BY <1>8, <2>1, CallsStay DEF IInv
  <2> QED
    BY <1>1, <2>2, OneCallGoes
<1>11. ASSUME NEW q \in Runner
       PROVE  ProcOK(graph, fate', q, proc'[q])
  <2>1. CASE q = r
    <3>1. proc'[q] = p
      BY <1>1, <2>1 DEF IInv, ClientTypeOK
    <3>2. id \in DOMAIN fate' /\ fate'[id] = "RUNNING"
      BY <1>1
    <3>3. ProcOK(graph, fate', r, p)
      BY <1>2, <1>7, <3>2 DEF ProcOK
    <3> QED
      BY <2>1, <3>1, <3>3
  <2>2. CASE q # r
    <3>1. proc'[q] = proc[q]
      BY <1>1, <2>2 DEF IInv, ClientTypeOK
    <3>2. \A e \in DOMAIN fate : e \in DOMAIN fate' /\ fate'[e] = fate[e]
      BY <1>1, <1>2
    <3>3. ProcOK(graph, fate', q, proc[q])
      BY <3>2, ProcFacts DEF ProcOK
    <3> QED
      BY <3>1, <3>3
  <2> QED
    BY <2>1, <2>2
<1>12. ASSUME NEW e \in DOMAIN fate'
       PROVE  e \in DOMAIN graph /\ PastPre(graph[e].by, proc'[RunnerOf(graph[e].by)])
  <2>1. CASE e = id
    <3>1. proc'[r] = p
      BY <1>1 DEF IInv, ClientTypeOK
    <3>2. PastPre(graph[e].by, p)
      BY <1>2, <1>4, <1>7, <2>1 DEF PastPre
    <3> QED
      BY <1>2, <2>1, <3>1, <3>2
  <2>2. CASE e # id
    <3>1. e \in DOMAIN fate
      BY <1>1, <2>2
    <3>2. p.run >= proc[r].run
      BY <1>4, <1>7
    <3> QED
      BY <1>1, <1>7, <3>1, <3>2, PastPreStays
  <2> QED
    BY <2>1, <2>2
<1> QED
  BY <1>8, <1>9, <1>10, <1>11, <1>12, ClientFrame

(* The run's report enters the history, and the POST that carries it.      *)
LEMMA FinishTrainingStep ==
  ASSUME IInv, NEW r \in Runner, NEW outcome \in Outcome, FinishTraining(r, outcome),
         UNCHANGED <<graphVars, serverVars>>
  PROVE  IInv'
<1> DEFINE old == proc[r]
           ctx == old.ctx
           p   == [old EXCEPT !.pc = "post"]
           c   == <<r, old.run, "post", 0>>
<1>1. /\ old.pc = "train"
      /\ fate' = [fate EXCEPT ![ctx] = outcome]
      /\ proc' = [proc EXCEPT ![r] = p]
      /\ calls' = With(calls, c, PostCall(ctx, outcome))
      /\ files' = files
  <2>1. proc \in [Runner -> Proc]
    BY DEF IInv, ClientTypeOK
  <2>2. proc' = [proc EXCEPT ![r].pc = "post"]
    BY DEF FinishTraining
  <2>3. proc' = [proc EXCEPT ![r] = p]
    BY <2>1, <2>2
  <2> QED
    BY <2>3 DEF FinishTraining
<1>2. old \in Proc /\ ProcOK(graph, fate, r, old) /\ old.run \in Nat
  BY ProcFacts
<1>3. /\ ctx \in Nat /\ ctx \in DOMAIN fate /\ ctx \in DOMAIN graph
      /\ fate[ctx] = "RUNNING" /\ RunnerOf(graph[ctx].by) = r
      /\ RunOf(graph[ctx].by) = old.run
  BY <1>1, <1>2 DEF Proc, ProcOK
<1>4. p \in Proc /\ p.pc = "post" /\ p.run = old.run /\ p.ctx = ctx
  BY <1>2 DEF Proc, Pc
<1> HIDE DEF p
<1>5. FateKeeps(fate, fate')
  BY <1>1, <1>3 DEF FateKeeps, Outcome
<1>6. ClientTypeOK'
  BY <1>1, <1>4 DEF IInv, ClientTypeOK, Status
<1>7. CallsOK(graph, fate', calls')
  <2>1. GraphKeeps(graph, graph)
    BY DEF GraphKeeps
  <2>2. CallsOK(graph, fate', calls)
    BY <1>5, <2>1, CallsStay DEF IInv
  <2>3. c \in CallId /\ KindOf(c) = "post"
    BY <1>2 DEF CallId, KindOf
  <2> HIDE DEF c
  <2>4. ctx \in DOMAIN fate' /\ fate'[ctx] = outcome
    BY <1>1, <1>3
  <2>5. CallOK(graph, fate', c, PostCall(ctx, outcome))
    BY <1>3, <2>3, <2>4, PostCallOK
  <2> QED
    BY <1>1, <2>2, <2>3, <2>5, OneCallComes
<1>8. ASSUME NEW q \in Runner
      PROVE  ProcOK(graph, fate', q, proc'[q])
  <2>1. CASE q = r
    <3>1. proc'[q] = p
      BY <1>1, <2>1 DEF IInv, ClientTypeOK
    <3>2. ctx \in DOMAIN fate' /\ fate'[ctx] = outcome
      BY <1>1, <1>3
    <3>3. ProcOK(graph, fate', r, p)
      BY <1>3, <1>4, <3>2 DEF ProcOK
    <3> QED
      BY <2>1, <3>1, <3>3
  <2>2. CASE q # r
    <3>1. proc'[q] = proc[q]
      BY <1>1, <2>2 DEF IInv, ClientTypeOK
    <3>2. /\ DOMAIN fate' = DOMAIN fate
          /\ \A e \in DOMAIN fate : e # ctx => fate'[e] = fate[e]
      BY <1>1
    <3>3. ProcOK(graph, fate, q, proc[q])
      BY ProcFacts
    <3>4. proc[q].pc \in {"train", "post", "save"} => proc[q].ctx # ctx
      BY <1>3, <2>2, <3>3 DEF ProcOK
    <3>5. ProcOK(graph, fate', q, proc[q])
      BY <3>2, <3>3, <3>4 DEF ProcOK
    <3> QED
      BY <3>1, <3>5
  <2> QED
    BY <2>1, <2>2
<1>9. ASSUME NEW e \in DOMAIN fate'
      PROVE  e \in DOMAIN graph /\ PastPre(graph[e].by, proc'[RunnerOf(graph[e].by)])
  <2>1. e \in DOMAIN fate
    BY <1>1
  <2>2. p.run >= proc[r].run
    BY <1>2, <1>4
  <2> QED
    BY <1>1, <1>4, <2>1, <2>2, PastPreStays
<1> QED
  BY <1>5, <1>6, <1>7, <1>8, <1>9, ClientFrame

-----------------------------------------------------------------------------
(* Every behaviour                                                         *)

LEMMA InitIInv == Init => IInv
<1> SUFFICES ASSUME Init PROVE IInv
  OBVIOUS
<1>1. /\ graph = <<>> /\ models = CatalogModel /\ calls = <<>> /\ nest = <<>>
      /\ proc = [r \in Runner |-> Resting(0)]
      /\ files = [p \in Project |-> VirginState] /\ fate = <<>>
  BY DEF Init, GraphInit, WireInit, ServerInit, ClientInit
<1>2. GraphTypeOK /\ ServerTypeOK
  BY <1>1, DeploymentAssumption DEF GraphTypeOK, ServerTypeOK
<1>3. /\ Resting(0) \in Proc /\ Resting(0).pc = "idle" /\ Resting(0).ctx = 0
  BY RestingFacts
<1>4. VirginState \in LocalState
  BY DEF VirginState, LocalState, NoIdentity, Identity, Status
<1>5. ClientTypeOK
  BY <1>1, <1>3, <1>4 DEF ClientTypeOK
<1>6. \A r \in Runner : ProcOK(graph, fate, r, proc[r])
  BY <1>1, <1>3 DEF ProcOK
<1>7. CallsOK(graph, fate, calls) /\ FateOK /\ RetriesOK /\ StatusIsOwnReport
  BY <1>1 DEF CallsOK, FateOK, RetriesOK, StatusIsOwnReport
<1> QED
  BY <1>2, <1>5, <1>6, <1>7 DEF IInv

LEMMA HandleStep ==
  ASSUME IInv, NEW c \in DOMAIN calls, Handle(c), UNCHANGED clientVars
  PROVE  IInv'
<1>1.  CASE Accept(c)            BY <1>1, AcceptStep
<1>2.  CASE ReadPrevious(c)      BY <1>2, ReadPreviousStep
<1>3.  CASE RefuseModelSwitch(c) BY <1>3, RefuseModelSwitchStep
<1>4.  CASE SwitchModel(c)       BY <1>4, SwitchModelStep
<1>5.  CASE KeepModel(c)         BY <1>5, KeepModelStep
<1>6.  CASE CompareCodebase(c)   BY <1>6, CompareCodebaseStep
<1>7.  CASE LookForModel(c)      BY <1>7, LookForModelStep
<1>8.  CASE PromoteToModel(c)    BY <1>8, PromoteToModelStep
<1>9.  CASE CreateExperiment(c)  BY <1>9, CreateExperimentStep
<1>10. CASE FailToCreate(c)      BY <1>10, FailToCreateStep
<1>11. CASE SetStatus(c)         BY <1>11, SetStatusStep
<1>12. CASE ConfirmStatus(c)     BY <1>12, ConfirmStatusStep
<1>13. CASE Reply(c)             BY <1>13, ReplyStep
<1> QED
  BY <1>1, <1>2, <1>3, <1>4, <1>5, <1>6, <1>7, <1>8, <1>9, <1>10, <1>11, <1>12, <1>13
  DEF Handle

LEMMA ServerStepIInv ==
  ASSUME IInv, ServerStep
  PROVE  IInv'
<1>1. ASSUME NEW c \in DOMAIN calls, Handle(c)
      PROVE  IInv'
  BY <1>1, HandleStep DEF ServerStep
<1>2. ASSUME NEW c \in DOMAIN calls, DbFails(c)
      PROVE  IInv'
  BY <1>2, DbFailsStep DEF ServerStep
<1>3. ASSUME NEW c \in DOMAIN calls, CreationUnconfirmed(c)
      PROVE  IInv'
  BY <1>3, CreationUnconfirmedStep DEF ServerStep
<1>4. CASE Crash
  BY <1>4, CrashStep DEF ServerStep
<1> QED
  BY <1>1, <1>2, <1>3, <1>4 DEF ServerStep, ServerNext

LEMMA ClientStepIInv ==
  ASSUME IInv, ClientStep
  PROVE  IInv'
<1>1. UNCHANGED <<graphVars, serverVars>>
  BY DEF ClientStep
<1>2. ASSUME NEW r \in Runner, NEW snap \in Snapshot, Launch(r, snap)
      PROVE  IInv'
  BY <1>1, <1>2, LaunchStep
<1>3. ASSUME NEW r \in Runner, NEW outcome \in Outcome, FinishTraining(r, outcome)
      PROVE  IInv'
  BY <1>1, <1>3, FinishTrainingStep
<1>4. ASSUME NEW r \in Runner, Resolve(r)
      PROVE  IInv'
  <2>1. CASE Adopt(r)          BY <1>1, <2>1, AdoptStep
  <2>2. CASE Refused(r)        BY <1>1, <2>2, RefusedStep
  <2>3. CASE Acknowledged(r)   BY <1>1, <2>3, AcknowledgedStep
  <2>4. CASE Unacknowledged(r) BY <1>1, <2>4, UnacknowledgedStep
  <2>5. CASE Retry(r)          BY <1>1, <2>5, RetryStep
  <2>6. CASE GiveUp(r)         BY <1>1, <2>6, GiveUpStep
  <2> QED
    BY <1>4, <2>1, <2>2, <2>3, <2>4, <2>5, <2>6 DEF Resolve
<1>5. ASSUME NEW r \in Runner,
             LaunchUnsent(r) \/ FinishUntracked(r) \/ SaveStatus(r) \/ Killed(r)
      PROVE  IInv'
  BY <1>1, <1>5, LaunchUnsentStep, FinishUntrackedStep, SaveStatusStep, KilledStep
<1> QED
  BY <1>2, <1>3, <1>4, <1>5 DEF ClientStep, ClientNext

LEMMA NextIInv == IInv /\ [Next]_vars => IInv'
<1>1. CASE IInv /\ Next
  BY <1>1, ServerStepIInv, ClientStepIInv DEF Next
<1>2. CASE IInv /\ UNCHANGED vars
  <2>1. UNCHANGED <<graphVars, clientVars>> /\ calls' = calls /\ nest' = nest
    BY <1>2 DEF vars, serverVars
  <2>2. nest' \in Seq(CallId) /\ CallsOK(graph, fate, calls')
    BY <1>2, <2>1 DEF IInv, ServerTypeOK
  <2> QED
    BY <1>2, <2>1, <2>2, CallStep
<1> QED
  BY <1>1, <1>2

(* The inductive invariant holds in every state: of the handlers at work,  *)
(* the calls on the wire, the processes and the graph together.            *)
THEOREM Invariance == Spec => []IInv
<1>1. Init => IInv
  BY InitIInv
<1>2. IInv /\ [Next]_vars => IInv'
  BY NextIInv
<1> QED
  BY <1>1, <1>2, PTL DEF Spec

(* Every variable of server, wire, client and graph keeps its type.        *)
THEOREM TypeCorrect == Spec => []TypeOK
<1>1. IInv => TypeOK
  BY DEF IInv, TypeOK, WireTypeOK, CallsOK, CallOK
<1> QED
  BY <1>1, Invariance, PTL

(* No POST of a run changes the status of another run's experiment, and a  *)
(* node nobody adopted stays RUNNING, whatever is retried, late or lost.   *)
THEOREM StatusOwned == Spec => []StatusIsOwnReport
<1>1. IInv => StatusIsOwnReport
  BY DEF IInv
<1> QED
  BY <1>1, Invariance, PTL

(* A training function runs under a node that its own PRE created.         *)
THEOREM ContextOwned == Spec => []ContextIsOwn
<1>1. IInv => ContextIsOwn
  <2>1. SUFFICES ASSUME IInv, NEW r \in Runner, proc[r].ctx # 0
                 PROVE  /\ Exists(proc[r].ctx)
                        /\ RunnerOf(graph[proc[r].ctx].by) = r
                        /\ RunOf(graph[proc[r].ctx].by) = proc[r].run
    BY DEF ContextIsOwn
  <2>2. proc[r] \in Proc /\ ProcOK(graph, fate, r, proc[r])
    BY <2>1, ProcFacts
  <2>3. proc[r].pc \in {"train", "post", "save"}
    BY <2>1, <2>2 DEF ProcOK, Proc, Pc
  <2> QED
    BY <2>2, <2>3 DEF ProcOK, Exists
<1> QED
  BY <1>1, Invariance, PTL

(* RETRY is never said of an experiment whose codebase changed, although   *)
(* the comparison is made queries before the node is written.              *)
THEOREM RetriesUnchanged == Spec => []RetryIsUnchanged
<1>1. IInv => RetryIsUnchanged
  BY DEF IInv, RetriesOK, RetryIsUnchanged
<1> QED
  BY <1>1, Invariance, PTL

-----------------------------------------------------------------------------
(* Steps on the graph                                                      *)

(* The steps that change the graph: a creation, confirmed or not, and the  *)
(* update of a POST.                                                       *)
Creation(c) ==
  /\ Executing(c, "create")
  /\ CanCreate(calls[c])
  /\ CreateNode(c)
  /\ UNCHANGED clientVars

Update(c) ==
  /\ Executing(c, "update")
  /\ UpdateExperimentStatus(calls[c].id, calls[c].status)
  /\ UNCHANGED clientVars

LEMMA GraphStep ==
  ASSUME Next
  PROVE  \/ graph' = graph
         \/ \E c \in DOMAIN calls : Creation(c) \/ Update(c)
<1>1. CASE ClientStep
  BY <1>1 DEF ClientStep, graphVars
<1>2. CASE ServerStep
  <2>1. UNCHANGED clientVars
    BY <1>2 DEF ServerStep
  <2>2. ASSUME NEW c \in DOMAIN calls, Handle(c)
        PROVE  graph' = graph \/ Creation(c) \/ Update(c)
    <3>1. CASE CreateExperiment(c)
      BY <2>1, <3>1 DEF CreateExperiment, Creation
    <3>2. CASE SetStatus(c)
      BY <2>1, <3>2 DEF SetStatus, Update
    <3>3. CASE PromoteToModel(c)
      BY <3>3 DEF PromoteToModel
    <3>4. CASE Accept(c) \/ ReadPrevious(c) \/ RefuseModelSwitch(c) \/ SwitchModel(c)
      BY <3>4 DEF Accept, ReadPrevious, RefuseModelSwitch, SwitchModel, graphVars
    <3>5. CASE KeepModel(c) \/ CompareCodebase(c) \/ LookForModel(c)
      BY <3>5 DEF KeepModel, CompareCodebase, LookForModel, graphVars
    <3>6. CASE FailToCreate(c) \/ ConfirmStatus(c) \/ Reply(c)
      BY <3>6 DEF FailToCreate, ConfirmStatus, Reply, graphVars
    <3> QED
      BY <2>2, <3>1, <3>2, <3>3, <3>4, <3>5, <3>6 DEF Handle
  <2>3. ASSUME NEW c \in DOMAIN calls, DbFails(c) \/ CreationUnconfirmed(c)
        PROVE  graph' = graph \/ Creation(c)
    BY <2>1, <2>3 DEF DbFails, CreationUnconfirmed, Creation, graphVars
  <2>4. CASE Crash
    BY <2>4 DEF Crash, graphVars
  <2> QED
    BY <1>2, <2>2, <2>3, <2>4 DEF ServerStep, ServerNext
<1> QED
  BY <1>1, <1>2 DEF Next

(* What an update writes over a status other than RUNNING is that status.  *)
LEMMA SettledStep ==
  ASSUME IInv, Next
  PROVE  \A e \in DOMAIN graph :
           graph[e].status # "RUNNING" => graph'[e].status = graph[e].status
<1>1. GraphTypeOK
  BY DEF IInv
<1>2. CASE graph' = graph
  BY <1>2
<1>3. ASSUME NEW c \in DOMAIN calls, Creation(c)
      PROVE  \A e \in DOMAIN graph : graph'[e] = graph[e]
  <2>1. PICK node \in Node : graph' = Append(graph, node)
    BY <1>3, CreatedNode DEF Creation
  <2> QED
    BY <1>1, <2>1, AppendFacts
<1>4. ASSUME NEW c \in DOMAIN calls, Update(c),
             NEW e \in DOMAIN graph, graph[e].status # "RUNNING"
      PROVE  graph'[e].status = graph[e].status
  <2>1. "update" \in PostPhase
    BY DEF PostPhase
  <2>2. calls[c] \in Call /\ ReportOK(fate, calls[c])
    BY <1>4, <2>1, PostFacts DEF Update
  <2>3. calls[c].status \in Status /\ fate[calls[c].id] = calls[c].status
    BY <2>2 DEF Call, ReportOK
  <2>4. graph'[e].status = IF e = calls[c].id THEN calls[c].status ELSE graph[e].status
    BY <1>1, <1>4, <2>3, UpdateFacts DEF Update
  <2>5. graph[e].status = fate[e]
    BY <1>4 DEF IInv, StatusIsOwnReport
  <2> QED
    BY <2>3, <2>4, <2>5
<1> QED
  BY <1>2, <1>3, <1>4, GraphStep

(* A status once reported is never changed, nor taken back, by a POST that *)
(* is repeated, late, or of somebody else.                                 *)
THEOREM StatusSettled == Spec => StatusSettles
<1> DEFINE Settles ==
      \A e \in DOMAIN graph :
        graph[e].status # "RUNNING" => graph'[e].status = graph[e].status
<1>1. IInv /\ [Next]_vars => [Settles]_graph
  <2>1. ASSUME IInv, Next PROVE Settles
    BY <2>1, SettledStep
  <2>2. ASSUME UNCHANGED vars PROVE graph' = graph
    BY <2>2 DEF vars, graphVars
  <2> QED
    BY <2>1, <2>2
<1> QED
  BY <1>1, Invariance, PTL DEF Spec, StatusSettles
=============================================================================
