------------------------- MODULE LineageLedgerProofs -------------------------
(***************************************************************************)
(* LineageSystem implements RunLedger: under the mapping of LineageSystem  *)
(* every step of client and server is a step of the ledger, or none.  And  *)
(* what experiment.yml says of the end of a run is what the ledger says.   *)
(***************************************************************************)
EXTENDS LineageSystemProofs

(* The ledger of a graph.                                                  *)
RunsOf(g) ==
  [n \in DOMAIN g |-> [parent |-> g[n].parent, status |-> g[n].status]]

HoldsOf(ps) == [r \in Runner |-> ps[r].ctx]

Run == [parent : Nat, status : Status]

LEMMA RunsFacts ==
  ASSUME NEW g \in Seq(Node)
  PROVE  /\ RunsOf(g) \in Seq(Run)
         /\ Len(RunsOf(g)) = Len(g)
         /\ DOMAIN RunsOf(g) = DOMAIN g
         /\ \A n \in DOMAIN g : RunsOf(g)[n].status = g[n].status
<1>1. DOMAIN g = 1 .. Len(g) /\ Len(g) \in Nat
  OBVIOUS
<1>2. \A n \in DOMAIN g : g[n] \in Node
  OBVIOUS
<1>3. \A n \in DOMAIN g : [parent |-> g[n].parent, status |-> g[n].status] \in Run
  BY <1>2 DEF Node, Run
<1>4. RunsOf(g) \in [1 .. Len(g) -> Run]
  BY <1>1, <1>3 DEF RunsOf
<1>5. RunsOf(g) \in Seq(Run) /\ Len(RunsOf(g)) = Len(g)
  BY <1>1, <1>4
<1> QED
  BY <1>5 DEF RunsOf

(* A creation registers a run, below an earlier one or below none.         *)
LEMMA CreationRegisters ==
  ASSUME IInv, NEW c \in DOMAIN calls, Creation(c)
  PROVE  \E parent \in 0 .. Len(RunsOf(graph)) :
           RunsOf(graph') = Append(RunsOf(graph),
                                   [parent |-> parent, status |-> "RUNNING"])
<1> DEFINE call   == calls[c]
           parent == IF IsBase(call.strategy) THEN 0 ELSE call.ident.id
           run    == [parent |-> parent, status |-> "RUNNING"]
<1>1. graph \in Seq(Node)
  BY DEF IInv, GraphTypeOK
<1>2. PICK node \in Node : graph' = Append(graph, node)
  BY CreatedNode DEF Creation
<1>3. /\ graph' \in Seq(Node) /\ Len(graph') = Len(graph) + 1
      /\ \A i \in 1 .. Len(graph) : graph'[i] = graph[i]
      /\ graph'[Len(graph) + 1] = node
  BY <1>1, <1>2, AppendProperties
<1>4. node.parent = parent /\ node.status = "RUNNING"
  <2>1. \E n : /\ graph' = Append(graph, n)
               /\ n.parent = parent /\ n.status = "RUNNING"
    <3>1. CASE IsBase(call.strategy)
      BY <3>1 DEF Creation, CreateNode, CreateBaseExperiment, NewNode
    <3>2. CASE ~IsBase(call.strategy)
      BY <3>2 DEF Creation, CreateNode, CreateNonBaseExperiment, NewNode
    <3> QED
      BY <3>1, <3>2
  <2> HIDE DEF parent
  <2>2. PICK n : graph' = Append(graph, n) /\ n.parent = parent /\ n.status = "RUNNING"
    BY <2>1
  <2>3. graph'[Len(graph) + 1] = n
    BY <1>1, <2>2
  <2> QED
    BY <1>3, <2>2, <2>3
<1>5. parent \in 0 .. Len(graph)
  <2>1. CASE IsBase(call.strategy)
    BY <1>1, <2>1
  <2>2. CASE ~IsBase(call.strategy)
    BY <1>1, <2>2 DEF Creation, CanCreate, Exists
  <2> QED
    BY <2>1, <2>2
<1> HIDE DEF parent
<1>6. parent \in Nat
  BY <1>1, <1>5
<1>7. run \in Run
  BY <1>6 DEF Run, Status
<1>8. /\ RunsOf(graph) \in Seq(Run) /\ Len(RunsOf(graph)) = Len(graph)
      /\ RunsOf(graph') \in Seq(Run) /\ Len(RunsOf(graph')) = Len(graph')
  BY <1>1, <1>3, RunsFacts
<1> DEFINE longer == Append(RunsOf(graph), run)
<1>9. /\ longer \in Seq(Run) /\ Len(longer) = Len(graph) + 1
      /\ \A i \in 1 .. Len(graph) : longer[i] = RunsOf(graph)[i]
      /\ longer[Len(graph) + 1] = run
  BY <1>7, <1>8, AppendProperties
<1>10. \A i \in 1 .. Len(graph') : RunsOf(graph')[i] = longer[i]
  <2>1. DOMAIN graph = 1 .. Len(graph) /\ DOMAIN graph' = 1 .. Len(graph') /\ Len(graph) \in Nat
    BY <1>1, <1>3
  <2>2. \A i \in 1 .. Len(graph) : RunsOf(graph')[i] = RunsOf(graph)[i]
    BY <1>3, <2>1 DEF RunsOf
  <2>3. RunsOf(graph')[Len(graph) + 1] = run
    BY <1>3, <1>4, <2>1 DEF RunsOf
  <2> HIDE DEF longer, run
  <2> QED
    BY <1>3, <1>9, <2>1, <2>2, <2>3
<1> HIDE DEF longer, run
<1>11. RunsOf(graph') = longer
  BY <1>3, <1>8, <1>9, <1>10, SeqEqual
<1> QED
  BY <1>5, <1>8, <1>11 DEF longer, run

(* An update closes the run it names, or changes nothing.                  *)
LEMMA UpdateCloses ==
  ASSUME IInv, NEW c \in DOMAIN calls, Update(c)
  PROVE  \/ RunsOf(graph') = RunsOf(graph)
         \/ \E n \in DOMAIN RunsOf(graph) :
              /\ n \in DOMAIN fate
              /\ fate[n] \in Outcome
              /\ RunsOf(graph)[n].status = "RUNNING"
              /\ RunsOf(graph') = [RunsOf(graph) EXCEPT ![n].status = fate[n]]
<1> DEFINE id == calls[c].id
           status == calls[c].status
<1>1. "update" \in PostPhase /\ GraphTypeOK
  BY DEF PostPhase, IInv
<1>2. calls[c] \in Call /\ ReportOK(fate, calls[c])
  BY <1>1, PostFacts DEF Update
<1>3. /\ status \in Outcome /\ status \in Status
      /\ id \in DOMAIN fate /\ fate[id] = status
  BY <1>2 DEF Call, ReportOK
<1>4. id \in DOMAIN graph
  BY <1>3 DEF IInv, FateOK
<1>5. /\ DOMAIN graph' = DOMAIN graph
      /\ \A e \in DOMAIN graph :
           /\ graph'[e].status = IF e = id THEN status ELSE graph[e].status
           /\ graph'[e].parent = graph[e].parent
  BY <1>1, <1>3, UpdateFacts DEF Update, GraphKeeps
<1>6. CASE graph[id].status = "RUNNING"
  <2>1. RunsOf(graph)[id].status = "RUNNING" /\ id \in DOMAIN RunsOf(graph)
    BY <1>4, <1>6 DEF RunsOf
  <2>2. RunsOf(graph') = [RunsOf(graph) EXCEPT ![id].status = status]
    BY <1>4, <1>5 DEF RunsOf
  <2> QED
    BY <1>3, <2>1, <2>2
<1>7. CASE graph[id].status # "RUNNING"
  <2>1. graph[id].status = status
    BY <1>3, <1>4, <1>7 DEF IInv, StatusIsOwnReport
  <2>2. \A e \in DOMAIN graph :
          /\ graph'[e].status = graph[e].status
          /\ graph'[e].parent = graph[e].parent
    BY <1>5, <2>1
  <2> QED
    BY <1>5, <2>2 DEF RunsOf
<1> QED
  BY <1>6, <1>7

(* What a client does to the history and to the nodes held: it takes a     *)
(* node, reports, releases, or does nothing.                               *)
LEMMA ClientMoves ==
  ASSUME IInv, ClientStep
  PROVE  \/ /\ fate' = fate
            /\ \/ HoldsOf(proc') = HoldsOf(proc)
               \/ \E r \in Runner : HoldsOf(proc') = [HoldsOf(proc) EXCEPT ![r] = 0]
         \/ \E r \in Runner, outcome \in Outcome :
              /\ HoldsOf(proc)[r] # 0
              /\ fate[HoldsOf(proc)[r]] = "RUNNING"
              /\ fate' = [fate EXCEPT ![HoldsOf(proc)[r]] = outcome]
              /\ HoldsOf(proc') = HoldsOf(proc)
         \/ \E r \in Runner, n \in DOMAIN graph :
              /\ HoldsOf(proc)[r] = 0
              /\ n \notin DOMAIN fate
              /\ HoldsOf(proc') = [HoldsOf(proc) EXCEPT ![r] = n]
              /\ fate' = [m \in DOMAIN fate \cup {n} |->
                            IF m = n THEN "RUNNING" ELSE fate[m]]
<1> DEFINE Idles == /\ fate' = fate
                    /\ \/ HoldsOf(proc') = HoldsOf(proc)
                       \/ \E r \in Runner :
                            HoldsOf(proc') = [HoldsOf(proc) EXCEPT ![r] = 0]
<1>1. proc \in [Runner -> Proc]
  BY DEF IInv, ClientTypeOK
<1>2. ASSUME NEW r \in Runner, NEW p, proc' = [proc EXCEPT ![r] = p]
      PROVE  HoldsOf(proc') = [HoldsOf(proc) EXCEPT ![r] = p.ctx]
  BY <1>1, <1>2 DEF HoldsOf
<1>3. ASSUME NEW r \in Runner, NEW p, proc' = [proc EXCEPT ![r] = p], p.ctx = proc[r].ctx
      PROVE  HoldsOf(proc') = HoldsOf(proc)
  BY <1>1, <1>3 DEF HoldsOf
<1>4. ASSUME NEW r \in Runner, Ended(r) \/ Untracked(r), fate' = fate
      PROVE  Idles
  <2>1. PICK p : proc' = [proc EXCEPT ![r] = p] /\ p.ctx = 0
    BY <1>4 DEF Ended, Untracked, Resting
  <2> QED
    BY <1>2, <1>4, <2>1
<1>5. ASSUME NEW r \in Runner, NEW snap \in Snapshot, Launch(r, snap)
      PROVE  Idles
  <2> DEFINE run   == proc[r].run + 1
             ident == IF Dir(r) \in Orchestrated THEN NoIdentity ELSE files[Dir(r)].ident
             p     == [Resting(run) EXCEPT !.pc = "pre", !.ident = ident, !.snap = snap]
  <2>1. fate' = fate /\ proc' = [proc EXCEPT ![r] = p]
    BY <1>5 DEF Launch
  <2>2. p.ctx = 0
    BY DEF Resting
  <2> HIDE DEF p
  <2> QED
    BY <1>2, <2>1, <2>2
<1>6. ASSUME NEW r \in Runner,
             \/ LaunchUnsent(r) \/ Refused(r) \/ Unacknowledged(r) \/ GiveUp(r)
             \/ FinishUntracked(r) \/ SaveStatus(r) \/ Killed(r)
      PROVE  Idles
  <2>1. (Ended(r) \/ Untracked(r)) /\ fate' = fate
    BY <1>6 DEF LaunchUnsent, Refused, PreFailed, Unacknowledged, GiveUp,
                FinishUntracked, SaveStatus, Killed
  <2> HIDE DEF Idles
  <2> QED
    BY <1>4, <2>1
<1>7. ASSUME NEW r \in Runner, Acknowledged(r) \/ Retry(r)
      PROVE  Idles
  <2>1. proc[r] \in Proc
    BY <1>1
  <2>2. CASE Acknowledged(r)
    <3> DEFINE p == [proc[r] EXCEPT !.pc = "save", !.held = files[Dir(r)]]
    <3>1. proc' = [proc EXCEPT ![r].pc = "save", ![r].held = files[Dir(r)]]
      BY <2>2 DEF Acknowledged
    <3>2. proc' = [proc EXCEPT ![r] = p]
      BY <1>1, <3>1
    <3>3. p.ctx = proc[r].ctx
      BY <2>1 DEF Proc
    <3> HIDE DEF p
    <3>4. HoldsOf(proc') = HoldsOf(proc)
      BY <1>3, <3>2, <3>3
    <3>5. fate' = fate
      BY <2>2 DEF Acknowledged
    <3> QED
      BY <3>4, <3>5
  <2>3. CASE Retry(r)
    <3> DEFINE p == [proc[r] EXCEPT !.attempt = @ + 1]
    <3>1. proc' = [proc EXCEPT ![r].attempt = @ + 1]
      BY <2>3 DEF Retry
    <3>2. proc' = [proc EXCEPT ![r] = p]
      BY <1>1, <3>1
    <3>3. p.ctx = proc[r].ctx
      BY <2>1 DEF Proc
    <3> HIDE DEF p
    <3>4. HoldsOf(proc') = HoldsOf(proc)
      BY <1>3, <3>2, <3>3
    <3>5. fate' = fate
      BY <2>3 DEF Retry
    <3> QED
      BY <3>4, <3>5
  <2> QED
    BY <1>7, <2>2, <2>3
<1>8. ASSUME NEW r \in Runner, NEW outcome \in Outcome, FinishTraining(r, outcome)
      PROVE  /\ HoldsOf(proc)[r] # 0
             /\ fate[HoldsOf(proc)[r]] = "RUNNING"
             /\ fate' = [fate EXCEPT ![HoldsOf(proc)[r]] = outcome]
             /\ HoldsOf(proc') = HoldsOf(proc)
  <2> DEFINE p == [proc[r] EXCEPT !.pc = "post"]
  <2>1. proc[r] \in Proc /\ ProcOK(graph, fate, r, proc[r]) /\ proc[r].pc = "train"
    BY <1>8, ProcFacts DEF FinishTraining
  <2>2. HoldsOf(proc)[r] = proc[r].ctx
    BY DEF HoldsOf
  <2>3. proc[r].ctx # 0
    BY <2>1, GraphFacts DEF IInv, ProcOK
  <2>4. proc' = [proc EXCEPT ![r].pc = "post"] /\ fate' = [fate EXCEPT ![proc[r].ctx] = outcome]
    BY <1>8 DEF FinishTraining
  <2>5. proc' = [proc EXCEPT ![r] = p]
    BY <1>1, <2>4
  <2>6. p.ctx = proc[r].ctx
    BY <2>1 DEF Proc
  <2> HIDE DEF p
  <2> QED
    BY <1>3, <2>1, <2>2, <2>3, <2>4, <2>5, <2>6 DEF ProcOK
<1>9. ASSUME NEW r \in Runner, Adopt(r)
      PROVE  \E n \in DOMAIN graph :
               /\ HoldsOf(proc)[r] = 0
               /\ n \notin DOMAIN fate
               /\ HoldsOf(proc') = [HoldsOf(proc) EXCEPT ![r] = n]
               /\ fate' = [m \in DOMAIN fate \cup {n} |->
                             IF m = n THEN "RUNNING" ELSE fate[m]]
  <2> DEFINE n == AnswerOf(r).id
             rest == Resting(proc[r].run)
             p == [rest EXCEPT !.pc = "train", !.ctx = n]
  <2>1. n \in DOMAIN graph /\ n \notin DOMAIN fate
    BY <1>9, AdoptFacts
  <2>2. proc[r].ctx = 0
    BY <1>9, ProcFacts DEF Adopt, ProcOK
  <2>3. /\ proc' = [proc EXCEPT ![r] = p]
        /\ fate' = [m \in DOMAIN fate \cup {n} |-> IF m = n THEN "RUNNING" ELSE fate[m]]
    BY <1>9 DEF Adopt
  <2>4. p.ctx = n
    BY DEF Resting
  <2> HIDE DEF n, p
  <2>5. HoldsOf(proc') = [HoldsOf(proc) EXCEPT ![r] = n]
    BY <1>2, <2>3, <2>4
  <2>6. HoldsOf(proc)[r] = 0
    BY <2>2 DEF HoldsOf
  <2> QED
    BY <2>1, <2>3, <2>5, <2>6
<1> HIDE DEF Idles
<1>10. \/ Idles
       \/ \E r \in Runner, outcome \in Outcome : FinishTraining(r, outcome)
       \/ \E r \in Runner : Adopt(r)
  BY <1>5, <1>6, <1>7 DEF ClientStep, ClientNext, Resolve
<1> QED
  BY <1>8, <1>9, <1>10 DEF Idles

LEMMA LedgerStep ==
  ASSUME IInv, Next
  PROVE  [Ledger!Next]_(Ledger!ledgerVars)
<1>1. DOMAIN RunsOf(graph) = DOMAIN graph
  BY DEF RunsOf
<1>2. CASE ServerStep
  <2>1. fate' = fate /\ HoldsOf(proc') = HoldsOf(proc)
    BY <1>2 DEF ServerStep, clientVars
  <2>2. CASE RunsOf(graph') = RunsOf(graph)
    BY <2>1, <2>2 DEF Ledger!ledgerVars, RunsOf, HoldsOf
  <2>3. ASSUME NEW c \in DOMAIN calls, Creation(c)
        PROVE  Ledger!Next
    <3>1. PICK parent \in 0 .. Len(RunsOf(graph)) :
            RunsOf(graph') = Append(RunsOf(graph), [parent |-> parent, status |-> "RUNNING"])
      BY <2>3, CreationRegisters
    <3>2. Ledger!Register(parent)
      BY <2>1, <3>1 DEF Ledger!Register, RunsOf, HoldsOf
    <3>3. parent \in 0 .. Len([n \in DOMAIN graph |->
                                 [parent |-> graph[n].parent, status |-> graph[n].status]])
      BY <3>1 DEF RunsOf
    <3> QED
      BY <3>2, <3>3 DEF Ledger!Next
  <2>4. ASSUME NEW c \in DOMAIN calls, Update(c), RunsOf(graph') # RunsOf(graph)
        PROVE  Ledger!Next
    <3>1. PICK n \in DOMAIN RunsOf(graph) :
            /\ n \in DOMAIN fate
            /\ fate[n] \in Outcome
            /\ RunsOf(graph)[n].status = "RUNNING"
            /\ RunsOf(graph') = [RunsOf(graph) EXCEPT ![n].status = fate[n]]
      BY <2>4, UpdateCloses
    <3>2. Ledger!Close(n)
      BY <2>1, <3>1 DEF Ledger!Close, RunsOf, HoldsOf
    <3> QED
      BY <1>1, <3>1, <3>2 DEF Ledger!Next, RunsOf
  <2> QED
    BY <2>2, <2>3, <2>4, GraphStep
<1>3. CASE ClientStep
  <2>1. graph' = graph
    BY <1>3 DEF ClientStep, graphVars
  <2>2. CASE fate' = fate /\ HoldsOf(proc') = HoldsOf(proc)
    BY <2>1, <2>2 DEF Ledger!ledgerVars, HoldsOf
  <2>3. ASSUME NEW r \in Runner, fate' = fate,
               HoldsOf(proc') = [HoldsOf(proc) EXCEPT ![r] = 0]
        PROVE  Ledger!Next
    <3>1. Ledger!Release(r)
      BY <2>1, <2>3 DEF Ledger!Release, HoldsOf
    <3> QED
      BY <3>1 DEF Ledger!Next
  <2>4. ASSUME NEW r \in Runner, NEW outcome \in Outcome,
               HoldsOf(proc)[r] # 0,
               fate[HoldsOf(proc)[r]] = "RUNNING",
               fate' = [fate EXCEPT ![HoldsOf(proc)[r]] = outcome],
               HoldsOf(proc') = HoldsOf(proc)
        PROVE  Ledger!Next
    <3>1. Ledger!Report(r, outcome)
      BY <2>1, <2>4 DEF Ledger!Report, HoldsOf
    <3> QED
      BY <3>1 DEF Ledger!Next
  <2>5. ASSUME NEW r \in Runner, NEW n \in DOMAIN graph,
               HoldsOf(proc)[r] = 0, n \notin DOMAIN fate,
               HoldsOf(proc') = [HoldsOf(proc) EXCEPT ![r] = n],
               fate' = [m \in DOMAIN fate \cup {n} |->
                          IF m = n THEN "RUNNING" ELSE fate[m]]
        PROVE  Ledger!Next
    <3>1. Ledger!Take(r, n)
      BY <1>1, <2>1, <2>5 DEF Ledger!Take, HoldsOf, RunsOf
    <3> QED
      BY <1>1, <3>1 DEF Ledger!Next, RunsOf
  <2> QED
    BY <1>3, <2>2, <2>3, <2>4, <2>5, ClientMoves
<1> QED
  BY <1>2, <1>3 DEF Next

(* The clients, the server and the graph, with every retry, loss, restart  *)
(* and interleaving, implement the ledger: runs are registered once, each  *)
(* is carried out by one worker at most, and closed with its own report.   *)
THEOREM LedgerImplemented == Spec => ImplementsLedger
<1>1. Init => Ledger!Init
  BY DEF Init, GraphInit, ClientInit, Resting, Ledger!Init
<1>2. IInv /\ [Next]_vars => [Ledger!Next]_(Ledger!ledgerVars)
  <2>1. ASSUME IInv, UNCHANGED vars
        PROVE  UNCHANGED Ledger!ledgerVars
    BY <2>1 DEF vars, graphVars, clientVars, Ledger!ledgerVars
  <2> QED
    BY <2>1, LedgerStep
<1> QED
  BY <1>1, <1>2, Invariance, PTL DEF Spec, ImplementsLedger, Ledger!Spec

-----------------------------------------------------------------------------
(* What experiment.yml says of the end of a run                            *)

(* The server has set the status that the call reports.                    *)
Told(call) ==
  \/ call.phase = "find"
  \/ call.phase \in {"reply", "answered"} /\ call.answer.code = 200

(* A POST of the run p is at: it reports of the experiment of p, and once  *)
(* the server has told so much, what it reported is in the graph.          *)
BackedCall(g, f, p, c, call) ==
  /\ RunOf(c) <= p.run
  /\ KindOf(c) = "post" /\ RunOf(c) = p.run =>
       /\ p.pc \notin {"pre", "train"}
       /\ p.pc = "post" =>
            /\ call.phase \in {"wire", "update", "find"} => call.id = p.ctx
            /\ Told(call) => g[p.ctx].status = f[p.ctx]

BackedCalls(g, f, ps, cs) ==
  \A c \in DOMAIN cs : BackedCall(g, f, ps[RunnerOf(c)], c, cs[c])

(* From its adoption to its last write a run finds its experiment in the   *)
(* file, and it writes what is in the graph.                               *)
BackedProc(g, f, fs, r, p) ==
  /\ p.pc \in {"train", "post"} /\ NotShared(Dir(r)) => fs[Dir(r)].ident.id = p.ctx
  /\ p.pc = "save" =>
       /\ NotShared(Dir(r)) => p.held.ident.id = p.ctx
       /\ g[p.ctx].status = f[p.ctx]

BackedProcs(g, f, fs, ps) == \A r \in Runner : BackedProc(g, f, fs, r, ps[r])

(* LocalStatusBacked, of a graph and the files.                            *)
BackedFiles(g, fs) ==
  \A p \in Project :
    fs[p].status \in Outcome /\ NotShared(p) =>
      /\ fs[p].ident.id \in DOMAIN g
      /\ g[fs[p].ident.id].status = fs[p].status

BackedInv ==
  /\ BackedCalls(graph, fate, proc, calls)
  /\ BackedProcs(graph, fate, files, proc)
  /\ BackedFiles(graph, files)

(* What is made of a call that says no more of its POST than before.       *)
Milder(c, new, old) ==
  KindOf(c) = "post" =>
    /\ new.phase \in {"wire", "update", "find"} =>
         old.phase \in {"wire", "update", "find"} /\ new.id = old.id
    /\ Told(new) => Told(old)

LEMMA MilderBacked ==
  ASSUME NEW g, NEW f, NEW p, NEW c, NEW old, NEW new,
         BackedCall(g, f, p, c, old), Milder(c, new, old)
  PROVE  BackedCall(g, f, p, c, new)
  BY DEF BackedCall, Milder

LEMMA BackedOneChanges ==
  ASSUME NEW g, NEW f, NEW ps, NEW cs, BackedCalls(g, f, ps, cs),
         NEW c \in DOMAIN cs, NEW call, Milder(c, call, cs[c])
  PROVE  BackedCalls(g, f, ps, [cs EXCEPT ![c] = call])
<1>1. BackedCall(g, f, ps[RunnerOf(c)], c, call)
  BY MilderBacked DEF BackedCalls
<1> QED
  BY <1>1 DEF BackedCalls

LEMMA BackedOneComes ==
  ASSUME NEW g, NEW f, NEW ps, NEW cs, BackedCalls(g, f, ps, cs),
         NEW c, NEW call, BackedCall(g, f, ps[RunnerOf(c)], c, call)
  PROVE  BackedCalls(g, f, ps, With(cs, c, call))
  BY DEF BackedCalls, With

LEMMA BackedOneGoes ==
  ASSUME NEW g, NEW f, NEW ps, NEW cs, BackedCalls(g, f, ps, cs), NEW c
  PROVE  BackedCalls(g, f, ps, Without(cs, c))
  BY DEF BackedCalls, Without

LEMMA BackedLeft ==
  ASSUME IInv, NEW g, NEW f, NEW ps, BackedCalls(g, f, ps, calls), NEW c
  PROVE  /\ \A left \in HungUp(c) : BackedCalls(g, f, ps, left)
         /\ \A left \in ConnectionErrors(c) : BackedCalls(g, f, ps, left)
         /\ \A left \in OtherErrors(c) : BackedCalls(g, f, ps, left)
<1>1. BackedCalls(g, f, ps, Without(calls, c))
  BY BackedOneGoes
<1>2. ASSUME c \in DOMAIN calls
      PROVE  BackedCalls(g, f, ps, [calls EXCEPT ![c].open = FALSE])
  <2> DEFINE shut == [calls[c] EXCEPT !.open = FALSE]
  <2>1. calls[c] \in Call
    BY <1>2, CallFacts
  <2>2. shut.phase = calls[c].phase /\ shut.id = calls[c].id /\ shut.answer = calls[c].answer
    BY <2>1 DEF Call
  <2> HIDE DEF shut
  <2>3. Milder(c, shut, calls[c])
    BY <2>2 DEF Milder, Told
  <2>4. [calls EXCEPT ![c].open = FALSE] = [calls EXCEPT ![c] = shut]
    BY DEF shut
  <2> QED
    BY <1>2, <2>3, <2>4, BackedOneChanges
<1>3. \A left \in HungUp(c) : BackedCalls(g, f, ps, left)
  BY <1>1, <1>2 DEF HungUp
<1> QED
  BY <1>1, <1>3 DEF ConnectionErrors, OtherErrors

(* The graph may grow, and set a status to what the history says.          *)
Settles(g, h) ==
  \A e \in DOMAIN g :
    /\ e \in DOMAIN h
    /\ e \in DOMAIN fate /\ g[e].status = fate[e] => h[e].status = fate[e]

LEMMA BackedGraph ==
  ASSUME IInv, Settles(graph, graph'), NEW cs, BackedCalls(graph, fate, proc, cs),
         DOMAIN cs \subseteq CallId
  PROVE  BackedCalls(graph', fate, proc, cs)
<1>1. ASSUME NEW c \in DOMAIN cs
      PROVE  BackedCall(graph', fate, proc[RunnerOf(c)], c, cs[c])
  <2>1. RunnerOf(c) \in Runner
    BY DEF CallId, RunnerOf
  <2>2. ProcOK(graph, fate, RunnerOf(c), proc[RunnerOf(c)])
    BY <2>1, ProcFacts
  <2>3. BackedCall(graph, fate, proc[RunnerOf(c)], c, cs[c])
    BY DEF BackedCalls
  <2> QED
    BY <2>2, <2>3 DEF BackedCall, ProcOK, Settles
<1> QED
  BY <1>1 DEF BackedCalls

LEMMA SettlesStep ==
  ASSUME IInv, Next
  PROVE  Settles(graph, graph')
<1>1. GraphTypeOK
  BY DEF IInv
<1>2. CASE graph' = graph
  BY <1>2 DEF Settles
<1>3. ASSUME NEW c \in DOMAIN calls, Creation(c)
      PROVE  Settles(graph, graph')
  <2>1. PICK node \in Node : graph' = Append(graph, node)
    BY <1>3, CreatedNode DEF Creation
  <2> QED
    BY <1>1, <2>1, AppendFacts DEF Settles
<1>4. ASSUME NEW c \in DOMAIN calls, Update(c)
      PROVE  Settles(graph, graph')
  <2>1. "update" \in PostPhase
    BY DEF PostPhase
  <2>2. calls[c] \in Call /\ ReportOK(fate, calls[c])
    BY <1>4, <2>1, PostFacts DEF Update
  <2>3. calls[c].status \in Status /\ fate[calls[c].id] = calls[c].status
    BY <2>2 DEF Call, ReportOK
  <2>4. /\ DOMAIN graph' = DOMAIN graph
        /\ \A e \in DOMAIN graph :
             graph'[e].status = IF e = calls[c].id THEN calls[c].status ELSE graph[e].status
    BY <1>1, <1>4, <2>3, UpdateFacts DEF Update
  <2> QED
    BY <2>3, <2>4 DEF Settles
<1> QED
  BY <1>2, <1>3, <1>4, GraphStep

LEMMA BackedDone ==
  ASSUME BackedCalls(graph, fate, proc, calls), NEW c \in DOMAIN calls,
         NEW answer, AnswerWith(c, answer),
         KindOf(c) = "pre" \/ answer.code # 200 \/ Told(calls[c])
  PROVE  BackedCalls(graph, fate, proc, calls')
<1> DEFINE done == [Done(calls[c].open, answer) EXCEPT !.issued = OnTop(c)]
<1>1. done.phase = "reply" /\ done.answer = answer
  BY DEF Done, PreCall
<1>2. calls' = [calls EXCEPT ![c] = done]
  BY DEF AnswerWith, Proceed
<1> HIDE DEF done
<1>3. Milder(c, done, calls[c])
  BY <1>1 DEF Milder, Told
<1> QED
  BY <1>2, <1>3, BackedOneChanges

LEMMA BackedOfPre ==
  ASSUME BackedCalls(graph, fate, proc, calls), NEW c \in DOMAIN calls, KindOf(c) = "pre",
         \E call : calls' = [calls EXCEPT ![c] = call]
  PROVE  BackedCalls(graph, fate, proc, calls')
<1>1. PICK call : calls' = [calls EXCEPT ![c] = call]
  OBVIOUS
<1>2. Milder(c, call, calls[c])
  BY DEF Milder
<1> QED
  BY <1>1, <1>2, BackedOneChanges

LEMMA BackedReply ==
  ASSUME IInv, BackedCalls(graph, fate, proc, calls), NEW c \in DOMAIN calls, Reply(c)
  PROVE  BackedCalls(graph, fate, proc, calls')
<1> DEFINE answered == [calls[c] EXCEPT !.phase = "answered", !.issued = FALSE]
           rest == IF calls[c].open THEN [calls EXCEPT ![c] = answered]
                                    ELSE Without(calls, c)
<1>1. calls[c] \in Call /\ calls[c].phase = "reply"
  BY CallFacts DEF Reply, Executing
<1>2. answered \in Call /\ answered.phase = "answered" /\ answered.answer = calls[c].answer
  BY <1>1 DEF Call, Phase
<1>3. BackedCalls(graph, fate, proc, rest) /\ \A d \in DOMAIN rest : rest[d] \in Call
  <2> HIDE DEF answered
  <2>1. Milder(c, answered, calls[c])
    BY <1>1, <1>2 DEF Milder, Told
  <2>2. BackedCalls(graph, fate, proc, [calls EXCEPT ![c] = answered])
    BY <2>1, BackedOneChanges
  <2>3. BackedCalls(graph, fate, proc, Without(calls, c))
    BY BackedOneGoes
  <2>4. \A d \in DOMAIN rest : rest[d] \in Call
    BY <1>2, CallFacts DEF Without
  <2> QED
    BY <2>2, <2>3, <2>4
<1>4. calls' = Resumed(rest, nest')
  BY DEF Reply
<1> HIDE DEF rest
<1> DEFINE d == nest'[Len(nest')]
           on == [rest[d] EXCEPT !.issued = TRUE]
<1>5. CASE nest' = <<>> \/ d \notin DOMAIN rest
  BY <1>3, <1>4, <1>5 DEF Resumed, BackedCalls
<1>6. CASE nest' # <<>> /\ d \in DOMAIN rest
  <2>1. on.phase = rest[d].phase /\ on.id = rest[d].id /\ on.answer = rest[d].answer
    BY <1>3, <1>6 DEF Call
  <2>2. calls' = [rest EXCEPT ![d] = on]
    BY <1>4, <1>6 DEF Resumed
  <2> HIDE DEF d, on
  <2>3. Milder(d, on, rest[d])
    BY <2>1 DEF Milder, Told
  <2> QED
    BY <1>3, <1>6, <2>2, <2>3, BackedOneChanges
<1> QED
  BY <1>5, <1>6

LEMMA BackedHandle ==
  ASSUME IInv, BackedCalls(graph, fate, proc, calls), NEW c \in DOMAIN calls, Handle(c),
         ~SetStatus(c)
  PROVE  BackedCalls(graph, fate, proc, calls')
<1>1. calls[c] \in Call
  BY CallFacts
<1>2. ASSUME NEW phase \in PrePhase, Executing(c, phase)
      PROVE  KindOf(c) = "pre"
  BY <1>2, PreFacts
<1>3. /\ "previous" \in PrePhase /\ "model" \in PrePhase /\ "compare" \in PrePhase
      /\ "resume" \in PrePhase /\ "promote" \in PrePhase /\ "create" \in PrePhase
  BY DEF PrePhase
<1>4. CASE Accept(c)
  <2>1. Milder(c, Unsupported(c), calls[c])
    <3>1. Unsupported(c).phase = "reply" /\ Unsupported(c).answer = Refusal(422)
      BY DEF Unsupported, Done, PreCall
    <3>2. Refusal(422).code = 422
      BY RefusalFacts
    <3> QED
      BY <3>1, <3>2 DEF Milder, Told
  <2>2. Milder(c, Started(c), calls[c])
    <3>1. KindOf(c) = "post" => Started(c).phase = "update" /\ Started(c).id = calls[c].id
      BY <1>1 DEF Started, FirstPhase, Call
    <3>2. calls[c].phase = "wire"
      BY <1>4 DEF Accept
    <3> QED
      BY <3>1, <3>2 DEF Milder, Told
  <2> QED
    BY <1>4, <2>1, <2>2, BackedOneChanges DEF Accept
<1>5. CASE ReadPrevious(c) \/ SwitchModel(c) \/ KeepModel(c) \/ CompareCodebase(c)
  <2>1. /\ KindOf(c) = "pre"
        /\ \E call : calls' = [calls EXCEPT ![c] = call]
    BY <1>2, <1>3, <1>5 DEF ReadPrevious, SwitchModel, KeepModel, CompareCodebase,
                            Proceed, GoTo, AnswerWith
  <2> QED
    BY <2>1, BackedOfPre
<1>6. CASE LookForModel(c) \/ PromoteToModel(c)
  <2>1. /\ KindOf(c) = "pre"
        /\ \E call : calls' = [calls EXCEPT ![c] = call]
    BY <1>2, <1>3, <1>6 DEF LookForModel, PromoteToModel, Proceed, GoTo
  <2> QED
    BY <2>1, BackedOfPre
<1>7. CASE RefuseModelSwitch(c) \/ CreateExperiment(c) \/ FailToCreate(c)
  <2>1. /\ KindOf(c) = "pre"
        /\ \E call : calls' = [calls EXCEPT ![c] = call]
    BY <1>2, <1>3, <1>7 DEF RefuseModelSwitch, CreateExperiment, FailToCreate,
                            Proceed, AnswerWith
  <2> QED
    BY <2>1, BackedOfPre
<1>8. CASE ConfirmStatus(c)
  <2>1. Told(calls[c]) /\ \E answer : AnswerWith(c, answer)
    BY <1>8 DEF ConfirmStatus, Executing, Told
  <2> QED
    BY <2>1, BackedDone
<1>9. CASE Reply(c)
  BY <1>9, BackedReply
<1> QED
  BY <1>4, <1>5, <1>6, <1>7, <1>8, <1>9 DEF Handle

(* The status is set: the call may say so, as the graph does.              *)
LEMMA BackedSetStatus ==
  ASSUME IInv, BackedCalls(graph, fate, proc, calls), NEW c \in DOMAIN calls,
         SetStatus(c), BackedCalls(graph', fate, proc, calls)
  PROVE  BackedCalls(graph', fate, proc, calls')
<1> DEFINE call == [[calls[c] EXCEPT !.phase = "find"] EXCEPT !.issued = OnTop(c)]
           p    == proc[RunnerOf(c)]
<1>1. /\ Executing(c, "update") /\ calls[c].phase = "update" /\ "update" \in PostPhase
      /\ UpdateExperimentStatus(calls[c].id, calls[c].status)
      /\ calls' = [calls EXCEPT ![c] = call]
  BY DEF SetStatus, GoTo, Proceed, Executing, PostPhase
<1>2. calls[c] \in Call /\ ReportOK(fate, calls[c]) /\ c \in CallId
  BY <1>1, PostFacts, CallFacts
<1>3. call.phase = "find" /\ call.id = calls[c].id
  BY <1>2 DEF Call
<1>4. calls[c].status \in Status /\ fate[calls[c].id] = calls[c].status
  BY <1>2 DEF Call, ReportOK
<1>5. \A e \in DOMAIN graph :
        graph'[e].status = IF e = calls[c].id THEN calls[c].status ELSE graph[e].status
  BY <1>1, <1>4, UpdateFacts DEF IInv
<1>6. RunnerOf(c) \in Runner
  BY <1>2 DEF CallId, RunnerOf
<1>7. p.pc = "post" => p.ctx \in DOMAIN graph
  BY <1>6, ProcFacts DEF ProcOK
<1>8. BackedCall(graph, fate, p, c, calls[c])
  BY DEF BackedCalls
<1> HIDE DEF call, p
<1>9. BackedCall(graph', fate, p, c, call)
  BY <1>1, <1>3, <1>4, <1>5, <1>7, <1>8 DEF BackedCall, Told
<1> QED
  BY <1>1, <1>9 DEF BackedCalls, p

LEMMA BackedServer ==
  ASSUME IInv, BackedInv, Next, ServerStep
  PROVE  BackedInv'
<1>1. /\ BackedCalls(graph, fate, proc, calls) /\ BackedProcs(graph, fate, files, proc)
      /\ BackedFiles(graph, files)
  BY DEF BackedInv
<1>2. proc' = proc /\ files' = files /\ fate' = fate
  BY DEF ServerStep, clientVars
<1>3. Settles(graph, graph')
  BY SettlesStep
<1>4. DOMAIN calls \subseteq CallId
  BY DEF IInv, CallsOK
<1>5. BackedCalls(graph', fate, proc, calls)
  BY <1>1, <1>3, <1>4, BackedGraph
<1>6. DOMAIN calls' \subseteq CallId
  BY NextIInv DEF IInv, CallsOK
<1>7. BackedCalls(graph', fate, proc, calls')
  <2>1. ASSUME NEW c \in DOMAIN calls, SetStatus(c)
        PROVE  BackedCalls(graph', fate, proc, calls')
    BY <1>1, <1>5, <2>1, BackedSetStatus
  <2>2. ASSUME NEW c \in DOMAIN calls, Handle(c), ~SetStatus(c)
        PROVE  BackedCalls(graph, fate, proc, calls')
    BY <1>1, <2>2, BackedHandle
  <2>3. ASSUME NEW c \in DOMAIN calls, DbFails(c) \/ CreationUnconfirmed(c)
        PROVE  BackedCalls(graph, fate, proc, calls')
    <3>1. Refusal(500).code # 200
      BY RefusalFacts
    <3>2. CASE AnswerWith(c, Refusal(500))
      BY <1>1, <3>1, <3>2, BackedDone
    <3>3. CASE calls[c].phase = "promote" /\ GoTo(c, "create")
      <4>1. KindOf(c) = "pre"
        BY <3>3, CallFacts DEF CallOK, PrePhase
      <4> QED
        BY <1>1, <3>3, <4>1, BackedOfPre DEF GoTo, Proceed
    <3> QED
      BY <2>3, <3>2, <3>3 DEF DbFails, CreationUnconfirmed
  <2>4. CASE Crash
    <3>1. BackedCalls(graph, fate, proc, calls')
      BY <1>1, <2>4 DEF Crash, BackedCalls
    <3> QED
      BY <1>3, <1>6, <3>1, BackedGraph
  <2>5. BackedCalls(graph, fate, proc, calls') => BackedCalls(graph', fate, proc, calls')
    BY <1>3, <1>6, BackedGraph
  <2> QED
    BY <2>1, <2>2, <2>3, <2>4, <2>5 DEF ServerStep, ServerNext
<1>8. BackedProcs(graph', fate, files, proc)
  <2>1. ASSUME NEW r \in Runner
        PROVE  BackedProc(graph', fate, files, r, proc[r])
    <3>1. ProcOK(graph, fate, r, proc[r]) /\ BackedProc(graph, fate, files, r, proc[r])
      BY <1>1, ProcFacts DEF BackedProcs
    <3> QED
      BY <1>3, <3>1 DEF BackedProc, ProcOK, Settles
  <2> QED
    BY <2>1 DEF BackedProcs
<1>9. BackedFiles(graph', files)
  <2>1. ASSUME NEW p \in Project, files[p].status \in Outcome, NotShared(p)
        PROVE  /\ files[p].ident.id \in DOMAIN graph'
               /\ graph'[files[p].ident.id].status = files[p].status
    <3>1. /\ files[p].ident.id \in DOMAIN graph
          /\ graph[files[p].ident.id].status = files[p].status
      BY <1>1, <2>1 DEF BackedFiles
    <3>2. files[p].status # "RUNNING"
      BY <2>1 DEF Outcome
    <3> QED
      BY <1>3, <3>1, <3>2 DEF Settles, IInv, StatusIsOwnReport
  <2> QED
    BY <2>1 DEF BackedFiles
<1> QED
  BY <1>2, <1>7, <1>8, <1>9 DEF BackedInv

(* A process moves on: the POSTs of its run are those it has sent, and none *)
(* before its training ends.                                               *)
Leads(old, p) ==
  /\ p.run >= old.run
  /\ p.run = old.run =>
       \/ p.pc \in {"idle", "bare", "save"}
       \/ old.pc \in {"pre", "train"}
       \/ old.pc = "post" /\ p.pc = "post" /\ p.ctx = old.ctx

LEMMA BackedMoves ==
  ASSUME IInv, BackedInv, NEW r \in Runner, NEW p, p.run \in Nat, Leads(proc[r], p),
         proc' = [proc EXCEPT ![r] = p],
         \A q \in Runner : (q # r \/ proc[q].pc = "post") /\ proc[q].pc \in {"post", "save"} =>
            fate'[proc[q].ctx] = fate[proc[q].ctx]
  PROVE  BackedCalls(graph, fate', proc', calls)
<1>1. ASSUME NEW c \in DOMAIN calls
      PROVE  BackedCall(graph, fate', proc'[RunnerOf(c)], c, calls[c])
  <2> DEFINE q == RunnerOf(c)
  <2>1. c \in CallId /\ BackedCall(graph, fate, proc[q], c, calls[c])
    BY CallFacts DEF BackedInv, BackedCalls
  <2>2. q \in Runner /\ RunOf(c) \in Nat
    BY <2>1 DEF CallId, RunnerOf, RunOf
  <2>3. proc[q].run \in Nat
    BY <2>2, ProcFacts
  <2> HIDE DEF q
  <2>4. CASE q = r
    <3>1. proc'[q] = p
      BY <2>4 DEF IInv, ClientTypeOK
    <3>2. BackedCall(graph, fate', p, c, calls[c])
      BY <2>1, <2>2, <2>3, <2>4 DEF Leads, BackedCall
    <3> QED
      BY <3>1, <3>2 DEF q
  <2>5. CASE q # r
    <3>1. proc'[q] = proc[q]
      BY <2>5
    <3>2. BackedCall(graph, fate', proc[q], c, calls[c])
      BY <2>1, <2>2, <2>5 DEF BackedCall
    <3> QED
      BY <3>1, <3>2 DEF q
  <2> QED
    BY <2>4, <2>5
<1> QED
  BY <1>1 DEF BackedCalls

(* The other processes, and their files, after a step of r.                *)
LEMMA BackedOthers ==
  ASSUME IInv, BackedInv, NEW r \in Runner, NEW p,
         proc' = [proc EXCEPT ![r] = p],
         \A q \in Project : q # Dir(r) => files'[q] = files[q],
         \A q \in Runner : q # r /\ proc[q].pc \in {"post", "save"} =>
            fate'[proc[q].ctx] = fate[proc[q].ctx],
         BackedProc(graph, fate', files', r, p)
  PROVE  BackedProcs(graph, fate', files', proc')
<1>1. ASSUME NEW q \in Runner
      PROVE  BackedProc(graph, fate', files', q, proc'[q])
  <2>1. CASE q = r
    BY <2>1 DEF IInv, ClientTypeOK
  <2>2. CASE q # r
    <3>1. proc'[q] = proc[q] /\ Dir(q) \in Project
      BY <2>2, ProcFacts
    <3>2. NotShared(Dir(q)) => files'[Dir(q)] = files[Dir(q)]
      BY <2>2, <3>1 DEF NotShared
    <3>3. BackedProc(graph, fate, files, q, proc[q])
      BY DEF BackedInv, BackedProcs
    <3> QED
      BY <2>2, <3>1, <3>2, <3>3 DEF BackedProc
  <2> QED
    BY <2>1, <2>2
<1> QED
  BY <1>1 DEF BackedProcs

LEMMA BackedEnds ==
  ASSUME IInv, BackedInv, NEW r \in Runner, Ended(r) \/ Untracked(r),
         graph' = graph, fate' = fate,
         \A q \in Project : q # Dir(r) => files'[q] = files[q],
         BackedFiles(graph, files'),
         BackedCalls(graph, fate, proc', calls) => BackedCalls(graph, fate, proc', calls')
  PROVE  BackedInv'
<1>1. proc[r].run \in Nat
  BY ProcFacts
<1>2. PICK p : /\ p.pc \in {"idle", "bare"} /\ p.run = proc[r].run
               /\ proc' = [proc EXCEPT ![r] = p]
  <2> DEFINE rest == Resting(proc[r].run)
             bare == [rest EXCEPT !.pc = "bare"]
  <2>1. rest.pc = "idle" /\ rest.run = proc[r].run
    BY DEF Resting
  <2>2. bare.pc = "bare" /\ bare.run = proc[r].run
    BY DEF Resting
  <2>3. proc' = [proc EXCEPT ![r] = rest] \/ proc' = [proc EXCEPT ![r] = bare]
    BY DEF Ended, Untracked
  <2> HIDE DEF rest, bare
  <2> QED
    BY <2>1, <2>2, <2>3
<1>3. Leads(proc[r], p)
  BY <1>1, <1>2 DEF Leads
<1>4. BackedCalls(graph, fate, proc', calls)
  BY <1>1, <1>2, <1>3, BackedMoves
<1>5. BackedProc(graph, fate, files', r, p)
  BY <1>2 DEF BackedProc
<1>6. BackedProcs(graph, fate, files', proc')
  BY <1>2, <1>5, BackedOthers
<1> QED
  BY <1>4, <1>6 DEF BackedInv

LEMMA BackedLaunch ==
  ASSUME IInv, BackedInv, NEW r \in Runner, NEW snap \in Snapshot, Launch(r, snap),
         graph' = graph
  PROVE  BackedInv'
<1> DEFINE ident == IF Dir(r) \in Orchestrated THEN NoIdentity ELSE files[Dir(r)].ident
           run   == proc[r].run + 1
           p     == [Resting(run) EXCEPT !.pc = "pre", !.ident = ident, !.snap = snap]
           c     == <<r, run, "pre", 0>>
<1>1. /\ proc' = [proc EXCEPT ![r] = p]
      /\ calls' = With(calls, c, PreCall(ident, snap))
      /\ files' = files /\ fate' = fate
  BY DEF Launch
<1>2. proc[r].run \in Nat
  BY ProcFacts
<1>3. p.pc = "pre" /\ p.run = run
  BY DEF Resting
<1>4. KindOf(c) = "pre" /\ RunOf(c) = run /\ RunnerOf(c) = r
  BY DEF KindOf, RunOf, RunnerOf
<1> HIDE DEF p, c, ident
<1>5. Leads(proc[r], p)
  BY <1>2, <1>3 DEF Leads
<1>6. BackedCalls(graph, fate, proc', calls)
  <2>1. p.run \in Nat
    BY <1>2, <1>3
  <2>2. proc' = [proc EXCEPT ![r] = p]
    BY <1>1
  <2>3. \A q \in Runner : (q # r \/ proc[q].pc = "post") /\ proc[q].pc \in {"post", "save"} =>
          fate'[proc[q].ctx] = fate[proc[q].ctx]
    BY <1>1
  <2>4. BackedCalls(graph, fate', proc', calls)
    BY <2>1, <2>2, <2>3, <1>5, BackedMoves
  <2> QED
    BY <1>1, <2>4
<1>7. BackedCall(graph, fate, proc'[r], c, PreCall(ident, snap))
  <2>1. proc'[r] = p
    BY <1>1 DEF IInv, ClientTypeOK
  <2> QED
    BY <1>2, <1>3, <1>4, <2>1 DEF BackedCall
<1>8. BackedCalls(graph, fate, proc', calls')
  BY <1>1, <1>4, <1>6, <1>7, BackedOneComes
<1>9. BackedProcs(graph, fate, files, proc')
  BY <1>1, <1>3, BackedOthers DEF BackedProc
<1> QED
  BY <1>1, <1>8, <1>9 DEF BackedInv

LEMMA BackedRetry ==
  ASSUME IInv, BackedInv, NEW r \in Runner, Retry(r), graph' = graph
  PROVE  BackedInv'
<1> DEFINE p == [proc[r] EXCEPT !.attempt = @ + 1]
           c == <<r, proc[r].run, proc[r].pc, proc[r].attempt + 1>>
<1>1. /\ proc' = [proc EXCEPT ![r] = p] /\ files' = files /\ fate' = fate
      /\ proc[r].pc \in {"pre", "post"}
  BY DEF Retry, Awaiting
<1>2. PICK left \in ConnectionErrors(CurrentCall(r)) : calls' = With(left, c, Request(r))
  BY DEF Retry
<1>3. proc[r] \in Proc /\ proc[r].run \in Nat
  BY ProcFacts
<1>4. /\ p.run = proc[r].run /\ p.pc = proc[r].pc
      /\ p.ctx = proc[r].ctx /\ p.held = proc[r].held
  BY <1>3 DEF Proc
<1>5. KindOf(c) = proc[r].pc /\ RunOf(c) = proc[r].run /\ RunnerOf(c) = r
  BY DEF KindOf, RunOf, RunnerOf
<1> HIDE DEF p, c
<1>6. Leads(proc[r], p)
  BY <1>1, <1>3, <1>4 DEF Leads
<1>7. BackedCalls(graph, fate, proc', left)
  BY <1>1, <1>3, <1>4, <1>6, BackedMoves, BackedLeft
<1>8. BackedCall(graph, fate, proc'[r], c, Request(r))
  <2>1. proc'[r] = p
    BY <1>1 DEF IInv, ClientTypeOK
  <2>2. Request(r).phase = "wire"
    BY DEF Request, PreCall, PostCall
  <2>3. proc[r].pc = "post" => Request(r).id = proc[r].ctx
    BY DEF Request, PreCall, PostCall
  <2> QED
    BY <1>1, <1>3, <1>4, <1>5, <2>1, <2>2, <2>3 DEF BackedCall, Told
<1>9. BackedCalls(graph, fate, proc', calls')
  BY <1>2, <1>5, <1>7, <1>8, BackedOneComes
<1>10. BackedProc(graph, fate, files, r, p)
  BY <1>4 DEF BackedInv, BackedProcs, BackedProc
<1>11. BackedProcs(graph, fate, files, proc')
  BY <1>1, <1>10, BackedOthers
<1> QED
  BY <1>1, <1>9, <1>11 DEF BackedInv

LEMMA BackedAdopt ==
  ASSUME IInv, BackedInv, NEW r \in Runner, Adopt(r), graph' = graph
  PROVE  BackedInv'
<1> DEFINE id == AnswerOf(r).id
           p  == [Resting(proc[r].run) EXCEPT !.pc = "train", !.ctx = id]
           state == [ident |-> SavedIdentity(r), status |-> "RUNNING"]
<1>1. /\ files' = [files EXCEPT ![Dir(r)] = state]
      /\ fate' = [e \in DOMAIN fate \cup {id} |-> IF e = id THEN "RUNNING" ELSE fate[e]]
      /\ proc' = [proc EXCEPT ![r] = p]
      /\ calls' = Without(calls, CurrentCall(r))
      /\ proc[r].pc = "pre"
  BY DEF Adopt
<1>2. id \notin DOMAIN fate
  BY AdoptFacts
<1>3. proc[r].run \in Nat /\ Dir(r) \in Project
  BY ProcFacts
<1>4. p.pc = "train" /\ p.ctx = id /\ p.run = proc[r].run
  BY DEF Resting
<1>5. state.ident.id = id /\ state.status \notin Outcome
  BY DEF SavedIdentity, Outcome
<1> HIDE DEF p, state, id
<1>6. \A q \in Runner : proc[q].pc \in {"post", "save"} => fate'[proc[q].ctx] = fate[proc[q].ctx]
  BY <1>1, <1>2, ProcFacts DEF ProcOK
<1>7. Leads(proc[r], p)
  BY <1>1, <1>3, <1>4 DEF Leads
<1>8. BackedCalls(graph, fate', proc', calls')
  BY <1>1, <1>3, <1>4, <1>6, <1>7, BackedMoves, BackedOneGoes
<1>9. /\ files'[Dir(r)] = state
      /\ \A q \in Project : q # Dir(r) => files'[q] = files[q]
  BY <1>1, <1>3 DEF IInv, ClientTypeOK
<1>10. BackedProc(graph, fate', files', r, p)
  BY <1>4, <1>5, <1>9 DEF BackedProc
<1>11. BackedProcs(graph, fate', files', proc')
  BY <1>1, <1>6, <1>9, <1>10, BackedOthers
<1>12. BackedFiles(graph, files')
  BY <1>5, <1>9 DEF BackedInv, BackedFiles
<1> QED
  BY <1>8, <1>11, <1>12 DEF BackedInv

LEMMA BackedFinish ==
  ASSUME IInv, BackedInv, NEW r \in Runner, NEW outcome \in Outcome,
         FinishTraining(r, outcome), graph' = graph
  PROVE  BackedInv'
<1> DEFINE ctx  == proc[r].ctx
           p    == [proc[r] EXCEPT !.pc = "post"]
           c    == <<r, proc[r].run, "post", 0>>
           call == PostCall(ctx, outcome)
<1>1. /\ proc[r].pc = "train" /\ fate' = [fate EXCEPT ![ctx] = outcome]
      /\ proc' = [proc EXCEPT ![r] = p] /\ calls' = With(calls, c, call)
      /\ files' = files
  BY DEF FinishTraining
<1>2. proc[r] \in Proc /\ proc[r].run \in Nat /\ ProcOK(graph, fate, r, proc[r])
  BY ProcFacts
<1>3. p.pc = "post" /\ p.run = proc[r].run /\ p.ctx = ctx
  BY <1>2 DEF Proc
<1>4. KindOf(c) = "post" /\ RunOf(c) = proc[r].run /\ RunnerOf(c) = r
  BY DEF KindOf, RunOf, RunnerOf
<1>5. call.phase = "wire" /\ call.id = ctx
  BY DEF PostCall, PreCall
<1> HIDE DEF p, c, call
<1>6. \A q \in Runner : q # r /\ proc[q].pc \in {"post", "save"} =>
        fate'[proc[q].ctx] = fate[proc[q].ctx]
  BY <1>1, <1>2, ProcFacts DEF ProcOK
<1> HIDE DEF ctx
<1>7. Leads(proc[r], p)
  BY <1>1, <1>2, <1>3 DEF Leads
<1>8. BackedCalls(graph, fate', proc', calls)
  BY <1>1, <1>2, <1>3, <1>6, <1>7, BackedMoves
<1>9. BackedCall(graph, fate', proc'[r], c, call)
  <2>1. proc'[r] = p
    BY <1>1 DEF IInv, ClientTypeOK
  <2> QED
    BY <1>2, <1>3, <1>4, <1>5, <2>1 DEF BackedCall, Told
<1>10. BackedCalls(graph, fate', proc', calls')
  BY <1>1, <1>4, <1>8, <1>9, BackedOneComes
<1>11. BackedProc(graph, fate', files, r, p)
  BY <1>1, <1>3 DEF BackedInv, BackedProcs, BackedProc, ctx
<1>12. BackedProcs(graph, fate', files, proc')
  BY <1>1, <1>6, <1>11, BackedOthers
<1> QED
  BY <1>1, <1>10, <1>12 DEF BackedInv

(* The answer of 200 tells that the graph has the status: so what is read  *)
(* from the file now may be saved with it.                                 *)
LEMMA BackedAcknowledged ==
  ASSUME IInv, BackedInv, NEW r \in Runner, Acknowledged(r), graph' = graph
  PROVE  BackedInv'
<1> DEFINE p == [proc[r] EXCEPT !.pc = "save", !.held = files[Dir(r)]]
           c == CurrentCall(r)
<1>1. /\ proc' = [proc EXCEPT ![r] = p]
      /\ calls' = Without(calls, c) /\ files' = files /\ fate' = fate
      /\ proc[r].pc = "post" /\ c \in DOMAIN calls /\ Told(calls[c])
  <2>1. proc' = [proc EXCEPT ![r].pc = "save", ![r].held = files[Dir(r)]]
    BY DEF Acknowledged
  <2>2. [proc EXCEPT ![r].pc = "save", ![r].held = files[Dir(r)]] = [proc EXCEPT ![r] = p]
    BY DEF IInv, ClientTypeOK, Proc
  <2> HIDE DEF p
  <2> QED
    BY <2>1, <2>2 DEF Acknowledged, Answered, AnswerOf, Told
<1>2. proc[r] \in Proc /\ proc[r].run \in Nat
  BY ProcFacts
<1>3. p.pc = "save" /\ p.run = proc[r].run /\ p.ctx = proc[r].ctx /\ p.held = files[Dir(r)]
  BY <1>2 DEF Proc
<1>4. KindOf(c) = "post" /\ RunOf(c) = proc[r].run /\ RunnerOf(c) = r
  BY <1>1 DEF CurrentCall, KindOf, RunOf, RunnerOf
<1> HIDE DEF p, c
<1>5. graph[proc[r].ctx].status = fate[proc[r].ctx]
  BY <1>1, <1>4 DEF BackedInv, BackedCalls, BackedCall
<1>6. Leads(proc[r], p)
  BY <1>2, <1>3 DEF Leads
<1>7. BackedCalls(graph, fate, proc', calls')
  BY <1>1, <1>2, <1>3, <1>6, BackedMoves, BackedOneGoes
<1>8. BackedProc(graph, fate, files, r, p)
  BY <1>1, <1>3, <1>5 DEF BackedInv, BackedProcs, BackedProc
<1>9. BackedProcs(graph, fate, files, proc')
  BY <1>1, <1>8, BackedOthers
<1> QED
  BY <1>1, <1>7, <1>9 DEF BackedInv

LEMMA BackedSave ==
  ASSUME IInv, BackedInv, NEW r \in Runner, SaveStatus(r), graph' = graph
  PROVE  BackedInv'
<1> DEFINE state == [proc[r].held EXCEPT !.status = fate[proc[r].ctx]]
<1>1. /\ files' = [files EXCEPT ![Dir(r)] = state] /\ Ended(r)
      /\ calls' = calls /\ fate' = fate /\ proc[r].pc = "save"
  BY DEF SaveStatus
<1>2. proc[r].held \in LocalState /\ Dir(r) \in Project /\ ProcOK(graph, fate, r, proc[r])
  BY ProcFacts DEF Proc
<1>3. state.ident = proc[r].held.ident /\ state.status = fate[proc[r].ctx]
  BY <1>2 DEF LocalState
<1> HIDE DEF state
<1>4. /\ files'[Dir(r)] = state
      /\ \A q \in Project : q # Dir(r) => files'[q] = files[q]
  BY <1>1, <1>2 DEF IInv, ClientTypeOK
<1>5. BackedProc(graph, fate, files, r, proc[r]) /\ BackedFiles(graph, files)
  BY DEF BackedInv, BackedProcs
<1>6. BackedFiles(graph, files')
  BY <1>1, <1>2, <1>3, <1>4, <1>5 DEF BackedFiles, BackedProc, ProcOK
<1> QED
  BY <1>1, <1>4, <1>6, BackedEnds

LEMMA BackedClient ==
  ASSUME IInv, BackedInv, ClientStep
  PROVE  BackedInv'
<1>1. graph' = graph /\ BackedFiles(graph, files)
  BY DEF ClientStep, graphVars, BackedInv
<1>2. ASSUME NEW r \in Runner, Refused(r) \/ Unacknowledged(r)
      PROVE  BackedInv'
  <2>1. /\ Ended(r) \/ Untracked(r)
        /\ calls' = Without(calls, CurrentCall(r)) /\ files' = files /\ fate' = fate
    BY <1>2 DEF Refused, Unacknowledged, PreFailed
  <2>2. BackedCalls(graph, fate, proc', calls) => BackedCalls(graph, fate, proc', calls')
    BY <2>1, BackedOneGoes
  <2> QED
    BY <1>1, <2>1, <2>2, BackedEnds
<1>3. ASSUME NEW r \in Runner, GiveUp(r) \/ Killed(r)
      PROVE  BackedInv'
  <2>1. /\ Ended(r) \/ Untracked(r)
        /\ files' = files /\ fate' = fate
        /\ \/ calls' \in OtherErrors(CurrentCall(r))
           \/ calls' \in ConnectionErrors(CurrentCall(r))
           \/ calls' \in HungUp(CurrentCall(r))
    BY <1>3 DEF GiveUp, Killed, PreFailed
  <2>2. BackedCalls(graph, fate, proc', calls) => BackedCalls(graph, fate, proc', calls')
    BY <2>1, BackedLeft
  <2> QED
    BY <1>1, <2>1, <2>2, BackedEnds
<1>4. ASSUME NEW r \in Runner, LaunchUnsent(r) \/ FinishUntracked(r)
      PROVE  BackedInv'
  <2>1. (Ended(r) \/ Untracked(r)) /\ calls' = calls /\ files' = files /\ fate' = fate
    BY <1>4 DEF LaunchUnsent, FinishUntracked
  <2> QED
    BY <1>1, <2>1, BackedEnds
<1>5. ASSUME NEW r \in Runner, Resolve(r)
      PROVE  BackedInv'
  BY <1>1, <1>2, <1>3, <1>5, BackedAdopt, BackedAcknowledged, BackedRetry DEF Resolve
<1> QED
  BY <1>1, <1>2, <1>3, <1>4, <1>5, BackedLaunch, BackedFinish, BackedSave
     DEF ClientStep, ClientNext

(* In a directory of its own a project never says of its last run that it  *)
(* ended otherwise than the graph says: whatever was retried, answered     *)
(* late or lost (client.py, post_execution).                               *)
THEOREM StatusBacked == Spec => []LocalStatusBacked
<1>1. Init => BackedInv
  <2> SUFFICES ASSUME Init PROVE BackedInv
    OBVIOUS
  <2>1. /\ calls = <<>> /\ proc = [r \in Runner |-> Resting(0)]
        /\ files = [p \in Project |-> VirginState]
    BY DEF Init, WireInit, ClientInit
  <2>2. DOMAIN calls = {}
    BY <2>1
  <2>3. /\ \A r \in Runner : proc[r].pc = "idle"
        /\ \A p \in Project : files[p].status \notin Outcome
    BY <2>1 DEF Resting, VirginState, Outcome
  <2> QED
    BY <2>2, <2>3 DEF BackedInv, BackedCalls, BackedProcs, BackedProc, BackedFiles
<1>2. IInv /\ BackedInv /\ [Next]_vars => BackedInv'
  <2>1. CASE IInv /\ BackedInv /\ Next
    BY <2>1, BackedServer, BackedClient DEF Next
  <2>2. CASE BackedInv /\ UNCHANGED vars
    BY <2>2 DEF BackedInv, BackedCalls, BackedProcs, BackedFiles,
                vars, clientVars, graphVars
  <2> QED
    BY <2>1, <2>2
<1>3. BackedInv => LocalStatusBacked
  BY DEF BackedInv, BackedFiles, LocalStatusBacked, Exists
<1> QED
  BY <1>1, <1>2, <1>3, Invariance, PTL DEF Spec
=============================================================================
