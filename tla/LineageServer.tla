---------------------------- MODULE LineageServer ----------------------------
(***************************************************************************)
(* The lineage server: app.py dispatching to TrainingRunHandler, whose     *)
(* every database access goes through TrainingRepository._run_sync.        *)
(*                                                                         *)
(* The handlers are synchronous between queries, and a query re-enters the *)
(* one event loop (nest_asyncio).  While a handler waits for its query a   *)
(* new request can start, nested inside it, and the outer handler goes on  *)
(* only when every handler nested in it has answered.  "nest" is that      *)
(* stack of handlers.  A handler that is not on top may still have the     *)
(* query it had issued executed by the database, but issues no other.      *)
(***************************************************************************)
EXTENDS ExperimentGraph, LineageWire

VARIABLE nest

serverVars == <<nest>>

ServerInit == nest = <<>>

ServerTypeOK == nest \in Seq(CallId)

OnTop(c) == nest # <<>> /\ nest[Len(nest)] = c

(* The handler of c has its query's result and moves on to the next one.   *)
Proceed(c, call) == calls' = [calls EXCEPT ![c] = [call EXCEPT !.issued = OnTop(c)]]

GoTo(c, phase) == Proceed(c, [calls[c] EXCEPT !.phase = phase])

(* ... or with nothing left to do but to answer.                           *)
Done(open, answer) ==
  [PreCall(NoIdentity, Garbled) EXCEPT
     !.phase = "reply", !.open = open, !.answer = answer]

AnswerWith(c, answer) == Proceed(c, Done(calls[c].open, answer))

(* The query of c that the database executes now is this one.              *)
Executing(c, phase) == c \in DOMAIN calls /\ calls[c].phase = phase /\ calls[c].issued

-----------------------------------------------------------------------------
(* Dispatch *)

InDomain(c) == ProjectOf[RunnerOf(c)] \in Training

(* Mutant: the server goes by the default of its schema.                   *)
NeverBlocking(c) == FALSE

IsBlocking(c) == ProjectOf[RunnerOf(c)] \in Blocking

IsNew(ident) == ident.id = 0 /\ ~ident.base

FirstPhase(c) ==
  LET ident == calls[c].ident IN
  IF KindOf(c) = "post"    THEN "update"
  ELSE IF IsNew(ident)     THEN "create"
  ELSE IF ident.prev # 0   THEN "previous"
                           ELSE "model"

Started(c) ==
  [calls[c] EXCEPT !.phase = FirstPhase(c), !.issued = TRUE,
                   !.strategy = IF KindOf(c) = "pre" /\ IsNew(calls[c].ident)
                                THEN "NEW" ELSE calls[c].strategy]

Unsupported(c) == [Done(calls[c].open, Refusal(422)) EXCEPT !.issued = TRUE]

(* pre_execution / post_execution: a request is read, its handler resolved *)
(* (422 for a domain nobody registered) and started.                       *)
Accept(c) ==
  /\ c \in DOMAIN calls
  /\ calls[c].phase = "wire"
  /\ Len(nest) < MaxNest
  /\ nest' = Append(nest, c)
  /\ calls' = [calls EXCEPT ![c] = IF InDomain(c) THEN Started(c) ELSE Unsupported(c)]
  /\ UNCHANGED graphVars

-----------------------------------------------------------------------------
(* detect_strategy *)

(* find_experiment_by_id(previous_experiment_id): the experiment before    *)
(* the one the client last ran.                                            *)
ReadPrevious(c) ==
  LET prev == calls[c].ident.prev IN
  /\ Executing(c, "previous")
  /\ Proceed(c, [calls[c] EXCEPT !.phase = "model",
                   !.prevSnap = IF Exists(prev) THEN graph[prev].snap ELSE Garbled])
  /\ UNCHANGED <<graphVars, nest>>

(* Mutant: only the uris are compared.                                     *)
PreviousUriMismatch(call) ==
  /\ call.prevSnap # Garbled
  /\ UriOf[call.snap] # NoUri
  /\ UriOf[call.snap] # UriOf[call.prevSnap]

(* The request's model against the previous experiment's; a request        *)
(* without a uri is compared by name only.                                 *)
PreviousMismatch(call) ==
  /\ call.prevSnap # Garbled
  /\ \/ ModelOf[call.snap] # ModelOf[call.prevSnap]
     \/ /\ UriOf[call.snap] # NoUri
        /\ UriOf[call.snap] # UriOf[call.prevSnap]

ModelMismatch(call) == PreviousMismatch(call) \/ CatalogMismatch(call.snap)

(* ModelIdMismatchError: 409.                                              *)
RefuseModelSwitch(c) ==
  /\ Executing(c, "model")
  /\ ModelMismatch(calls[c])
  /\ IsBlocking(c)
  /\ AnswerWith(c, Refusal(409))
  /\ UNCHANGED <<graphVars, nest>>

SwitchModel(c) ==
  /\ Executing(c, "model")
  /\ ModelMismatch(calls[c])
  /\ ~IsBlocking(c)
  /\ Proceed(c, [calls[c] EXCEPT !.phase = "resume", !.strategy = "RESUME"])
  /\ UNCHANGED <<graphVars, nest>>

KeepModel(c) ==
  /\ Executing(c, "model")
  /\ ~ModelMismatch(calls[c])
  /\ GoTo(c, "compare")
  /\ UNCHANGED <<graphVars, nest>>

(* Mutant: compared with the experiment of the model check.                *)
CompareWithPrevious(c) ==
  LET call == calls[c] IN
  /\ Executing(c, "compare")
  /\ IF Exists(call.ident.id)
     THEN Proceed(c, [call EXCEPT !.phase = "create", !.from = call.prevSnap,
                        !.strategy = IF call.prevSnap = call.snap THEN "RETRY" ELSE "BRANCH"])
     ELSE AnswerWith(c, Refusal(500))
  /\ UNCHANGED <<graphVars, nest>>

(* RETRY or BRANCH, by the codebase of the experiment the client last ran; *)
(* both branches of the code (it is a base, it is not) read that one node. *)
CompareCodebase(c) ==
  LET call == calls[c]
      old  == ReconstructedCodebase(call.ident.id)
  IN
  /\ Executing(c, "compare")
  /\ IF Exists(call.ident.id)
     THEN Proceed(c, [call EXCEPT !.phase = "create", !.from = old,
                        !.strategy = IF old = call.snap THEN "RETRY" ELSE "BRANCH"])
     ELSE AnswerWith(c, Refusal(500))
  /\ UNCHANGED <<graphVars, nest>>

-----------------------------------------------------------------------------
(* create_experiment_nodes *)

(* RESUME: a Model of that name already there needs no promotion.          *)
LookForModel(c) ==
  LET snap == calls[c].snap IN
  /\ Executing(c, "resume")
  /\ GoTo(c, IF ModelOf[snap] \notin DOMAIN models /\ UriOf[snap] # NoUri
             THEN "promote" ELSE "create")
  /\ UNCHANGED <<graphVars, nest>>

(* A transaction of its own, before the one that creates the experiment;   *)
(* its failure is swallowed.                                               *)
PromoteToModel(c) ==
  LET snap == calls[c].snap IN
  /\ Executing(c, "promote")
  /\ PromoteCheckpoint(ModelOf[snap], UriOf[snap])
  /\ GoTo(c, "create")
  /\ UNCHANGED <<graph, nest>>

(* Mutant: a RETRY is answered with the experiment it retries.             *)
CreatedInPlace(c, id) ==
  LET call == calls[c]
      base == IsBase(call.strategy)
  IN  [code |-> 200, id |-> IF call.strategy = "RETRY" THEN call.ident.id ELSE id,
       base |-> base,
       baseId |-> IF base THEN id
                  ELSE IF call.ident.baseId # 0 THEN call.ident.baseId
                  ELSE call.ident.prev]

(* What the handler puts in the PreResponse.  A request of a known         *)
(* experiment without a base id falls back on the previous experiment.     *)
Created(c, id) ==
  LET call == calls[c]
      base == IsBase(call.strategy)
  IN  [code |-> 200, id |-> id, base |-> base,
       baseId |-> IF base THEN id
                  ELSE IF call.ident.baseId # 0 THEN call.ident.baseId
                  ELSE call.ident.prev]

CanCreate(call) ==
  IF IsBase(call.strategy) THEN ModelOf[call.snap] \in DOMAIN models
                           ELSE Exists(call.ident.id)

CreateNode(c) ==
  LET call == calls[c] IN
  IF IsBase(call.strategy)
  THEN CreateBaseExperiment(call.snap, call.strategy, c)
  ELSE CreateNonBaseExperiment(call.snap, call.from, call.ident.id, call.strategy, c)

CreateExperiment(c) ==
  /\ Executing(c, "create")
  /\ CanCreate(calls[c])
  /\ CreateNode(c)
  /\ AnswerWith(c, Created(c, NewId))
  /\ UNCHANGED <<models, nest>>

(* The MATCH of the creation query finds nothing: ValueError, 500.         *)
FailToCreate(c) ==
  /\ Executing(c, "create")
  /\ ~CanCreate(calls[c])
  /\ AnswerWith(c, Refusal(500))
  /\ UNCHANGED <<graphVars, nest>>

-----------------------------------------------------------------------------
(* resolve_post *)

(* The status is set first, without a look at the one it replaces.         *)
SetStatus(c) ==
  /\ Executing(c, "update")
  /\ UpdateExperimentStatus(calls[c].id, calls[c].status)
  /\ GoTo(c, "find")
  /\ UNCHANGED <<models, nest>>

ConfirmStatus(c) ==
  /\ Executing(c, "find")
  /\ AnswerWith(c, Refusal(IF Exists(calls[c].id) THEN 200 ELSE 422))
  /\ UNCHANGED <<graphVars, nest>>

-----------------------------------------------------------------------------
(* Answers and failures *)

(* Mutant: it never does.                                                  *)
NotResumed(cs, stack) == cs

(* The handler under a finished one may issue its next query.              *)
Resumed(cs, stack) ==
  IF stack = <<>> THEN cs ELSE [cs EXCEPT ![stack[Len(stack)]].issued = TRUE]

(* The response goes out; nobody reads it when the client has hung up.     *)
Reply(c) ==
  /\ Executing(c, "reply")
  /\ OnTop(c)
  /\ nest' = SubSeq(nest, 1, Len(nest) - 1)
  /\ calls' = Resumed(IF calls[c].open
                      THEN [calls EXCEPT ![c].phase = "answered", ![c].issued = FALSE]
                      ELSE Without(calls, c), nest')
  /\ UNCHANGED graphVars

(* The driver raises before the query took effect: 500, save that a failed *)
(* promotion is only logged.                                               *)
DbFails(c) ==
  /\ "database" \in Faults
  /\ \E phase \in DbPhase : Executing(c, phase)
  /\ IF calls[c].phase = "promote" THEN GoTo(c, "create")
                                   ELSE AnswerWith(c, Refusal(500))
  /\ UNCHANGED <<graphVars, nest>>

(* The driver raises after the creation was committed: 500 all the same.   *)
CreationUnconfirmed(c) ==
  /\ "database" \in Faults
  /\ Executing(c, "create")
  /\ CanCreate(calls[c])
  /\ CreateNode(c)
  /\ AnswerWith(c, Refusal(500))
  /\ UNCHANGED <<models, nest>>

(* The process dies and is started again: its handlers are gone, what they *)
(* committed stays.                                                        *)
Crash ==
  /\ "crash" \in Faults
  /\ nest # <<>>
  /\ nest' = <<>>
  /\ calls' = [c \in {d \in DOMAIN calls : calls[d].phase \in {"wire", "answered"}}
                 |-> calls[c]]
  /\ UNCHANGED graphVars

-----------------------------------------------------------------------------
(* One step of the handler of c when nothing fails.                        *)
Handle(c) ==
  \/ Accept(c)
  \/ ReadPrevious(c)
  \/ RefuseModelSwitch(c)
  \/ SwitchModel(c)
  \/ KeepModel(c)
  \/ CompareCodebase(c)
  \/ LookForModel(c)
  \/ PromoteToModel(c)
  \/ CreateExperiment(c)
  \/ FailToCreate(c)
  \/ SetStatus(c)
  \/ ConfirmStatus(c)
  \/ Reply(c)

ServerNext ==
  \/ \E c \in DOMAIN calls : Handle(c) \/ DbFails(c) \/ CreationUnconfirmed(c)
  \/ Crash
=============================================================================
