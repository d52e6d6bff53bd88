---------------------------- MODULE LineageClient ----------------------------
(***************************************************************************)
(* The client SDK: a training function under the @lineage_tracker          *)
(* decorator (tracker.py), its LineageClient (http/client.py), and the     *)
(* .lineage/experiment.yml of the project directory it runs in.            *)
(*                                                                         *)
(* A runner is a process slot: it launches one run after the other.        *)
(***************************************************************************)
EXTENDS LineageWire

VARIABLES
  proc,   \* the runners' processes
  files,  \* the experiment block of each project's .lineage/experiment.yml
  fate    \* history: of every experiment some run adopted, what that run
          \* has to say of it ("RUNNING" until its training ends)

clientVars == <<proc, files, fate>>

(* "pre", "post": waiting for the answer to an attempt; "train": tracked;  *)
(* "bare": training without tracking; "save": between the read and the     *)
(* write of experiment.yml that follow a POST.                             *)
Pc == {"idle", "pre", "train", "bare", "post", "save"}

Proc == [pc : Pc, run : Nat, attempt : Nat, ident : Identity,
         snap : Snapshot \cup {Garbled}, ctx : Nat, held : LocalState]

Resting(run) ==
  [pc |-> "idle", run |-> run, attempt |-> 0, ident |-> NoIdentity,
   snap |-> Garbled, ctx |-> 0, held |-> VirginState]

ClientInit ==
  /\ proc = [r \in Runner |-> Resting(0)]
  /\ files = [p \in Project |-> VirginState]
  /\ fate = <<>>

ClientTypeOK ==
  /\ proc \in [Runner -> Proc]
  /\ files \in [Project -> LocalState]
  /\ DOMAIN fate \subseteq Nat
  /\ \A e \in DOMAIN fate : fate[e] \in Status

Dir(r) == ProjectOf[r]

IsBlockingRunner(r) == Dir(r) \in Blocking

-----------------------------------------------------------------------------
(* Process states *)

(* The process ends: its function returned, it raised or called sys.exit.  *)
Ended(r) == proc' = [proc EXCEPT ![r] = Resting(@.run)]

(* pre_execution returned None: the function runs without a context.       *)
Untracked(r) == proc' = [proc EXCEPT ![r] = [Resting(@.run) EXCEPT !.pc = "bare"]]

(* PRE failed for good: exit with a code, or go on untracked.              *)
PreFailed(r) == IF IsBlockingRunner(r) THEN Ended(r) ELSE Untracked(r)

(* The attempt in progress, and the call that stands for it.               *)
Awaiting(r) == proc[r].pc \in {"pre", "post"}

CurrentCall(r) == <<r, proc[r].run, proc[r].pc, proc[r].attempt>>

Answered(r) ==
  /\ Awaiting(r)
  /\ CurrentCall(r) \in DOMAIN calls
  /\ calls[CurrentCall(r)].phase = "answered"

AnswerOf(r) == calls[CurrentCall(r)].answer

(* What may be left of the calls when the client stops waiting for c: a    *)
(* request not read yet never arrives, or is read although nobody waits    *)
(* for it; a handler at work goes on; an answer under way is lost.         *)
HungUp(c) ==
  LET forgotten == {Without(calls, c)}
      orphaned  == {[calls EXCEPT ![c].open = FALSE]}
  IN  IF c \notin DOMAIN calls THEN {calls}
      ELSE CASE calls[c].phase = "wire"     -> forgotten \cup orphaned
             [] calls[c].phase = "answered" -> forgotten
             [] OTHER                       -> orphaned

(* ... after the errors that become ConnectionError: ConnectError, for a   *)
(* request the server never sees, and TimeoutException.                    *)
ConnectionErrors(c) ==
  {left \in {Without(calls, c)} : /\ "refused" \in Faults
                                 /\ c \in DOMAIN calls
                                 /\ calls[c].phase = "wire"}
    \cup {left \in HungUp(c) : "timeout" \in Faults}

(* ... and after the others: ReadError, also when the server died, a       *)
(* malformed response, a failed write of experiment.yml.                   *)
OtherErrors(c) == {left \in HungUp(c) : "broken" \in Faults}

-----------------------------------------------------------------------------
(* PRE *)

(* _get_merged_config, capture_codebase, first send_pre.                   *)
Launch(r, snap) ==
  LET ident == IF Dir(r) \in Orchestrated THEN NoIdentity ELSE files[Dir(r)].ident
      run   == proc[r].run + 1
  IN
  /\ proc[r].pc = "idle"
  /\ proc[r].run < MaxRuns
  /\ proc' = [proc EXCEPT ![r] = [Resting(run) EXCEPT
                !.pc = "pre", !.ident = ident, !.snap = snap]]
  /\ calls' = With(calls, <<r, run, "pre", 0>>, PreCall(ident, snap))
  /\ UNCHANGED <<files, fate>>

(* An error before anything is sent, and blocking is off.  (Exits 4, 7, 8, *)
(* before anything is sent, leave no trace: the process is idle again.)    *)
LaunchUnsent(r) ==
  /\ proc[r].pc = "idle"
  /\ ~IsBlockingRunner(r)
  /\ Untracked(r)
  /\ UNCHANGED <<calls, files, fate>>

(* Mutant: the previous experiment is the one in the file by now.          *)
SavedOverFile(r) ==
  [id |-> AnswerOf(r).id, prev |-> files[Dir(r)].ident.id,
   baseId |-> AnswerOf(r).baseId, base |-> AnswerOf(r).base]

(* The identity of the response; the previous experiment is the one the    *)
(* request named.                                                          *)
SavedIdentity(r) ==
  [id |-> AnswerOf(r).id, prev |-> proc[r].ident.id,
   baseId |-> AnswerOf(r).baseId, base |-> AnswerOf(r).base]

(* It becomes the project's, over whatever is in the file by now.          *)
Adopt(r) ==
  LET id == AnswerOf(r).id IN
  /\ proc[r].pc = "pre"
  /\ Answered(r)
  /\ AnswerOf(r).code = 200
  /\ files' = [files EXCEPT ![Dir(r)] =
                [ident |-> SavedIdentity(r), status |-> "RUNNING"]]
  /\ fate' = [e \in DOMAIN fate \cup {id} |-> IF e = id THEN "RUNNING" ELSE fate[e]]
  /\ proc' = [proc EXCEPT ![r] = [Resting(@.run) EXCEPT !.pc = "train", !.ctx = id]]
  /\ calls' = Without(calls, CurrentCall(r))

(* ServerError: 409 and 422 always end the process (exits 7 and 6).        *)
Refused(r) ==
  /\ proc[r].pc = "pre"
  /\ Answered(r)
  /\ AnswerOf(r).code # 200
  /\ IF AnswerOf(r).code \in {409, 422} THEN Ended(r) ELSE PreFailed(r)
  /\ calls' = Without(calls, CurrentCall(r))
  /\ UNCHANGED <<files, fate>>

-----------------------------------------------------------------------------
(* The training function *)

(* It returns or raises; POST tells the server which.                      *)
FinishTraining(r, outcome) ==
  LET p == proc[r] IN
  /\ p.pc = "train"
  /\ fate' = [fate EXCEPT ![p.ctx] = outcome]
  /\ proc' = [proc EXCEPT ![r].pc = "post"]
  /\ calls' = With(calls, <<r, p.run, "post", 0>>, PostCall(p.ctx, outcome))
  /\ UNCHANGED files

FinishUntracked(r) ==
  /\ proc[r].pc = "bare"
  /\ Ended(r)
  /\ UNCHANGED <<calls, files, fate>>

(* SIGKILL, KeyboardInterrupt, sys.exit inside the function: no POST.      *)
Killed(r) ==
  /\ "killed" \in Faults
  /\ proc[r].pc # "idle"
  /\ Ended(r)
  /\ calls' \in HungUp(CurrentCall(r))
  /\ UNCHANGED <<files, fate>>

-----------------------------------------------------------------------------
(* POST *)

(* _load_experiment_data after the acknowledgement.                        *)
Acknowledged(r) ==
  /\ proc[r].pc = "post"
  /\ Answered(r)
  /\ AnswerOf(r).code = 200
  /\ proc' = [proc EXCEPT ![r].pc = "save", ![r].held = files[Dir(r)]]
  /\ calls' = Without(calls, CurrentCall(r))
  /\ UNCHANGED <<files, fate>>

(* _save_experiment_yml of what was read, with the status changed.         *)
SaveStatus(r) ==
  /\ proc[r].pc = "save"
  /\ files' = [files EXCEPT ![Dir(r)] =
                [proc[r].held EXCEPT !.status = fate[proc[r].ctx]]]
  /\ Ended(r)
  /\ UNCHANGED <<calls, fate>>

(* Every error of POST is only logged.                                     *)
Unacknowledged(r) ==
  /\ proc[r].pc = "post"
  /\ Answered(r)
  /\ AnswerOf(r).code # 200
  /\ Ended(r)
  /\ calls' = Without(calls, CurrentCall(r))
  /\ UNCHANGED <<files, fate>>

-----------------------------------------------------------------------------
(* _retry *)

(* Mutant: an error of POST is itself reported as a failed training.       *)
RequestFailed(r) ==
  IF proc[r].pc = "pre" THEN PreCall(proc[r].ident, proc[r].snap)
  ELSE PostCall(proc[r].ctx, "FAILED")

(* The same payload again.                                                 *)
Request(r) ==
  IF proc[r].pc = "pre" THEN PreCall(proc[r].ident, proc[r].snap)
  ELSE PostCall(proc[r].ctx, fate[proc[r].ctx])

(* Mutant: the attempts are not counted.                                   *)
RetryForever(r) ==
  /\ Awaiting(r)
  /\ proc[r].attempt < Retries
  /\ \E left \in ConnectionErrors(CurrentCall(r)) :
       calls' = With(left, CurrentCall(r), Request(r))
  /\ UNCHANGED <<proc, files, fate>>

(* ConnectError or TimeoutException of an attempt, with attempts left.     *)
Retry(r) ==
  /\ Awaiting(r)
  /\ proc[r].attempt < Retries
  /\ proc' = [proc EXCEPT ![r].attempt = @ + 1]
  /\ \E left \in ConnectionErrors(CurrentCall(r)) :
       calls' = With(left, <<r, proc[r].run, proc[r].pc, proc[r].attempt + 1>>, Request(r))
  /\ UNCHANGED <<files, fate>>

(* The last attempt failed that way, or any attempt failed another way.    *)
GiveUp(r) ==
  LET c == CurrentCall(r) IN
  /\ Awaiting(r)
  /\ IF proc[r].pc = "pre" THEN PreFailed(r) ELSE Ended(r)
  /\ calls' \in OtherErrors(c)
       \cup {left \in ConnectionErrors(c) : proc[r].attempt = Retries}
  /\ UNCHANGED <<files, fate>>

-----------------------------------------------------------------------------
(* The client makes something of the attempt it waits for.                 *)
Resolve(r) ==
  \/ Adopt(r)
  \/ Refused(r)
  \/ Acknowledged(r)
  \/ Unacknowledged(r)
  \/ Retry(r)
  \/ GiveUp(r)

ClientNext ==
  \E r \in Runner :
    \/ \E snap \in Snapshot : Launch(r, snap)
    \/ LaunchUnsent(r)
    \/ Resolve(r)
    \/ \E outcome \in Outcome : FinishTraining(r, outcome)
    \/ FinishUntracked(r)
    \/ SaveStatus(r)
    \/ Killed(r)
=============================================================================
