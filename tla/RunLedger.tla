------------------------------ MODULE RunLedger ------------------------------
(***************************************************************************)
(* What the lineage system promises about runs, without a wire, a server   *)
(* or a retry: a ledger of runs that only grows, in which a run hangs off  *)
(* an earlier one or off none; every run of the ledger is carried out by   *)
(* at most one worker, once; and a run is closed at most once, with what   *)
(* the worker that carried it out reported.                                *)
(* Runs nobody carries out (left by retries) are allowed; they stay open.  *)
(***************************************************************************)
EXTENDS Integers, Sequences

CONSTANTS Worker, Outcome

VARIABLES
  runs,    \* the ledger: [parent, status] of run 1, 2, ...
  report,  \* run -> "RUNNING" while carried out, then the outcome reported
  holds    \* the run each worker carries out, 0 for none

ledgerVars == <<runs, report, holds>>

Init ==
  /\ runs = <<>>
  /\ report = <<>>
  /\ holds = [w \in Worker |-> 0]

Register(parent) ==
  /\ parent \in 0 .. Len(runs)
  /\ runs' = Append(runs, [parent |-> parent, status |-> "RUNNING"])
  /\ UNCHANGED <<report, holds>>

Take(w, n) ==
  /\ holds[w] = 0
  /\ n \in DOMAIN runs
  /\ n \notin DOMAIN report
  /\ holds' = [holds EXCEPT ![w] = n]
  /\ report' = [m \in DOMAIN report \cup {n} |->
                  IF m = n THEN "RUNNING" ELSE report[m]]
  /\ UNCHANGED runs

Report(w, outcome) ==
  /\ holds[w] # 0
  /\ report[holds[w]] = "RUNNING"
  /\ report' = [report EXCEPT ![holds[w]] = outcome]
  /\ UNCHANGED <<runs, holds>>

Release(w) ==
  /\ holds' = [holds EXCEPT ![w] = 0]
  /\ UNCHANGED <<runs, report>>

Close(n) ==
  /\ n \in DOMAIN report
  /\ report[n] \in Outcome
  /\ runs[n].status = "RUNNING"
  /\ runs' = [runs EXCEPT ![n].status = report[n]]
  /\ UNCHANGED <<report, holds>>

Next ==
  \/ \E parent \in 0 .. Len(runs) : Register(parent)
  \/ \E w \in Worker : \E n \in DOMAIN runs : Take(w, n)
  \/ \E w \in Worker, outcome \in Outcome : Report(w, outcome)
  \/ \E w \in Worker : Release(w)
  \/ \E n \in DOMAIN runs : Close(n)

Spec == Init /\ [][Next]_ledgerVars
=============================================================================
