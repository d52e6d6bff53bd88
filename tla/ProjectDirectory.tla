----------------------------- MODULE ProjectDirectory -----------------------------
(***************************************************************************)
(* What a project's directory holds besides the identity of its runs: the  *)
(* files that a run captures, and the data that prepare.py leaves in a     *)
(* cache for train.py.                                                     *)
(*                                                                         *)
(* The capture reads .py, .txt and .yml files, the preparation writes      *)
(* others and in other directories, so neither sees what the other does.   *)
(* A behaviour is one of the captures or one of the preparations.          *)
(***************************************************************************)
EXTENDS CodebaseDiff, DataPreparation

VARIABLE use  \* what the directory is used for

projectVars == <<use, vars, dataVars>>

ProjectInit == use \in {"capture", "data"} /\ Init /\ DataInit

ProjectNext ==
  \/ use = "capture" /\ Next /\ UNCHANGED <<use, dataVars>>
  \/ use = "data" /\ DataNext /\ UNCHANGED <<use, vars>>

ProjectSpec == ProjectInit /\ [][ProjectNext]_projectVars
=============================================================================
