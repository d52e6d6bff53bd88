---------------------------- MODULE MCProjectDirectory ----------------------------
(* Instances of ProjectDirectory for TLC. *)
EXTENDS ProjectDirectory, TLC

CONSTANTS ExperimentYml, ServerYml, TrainPy, CachePy, p1, p2

(* A script at the root and a file of a hidden directory of modules/.      *)
MCPlace ==
  [p \in {ExperimentYml, ServerYml, TrainPy, CachePy} |->
     CASE p \in {ExperimentYml, ServerYml} -> [top |-> ".lineage", dot |-> FALSE, ext |-> ".yml"]
       [] p = TrainPy       -> [top |-> "root", dot |-> FALSE, ext |-> ".py"]
       [] p = CachePy       -> [top |-> "modules", dot |-> TRUE, ext |-> ".py"]]

Texts(max) ==
  {t \in UNION {[1..n -> [line : Line, nl : BOOLEAN]] : n \in 0..max} :
     \A i \in DOMAIN t : t[i].nl \/ i = Len(t)}

MCTextsOf ==
  [p \in {ExperimentYml, ServerYml, TrainPy, CachePy} |->
     CASE p = ExperimentYml -> Texts(1)
       [] p = TrainPy -> Texts(2)
       [] p \in {ServerYml, CachePy} -> {Empty}]

(* A plain answer, and what differs in the others.                         *)
Good    == [words |-> "long", repeats |-> FALSE, entropy |-> 9, ttr |-> 9, rouge |-> 2,
            score |-> 5, structural |-> FALSE, gold |-> "other", distance |-> 3]
Better  == [Good EXCEPT !.score = 7, !.rouge = 0]
Loop    == [Better EXCEPT !.entropy = 1, !.score = 9, !.distance = 0]
Stale   == [Loop EXCEPT !.entropy = 9, !.ttr = 1]
Code    == [Stale EXCEPT !.structural = TRUE]
Blank   == [Good EXCEPT !.words = "none", !.rouge = 0, !.distance = 0]
Close   == [Good EXCEPT !.rouge = 9]
Copy    == [Good EXCEPT !.words = "short", !.gold = "same", !.rouge = 10]

Row(candidates) == [wellFormed |-> TRUE, candidates |-> candidates, short |-> TRUE]
Long(row) == [row EXCEPT !.short = FALSE]

MCEntry ==
  [dialogues |->
     [replica |-> 2, prompts |-> 2,
      rows |-> <<Row(<<Good, Better, Loop>>), Long(Row(<<Code, Close>>))>>],
   questions |->
     [replica |-> 1, prompts |-> 0,
      rows |-> <<Row(<<Close, Copy, Loop>>), [Row(<<Good>>) EXCEPT !.wellFormed = FALSE],
                 Row(<<Stale, Blank>>)>>],
   notes |->
     [replica |-> 1, prompts |-> 0, rows |-> <<Row(<<Good, Loop>>), Row(<<Close>>)>>]]

(* Of the run with many orders of its pairs no crash is looked at.         *)
MCCrashes == p1 :> 0 @@ p2 :> 1

MCRecipe == p1 :> <<"dialogues", "questions">> @@ p2 :> <<"notes">>

(* The filter of hard negatives is on in one run, and off in the other.    *)
MCHardNegatives == p1 :> TRUE @@ p2 :> FALSE
=============================================================================
