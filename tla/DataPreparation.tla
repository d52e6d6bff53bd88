---------------------------- MODULE DataPreparation ----------------------------
(***************************************************************************)
(* prepare.py and the start of train.py of a training setup: the recipe's  *)
(* data become training pairs, which are filtered, split, shuffled and     *)
(* saved in a cache directory, from which train.py reads them.             *)
(*                                                                         *)
(* The cache directory of the templates is named after the experiment's    *)
(* name only: runs of experiments of one name share it, and nothing keeps  *)
(* them apart.  A run may be killed, or raise, at any step, and prepare.py *)
(* is then started again; files that it appends to stay as they are.       *)
(***************************************************************************)
EXTENDS HardNegative, SequencesExt, FiniteSetsExt

CONSTANTS
  Run,        \* runs that share a cache directory
  Entry,      \* data sets: their rows, how often they repeat, their prompts
  Recipe,     \* the entries that each run's recipe lists
  HardNegatives, \* which runs have hard_negative_enabled in their config.yml
  Strategy,   \* how prompts are assigned: "all", "round_robin" or "random"
  Fallback,   \* where no candidate is fit: "temperature" or "drop"
  EvalPart,   \* eval_size as a part of this many; 0 is no evaluation
  Order,      \* shuffle_strategy: "random", "circular" or "none"
  BlockSize,  \* rows of a block
  MaxCrashes  \* bound: crashes of each run

(* An entry has rows, replica and prompts (how many); a row says whether   *)
(* it can be made a pair at all, its candidates, and whether it is short   *)
(* enough.  Without rows nothing can be calibrated.                        *)
ASSUME DataAssumption ==
  /\ \A e \in DOMAIN Entry :
       /\ Entry[e].replica \in Nat \ {0} /\ Entry[e].prompts \in Nat
       /\ Entry[e].rows # <<>>
       /\ Entry[e].rows \in
            Seq([wellFormed : BOOLEAN, short : BOOLEAN, candidates : Seq(Candidate)])
  /\ Recipe \in [Run -> Seq(DOMAIN Entry)]
  /\ HardNegatives \in [Run -> BOOLEAN]
  /\ Strategy \in {"all", "round_robin", "random"}
  /\ Order \in {"random", "circular", "none"} /\ BlockSize \in Nat \ {0}
  /\ EvalPart \in Nat /\ MaxCrashes \in [Run -> Nat]

VARIABLES
  run,         \* what each run is doing, and the pairs it has
  cache,       \* the two splits in the cache directory
  discarded,   \* the file of pairs that are too long, by attempt
  unfiltered,  \* for the properties: attempts whose filter failed, and
  overlapped   \* whether a cache was ever replaced while in another run's use

dataVars == <<run, cache, discarded, unfiltered, overlapped>>

-----------------------------------------------------------------------------
(* A pair is known by the entry, replica, row and prompt it comes from, and *)
(* by the candidate that was rejected.                                     *)

(* Rows are counted from 1 here; without prompts a row is taken as it is.  *)
Assigned(entry, row) ==
  LET n == Entry[entry].prompts
  IN  IF n = 0 THEN {<<0>>}
      ELSE CASE Strategy = "all" -> {[i \in 1..n |-> i]}
             [] Strategy = "round_robin" -> {<<((row - 1) % n) + 1>>}
             [] Strategy = "random" -> {<<i>> : i \in 1..n}

Corpus(entry) ==
  FlattenSeq([r \in DOMAIN Entry[entry].rows |-> Entry[entry].rows[r].candidates])

Limits(entry) == Calibrated(Corpus(entry))

RowAt(pair) == Entry[pair.entry].rows[pair.row]

Rejected(p, entry, row) ==
  LET cands == Entry[entry].rows[row].candidates
  IN  IF HardNegatives[p] THEN Select(cands, Limits(entry), Fallback)
      ELSE FirstAtTemperature(cands)

-----------------------------------------------------------------------------
(* Splitting and shuffling, on sequences of pairs                          *)

Rows(pairs) == {pairs[i] : i \in DOMAIN pairs}

(* What a sequence has at some of its places, in its order.                *)
Picked(s, places) ==
  LET upto[i \in 0..Len(s)] ==
        IF i = 0 THEN <<>>
        ELSE IF i \in places THEN Append(upto[i - 1], s[i]) ELSE upto[i - 1]
  IN  upto[Len(s)]

EvalCount(n) == IF EvalPart = 0 THEN 0 ELSE (n + EvalPart - 1) \div EvalPart

Source(pair) == pair.entry

Sources(pairs) == {Source(pairs[i]) : i \in DOMAIN pairs}

OfSource(pairs, s) == Picked(pairs, {i \in DOMAIN pairs : Source(pairs[i]) = s})

(* Mutant: the last block of a source is left out if it is not full.       *)
FullBlocks(pairs, s) ==
  LET own == OfSource(pairs, s)
  IN  [b \in 1..(Len(own) \div BlockSize) |->
         SubSeq(own, ((b - 1) * BlockSize) + 1, b * BlockSize)]

Blocks(pairs, s) ==
  LET own == OfSource(pairs, s)
  IN  [b \in 1..((Len(own) + BlockSize - 1) \div BlockSize) |->
         SubSeq(own, ((b - 1) * BlockSize) + 1,
                IF b * BlockSize < Len(own) THEN b * BlockSize ELSE Len(own))]

(* Sources in the order of their first pair.                               *)
SourceOrder(pairs) ==
  LET firsts == Picked(pairs, {i \in DOMAIN pairs :
                  \A j \in 1..(i - 1) : Source(pairs[j]) # Source(pairs[i])})
  IN  [k \in DOMAIN firsts |-> Source(firsts[k])]

(* A block of each source that has one left, in turns; there are no more   *)
(* turns than pairs.                                                       *)
Circular(pairs) ==
  LET order    == SourceOrder(pairs)
      round(b) == FlattenSeq([i \in DOMAIN order |->
                    IF b <= Len(Blocks(pairs, order[i])) THEN <<Blocks(pairs, order[i])[b]>>
                    ELSE <<>>])
  IN  FlattenSeq([b \in DOMAIN pairs |-> round(b)])

(* The orders of blocks a shuffle may end with.                            *)
Shuffles(pairs) ==
  IF Order = "circular" THEN {Circular(pairs)}
  ELSE SetToSeqs(UNION {Rows(Blocks(pairs, s)) : s \in Sources(pairs)})

-----------------------------------------------------------------------------
Start == [entry |-> 1, rep |-> 1, row |-> 1]

(* The loops over entries, replicas and rows; past the last entry, the end. *)
NextCell(p, at) ==
  LET entry == Entry[Recipe[p][at.entry]]
  IN  CASE at.row < Len(entry.rows) -> [at EXCEPT !.row = @ + 1]
        [] at.row = Len(entry.rows) /\ at.rep < entry.replica ->
             [at EXCEPT !.row = 1, !.rep = @ + 1]
        [] OTHER -> [entry |-> at.entry + 1, rep |-> 1, row |-> 1]

(* Of a saved split the order no longer matters.                           *)
NoSplit == [by |-> <<>>, rows |-> {}]
NoCache == [train |-> NoSplit, test |-> NoSplit]

Fresh(crashes) ==
  [phase |-> "idle", at |-> Start, pairs |-> <<>>, test |-> {}, crashes |-> crashes,
   data |-> NoCache]

Attempt(p) == <<p, run[p].crashes>>

DataInit ==
  /\ run = [p \in Run |-> Fresh(0)]
  /\ cache = NoCache
  /\ discarded = {} /\ unfiltered = {} /\ overlapped = FALSE

In(p, phase) == run[p].phase = phase

(* A step of prepare.py within the process.                                *)
Goes(p, new) == run' = [run EXCEPT ![p] = new]

Begin(p) ==
  /\ In(p, "idle")
  /\ Goes(p, [run[p] EXCEPT !.phase = "collecting"])
  /\ UNCHANGED <<cache, discarded, unfiltered, overlapped>>

(* One row of one replica: with each of its prompts a pair, unless the row *)
(* is malformed (skipped) or no candidate will do (dropped).               *)
Collect(p) ==
  /\ In(p, "collecting") /\ run[p].at.entry <= Len(Recipe[p])
  /\ LET at     == run[p].at
         entry  == Recipe[p][at.entry]
         row    == Entry[entry].rows[at.row]
         chosen == Rejected(p, entry, at.row)
     IN  \E prompts \in Assigned(entry, at.row) :
           Goes(p, [run[p] EXCEPT !.at = NextCell(p, at),
             !.pairs = IF ~row.wellFormed \/ chosen = Nobody THEN @
                       ELSE @ \o [i \in DOMAIN prompts |->
                              [entry |-> entry, rep |-> at.rep, row |-> at.row,
                               prompt |-> prompts[i], rejected |-> chosen]]])
  /\ UNCHANGED <<cache, discarded, unfiltered, overlapped>>

Collected(p) ==
  /\ In(p, "collecting") /\ run[p].at.entry > Len(Recipe[p])
  /\ Goes(p, [run[p] EXCEPT !.phase = "filtering"])
  /\ UNCHANGED <<cache, discarded, unfiltered, overlapped>>

Fits(pair) == RowAt(pair).short

(* Mutant: the filter writes down what is too long, and keeps it.          *)
KeptAll(pairs) == pairs

Kept(pairs) == Picked(pairs, {i \in DOMAIN pairs : Fits(pairs[i])})

(* The tokenizer may fail at any pair: then the data go on unfiltered, and *)
(* what was written down until then stays written down.                    *)
FilterByToken(p) ==
  /\ In(p, "filtering")
  /\ LET pairs == run[p].pairs IN
     \E n \in 0..Len(pairs) : LET whole == n = Len(pairs) IN
       /\ Goes(p, [run[p] EXCEPT !.phase = "splitting",
                                 !.pairs = IF whole THEN Kept(pairs) ELSE pairs])
       /\ unfiltered' = IF whole THEN unfiltered ELSE unfiltered \cup {Attempt(p)}
       /\ discarded' = discarded \cup
            {<<Attempt(p), pairs[i]>> : i \in {i \in 1..n : ~Fits(pairs[i])}}
  /\ UNCHANGED <<cache, overlapped>>

(* train_test_split shuffles without a seed; an empty side is an error.    *)
Split(p) ==
  /\ In(p, "splitting")
  /\ LET pairs == run[p].pairs
         held  == EvalCount(Len(pairs))
     IN  IF EvalPart = 0 THEN Goes(p, [run[p] EXCEPT !.phase = "shuffling"])
         ELSE IF held >= Len(pairs) THEN Goes(p, [run[p] EXCEPT !.phase = "failed"])
         ELSE \E test \in kSubset(held, Rows(pairs)) :
              \E train \in SetToSeqs(Rows(pairs) \ test) :
                Goes(p, [run[p] EXCEPT !.phase = "shuffling", !.pairs = train,
                                       !.test = test])
  /\ UNCHANGED <<cache, discarded, unfiltered, overlapped>>

Shuffle(p) ==
  /\ In(p, "shuffling")
  /\ \E blocks \in IF Order = "none" THEN {<<run[p].pairs>>} ELSE Shuffles(run[p].pairs) :
       Goes(p, [run[p] EXCEPT !.phase = "cleaning", !.pairs = FlattenSeq(blocks)])
  /\ UNCHANGED <<cache, discarded, unfiltered, overlapped>>

Replacing == {"saving train", "saving test"}

(* Mutant: the old splits are left to be written over.                     *)
LeftThere(splits) == splits

Removed(splits) == NoCache

Clean(p) ==
  /\ In(p, "cleaning")
  /\ Goes(p, [run[p] EXCEPT !.phase = "saving train"])
  /\ cache' = Removed(cache)
  /\ overlapped' = (overlapped \/
       \E q \in Run \ {p} : run[q].phase \in Replacing \cup {"loading"})
  /\ UNCHANGED <<discarded, unfiltered>>

SaveTrain(p) ==
  /\ In(p, "saving train")
  /\ Goes(p, [run[p] EXCEPT !.phase = "saving test", !.pairs = <<>>])
  /\ cache' = [cache EXCEPT !.train = [by |-> Attempt(p), rows |-> Rows(run[p].pairs)]]
  /\ UNCHANGED <<discarded, unfiltered, overlapped>>

SaveTest(p) ==
  /\ In(p, "saving test")
  /\ Goes(p, [run[p] EXCEPT !.phase = "prepared", !.test = {}])
  /\ cache' = [cache EXCEPT !.test = [by |-> Attempt(p), rows |-> run[p].test]]
  /\ UNCHANGED <<discarded, unfiltered, overlapped>>

(* train.py reads a split after the other: one that is not there is an     *)
(* error; and without eval_size one data set comes back where the caller   *)
(* unpacks two.                                                            *)
LoadTrain(p) ==
  /\ In(p, "prepared")
  /\ Goes(p, [run[p] EXCEPT !.phase = IF cache.train = NoSplit THEN "failed" ELSE "loading",
                            !.data = [train |-> cache.train, test |-> NoSplit]])
  /\ UNCHANGED <<cache, discarded, unfiltered, overlapped>>

LoadTest(p) ==
  /\ In(p, "loading")
  /\ Goes(p, [run[p] EXCEPT
       !.phase = CASE cache.test = NoSplit -> "failed"
                   [] cache.test # NoSplit /\ EvalPart = 0 -> "refused"
                   [] OTHER -> "trained",
       !.data = [train |-> @.train, test |-> cache.test]])
  /\ UNCHANGED <<cache, discarded, unfiltered, overlapped>>

(* Killed, or stopped by an exception: an unknown chat type, a missing     *)
(* field, a directory that cannot be written.                              *)
Crash(p) ==
  /\ run[p].phase \notin {"idle", "prepared", "loading", "trained", "refused"}
  /\ run[p].crashes < MaxCrashes[p]
  /\ Goes(p, Fresh(run[p].crashes + 1))
  /\ UNCHANGED <<cache, discarded, unfiltered, overlapped>>

DataNext ==
  \E p \in Run :
    \/ Begin(p) \/ Collect(p) \/ Collected(p) \/ FilterByToken(p) \/ Split(p) \/ Shuffle(p)
    \/ Clean(p) \/ SaveTrain(p) \/ SaveTest(p)
    \/ LoadTrain(p) \/ LoadTest(p) \/ Crash(p)

DataSpec == DataInit /\ [][DataNext]_dataVars

-----------------------------------------------------------------------------
(* Unless a cache is ever replaced while another run replaces or loads it, *)
(* a training starts from the two splits of one attempt to prepare,        *)
(* whoever's and whatever was killed before                                *)
(* (prepare.py:182-189, data_loader.py:47-50, 62-73).                      *)
LoadedIsOnePrepare ==
  ~overlapped => \A p \in Run : In(p, "trained") =>
    run[p].data.train.by = run[p].data.test.by

(* What an attempt wrote down as too long is not in the data it saved, if  *)
(* its filter came to the end (filter_by_token_len.py:14-43).              *)
DiscardedNotTrained ==
  \A p \in Run : In(p, "trained") =>
    \A split \in {run[p].data.train, run[p].data.test} : \A pair \in split.rows :
      split.by \notin unfiltered => <<split.by, pair>> \notin discarded

(* Where the filter is on, of several candidates none is rejected that was *)
(* quarantined and not rescued, and one that the chosen answer is too      *)
(* close to only where no other is left and the temperature decides        *)
(* (hard_negative_filtering.py:618-665, prepare.py:70-84).                 *)
RejectedIsFit ==
  \A p \in Run : HardNegatives[p] => \A pair \in Rows(run[p].pairs) \cup run[p].test :
    LET cands  == RowAt(pair).candidates
        limits == Limits(pair.entry)
        kept(i) == Degenerate(cands[i], limits) => Rescued(cands[i])
    IN  Len(cands) > 1 =>
          /\ kept(pair.rejected)
          /\ FalseNegative(cands[pair.rejected], limits) =>
               /\ Fallback = "temperature"
               /\ \A i \in DOMAIN cands : kept(i) => FalseNegative(cands[i], limits)

(* A shuffle loses and repeats no pair and takes none that is held out for *)
(* the evaluation, and pairs of a block stay together; in turns, no source *)
(* has a block more than another that is not at its end                    *)
(* (shuffler.py:46-98, prepare.py:150-175).                                *)
ShuffledByBlocks ==
  [][\A p \in Run : In(p, "shuffling") /\ run'[p].phase = "cleaning" =>
       LET old == run[p].pairs
           new == run'[p].pairs
           at(x) == CHOOSE i \in DOMAIN new : new[i] = x
           own(s) == OfSource(old, s)
           first(s, b) == at(own(s)[((b - 1) * BlockSize) + 1])
           count(s) == (Len(own(s)) + BlockSize - 1) \div BlockSize
       IN  /\ Len(new) = Len(old) /\ Rows(new) = Rows(old)
           /\ Rows(new) \cap run[p].test = {}
           /\ \A s \in Sources(old) : \A i \in 1..(Len(own(s)) - 1) :
                Order # "none" /\ i % BlockSize # 0 =>
                  at(own(s)[i + 1]) = at(own(s)[i]) + 1
           /\ Order = "circular" =>
                \A s, t \in Sources(old) : \A b \in 1..(count(s) - 1) :
                  b <= count(t) => first(t, b) < first(s, b + 1)]_dataVars

(* "eval_size: 0 -- no split, train.py receives the full dataset for       *)
(* training only" (modules/docs/README.md:429).                            *)
FullSetTrains == \A p \in Run : ~In(p, "refused")
=============================================================================
