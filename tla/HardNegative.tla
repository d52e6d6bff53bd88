------------------------------ MODULE HardNegative ------------------------------
(***************************************************************************)
(* The choice of the rejected answer of a training pair: the calibration   *)
(* of HardNegativeConfig over a data set, and HardNegativeFilter.select    *)
(* (modules/filters/hard_negative_filtering.py).                           *)
(*                                                                         *)
(* A candidate has what the code measures of its text, in whole numbers:   *)
(*   words       "none", "short" (at most 25), or "long"                   *)
(*   repeats     at most half of its words are distinct                    *)
(*   entropy, ttr, rouge, score                                            *)
(*   structural  it has markers of code, compresses badly and does not     *)
(*               repeat its bigrams                                        *)
(*   gold        "same" as the chosen answer, the same but for case and    *)
(*               blanks ("variant"), or "other"                            *)
(*   distance    of its temperature from the one asked for                 *)
(***************************************************************************)
EXTENDS Integers, Sequences, FiniteSets

LOCAL INSTANCE SequencesExt

Candidate ==
  [words : {"none", "short", "long"}, repeats : BOOLEAN, structural : BOOLEAN,
   gold : {"same", "variant", "other"},
   entropy : Int, ttr : Int, rouge : Int, score : Int, distance : Int]

(* Percentiles, and thresholds with them, are in hundredths.               *)
DegeneratePercentile == 15
RougePercentile      == 30
Unit                 == 100

Percentile(values, percent) ==
  LET sorted == SortSeq(values, <)
      n  == Len(values)
      at == percent * (n - 1)
      lo == at \div Unit
      hi == IF lo + 1 <= n - 1 THEN lo + 1 ELSE n - 1
  IN  (sorted[lo + 1] * (Unit - (at % Unit))) + (sorted[hi + 1] * (at % Unit))

(* The thresholds that a corpus of candidates gives; it may not be empty.  *)
Calibrated(corpus) ==
  LET of(measure(_)) == [i \in DOMAIN corpus |-> measure(corpus[i])]
  IN  [entropy |-> Percentile(of(LAMBDA c : c.entropy), DegeneratePercentile),
       ttr     |-> Percentile(of(LAMBDA c : c.ttr), DegeneratePercentile),
       rouge   |-> Percentile(of(LAMBDA c : c.rouge), RougePercentile)]

-----------------------------------------------------------------------------
(* Entropy and TTR mean nothing in a short answer; repetition does.        *)
Degenerate(c, limits) ==
  IF c.words = "long"
  THEN c.entropy * Unit < limits.entropy \/ c.ttr * Unit < limits.ttr
  ELSE c.words = "none" \/ c.repeats

(* Code, mathematics and lists repeat themselves for good reason.          *)
Rescued(c) == c.words = "long" /\ c.structural

FalseNegative(c, limits) == c.gold # "other" \/ c.rouge * Unit > limits.rouge

(* Mutant: what is quarantined is filtered, and ranked, like the rest.     *)
KeptWithQuarantined(cands, limits) == DOMAIN cands

Unsuspected(cands, limits) == {i \in DOMAIN cands : ~Degenerate(cands[i], limits)}

RescuedOf(cands, limits) ==
  {i \in DOMAIN cands : Degenerate(cands[i], limits) /\ Rescued(cands[i])}

(* Clean candidates, then the rescued ones, each in their order.           *)
Before(cands, limits, i, j) ==
  LET clean == Unsuspected(cands, limits)
  IN  IF (i \in clean) = (j \in clean) THEN i <= j ELSE i \in clean

(* The first of the candidates in "of" that has the least value.           *)
Least(cands, limits, of, value) ==
  CHOOSE i \in of :
    /\ \A j \in of : value[i] <= value[j]
    /\ \A j \in of : value[j] = value[i] => Before(cands, limits, i, j)

(* The candidate that is selected, or 0 for none.                          *)
Nobody == 0

ByTemperature(cands, limits, of, fallback) ==
  IF fallback = "temperature"
  THEN Least(cands, limits, of, [i \in of |-> cands[i].distance])
  ELSE Nobody

(* The template's own choice, where the filter is switched off: the first  *)
(* that was made at the temperature asked for, or the first of all.        *)
FirstAtTemperature(cands) ==
  LET exact == {i \in DOMAIN cands : cands[i].distance = 0}
  IN  CASE Len(cands) = 0 -> Nobody
        [] Len(cands) > 0 /\ exact = {} -> 1
        [] OTHER -> CHOOSE i \in exact : \A j \in exact : i <= j

LowestRouge(cands, limits, of) ==
  Least(cands, limits, of, [i \in of |-> cands[i].rouge])

HighestScore(cands, limits, of) ==
  Least(cands, limits, of, [i \in of |-> -cands[i].score])

AllDegenerate(cands, limits) ==
  Len(cands) > 1 /\ Unsuspected(cands, limits) = {} /\ RescuedOf(cands, limits) = {}

Select(cands, limits, fallback) ==
  LET clean    == Unsuspected(cands, limits)
      rescued  == RescuedOf(cands, limits)
      fit      == {i \in clean \cup rescued : ~FalseNegative(cands[i], limits)}
  IN  CASE Len(cands) = 0 -> Nobody
        [] Len(cands) = 1 -> IF cands[1].gold = "same" THEN Nobody ELSE 1
        [] AllDegenerate(cands, limits) -> Nobody
        [] OTHER ->
             IF fit = {} THEN ByTemperature(cands, limits, clean \cup rescued, fallback)
             ELSE IF rescued # {} THEN LowestRouge(cands, limits, fit)
             ELSE HighestScore(cands, limits, fit)
=============================================================================
