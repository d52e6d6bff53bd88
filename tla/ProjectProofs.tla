----------------------------- MODULE ProjectProofs -----------------------------
(***************************************************************************)
(* What holds of a project's directory whatever files, runs and data it    *)
(* has.  Of the captures: the type invariant, that a run is taken for a    *)
(* RETRY of its base exactly when nothing but its identity differs, and    *)
(* that base and diffs rebuild it.  Of the preparations, however many runs *)
(* share a cache directory and however often they are killed: what a       *)
(* training may start from.                                                *)
(***************************************************************************)
EXTENDS ProjectDirectory, ChainRecursion, SequenceTheorems, TLAPS

Seen(codebase) == {<<p, codebase[p]>> : p \in DOMAIN codebase \ {Identity, Server}}

(* Comparing hashes file by file, files that are missing included, is      *)
(* comparing what is seen.                                                 *)
LEMMA IdenticalIsSeen ==
  ASSUME NEW old, NEW new
  PROVE  Identical(old, new) <=> Seen(old) = Seen(new)
<1>1. ASSUME Identical(old, new) PROVE Seen(old) = Seen(new)
  <2>1. \A p \in DOMAIN old \ {Identity, Server} : p \in DOMAIN new /\ old[p] = new[p]
    BY <1>1 DEF Identical, Changed, Differs, Ignored
  <2>2. \A p \in DOMAIN new \ {Identity, Server} : p \in DOMAIN old /\ old[p] = new[p]
    BY <1>1 DEF Identical, Changed, Differs, Ignored
  <2> QED BY <2>1, <2>2 DEF Seen
<1>2. ASSUME Seen(old) = Seen(new), NEW p \in DOMAIN old \ {Identity, Server}
      PROVE  p \in DOMAIN new /\ old[p] = new[p]
  <2>1. <<p, old[p]>> \in Seen(new)
    BY <1>2 DEF Seen
  <2> QED BY <2>1 DEF Seen
<1>3. ASSUME Seen(old) = Seen(new), NEW p \in DOMAIN new \ {Identity, Server}
      PROVE  p \in DOMAIN old /\ old[p] = new[p]
  <2>1. <<p, new[p]>> \in Seen(old)
    BY <1>3 DEF Seen
  <2> QED BY <2>1 DEF Seen
<1>4. ASSUME Seen(old) = Seen(new) PROVE Identical(old, new)
  BY <1>2, <1>3, <1>4 DEF Identical, Changed, Differs, Ignored
<1> QED BY <1>1, <1>4

-----------------------------------------------------------------------------
(* Type correctness *)

LEMMA EmptyIsText == IsText(Empty)
  BY DEF IsText, Empty

LEMMA LineIsText ==
  ASSUME NEW line \in Line
  PROVE  IsText(<<[line |-> line, nl |-> TRUE]>>)
<1>1. [line |-> line, nl |-> TRUE] \in [line : Line, nl : BOOLEAN]
  OBVIOUS
<1> QED BY <1>1 DEF IsText

(* What is captured of files that hold texts are texts of tracked files.   *)
LEMMA CapturedIsCodebase ==
  ASSUME TypeOK
  PROVE  IsCodebase(Captured)
<1>1. ASSUME NEW p \in DOMAIN disk PROVE IsText(AsRead(disk[p]))
  BY <1>1, EmptyIsText DEF TypeOK, AsRead
<1> QED BY <1>1 DEF TypeOK, IsCodebase, Captured

LEMMA RecordedTyped ==
  ASSUME TypeOK, Recorded
  PROVE  /\ runs' \in 0..MaxRuns
         /\ Identity \in DOMAIN disk' /\ DOMAIN disk' \subseteq Path
         /\ \A p \in DOMAIN disk' :
              /\ DOMAIN disk'[p] = {"text", "kind"}
              /\ disk'[p].kind \in FileKind /\ IsText(disk'[p].text)
<1>1. PICK line \in Line :
        disk' = [disk EXCEPT ![Identity].text = <<[line |-> line, nl |-> TRUE]>>]
  BY DEF Recorded
<1>2. IsText(<<[line |-> line, nl |-> TRUE]>>)
  BY LineIsText
<1>3. DOMAIN disk' = DOMAIN disk
  BY <1>1
<1>4. ASSUME NEW p \in DOMAIN disk, p # Identity PROVE disk'[p] = disk[p]
  BY <1>1, <1>4
<1>5. disk'[Identity] = [disk[Identity] EXCEPT !.text = <<[line |-> line, nl |-> TRUE]>>]
  BY <1>1 DEF TypeOK
<1>6. /\ DOMAIN disk'[Identity] = {"text", "kind"}
      /\ disk'[Identity].kind = disk[Identity].kind
      /\ disk'[Identity].text = <<[line |-> line, nl |-> TRUE]>>
  BY <1>5 DEF TypeOK
<1>7. runs' \in 0..MaxRuns
  BY CodebaseAssumption DEF Recorded, TypeOK
<1>8. ASSUME NEW p \in DOMAIN disk
      PROVE  /\ DOMAIN disk'[p] = {"text", "kind"}
             /\ disk'[p].kind \in FileKind /\ IsText(disk'[p].text)
  <2>1. CASE p = Identity
    BY <2>1, <1>2, <1>6 DEF TypeOK
  <2>2. CASE p # Identity
    BY <2>2, <1>4 DEF TypeOK
  <2> QED BY <2>1, <2>2
<1> QED BY <1>3, <1>7, <1>8 DEF TypeOK

LEMMA TypeStep == TypeOK /\ [Next]_vars => TypeOK'
<1> SUFFICES ASSUME TypeOK, [Next]_vars PROVE TypeOK'
  OBVIOUS
<1>1. ASSUME NEW p \in Path, NEW text \in TextsOf[p], NEW kind \in FileKind,
             Edit(p, text, kind)
      PROVE  TypeOK'
  <2>1. IsText(text)
    BY CodebaseAssumption
  <2>2. DOMAIN disk' = DOMAIN disk \cup {p}
    BY <1>1 DEF Edit
  <2>3. disk'[p] = [text |-> text, kind |-> kind]
    BY <1>1 DEF Edit
  <2>4. \A q \in DOMAIN disk \ {p} : disk'[q] = disk[q]
    BY <1>1 DEF Edit
  <2>5. UNCHANGED <<base, derived, runs>>
    BY <1>1 DEF Edit
  <2>6. ASSUME NEW q \in DOMAIN disk'
        PROVE  /\ DOMAIN disk'[q] = {"text", "kind"}
               /\ disk'[q].kind \in FileKind /\ IsText(disk'[q].text)
    <3>1. CASE q = p
      BY <3>1, <2>1, <2>3
    <3>2. CASE q # p
      BY <3>2, <2>2, <2>4 DEF TypeOK
    <3> QED BY <3>1, <3>2
  <2>7. IsCodebase(base)' /\ IsCodebase(derived.codebase)'
    BY <2>5 DEF TypeOK, IsCodebase
  <2> QED BY <2>2, <2>5, <2>6, <2>7 DEF TypeOK
<1>2. ASSUME NEW p \in Path, Unlink(p) PROVE TypeOK'
  <2>1. DOMAIN disk' = DOMAIN disk \ {p} /\ p # Identity
    BY <1>2 DEF Unlink
  <2>2. \A q \in DOMAIN disk' : disk'[q] = disk[q]
    BY <1>2 DEF Unlink
  <2>3. UNCHANGED <<base, derived, runs>>
    BY <1>2 DEF Unlink
  <2>4. IsCodebase(base)' /\ IsCodebase(derived.codebase)'
    BY <2>3 DEF TypeOK, IsCodebase
  <2> QED BY <2>1, <2>2, <2>3, <2>4 DEF TypeOK
<1>3. ASSUME RunBase PROVE TypeOK'
  <2>1. IsCodebase(base') /\ derived.strategy = "none" /\ derived' = derived
    BY <1>3, CapturedIsCodebase DEF RunBase, TypeOK
  <2>2. IsCodebase(base)' /\ IsCodebase(derived.codebase)'
    BY <2>1 DEF TypeOK, IsCodebase
  <2>3. Recorded
    BY <1>3 DEF RunBase
  <2> QED BY <2>1, <2>2, <2>3, RecordedTyped DEF TypeOK
<1>4. ASSUME RunDerived PROVE TypeOK'
  <2>1. /\ base' = base /\ base # NoBase
        /\ derived'.strategy \in {"RETRY", "BRANCH"}
        /\ derived'.codebase = Captured
    BY <1>4 DEF RunDerived
  <2>2. IsCodebase(derived'.codebase)
    BY <2>1, CapturedIsCodebase
  <2>3. IsCodebase(base)' /\ IsCodebase(derived.codebase)'
    BY <2>1, <2>2 DEF TypeOK, IsCodebase
  <2>4. Recorded
    BY <1>4 DEF RunDerived
  <2> QED BY <2>1, <2>3, <2>4, RecordedTyped DEF TypeOK
<1>5. CASE UNCHANGED vars
  BY <1>5 DEF vars, TypeOK, IsCodebase, Tracked
<1> QED BY <1>1, <1>2, <1>3, <1>4, <1>5 DEF Next

(* What the disk, the base and the derived run hold are texts of files the *)
(* project may have, of tracked files only in what is stored; the identity *)
(* is never lost, and no run is derived before there is a base             *)
(* (snapshot.py:63-113, training_handler.py:108-133).                      *)
THEOREM CodebaseTyped == Spec => []TypeOK
<1>1. Init => TypeOK
  <2> SUFFICES ASSUME Init PROVE TypeOK
    OBVIOUS
  <2>1. \A p \in DOMAIN disk :
          /\ DOMAIN disk[p] = {"text", "kind"}
          /\ disk[p].kind \in FileKind /\ IsText(disk[p].text)
    BY EmptyIsText DEF Init, FileKind
  <2>2. Identity \in DOMAIN disk /\ DOMAIN disk \subseteq Path
    BY CodebaseAssumption DEF Init
  <2>3. DOMAIN base = {} /\ DOMAIN derived.codebase = {} /\ derived.strategy = "none"
    BY DEF Init, NoBase, NoRun
  <2>4. runs \in 0..MaxRuns
    BY CodebaseAssumption DEF Init
  <2> QED BY <2>1, <2>2, <2>3, <2>4 DEF TypeOK, IsCodebase
<1> QED BY <1>1, TypeStep, PTL DEF Spec

-----------------------------------------------------------------------------
LEMMA RetryStep == TypeOK /\ RetryIffSame /\ [Next]_vars => RetryIffSame'
<1> SUFFICES ASSUME TypeOK, RetryIffSame, [Next]_vars PROVE RetryIffSame'
  OBVIOUS
<1>1. CASE RunDerived
  <2>1. /\ base' = base
        /\ derived'.codebase = Captured
        /\ derived'.strategy = IF Identical(base, Captured) THEN "RETRY" ELSE "BRANCH"
    BY <1>1 DEF RunDerived
  <2>2. derived'.strategy = "RETRY" <=> Seen(base) = Seen(Captured)
    BY <2>1, IdenticalIsSeen
  <2>3. Seen(base') = Seen(base) /\ Seen(derived'.codebase) = Seen(Captured)
    BY <2>1
  <2> QED BY <2>2, <2>3 DEF RetryIffSame, Seen
<1>2. CASE RunBase
  <2>1. derived' = derived /\ derived.strategy = "none"
    BY <1>2 DEF RunBase, TypeOK
  <2> QED BY <2>1 DEF RetryIffSame
<1>3. CASE UNCHANGED <<base, derived>>
  BY <1>3 DEF RetryIffSame
<1> QED BY <1>1, <1>2, <1>3 DEF Next, Edit, Unlink, vars

(* A run is a RETRY of its base exactly when every captured file but       *)
(* experiment.yml and server.yml reads the same (state_provider.py:26-58). *)
THEOREM RetryExact == Spec => []RetryIffSame
<1>1. Init => RetryIffSame
  BY DEF Init, NoRun, RetryIffSame
<1> QED BY <1>1, RetryStep, CodebaseTyped, PTL DEF Spec
-----------------------------------------------------------------------------
(* Data preparation *)

Fields == {"phase", "at", "pairs", "test", "crashes", "data"}

Shape ==
  /\ DOMAIN run = Run /\ DOMAIN cache = {"train", "test"}
  /\ \A p \in Run : DOMAIN run[p] = Fields

(* At most one run is between removing the old splits and saving the last  *)
(* of its own; what it has saved so far is all there is.                   *)
OneReplaces ==
  \A p, q \in Run : run[p].phase \in Replacing /\ run[q].phase \in Replacing => p = q

SavedSoFar ==
  \A p \in Run :
    /\ In(p, "saving train") => cache = NoCache
    /\ In(p, "saving test") => cache.test = NoSplit /\ cache.train.by = Attempt(p)

(* Splits that are both there are of one attempt: a crash in between       *)
(* leaves one of them out.                                                 *)
OneAttempt ==
  cache.train # NoSplit /\ cache.test # NoSplit => cache.train.by = cache.test.by

(* What a training has loaded so far is still there.                       *)
LoadedSoFar ==
  \A p \in Run : In(p, "loading") =>
    cache.train # NoSplit /\ run[p].data.train = cache.train

DataInv ==
  /\ Shape
  /\ ~overlapped => OneReplaces /\ SavedSoFar /\ OneAttempt /\ LoadedSoFar
  /\ LoadedIsOnePrepare

-----------------------------------------------------------------------------
(* A step that concerns neither the cache nor who replaces it.             *)
LEMMA Aside ==
  ASSUME DataInv, NEW p \in Run, NEW new, run' = [run EXCEPT ![p] = new],
         DOMAIN new = Fields, UNCHANGED <<cache, overlapped>>,
         new.phase \notin Replacing \cup {"loading", "trained"}
  PROVE  DataInv'
<1>1. run'[p] = new /\ DOMAIN run' = Run /\ \A q \in Run \ {p} : run'[q] = run[q]
  BY DEF DataInv, Shape
<1>2. Shape'
  BY <1>1 DEF DataInv, Shape
<1>3. ASSUME ~overlapped PROVE OneReplaces' /\ SavedSoFar' /\ OneAttempt' /\ LoadedSoFar'
  <2>1. OneReplaces'
    BY <1>1, <1>3 DEF DataInv, OneReplaces
  <2>2. ASSUME NEW q \in Run, q # p, run[q].phase \in Replacing
        PROVE  Attempt(q)' = Attempt(q) /\ run'[q] = run[q]
    BY <1>1, <2>2 DEF Attempt
  <2>3. SavedSoFar'
    BY <1>1, <1>3, <2>2 DEF DataInv, SavedSoFar, In, Replacing
  <2>4. OneAttempt'
    BY <1>3 DEF DataInv, OneAttempt
  <2>5. LoadedSoFar'
    BY <1>1, <1>3 DEF DataInv, LoadedSoFar, In
  <2> QED BY <2>1, <2>3, <2>4, <2>5
<1>4. LoadedIsOnePrepare'
  BY <1>1 DEF DataInv, LoadedIsOnePrepare, In
<1> QED BY <1>2, <1>3, <1>4 DEF DataInv

LEMMA DataStep == DataInv /\ [DataNext]_dataVars => DataInv'
<1> SUFFICES ASSUME DataInv, [DataNext]_dataVars PROVE DataInv'
  OBVIOUS
<1>1. ASSUME NEW p \in Run, Begin(p) PROVE DataInv'
  BY <1>1, Aside DEF Begin, Goes, DataInv, Shape, Replacing, Fields
<1>2. ASSUME NEW p \in Run, Collect(p) PROVE DataInv'
  <2>1. PICK at, pairs : Goes(p, [run[p] EXCEPT !.at = at, !.pairs = pairs])
    BY <1>2 DEF Collect
  <2> DEFINE new == [run[p] EXCEPT !.at = at, !.pairs = pairs]
  <2>2. DOMAIN new = Fields /\ new.phase = "collecting"
    BY <1>2 DEF Collect, DataInv, Shape, Fields, In
  <2>3. run' = [run EXCEPT ![p] = new] /\ UNCHANGED <<cache, overlapped>>
    BY <1>2, <2>1 DEF Collect, Goes
  <2> HIDE DEF new
  <2> QED BY <2>2, <2>3, Aside DEF Replacing
<1>3. ASSUME NEW p \in Run, Collected(p) PROVE DataInv'
  BY <1>3, Aside DEF Collected, Goes, DataInv, Shape, Replacing, Fields
<1>4. ASSUME NEW p \in Run, FilterByToken(p) PROVE DataInv'
  <2>1. PICK pairs : Goes(p, [run[p] EXCEPT !.phase = "splitting", !.pairs = pairs])
    BY <1>4 DEF FilterByToken
  <2> DEFINE new == [run[p] EXCEPT !.phase = "splitting", !.pairs = pairs]
  <2>2. DOMAIN new = Fields /\ new.phase = "splitting"
    BY DEF DataInv, Shape, Fields
  <2>3. run' = [run EXCEPT ![p] = new] /\ UNCHANGED <<cache, overlapped>>
    BY <1>4, <2>1 DEF FilterByToken, Goes
  <2> HIDE DEF new
  <2> QED BY <2>2, <2>3, Aside DEF Replacing
<1>5. ASSUME NEW p \in Run, Split(p) PROVE DataInv'
  <2>1. UNCHANGED <<cache, overlapped>>
    BY <1>5 DEF Split
  <2>2. CASE Goes(p, [run[p] EXCEPT !.phase = "shuffling"])
    BY <2>1, <2>2, Aside DEF Goes, DataInv, Shape, Fields, Replacing
  <2>3. CASE Goes(p, [run[p] EXCEPT !.phase = "failed"])
    BY <2>1, <2>3, Aside DEF Goes, DataInv, Shape, Fields, Replacing
  <2>4. ASSUME NEW train, NEW test,
               Goes(p, [run[p] EXCEPT !.phase = "shuffling", !.pairs = train,
                                      !.test = test])
        PROVE  DataInv'
    <3> DEFINE new == [run[p] EXCEPT !.phase = "shuffling", !.pairs = train, !.test = test]
    <3>1. DOMAIN new = Fields /\ new.phase = "shuffling"
      BY DEF DataInv, Shape, Fields
    <3>2. run' = [run EXCEPT ![p] = new]
      BY <2>4 DEF Goes
    <3> HIDE DEF new
    <3> QED BY <2>1, <3>1, <3>2, Aside DEF Replacing
  <2> QED BY <1>5, <2>2, <2>3, <2>4 DEF Split
<1>6. ASSUME NEW p \in Run, Shuffle(p) PROVE DataInv'
  <2>1. PICK pairs : Goes(p, [run[p] EXCEPT !.phase = "cleaning", !.pairs = pairs])
    BY <1>6 DEF Shuffle
  <2> DEFINE new == [run[p] EXCEPT !.phase = "cleaning", !.pairs = pairs]
  <2>2. DOMAIN new = Fields /\ new.phase = "cleaning"
    BY DEF DataInv, Shape, Fields
  <2>3. run' = [run EXCEPT ![p] = new] /\ UNCHANGED <<cache, overlapped>>
    BY <1>6, <2>1 DEF Shuffle, Goes
  <2> HIDE DEF new
  <2> QED BY <2>2, <2>3, Aside DEF Replacing
<1>7. ASSUME NEW p \in Run, Clean(p) PROVE DataInv'
  <2> DEFINE new == [run[p] EXCEPT !.phase = "saving train"]
  <2>1. DOMAIN new = Fields /\ new.phase = "saving train" /\ new.data = run[p].data
    BY DEF DataInv, Shape, Fields
  <2>2. run' = [run EXCEPT ![p] = new] /\ cache' = NoCache
    BY <1>7 DEF Clean, Goes, Removed
  <2> HIDE DEF new
  <2>3. run'[p] = new /\ DOMAIN run' = Run /\ \A q \in Run \ {p} : run'[q] = run[q]
    BY <2>2 DEF DataInv, Shape
  <2>4. Shape'
    BY <2>1, <2>2, <2>3 DEF DataInv, Shape, NoCache
  <2>5. ASSUME ~overlapped' PROVE OneReplaces' /\ SavedSoFar' /\ OneAttempt' /\ LoadedSoFar'
    <3>1. \A q \in Run \ {p} : run[q].phase \notin Replacing \cup {"loading"}
      BY <1>7, <2>5 DEF Clean
    <3>2. OneReplaces'
      BY <3>1, <2>3 DEF OneReplaces
    <3>3. SavedSoFar'
      BY <3>1, <2>1, <2>2, <2>3 DEF SavedSoFar, In, Replacing
    <3>4. OneAttempt'
      BY <2>2 DEF OneAttempt, NoCache
    <3>5. LoadedSoFar'
      BY <3>1, <2>1, <2>3 DEF LoadedSoFar, In
    <3> QED BY <3>2, <3>3, <3>4, <3>5
  <2>6. overlapped => overlapped'
    BY <1>7 DEF Clean
  <2>7. LoadedIsOnePrepare'
    BY <2>1, <2>3, <2>6 DEF DataInv, LoadedIsOnePrepare, In
  <2> QED BY <2>4, <2>5, <2>7 DEF DataInv
<1>8. ASSUME NEW p \in Run, SaveTrain(p) PROVE DataInv'
  <2> DEFINE new == [run[p] EXCEPT !.phase = "saving test", !.pairs = <<>>]
             train == [by |-> Attempt(p), rows |-> Rows(run[p].pairs)]
  <2>1. DOMAIN new = Fields /\ new.phase = "saving test" /\ new.crashes = run[p].crashes
    BY DEF DataInv, Shape, Fields
  <2>2. run' = [run EXCEPT ![p] = new] /\ cache' = [cache EXCEPT !.train = train]
    BY <1>8 DEF SaveTrain, Goes
  <2>3. train.by = Attempt(p)
    OBVIOUS
  <2> HIDE DEF new, train
  <2>4. run'[p] = new /\ DOMAIN run' = Run /\ \A q \in Run \ {p} : run'[q] = run[q]
    BY <2>2 DEF DataInv, Shape
  <2>5. DOMAIN cache' = {"train", "test"} /\ cache'.train = train /\ cache'.test = cache.test
    BY <2>2 DEF DataInv, Shape
  <2>6. Shape'
    BY <2>1, <2>4, <2>5 DEF DataInv, Shape
  <2>7. Attempt(p)' = Attempt(p)
    BY <2>1, <2>4 DEF Attempt
  <2>8. run[p].phase = "saving train" /\ overlapped' = overlapped
    BY <1>8 DEF SaveTrain, In
  <2>9. ASSUME ~overlapped PROVE OneReplaces' /\ SavedSoFar' /\ OneAttempt' /\ LoadedSoFar'
    <3>1. \A q \in Run \ {p} : run[q].phase \notin Replacing
      BY <2>8, <2>9 DEF DataInv, OneReplaces, Replacing
    <3>2. cache'.test = NoSplit
      <4>1. SavedSoFar
        BY <2>9 DEF DataInv
      <4>2. cache = NoCache
        BY <4>1, <2>8 DEF SavedSoFar, In
      <4>3. NoCache.test = NoSplit
        BY DEF NoCache
      <4> QED BY <4>2, <4>3, <2>5
    <3>3. OneReplaces'
      BY <3>1, <2>4 DEF OneReplaces
    <3>4. SavedSoFar'
      <4>1. \A q \in Run \ {p} : run'[q].phase \notin Replacing
        BY <3>1, <2>4
      <4>2. cache'.train.by = <<p, run'[p].crashes>>
        BY <2>3, <2>5, <2>7 DEF Attempt
      <4> QED BY <4>1, <4>2, <3>2, <2>1, <2>4 DEF SavedSoFar, In, Replacing, Attempt
    <3>5. OneAttempt'
      BY <3>2 DEF OneAttempt
    <3>6. cache.train = NoSplit
      <4>1. SavedSoFar
        BY <2>9 DEF DataInv
      <4>2. cache = NoCache
        BY <4>1, <2>8 DEF SavedSoFar, In
      <4>3. NoCache.train = NoSplit
        BY DEF NoCache
      <4> QED BY <4>2, <4>3
    <3>7. LoadedSoFar'
      BY <3>6, <2>1, <2>4, <2>9 DEF DataInv, LoadedSoFar, In
    <3> QED BY <3>3, <3>4, <3>5, <3>7
  <2>10. LoadedIsOnePrepare'
    BY <2>1, <2>4, <2>8 DEF DataInv, LoadedIsOnePrepare, In
  <2> QED BY <2>6, <2>8, <2>9, <2>10 DEF DataInv
<1>9. ASSUME NEW p \in Run, SaveTest(p) PROVE DataInv'
  <2> DEFINE new == [run[p] EXCEPT !.phase = "prepared", !.test = {}]
             test == [by |-> Attempt(p), rows |-> run[p].test]
  <2>1. DOMAIN new = Fields /\ new.phase = "prepared"
    BY DEF DataInv, Shape, Fields
  <2>2. run' = [run EXCEPT ![p] = new] /\ cache' = [cache EXCEPT !.test = test]
    BY <1>9 DEF SaveTest, Goes
  <2>3. test.by = Attempt(p)
    OBVIOUS
  <2> HIDE DEF new, test
  <2>4. run'[p] = new /\ DOMAIN run' = Run /\ \A q \in Run \ {p} : run'[q] = run[q]
    BY <2>2 DEF DataInv, Shape
  <2>5. DOMAIN cache' = {"train", "test"} /\ cache'.test = test /\ cache'.train = cache.train
    BY <2>2 DEF DataInv, Shape
  <2>6. Shape'
    BY <2>1, <2>4, <2>5 DEF DataInv, Shape
  <2>7. run[p].phase = "saving test" /\ overlapped' = overlapped
    BY <1>9 DEF SaveTest, In
  <2>8. ASSUME ~overlapped PROVE OneReplaces' /\ SavedSoFar' /\ OneAttempt' /\ LoadedSoFar'
    <3>1. \A q \in Run \ {p} : run[q].phase \notin Replacing
      BY <2>7, <2>8 DEF DataInv, OneReplaces, Replacing
    <3>2. \A q \in Run : run'[q].phase \notin Replacing
      BY <3>1, <2>1, <2>4 DEF Replacing
    <3>3. cache'.train.by = cache'.test.by
      BY <2>3, <2>5, <2>7, <2>8 DEF DataInv, SavedSoFar, In
    <3>4. LoadedSoFar'
      BY <2>1, <2>4, <2>5, <2>8 DEF DataInv, LoadedSoFar, In
    <3> QED BY <3>2, <3>3, <3>4 DEF OneReplaces, SavedSoFar, OneAttempt, In, Replacing
  <2>9. LoadedIsOnePrepare'
    BY <2>1, <2>4, <2>7 DEF DataInv, LoadedIsOnePrepare, In
  <2> QED BY <2>6, <2>7, <2>8, <2>9 DEF DataInv
<1>10. ASSUME NEW p \in Run, LoadTrain(p) PROVE DataInv'
  <2> DEFINE phase == IF cache.train = NoSplit THEN "failed" ELSE "loading"
             new == [run[p] EXCEPT !.phase = phase,
                                   !.data = [train |-> cache.train, test |-> NoSplit]]
  <2>1. /\ phase \in {"failed", "loading"}
        /\ phase = "loading" => cache.train # NoSplit
    OBVIOUS
  <2>2. run' = [run EXCEPT ![p] = new] /\ UNCHANGED <<cache, overlapped>>
    BY <1>10 DEF LoadTrain, Goes
  <2> HIDE DEF phase
  <2>3. DOMAIN new = Fields /\ new.phase = phase /\ new.data.train = cache.train
    BY DEF DataInv, Shape, Fields
  <2> HIDE DEF new
  <2>4. run'[p] = new /\ DOMAIN run' = Run /\ \A q \in Run \ {p} : run'[q] = run[q]
    BY <2>2 DEF DataInv, Shape
  <2>5. Shape'
    BY <2>2, <2>3, <2>4 DEF DataInv, Shape
  <2>6. ASSUME ~overlapped PROVE OneReplaces' /\ SavedSoFar' /\ OneAttempt' /\ LoadedSoFar'
    <3>1. OneReplaces'
      BY <2>1, <2>3, <2>4, <2>6 DEF DataInv, OneReplaces, Replacing
    <3>2. \A q \in Run \ {p} : Attempt(q)' = Attempt(q)
      BY <2>4 DEF Attempt
    <3>3. SavedSoFar'
      BY <2>1, <2>2, <2>3, <2>4, <2>6, <3>2 DEF DataInv, SavedSoFar, In
    <3>4. OneAttempt'
      BY <2>2, <2>6 DEF DataInv, OneAttempt
    <3>5. LoadedSoFar'
      BY <2>1, <2>2, <2>3, <2>4, <2>6 DEF DataInv, LoadedSoFar, In
    <3> QED BY <3>1, <3>3, <3>4, <3>5
  <2>7. LoadedIsOnePrepare'
    BY <2>1, <2>2, <2>3, <2>4 DEF DataInv, LoadedIsOnePrepare, In
  <2> QED BY <2>2, <2>5, <2>6, <2>7 DEF DataInv
<1>13. ASSUME NEW p \in Run, LoadTest(p) PROVE DataInv'
  <2> DEFINE phase == CASE cache.test = NoSplit -> "failed"
                        [] cache.test # NoSplit /\ EvalPart = 0 -> "refused"
                        [] OTHER -> "trained"
             data == [train |-> run[p].data.train, test |-> cache.test]
             new == [run[p] EXCEPT !.phase = phase, !.data = data]
  <2>1. phase = "trained" => cache.test # NoSplit
    OBVIOUS
  <2>2. phase \in {"failed", "refused", "trained"}
    OBVIOUS
  <2>3. data.train = run[p].data.train /\ data.test = cache.test
    OBVIOUS
  <2>4. run' = [run EXCEPT ![p] = new] /\ UNCHANGED <<cache, overlapped>>
    BY <1>13 DEF LoadTest, Goes
  <2> HIDE DEF phase, data
  <2>5. DOMAIN new = Fields /\ new.phase = phase /\ new.data = data
    BY DEF DataInv, Shape, Fields
  <2> HIDE DEF new
  <2>6. run'[p] = new /\ DOMAIN run' = Run /\ \A q \in Run \ {p} : run'[q] = run[q]
    BY <2>4 DEF DataInv, Shape
  <2>7. Shape'
    BY <2>4, <2>5, <2>6 DEF DataInv, Shape
  <2>8. ASSUME ~overlapped PROVE OneReplaces' /\ SavedSoFar' /\ OneAttempt' /\ LoadedSoFar'
    <3>1. OneReplaces'
      BY <2>2, <2>5, <2>6, <2>8 DEF DataInv, OneReplaces, Replacing
    <3>2. \A q \in Run \ {p} : Attempt(q)' = Attempt(q)
      BY <2>6 DEF Attempt
    <3>3. SavedSoFar'
      BY <2>2, <2>4, <2>5, <2>6, <2>8, <3>2 DEF DataInv, SavedSoFar, In
    <3>4. OneAttempt'
      BY <2>4, <2>8 DEF DataInv, OneAttempt
    <3>5. LoadedSoFar'
      BY <2>2, <2>4, <2>5, <2>6, <2>8 DEF DataInv, LoadedSoFar, In
    <3> QED BY <3>1, <3>3, <3>4, <3>5
  <2>9. ASSUME ~overlapped, phase = "trained" PROVE data.train.by = data.test.by
    <3>1. cache.train # NoSplit /\ run[p].data.train = cache.train
      BY <1>13, <2>9 DEF DataInv, LoadedSoFar, LoadTest
    <3> QED BY <3>1, <2>1, <2>3, <2>9 DEF DataInv, OneAttempt
  <2>10. LoadedIsOnePrepare'
    BY <2>4, <2>5, <2>6, <2>9 DEF DataInv, LoadedIsOnePrepare, In
  <2> QED BY <2>4, <2>7, <2>8, <2>10 DEF DataInv
<1>11. ASSUME NEW p \in Run, Crash(p) PROVE DataInv'
  <2>1. DOMAIN Fresh(run[p].crashes + 1) = Fields
    BY DEF Fresh, Fields
  <2>2. Fresh(run[p].crashes + 1).phase = "idle"
    BY DEF Fresh
  <2> QED BY <1>11, <2>1, <2>2, Aside DEF Crash, Goes, Replacing
<1>12. CASE UNCHANGED dataVars
  BY <1>12 DEF dataVars, DataInv, Shape, OneReplaces, SavedSoFar, OneAttempt,
                LoadedSoFar, LoadedIsOnePrepare, In, Attempt
<1> QED BY <1>1, <1>2, <1>3, <1>4, <1>5, <1>6, <1>7, <1>8, <1>9, <1>10, <1>11, <1>12,
           <1>13 DEF DataNext

(* Unless a cache is ever replaced while another run replaces or loads it, *)
(* a training, which reads a split after the other, starts from the two    *)
(* splits of one attempt (prepare.py:182-189, data_loader.py:47-50,62-73). *)
THEOREM OnePrepareLoaded == DataSpec => []LoadedIsOnePrepare
<1>1. DataInit => DataInv
  <2> SUFFICES ASSUME DataInit PROVE DataInv
    OBVIOUS
  <2>1. DOMAIN Fresh(0) = Fields /\ Fresh(0).phase = "idle"
    BY DEF Fresh, Fields
  <2>2. \A p \in Run : run[p] = Fresh(0)
    BY DEF DataInit
  <2>3. Shape
    BY <2>1, <2>2 DEF DataInit, Shape, NoCache
  <2>4. \A p \in Run : run[p].phase = "idle"
    BY <2>1, <2>2
  <2>5. OneAttempt
    BY DEF DataInit, OneAttempt, NoCache
  <2> QED BY <2>3, <2>4, <2>5 DEF DataInv, OneReplaces, SavedSoFar, LoadedSoFar,
                                 LoadedIsOnePrepare, In, Replacing
<1>2. DataInv => LoadedIsOnePrepare
  BY DEF DataInv
<1> QED BY <1>1, <1>2, DataStep, PTL DEF DataSpec

-----------------------------------------------------------------------------
(* Sequences that are built from left to right *)

IsUpto(f, s, places) ==
  f = [i \in 0..Len(s) |->
        IF i = 0 THEN <<>>
        ELSE IF i \in places THEN Append(f[i - 1], s[i]) ELSE f[i - 1]]

(* What is picked is of the places that were named.                        *)
LEMMA PickedFrom ==
  ASSUME NEW V, NEW s \in Seq(V), NEW places, NEW W,
         \A i \in DOMAIN s : i \in places => s[i] \in W
  PROVE  Picked(s, places) \in Seq(W)
<1> DEFINE n == Len(s)
           step == [x \in (1..n) \X Seq(W) |->
                     IF x[1] \in places THEN Append(x[2], s[x[1]]) ELSE x[2]]
<1>1. n \in Nat /\ DOMAIN s = 1..n
  OBVIOUS
<1>2. ASSUME NEW x \in (1..n) \X Seq(W)
      PROVE  (IF x[1] \in places THEN Append(x[2], s[x[1]]) ELSE x[2]) \in Seq(W)
  <2>1. x[1] \in DOMAIN s /\ x[2] \in Seq(W)
    BY <1>1
  <2> QED BY <2>1
<1>3. step \in [(1..n) \X Seq(W) -> Seq(W)]
  BY <1>2
<1>4. \A i \in 1..n, v \in Seq(W) :
        step[<<i, v>>] = IF i \in places THEN Append(v, s[i]) ELSE v
  OBVIOUS
<1>5. <<>> \in Seq(W)
  OBVIOUS
<1> HIDE DEF step
<1>6. PICK f \in [0..n -> Seq(W)] :
        f[0] = <<>> /\ \A i \in 1..n : f[i] = step[<<i, f[i - 1]>>]
  <2> DEFINE U == Seq(W)
             none == <<>>
  <2>1. n \in Nat
    BY <1>1
  <2>2. step \in [(1..n) \X U -> U]
    BY <1>3
  <2>3. none \in U
    BY <1>5
  <2> HIDE DEF n, U, none
  <2>4. PICK f \in [0..n -> U] : Counts(f, n, none, step)
    BY <2>1, <2>2, <2>3, CountedRecursion
  <2> QED BY <2>4 DEF U, none, Counts
<1>7. ASSUME NEW i \in 0..n
      PROVE  f[i] = IF i = 0 THEN <<>>
                    ELSE IF i \in places THEN Append(f[i - 1], s[i]) ELSE f[i - 1]
  <2>1. CASE i = 0
    BY <1>6, <2>1
  <2>2. CASE i # 0
    <3>1. i \in 1..n /\ i - 1 \in 0..n
      BY <1>1, <2>2
    <3>2. f[i - 1] \in Seq(W)
      BY <1>6, <3>1
    <3> QED BY <1>4, <1>6, <2>2, <3>1, <3>2
  <2> QED BY <2>1, <2>2
<1>8. IsUpto(f, s, places)
  <2> DEFINE body(i) == IF i = 0 THEN <<>>
                        ELSE IF i \in places THEN Append(f[i - 1], s[i]) ELSE f[i - 1]
  <2>1. f = [i \in 0..n |-> f[i]]
    BY <1>6
  <2>2. \A i \in 0..n : f[i] = body(i)
    BY <1>7
  <2>3. f = [i \in 0..n |-> body(i)]
    <3> HIDE DEF body
    <3> QED BY <2>1, <2>2
  <2> QED BY <2>3, Zenon DEF IsUpto
<1> DEFINE g == CHOOSE g : IsUpto(g, s, places)
<1>9. IsUpto(g, s, places)
  BY <1>8
<1>10. Picked(s, places) = g[n]
  BY DEF Picked, IsUpto
<1> HIDE DEF g
<1>11. \A i \in 0..n :
         g[i] = IF i = 0 THEN <<>>
                ELSE IF i \in places THEN Append(g[i - 1], s[i]) ELSE g[i - 1]
  BY <1>9 DEF IsUpto
<1> DEFINE parent == [i \in 1..n |-> i - 1]
           S == {i \in 1..n : g[i] \in Seq(W)}
<1>12. Forest(n, parent)
  BY <1>1 DEF Forest
<1>13. ASSUME NEW i \in 1..n, parent[i] = 0 \/ parent[i] \in S
       PROVE  i \in S
  <2>1. i \in DOMAIN s /\ i - 1 \in 0..n /\ i \in 0..n /\ 0 \in 0..n /\ i # 0
    BY <1>1
  <2>2. g[i - 1] \in Seq(W)
    <3>1. parent[i] = i - 1
      OBVIOUS
    <3>2. CASE parent[i] = 0
      <4>1. i - 1 = 0
        BY <3>1, <3>2
      <4>2. g[0] = <<>>
        BY <1>11, <2>1
      <4> QED BY <1>5, <4>1, <4>2
    <3>3. CASE parent[i] \in S
      BY <3>1, <3>3
    <3> QED BY <1>13, <3>2, <3>3
  <2>3. CASE i \in places
    <3>1. g[i] = Append(g[i - 1], s[i])
      BY <1>11, <2>1, <2>3
    <3>2. s[i] \in W
      BY <2>1, <2>3
    <3>3. Append(g[i - 1], s[i]) \in Seq(W)
      BY <2>2, <3>2
    <3> QED BY <3>1, <3>3
  <2>4. CASE i \notin places
    <3>1. g[i] = g[i - 1]
      BY <1>11, <2>1, <2>4
    <3> QED BY <2>2, <3>1
  <2> QED BY <2>3, <2>4
<1> HIDE DEF S, parent
<1>14. \A i \in 1..n : i \in S
  BY <1>12, <1>13, ForestInduction
<1>15. g[n] \in Seq(W)
  BY <1>1, <1>5, <1>11, <1>14 DEF S
<1> QED BY <1>10, <1>15

IsFlat(f, seqs) ==
  f = [i \in 1..Len(seqs) |-> IF i = 1 THEN seqs[i] ELSE f[i - 1] \o seqs[i]]

LEMMA FlatFrom ==
  ASSUME NEW V, NEW seqs \in Seq(Seq(V))
  PROVE  FlattenSeq(seqs) \in Seq(V)
<1> DEFINE n == Len(seqs)
           U == Seq(V)
           parent == [i \in 1..n |-> i - 1]
           step == [x \in (1..n) \X U |-> x[2] \o seqs[x[1]]]
<1>1. n \in Nat /\ DOMAIN seqs = 1..n /\ seqs \in [1..n -> U]
  OBVIOUS
<1>2. CASE n = 0
  <2>1. FlattenSeq(seqs) = seqs /\ seqs = <<>>
    BY <1>2 DEF FlattenSeq
  <2> QED BY <2>1
<1>3. CASE n # 0
  <2>1. Forest(n, parent)
    BY <1>1 DEF Forest
  <2>2. ASSUME NEW x \in (1..n) \X U PROVE x[2] \o seqs[x[1]] \in U
    <3>1. x[2] \in Seq(V) /\ seqs[x[1]] \in Seq(V)
      BY <1>1
    <3> QED BY <3>1
  <2>3. step \in [(1..n) \X U -> U]
    BY <2>2
  <2>4. \A i \in 1..n, v \in U : step[<<i, v>>] = v \o seqs[i]
    OBVIOUS
  <2>5. \A i \in 1..n : parent[i] = i - 1
    OBVIOUS
  <2> HIDE DEF n, U, parent, step
  <2>6. PICK f \in [1..n -> U] : Solves(f, n, parent, seqs, step)
    BY <1>1, <2>1, <2>3, ForestRecursion
  <2>7. ASSUME NEW i \in 1..n
        PROVE  f[i] = IF i = 1 THEN seqs[i] ELSE f[i - 1] \o seqs[i]
    <3>1. f[i] = IF parent[i] = 0 THEN seqs[i] ELSE step[<<i, f[parent[i]]>>]
      BY <2>6 DEF Solves
    <3>2. parent[i] = i - 1
      BY <2>5
    <3>3. CASE i = 1
      BY <3>1, <3>2, <3>3
    <3>4. CASE i # 1
      <4>1. i - 1 \in 1..n /\ parent[i] # 0
        BY <1>1, <3>2, <3>4
      <4>2. f[i - 1] \in U
        BY <2>6, <4>1
      <4> QED BY <2>4, <3>1, <3>2, <3>4, <4>1, <4>2
    <3> QED BY <3>3, <3>4
  <2>8. IsFlat(f, seqs)
    <3> DEFINE body(i) == IF i = 1 THEN seqs[i] ELSE f[i - 1] \o seqs[i]
    <3>1. f = [i \in 1..n |-> f[i]]
      BY <2>6
    <3>2. \A i \in 1..n : f[i] = body(i)
      BY <2>7
    <3>3. f = [i \in 1..n |-> body(i)]
      <4> HIDE DEF body
      <4> QED BY <3>1, <3>2
    <3> QED BY <3>3, Zenon DEF IsFlat, n
  <2> DEFINE g == CHOOSE g : IsFlat(g, seqs)
  <2>9. IsFlat(g, seqs)
    BY <2>8
  <2>10. FlattenSeq(seqs) = g[n]
    <3>1. Len(seqs) # 0
      BY <1>3 DEF n
    <3> QED BY <3>1 DEF FlattenSeq, IsFlat, n
  <2> HIDE DEF g
  <2>11. \A i \in 1..n : g[i] = IF i = 1 THEN seqs[i] ELSE g[i - 1] \o seqs[i]
    BY <2>9 DEF IsFlat, n
  <2> DEFINE S == {i \in 1..n : g[i] \in U}
  <2>12. ASSUME NEW i \in 1..n, parent[i] = 0 \/ parent[i] \in S
         PROVE  i \in S
    <3>1. parent[i] = i - 1 /\ seqs[i] \in Seq(V)
      BY <1>1, <2>5 DEF U
    <3>2. CASE i = 1
      BY <2>11, <3>1, <3>2 DEF U
    <3>3. CASE i # 1
      <4>1. g[i - 1] \in Seq(V)
        BY <1>1, <2>12, <3>1, <3>3 DEF U
      <4>2. g[i] = g[i - 1] \o seqs[i]
        BY <2>11, <3>3
      <4>3. g[i - 1] \o seqs[i] \in Seq(V)
        BY <3>1, <4>1
      <4> QED BY <4>2, <4>3 DEF U
    <3> QED BY <3>2, <3>3
  <2> HIDE DEF S
  <2>13. \A i \in 1..n : i \in S
    BY <2>1, <2>12, ForestInduction
  <2>14. n \in 1..n
    BY <1>1, <1>3
  <2> QED BY <2>10, <2>13, <2>14 DEF S, U
<1> QED BY <1>2, <1>3

-----------------------------------------------------------------------------
(* Shuffles of sequences of pairs *)

LEMMA RowsFinite ==
  ASSUME NEW V, NEW pairs \in Seq(V)
  PROVE  IsFiniteSet(Rows(pairs)) /\ Rows(pairs) \subseteq V
<1>1. DOMAIN pairs = 1..Len(pairs) /\ Len(pairs) \in Nat
  OBVIOUS
<1>2. IsFiniteSet(1..Len(pairs))
  BY <1>1, FS_Interval
<1>3. pairs \in [1..Len(pairs) -> Rows(pairs)]
  BY <1>1 DEF Rows
<1>4. \A t \in Rows(pairs) : \E i \in 1..Len(pairs) : pairs[i] = t
  BY <1>1 DEF Rows
<1>5. IsFiniteSet(Rows(pairs))
  BY <1>2, <1>3, <1>4, FiniteImage
<1> QED BY <1>1, <1>5 DEF Rows

(* A set of finite size written down in some order.                        *)
LEMMA OrderedFrom ==
  ASSUME NEW S, IsFiniteSet(S), NEW s \in SetToSeqs(S)
  PROVE  s \in Seq(S)
<1>1. Cardinality(S) \in Nat
  BY FS_CardinalityType
<1>2. s \in [1..Cardinality(S) -> S]
  BY DEF SetToSeqs
<1> QED BY <1>1, <1>2

LEMMA BlocksFrom ==
  ASSUME NEW V, NEW pairs \in Seq(V), NEW s
  PROVE  Blocks(pairs, s) \in Seq(Seq(V))
<1> DEFINE own == OfSource(pairs, s)
           n == (Len(own) + BlockSize - 1) \div BlockSize
           upto(b) == IF b * BlockSize < Len(own) THEN b * BlockSize ELSE Len(own)
           block(b) == SubSeq(own, ((b - 1) * BlockSize) + 1, upto(b))
<1>1. own \in Seq(V)
  BY PickedFrom DEF OfSource
<1> HIDE DEF own
<1>2. BlockSize \in Nat \ {0} /\ Len(own) \in Nat
  BY <1>1, DataAssumption
<1>3. n \in Nat
  BY <1>2
<1>4. ASSUME NEW b \in 1..n PROVE block(b) \in Seq(V)
  <2>1. ((b - 1) * BlockSize) \in Nat /\ b * BlockSize \in Nat
    BY <1>2, <1>3
  <2> DEFINE from == ((b - 1) * BlockSize) + 1
  <2>2. from \in Nat \ {0} /\ upto(b) \in Nat /\ upto(b) <= Len(own)
    BY <1>2, <2>1
  <2> HIDE DEF from, upto
  <2>3. \A i \in from..upto(b) : i \in 1..Len(own)
    BY <1>2, <2>2
  <2>4. \A i \in from..upto(b) : own[i] \in V
    BY <1>1, <2>3
  <2>5. SubSeq(own, from, upto(b)) \in Seq(V)
    BY <2>2, <2>4, SubSeqProperties
  <2> QED BY <2>5 DEF from
<1>5. Blocks(pairs, s) = [b \in 1..n |-> block(b)]
  BY Zenon DEF Blocks, own
<1> HIDE DEF n, block
<1> QED BY <1>3, <1>4, <1>5

LEMMA CircularFrom ==
  ASSUME NEW V, NEW pairs \in Seq(V)
  PROVE  Circular(pairs) \in Seq(Seq(V))
<1> DEFINE firsts == Picked(pairs, {i \in DOMAIN pairs :
                       \A j \in 1..(i - 1) : Source(pairs[j]) # Source(pairs[i])})
           order == SourceOrder(pairs)
           turn(b, i) == IF b <= Len(Blocks(pairs, order[i]))
                         THEN <<Blocks(pairs, order[i])[b]>> ELSE <<>>
           turns(b) == [i \in DOMAIN order |-> turn(b, i)]
           rounds == [b \in DOMAIN pairs |-> FlattenSeq(turns(b))]
<1>1. firsts \in Seq(V)
  BY PickedFrom
<1>2. order = [k \in DOMAIN firsts |-> Source(firsts[k])]
  BY Zenon DEF SourceOrder
<1> HIDE DEF firsts, order
<1>3. DOMAIN order = 1..Len(firsts) /\ Len(firsts) \in Nat
  BY <1>1, <1>2
<1>4. ASSUME NEW b \in Nat \ {0}, NEW i \in DOMAIN order PROVE turn(b, i) \in Seq(Seq(V))
  <2> DEFINE blocks == Blocks(pairs, order[i])
  <2>1. blocks \in Seq(Seq(V))
    BY BlocksFrom
  <2> HIDE DEF blocks
  <2>2. CASE b <= Len(blocks)
    <3>1. blocks[b] \in Seq(V)
      BY <2>1, <2>2
    <3> QED BY <2>2, <3>1 DEF blocks
  <2>3. CASE ~(b <= Len(blocks))
    BY <2>3 DEF blocks
  <2> QED BY <2>2, <2>3
<1> HIDE DEF turn
<1>5. ASSUME NEW b \in Nat \ {0} PROVE turns(b) \in Seq(Seq(Seq(V)))
  BY <1>3, <1>4
<1> HIDE DEF turns
<1>6. ASSUME NEW b \in Nat \ {0} PROVE FlattenSeq(turns(b)) \in Seq(Seq(V))
  BY <1>5, FlatFrom
<1>7. DOMAIN pairs = 1..Len(pairs) /\ Len(pairs) \in Nat
  OBVIOUS
<1>8. rounds \in Seq(Seq(Seq(V)))
  BY <1>6, <1>7
<1>9. Circular(pairs) = FlattenSeq(rounds)
  BY Zenon DEF Circular, rounds, turns, turn, order
<1> HIDE DEF rounds
<1> QED BY <1>8, <1>9, FlatFrom

(* A shuffle takes its pairs from those there are.                         *)
LEMMA ShuffledFrom ==
  ASSUME NEW V, NEW pairs \in Seq(V), NEW blocks,
         blocks \in IF Order = "none" THEN {<<pairs>>} ELSE Shuffles(pairs)
  PROVE  FlattenSeq(blocks) \in Seq(V)
<1>1. CASE Order = "none"
  <2>1. blocks = <<pairs>> /\ <<pairs>> \in Seq(Seq(V))
    BY <1>1
  <2> QED BY <2>1, FlatFrom
<1>2. CASE Order = "circular"
  <2>1. blocks = Circular(pairs)
    BY <1>2 DEF Shuffles
  <2> QED BY <2>1, CircularFrom, FlatFrom
<1>3. CASE Order \notin {"none", "circular"}
  <2> DEFINE of == {Rows(Blocks(pairs, s)) : s \in Sources(pairs)}
  <2>1. blocks \in SetToSeqs(UNION of)
    BY <1>3 DEF Shuffles
  <2>2. \A s : IsFiniteSet(Rows(Blocks(pairs, s))) /\ Rows(Blocks(pairs, s)) \subseteq Seq(V)
    BY BlocksFrom, RowsFinite
  <2>3. IsFiniteSet(of)
    <3> DEFINE places == 1..Len(pairs)
               f == [i \in places |-> Rows(Blocks(pairs, Source(pairs[i])))]
    <3>1. IsFiniteSet(places)
      BY FS_Interval
    <3>2. of = {Rows(Blocks(pairs, Source(pairs[i]))) : i \in places}
      BY DEF Sources
    <3>3. f \in [places -> of] /\ \A t \in of : \E i \in places : f[i] = t
      BY <3>2
    <3> HIDE DEF f, places, of
    <3> QED BY <3>1, <3>3, FiniteImage
  <2>4. \A T \in of : IsFiniteSet(T) /\ T \subseteq Seq(V)
    BY <2>2
  <2> HIDE DEF of
  <2>5. IsFiniteSet(UNION of) /\ UNION of \subseteq Seq(V)
    BY <2>3, <2>4, FS_UNION
  <2>6. blocks \in Seq(UNION of)
    BY <2>1, <2>5, OrderedFrom
  <2>7. blocks \in Seq(Seq(V))
    BY <2>5, <2>6
  <2> QED BY <2>7, FlatFrom
<1> QED BY <1>1, <1>2, <1>3

-----------------------------------------------------------------------------
(* The choice of the rejected answer *)

(* Of some numbers one is not above another.                               *)
LEMMA LeastValue ==
  ASSUME NEW n \in Nat, NEW of, of \subseteq 1..n, of # {},
         NEW value, \A i \in of : value[i] \in Int
  PROVE  \E i \in of : \A j \in of : value[i] <= value[j]
<1> DEFINE parent == [i \in 1..n |-> i - 1]
           Has(k) == \A m \in of : m <= k =>
                       \E i \in of : \A j \in of : j <= k => value[i] <= value[j]
           S == {k \in 1..n : Has(k)}
<1>1. Forest(n, parent) /\ \A i \in 1..n : parent[i] = i - 1
  BY DEF Forest
<1>2. ASSUME NEW k \in 1..n, k = 1 \/ Has(k - 1) PROVE Has(k)
  <2>1. CASE k \notin of
    <3>1. \A j \in of : j <= k => k # 1 /\ j <= k - 1
      BY <2>1
    <3> QED BY <1>2, <3>1
  <2>2. CASE k \in of /\ \A j \in of : j <= k => j = k
    BY <2>2
  <2>3. ASSUME k \in of, NEW m \in of, m <= k, m # k PROVE Has(k)
    <3>1. k # 1 /\ m <= k - 1
      BY <2>3
    <3>2. PICK i \in of : \A j \in of : j <= k - 1 => value[i] <= value[j]
      BY <1>2, <3>1
    <3>3. \A j \in of : j <= k => j = k \/ j <= k - 1
      OBVIOUS
    <3>4. CASE value[i] <= value[k]
      BY <3>2, <3>3, <3>4
    <3>5. CASE ~(value[i] <= value[k])
      <4>1. \A j \in of : j <= k => value[k] <= value[j]
        BY <2>3, <3>2, <3>3, <3>5
      <4> QED BY <2>3, <4>1
    <3> QED BY <3>4, <3>5
  <2> QED BY <2>1, <2>2, <2>3
<1>3. \A k \in 1..n : k \in S <=> Has(k)
  OBVIOUS
<1> HIDE DEF Has, parent, S
<1>4. \A k \in 1..n : parent[k] = 0 \/ parent[k] \in S => k \in S
  <2> SUFFICES ASSUME NEW k \in 1..n, parent[k] = 0 \/ parent[k] \in S PROVE k \in S
    OBVIOUS
  <2>1. parent[k] = k - 1
    BY <1>1
  <2>2. k = 1 \/ (k - 1 \in 1..n /\ k - 1 \in S)
    BY <2>1
  <2> QED BY <1>2, <1>3, <2>2
<1>5. \A k \in 1..n : k \in S
  BY <1>1, <1>4, ForestInduction
<1>6. n \in 1..n /\ Has(n)
  <2>1. n \in 1..n
    <3>1. PICK m \in of : TRUE
      OBVIOUS
    <3>2. m \in 1..n
      OBVIOUS
    <3> QED BY <3>2
  <2>2. n \in S
    BY <1>5, <2>1
  <2>3. n \in S <=> Has(n)
    BY <1>3, <2>1
  <2> QED BY <2>1, <2>2, <2>3
<1>7. PICK m \in of : TRUE
  OBVIOUS
<1>8. \A j \in of : j <= n
  OBVIOUS
<1>9. PICK i \in of : \A j \in of : j <= n => value[i] <= value[j]
  BY <1>6, <1>7, <1>8 DEF Has
<1> QED BY <1>8, <1>9

(* The first of those with the least value is one of them.                 *)
LEMMA LeastIsOf ==
  ASSUME NEW cands, NEW limits, NEW of, NEW n \in Nat, of \subseteq 1..n, of # {},
         NEW value, \A i \in of : value[i] \in Int
  PROVE  Least(cands, limits, of, value) \in of
<1> DEFINE clean == Unsuspected(cands, limits)
           least == {i \in of : \A j \in of : value[i] <= value[j]}
           First(m) == /\ \A j \in of : value[m] <= value[j]
                       /\ \A j \in of : value[j] = value[m] => Before(cands, limits, m, j)
<1>1. least # {} /\ least \subseteq Nat
  <2>1. \E i \in of : \A j \in of : value[i] <= value[j]
    BY LeastValue
  <2>2. of \subseteq Nat
    OBVIOUS
  <2> QED BY <2>1, <2>2
<1>2. ASSUME NEW m \in least, NEW j \in of, value[j] = value[m] PROVE j \in least
  BY <1>2
<1>3. \E m \in least : \A j \in least : Before(cands, limits, m, j)
  <2> HIDE DEF least
  <2>1. CASE least \cap clean # {}
    <3>1. PICK m \in least \cap clean : \A j \in least \cap clean : m <= j
      <4> DEFINE T == least \cap clean
      <4>1. T # {} /\ T \subseteq Nat
        BY <1>1, <2>1
      <4> HIDE DEF T
      <4>2. \E m \in T : \A j \in T : m <= j
        BY <4>1, LeastNumber
      <4> QED BY <4>2 DEF T
    <3>2. \A j \in least : Before(cands, limits, m, j)
      BY <3>1 DEF Before
    <3> QED BY <3>1, <3>2
  <2>2. CASE least \cap clean = {}
    <3>1. PICK m \in least : \A j \in least : m <= j
      BY <1>1, LeastNumber
    <3>2. \A j \in least : Before(cands, limits, m, j)
      BY <2>2, <3>1 DEF Before
    <3> QED BY <3>1, <3>2
  <2> QED BY <2>1, <2>2
<1>4. PICK m \in least : \A j \in least : Before(cands, limits, m, j)
  BY <1>3
<1>5. m \in of /\ First(m)
  BY <1>2, <1>4
<1>6. Least(cands, limits, of, value) = CHOOSE i \in of : First(i)
  BY Zenon DEF Least
<1> HIDE DEF First
<1> QED BY <1>5, <1>6

(* What is asked of a chosen candidate, one of several.                    *)
IsFit(cands, limits, chosen) ==
  LET kept(i) == Degenerate(cands[i], limits) => Rescued(cands[i])
  IN  /\ kept(chosen)
      /\ FalseNegative(cands[chosen], limits) =>
           /\ Fallback = "temperature"
           /\ \A i \in DOMAIN cands : kept(i) => FalseNegative(cands[i], limits)

LEMMA SelectedIsFit ==
  ASSUME NEW cands \in Seq(Candidate), NEW limits,
         NEW chosen, chosen = Select(cands, limits, Fallback), chosen # Nobody
  PROVE  /\ chosen \in DOMAIN cands
         /\ Len(cands) > 1 => IsFit(cands, limits, chosen)
<1> DEFINE n == Len(cands)
           clean == Unsuspected(cands, limits)
           rescued == RescuedOf(cands, limits)
           all == clean \cup rescued
           fit == {i \in all : ~FalseNegative(cands[i], limits)}
<1>1. n \in Nat /\ DOMAIN cands = 1..n /\ \A i \in 1..n : cands[i] \in Candidate
  OBVIOUS
<1>2. all \subseteq 1..n
  BY <1>1 DEF Unsuspected, RescuedOf
<1>3. \A i \in 1..n : i \in all <=> (Degenerate(cands[i], limits) => Rescued(cands[i]))
  BY <1>1 DEF Unsuspected, RescuedOf
<1>4. \A i \in 1..n : /\ cands[i].distance \in Int /\ cands[i].rouge \in Int
                      /\ -cands[i].score \in Int
  BY <1>1 DEF Candidate
<1>5. CASE n = 0
  BY <1>1, <1>5 DEF Select
<1>6. CASE n = 1
  BY <1>1, <1>6 DEF Select
<1>7. CASE n > 1 /\ AllDegenerate(cands, limits)
  BY <1>1, <1>7 DEF Select
<1>8. CASE n > 1 /\ ~AllDegenerate(cands, limits)
  <2>1. all # {}
    BY <1>8 DEF AllDegenerate
  <2>2. chosen = IF fit = {} THEN ByTemperature(cands, limits, all, Fallback)
                 ELSE IF rescued # {} THEN LowestRouge(cands, limits, fit)
                 ELSE HighestScore(cands, limits, fit)
    BY <1>1, <1>8 DEF Select
  <2> HIDE DEF all, n
  <2>3. CASE fit = {}
    <3> DEFINE value == [i \in all |-> cands[i].distance]
    <3>1. Fallback = "temperature" /\ chosen = Least(cands, limits, all, value)
      BY <2>2, <2>3 DEF ByTemperature
    <3>2. \A i \in all : value[i] \in Int
      BY <1>2, <1>4
    <3> HIDE DEF value
    <3>3. chosen \in all
      BY <1>1, <1>2, <2>1, <3>1, <3>2, LeastIsOf
    <3>4. \A i \in all : FalseNegative(cands[i], limits)
      BY <2>3
    <3> QED BY <1>1, <1>2, <1>3, <3>1, <3>3, <3>4 DEF IsFit
  <2>4. CASE fit # {}
    <3>1. fit \subseteq 1..n
      BY <1>2
    <3> DEFINE rouge == [i \in fit |-> cands[i].rouge]
               score == [i \in fit |-> -cands[i].score]
    <3>2. \A i \in fit : rouge[i] \in Int /\ score[i] \in Int
      BY <1>4, <3>1
    <3>3. \/ chosen = Least(cands, limits, fit, rouge)
          \/ chosen = Least(cands, limits, fit, score)
      BY <2>2, <2>4 DEF LowestRouge, HighestScore
    <3>4. chosen \in fit
      <4> HIDE DEF fit, rouge, score
      <4> QED BY <1>1, <2>4, <3>1, <3>2, <3>3, LeastIsOf
    <3>5. chosen \in all /\ ~FalseNegative(cands[chosen], limits)
      BY <3>4
    <3> QED BY <1>1, <1>2, <1>3, <3>5 DEF IsFit
  <2> QED BY <2>3, <2>4
<1> QED BY <1>1, <1>5, <1>6, <1>7, <1>8

LEMMA FirstIsOf ==
  ASSUME NEW cands \in Seq(Candidate), FirstAtTemperature(cands) # Nobody
  PROVE  FirstAtTemperature(cands) \in DOMAIN cands
<1> DEFINE exact == {i \in DOMAIN cands : cands[i].distance = 0}
           Is(i) == \A j \in exact : i <= j
<1>1. DOMAIN cands = 1..Len(cands) /\ Len(cands) \in Nat /\ exact \subseteq Nat
  OBVIOUS
<1>2. Len(cands) # 0
  BY DEF FirstAtTemperature
<1>3. CASE exact = {}
  <2>1. FirstAtTemperature(cands) = 1
    BY <1>1, <1>2, <1>3 DEF FirstAtTemperature
  <2> QED BY <1>1, <1>2, <2>1
<1>4. CASE exact # {}
  <2>1. FirstAtTemperature(cands) = CHOOSE i \in exact : Is(i)
    BY <1>1, <1>2, <1>4 DEF FirstAtTemperature
  <2> HIDE DEF exact
  <2>2. \E i \in exact : Is(i)
    BY <1>1, <1>4, LeastNumber
  <2> HIDE DEF Is
  <2>3. FirstAtTemperature(cands) \in exact
    BY <2>1, <2>2
  <2> QED BY <2>3 DEF exact
<1> QED BY <1>3, <1>4

-----------------------------------------------------------------------------
(* What the pairs are, and which of them were written down as too long;    *)
(* of any runs r, attempts u whose filter failed, and file d.              *)

FitPair(p) ==
  {x \in [entry : DOMAIN Entry, rep : Nat, row : Nat, prompt : Nat, rejected : Nat] :
     LET cands == RowAt(x).candidates
     IN  HardNegatives[p] /\ Len(cands) > 1 =>
           IsFit(cands, Limits(x.entry), x.rejected)}

Early == {"idle", "collecting", "filtering"}

(* The attempts whose filter is behind them, whatever became of them.      *)
Filtered(r, by) ==
  \E p \in Run : \E n \in 0..r[p].crashes :
    by = <<p, n>> /\ (n = r[p].crashes => r[p].phase \notin Early)

Unwritten(u, d, by, x) == by \in u \/ <<by, x>> \notin d

Sound(r, u, d, p) == {x \in FitPair(p) : Unwritten(u, d, <<p, r[p].crashes>>, x)}

SplitOK(r, u, d, split) ==
  \A x \in split.rows : Filtered(r, split.by) /\ Unwritten(u, d, split.by, x)

AtOK(p, at) ==
  /\ at \in [entry : Nat \ {0}, rep : Nat, row : Nat \ {0}]
  /\ at.entry <= Len(Recipe[p]) => at.row <= Len(Entry[Recipe[p][at.entry]].rows)

RunOK(r, u, d, p) ==
  /\ r[p].crashes \in Nat /\ AtOK(p, r[p].at)
  /\ r[p].phase \in Early => r[p].test = {}
  /\ r[p].pairs \in Seq(Sound(r, u, d, p)) /\ r[p].test \subseteq Sound(r, u, d, p)
  /\ SplitOK(r, u, d, r[p].data.train) /\ SplitOK(r, u, d, r[p].data.test)

PairsInv ==
  /\ Shape
  /\ \A p \in Run : RunOK(run, unfiltered, discarded, p)
  /\ SplitOK(run, unfiltered, discarded, cache.train)
  /\ SplitOK(run, unfiltered, discarded, cache.test)
  /\ \A line \in discarded : Filtered(run, line[1])

(* What run p becomes in a step: further on, or killed.                    *)
Onwards(old, new) ==
  /\ new.crashes \in Nat
  /\ \/ new.crashes = old.crashes /\ (old.phase \notin Early => new.phase \notin Early)
     \/ new.crashes = old.crashes + 1 /\ new.pairs = <<>> /\ new.test = {}

(* A filtered attempt stays one.                                           *)
LEMMA FilteredStays ==
  ASSUME NEW r, NEW p \in Run, NEW h, \A q \in Run : q # p => h[q] = r[q],
         r[p].crashes \in Nat, Onwards(r[p], h[p]), NEW by, Filtered(r, by)
  PROVE  Filtered(h, by)
<1>1. PICK q \in Run : \E n \in 0..r[q].crashes :
        by = <<q, n>> /\ (n = r[q].crashes => r[q].phase \notin Early)
  BY DEF Filtered
<1>2. PICK n \in 0..r[q].crashes :
        by = <<q, n>> /\ (n = r[q].crashes => r[q].phase \notin Early)
  BY <1>1
<1>3. CASE q # p
  BY <1>2, <1>3 DEF Filtered
<1>4. CASE q = p
  <2>1. n \in 0..h[p].crashes
    BY <1>2, <1>4 DEF Onwards
  <2>2. n = h[p].crashes => h[p].phase \notin Early
    BY <1>2, <1>4 DEF Onwards
  <2> QED BY <1>2, <1>4, <2>1, <2>2 DEF Filtered
<1> QED BY <1>3, <1>4

(* A step that writes nothing down.                                        *)
LEMMA PairsKept ==
  ASSUME PairsInv, NEW p \in Run, NEW new, run' = [run EXCEPT ![p] = new],
         DOMAIN new = Fields, UNCHANGED <<discarded, unfiltered>>,
         Onwards(run[p], new), AtOK(p, new.at), new.phase \in Early => new.test = {},
         new.pairs \in Seq(Sound(run, unfiltered, discarded, p)),
         new.test \subseteq Sound(run, unfiltered, discarded, p),
         SplitOK(run, unfiltered, discarded, new.data.train),
         SplitOK(run, unfiltered, discarded, new.data.test),
         DOMAIN cache' = {"train", "test"},
         SplitOK(run, unfiltered, discarded, cache'.train),
         SplitOK(run, unfiltered, discarded, cache'.test)
  PROVE  PairsInv'
<1> DEFINE u == unfiltered
           d == discarded
<1>1. run'[p] = new /\ DOMAIN run' = Run /\ \A q \in Run : q # p => run'[q] = run[q]
  BY DEF PairsInv, Shape
<1>2. Shape'
  BY <1>1 DEF PairsInv, Shape
<1>3. run[p].crashes \in Nat
  BY DEF PairsInv, RunOK
<1>4. ASSUME NEW by, Filtered(run, by) PROVE Filtered(run', by)
  BY <1>1, <1>3, <1>4, FilteredStays
<1>5. ASSUME NEW split, SplitOK(run, u, d, split) PROVE SplitOK(run', u, d, split)
  BY <1>4, <1>5 DEF SplitOK
<1>6. ASSUME NEW q \in Run, q # p PROVE RunOK(run', u, d, q)
  <2>1. run'[q] = run[q] /\ RunOK(run, u, d, q)
    BY <1>1, <1>6 DEF PairsInv
  <2>2. Sound(run', u, d, q) = Sound(run, u, d, q)
    BY <2>1 DEF Sound
  <2>3. SplitOK(run', u, d, run'[q].data.train) /\ SplitOK(run', u, d, run'[q].data.test)
    BY <1>5, <2>1 DEF RunOK
  <2> QED BY <2>1, <2>2, <2>3 DEF RunOK
<1>7. RunOK(run', u, d, p)
  <2>1. SplitOK(run', u, d, run'[p].data.train) /\ SplitOK(run', u, d, run'[p].data.test)
    BY <1>1, <1>5
  <2>2. CASE new.crashes = run[p].crashes
    <3>1. Sound(run', u, d, p) = Sound(run, u, d, p)
      BY <1>1, <2>2 DEF Sound
    <3> QED BY <1>1, <2>1, <3>1 DEF RunOK, Onwards
  <2>3. CASE new.pairs = <<>> /\ new.test = {}
    <3>1. \A S : <<>> \in Seq(S)
      OBVIOUS
    <3>2. /\ run'[p].crashes \in Nat /\ AtOK(p, run'[p].at)
          /\ run'[p].phase \in Early => run'[p].test = {}
      BY <1>1 DEF Onwards
    <3> QED BY <1>1, <2>1, <2>3, <3>1, <3>2 DEF RunOK
  <2> QED BY <2>2, <2>3 DEF Onwards
<1>8. SplitOK(run', u, d, cache'.train) /\ SplitOK(run', u, d, cache'.test)
  BY <1>5
<1>9. \A line \in d : Filtered(run', line[1])
  BY <1>4 DEF PairsInv
<1> QED BY <1>2, <1>6, <1>7, <1>8, <1>9 DEF PairsInv

(* A step of which nothing but the phase matters.                          *)
LEMMA PhaseOnly ==
  ASSUME PairsInv, NEW p \in Run, NEW phase,
         run' = [run EXCEPT ![p] = [@ EXCEPT !.phase = phase]],
         run[p].phase \notin Early => phase \notin Early, phase \in Early => run[p].test = {},
         UNCHANGED <<discarded, unfiltered>>,
         cache' \in {cache, NoCache}
  PROVE  PairsInv'
<1> DEFINE new == [run[p] EXCEPT !.phase = phase]
<1>1. /\ DOMAIN new = Fields /\ new.phase = phase /\ new.crashes = run[p].crashes
      /\ new.at = run[p].at /\ new.pairs = run[p].pairs /\ new.test = run[p].test
      /\ new.data = run[p].data
  BY DEF PairsInv, Shape, Fields
<1>2. run' = [run EXCEPT ![p] = new]
  BY DEF PairsInv, Shape
<1> HIDE DEF new
<1>3. RunOK(run, unfiltered, discarded, p)
  BY DEF PairsInv
<1>4. Onwards(run[p], new)
  BY <1>1, <1>3 DEF Onwards, RunOK
<1>5. /\ DOMAIN cache' = {"train", "test"}
      /\ SplitOK(run, unfiltered, discarded, cache'.train)
      /\ SplitOK(run, unfiltered, discarded, cache'.test)
  <2>1. /\ DOMAIN NoCache = {"train", "test"}
        /\ SplitOK(run, unfiltered, discarded, NoCache.train)
        /\ SplitOK(run, unfiltered, discarded, NoCache.test)
    BY DEF NoCache, NoSplit, SplitOK
  <2> QED BY <2>1 DEF PairsInv, Shape
<1> QED BY <1>1, <1>2, <1>3, <1>4, <1>5, PairsKept DEF RunOK

(* Of an attempt before its filter nothing is written down.                *)
LEMMA EarlyUnwritten ==
  ASSUME PairsInv, NEW p \in Run, run[p].phase \in Early
  PROVE  /\ ~Filtered(run, Attempt(p))
         /\ \A x : <<Attempt(p), x>> \notin discarded
<1>1. ~Filtered(run, Attempt(p))
  BY DEF Filtered, Attempt
<1>2. \A x : <<Attempt(p), x>> \in discarded => Filtered(run, Attempt(p))
  <2> SUFFICES ASSUME NEW x, <<Attempt(p), x>> \in discarded
               PROVE  Filtered(run, Attempt(p))
    OBVIOUS
  <2>1. <<Attempt(p), x>>[1] = Attempt(p)
    OBVIOUS
  <2>2. Filtered(run, <<Attempt(p), x>>[1])
    BY DEF PairsInv
  <2> QED BY <2>1, <2>2
<1> QED BY <1>1, <1>2

LEMMA LateFiltered ==
  ASSUME PairsInv, NEW p \in Run, run[p].phase \notin Early
  PROVE  Filtered(run, Attempt(p))
<1>1. run[p].crashes \in 0..run[p].crashes
  BY DEF PairsInv, RunOK
<1> QED BY <1>1 DEF Filtered, Attempt

LEMMA AssignedFacts ==
  ASSUME NEW entry \in DOMAIN Entry, NEW row \in Nat \ {0},
         NEW prompts \in Assigned(entry, row)
  PROVE  prompts \in Seq(Nat)
<1> DEFINE n == Entry[entry].prompts
<1>1. n \in Nat
  BY DataAssumption
<1>2. CASE n = 0
  <2>1. prompts = <<0>>
    BY <1>2 DEF Assigned
  <2> QED BY <2>1
<1>3. CASE n # 0 /\ Strategy = "all"
  BY <1>1, <1>3 DEF Assigned
<1>4. CASE n # 0 /\ Strategy = "round_robin"
  <2>1. prompts = <<((row - 1) % n) + 1>>
    BY <1>4 DEF Assigned
  <2>2. ((row - 1) % n) + 1 \in Nat
    BY <1>1, <1>4
  <2> QED BY <2>1, <2>2
<1>5. CASE n # 0 /\ Strategy = "random"
  <2>1. PICK i \in 1..n : prompts = <<i>>
    BY <1>5 DEF Assigned
  <2>2. i \in Nat
    BY <1>1
  <2> QED BY <2>1, <2>2
<1> QED BY <1>2, <1>3, <1>4, <1>5, DataAssumption

LEMMA NextCellFacts ==
  ASSUME NEW p \in Run, NEW at, AtOK(p, at), at.entry <= Len(Recipe[p])
  PROVE  AtOK(p, NextCell(p, at))
<1> DEFINE entry == Entry[Recipe[p][at.entry]]
<1>1. Recipe[p] \in Seq(DOMAIN Entry) /\ Len(Recipe[p]) \in Nat
  BY DataAssumption
<1>2. \A i \in 1..Len(Recipe[p]) : Recipe[p][i] \in DOMAIN Entry
  BY <1>1
<1>3. \A e \in DOMAIN Entry : Len(Entry[e].rows) \in Nat /\ Len(Entry[e].rows) >= 1
  BY DataAssumption
<1>4. /\ at.entry \in Nat \ {0} /\ at.rep \in Nat /\ at.row \in Nat \ {0}
      /\ at = [entry |-> at.entry, rep |-> at.rep, row |-> at.row]
      /\ at.row <= Len(entry.rows)
  BY DEF AtOK
<1>5. at.entry \in 1..Len(Recipe[p]) /\ Len(entry.rows) \in Nat /\ Len(entry.rows) >= 1
  BY <1>1, <1>2, <1>3, <1>4
<1>6. CASE at.row < Len(entry.rows)
  <2>1. NextCell(p, at) = [entry |-> at.entry, rep |-> at.rep, row |-> at.row + 1]
    BY <1>4, <1>6 DEF NextCell
  <2>2. at.row + 1 \in Nat \ {0} /\ at.row + 1 <= Len(entry.rows)
    BY <1>4, <1>5, <1>6
  <2> QED BY <1>4, <2>1, <2>2 DEF AtOK
<1>7. CASE at.row = Len(entry.rows) /\ at.rep < entry.replica
  <2>1. ~(at.row < Len(entry.rows))
    BY <1>4, <1>5, <1>7
  <2>2. NextCell(p, at) = [at EXCEPT !.row = 1, !.rep = @ + 1]
    BY <1>7, <2>1 DEF NextCell
  <2>3. NextCell(p, at) = [entry |-> at.entry, rep |-> at.rep + 1, row |-> 1]
    BY <1>4, <2>2
  <2>4. at.rep + 1 \in Nat /\ 1 <= Len(entry.rows)
    BY <1>4, <1>5
  <2> QED BY <1>4, <2>3, <2>4 DEF AtOK
<1>8. CASE at.row = Len(entry.rows) /\ ~(at.rep < entry.replica)
  <2>1. NextCell(p, at) = [entry |-> at.entry + 1, rep |-> 1, row |-> 1]
    BY <1>4, <1>5, <1>8 DEF NextCell
  <2>2. at.entry + 1 <= Len(Recipe[p]) => Len(Entry[Recipe[p][at.entry + 1]].rows) >= 1
    BY <1>1, <1>2, <1>3, <1>4
  <2> QED BY <1>4, <2>1, <2>2 DEF AtOK
<1> QED BY <1>4, <1>5, <1>6, <1>7, <1>8

(* Every pair a row becomes is fit, and written down nowhere.              *)
LEMMA CollectStep ==
  ASSUME PairsInv, NEW p \in Run, Collect(p)
  PROVE  PairsInv'
<1> DEFINE at == run[p].at
           entry == Recipe[p][at.entry]
           row == Entry[entry].rows[at.row]
           chosen == Rejected(p, entry, at.row)
           sound == Sound(run, unfiltered, discarded, p)
           made(prompts) ==
             [i \in DOMAIN prompts |->
               [entry |-> entry, rep |-> at.rep, row |-> at.row,
                prompt |-> prompts[i], rejected |-> chosen]]
           pairs(prompts) == IF ~row.wellFormed \/ chosen = Nobody THEN run[p].pairs
                             ELSE run[p].pairs \o made(prompts)
           new(prompts) == [run[p] EXCEPT !.at = NextCell(p, at), !.pairs = pairs(prompts)]
<1>1. /\ run[p].phase = "collecting" /\ at.entry <= Len(Recipe[p])
      /\ UNCHANGED <<cache, discarded, unfiltered, overlapped>>
  BY DEF Collect, In
<1>2. /\ RunOK(run, unfiltered, discarded, p) /\ AtOK(p, at)
      /\ run[p].pairs \in Seq(sound)
  BY DEF PairsInv, RunOK
<1>3. /\ at.entry \in 1..Len(Recipe[p]) /\ at.rep \in Nat /\ at.row \in Nat \ {0}
      /\ at.row <= Len(Entry[entry].rows)
  BY <1>1, <1>2, DataAssumption DEF AtOK
<1>4. entry \in DOMAIN Entry
  <2>1. Recipe[p] \in Seq(DOMAIN Entry)
    BY DataAssumption
  <2> QED BY <1>3, <2>1
<1>5. row.candidates \in Seq(Candidate)
  <2> DEFINE Row == [wellFormed : BOOLEAN, short : BOOLEAN, candidates : Seq(Candidate)]
  <2>1. Entry[entry].rows \in Seq(Row)
    BY <1>4, DataAssumption
  <2> HIDE DEF Row, entry
  <2>2. row \in Row
    BY <1>3, <2>1
  <2> QED BY <2>2 DEF Row
<1>6. PICK prompts \in Assigned(entry, at.row) : run' = [run EXCEPT ![p] = new(prompts)]
  BY DEF Collect, Goes
<1>7. prompts \in Seq(Nat)
  BY <1>3, <1>4, AssignedFacts
<1>8. ASSUME chosen # Nobody, NEW i \in DOMAIN prompts
      PROVE  made(prompts)[i] \in sound
  <2> DEFINE x == made(prompts)[i]
  <2>1. /\ x.entry = entry /\ x.rep = at.rep /\ x.row = at.row
        /\ x.prompt = prompts[i] /\ x.rejected = chosen
        /\ x = [entry |-> entry, rep |-> at.rep, row |-> at.row,
                prompt |-> prompts[i], rejected |-> chosen]
    OBVIOUS
  <2>2. prompts[i] \in Nat
    BY <1>7
  <2> HIDE DEF at, entry, row, made, x
  <2>3. RowAt(x).candidates = row.candidates
    BY <2>1 DEF RowAt, row
  <2>4. chosen = IF HardNegatives[p] THEN Select(row.candidates, Limits(entry), Fallback)
                 ELSE FirstAtTemperature(row.candidates)
    BY DEF Rejected, row
  <2> HIDE DEF chosen
  <2>5. /\ chosen \in DOMAIN row.candidates
        /\ HardNegatives[p] /\ Len(row.candidates) > 1 =>
             IsFit(row.candidates, Limits(entry), chosen)
    <3>1. CASE HardNegatives[p]
      BY <1>5, <1>8, <2>4, <3>1, SelectedIsFit
    <3>2. CASE ~HardNegatives[p]
      BY <1>5, <1>8, <2>4, <3>2, FirstIsOf
    <3> QED BY <3>1, <3>2
  <2>6. chosen \in Nat
    BY <1>5, <2>5
  <2>7. x \in [entry : DOMAIN Entry, rep : Nat, row : Nat, prompt : Nat, rejected : Nat]
    BY <1>3, <1>4, <2>1, <2>2, <2>6
  <2>8. x \in FitPair(p)
    BY <2>1, <2>3, <2>5, <2>7 DEF FitPair
  <2>9. Unwritten(unfiltered, discarded, <<p, run[p].crashes>>, x)
    BY <1>1, EarlyUnwritten DEF Unwritten, Attempt, Early
  <2> QED BY <2>8, <2>9 DEF Sound, x
<1>9. pairs(prompts) \in Seq(sound)
  <2>1. CASE ~row.wellFormed \/ chosen = Nobody
    BY <1>2, <2>1
  <2>2. CASE ~(~row.wellFormed \/ chosen = Nobody)
    <3>1. DOMAIN prompts = 1..Len(prompts) /\ Len(prompts) \in Nat
      BY <1>7
    <3>2. DOMAIN made(prompts) = DOMAIN prompts
      OBVIOUS
    <3>3. made(prompts) = [i \in 1..Len(prompts) |-> made(prompts)[i]]
      BY <3>1
    <3> HIDE DEF made, sound
    <3>4. made(prompts) \in Seq(sound)
      BY <1>8, <2>2, <3>1, <3>2, <3>3
    <3> QED BY <1>2, <2>2, <3>4
  <2> QED BY <2>1, <2>2
<1>10. /\ DOMAIN new(prompts) = Fields /\ new(prompts).phase = run[p].phase
       /\ new(prompts).crashes = run[p].crashes /\ new(prompts).test = run[p].test
       /\ new(prompts).data = run[p].data
       /\ new(prompts).at = NextCell(p, at) /\ new(prompts).pairs = pairs(prompts)
  BY DEF PairsInv, Shape, Fields
<1> HIDE DEF new, pairs, sound
<1>11. AtOK(p, NextCell(p, at))
  BY <1>1, <1>2, NextCellFacts
<1>12. Onwards(run[p], new(prompts))
  BY <1>2, <1>10 DEF Onwards, RunOK
<1>13. DOMAIN cache' = {"train", "test"}
  BY <1>1 DEF PairsInv, Shape
<1> QED BY <1>1, <1>2, <1>6, <1>9, <1>10, <1>11, <1>12, <1>13, PairsKept
        DEF RunOK, PairsInv, sound

(* The filter writes down what does not fit, and keeps what does; or fails *)
(* and says so.                                                            *)
LEMMA FilterStep ==
  ASSUME PairsInv, NEW p \in Run, FilterByToken(p)
  PROVE  PairsInv'
<1> DEFINE by == Attempt(p)
           pairs == run[p].pairs
           u == unfiltered
           d == discarded
<1>1. PICK n \in 0..Len(pairs) :
        /\ run' = [run EXCEPT ![p] = [run[p] EXCEPT
                     !.phase = "splitting",
                     !.pairs = IF n = Len(pairs) THEN Kept(pairs) ELSE pairs]]
        /\ u' = IF n = Len(pairs) THEN u ELSE u \cup {by}
        /\ d' = d \cup {<<by, pairs[i]>> : i \in {i \in 1..n : ~Fits(pairs[i])}}
  BY DEF FilterByToken, Goes
<1> DEFINE whole == n = Len(pairs)
           kept == IF whole THEN Kept(pairs) ELSE pairs
           new == [run[p] EXCEPT !.phase = "splitting", !.pairs = kept]
<1>2. /\ DOMAIN new = Fields /\ new.phase = "splitting" /\ new.pairs = kept
      /\ new.crashes = run[p].crashes /\ new.at = run[p].at
      /\ new.test = run[p].test /\ new.data = run[p].data
  BY DEF PairsInv, Shape, Fields
<1>3. run' = [run EXCEPT ![p] = new]
  BY <1>1
<1>4. run[p].phase = "filtering" /\ cache' = cache
  BY DEF FilterByToken, In
<1> HIDE DEF new
<1>5. run'[p] = new /\ DOMAIN run' = Run /\ \A q \in Run : q # p => run'[q] = run[q]
  BY <1>3 DEF PairsInv, Shape
<1>6. Shape'
  BY <1>2, <1>4, <1>5 DEF PairsInv, Shape
<1>7. RunOK(run, u, d, p)
  BY DEF PairsInv
<1>8. by = <<p, run[p].crashes>> /\ run[p].crashes \in Nat
  BY <1>7 DEF Attempt, RunOK
<1>9. ~Filtered(run, by) /\ \A x : <<by, x>> \notin d
  BY <1>4, EarlyUnwritten DEF Early
<1>10. Filtered(run', by)
  <2>1. run'[p].crashes \in 0..run'[p].crashes /\ run'[p].phase \notin Early
    BY <1>2, <1>5, <1>8 DEF Early
  <2> QED BY <1>2, <1>5, <1>8, <2>1 DEF Filtered
<1>11. ASSUME NEW any, Filtered(run, any) PROVE Filtered(run', any)
  <2>1. Onwards(run[p], run'[p])
    BY <1>2, <1>5, <1>8 DEF Onwards, Early
  <2> QED BY <1>5, <1>8, <1>11, <2>1, FilteredStays
<1>12. ASSUME NEW any, any # by, NEW x, Unwritten(u, d, any, x)
       PROVE  Unwritten(u', d', any, x)
  BY <1>1, <1>12 DEF Unwritten
<1>13. ASSUME NEW split, SplitOK(run, u, d, split) PROVE SplitOK(run', u', d', split)
  BY <1>9, <1>11, <1>12, <1>13 DEF SplitOK
<1>14. ASSUME NEW q \in Run, q # p PROVE RunOK(run', u', d', q)
  <2>1. run'[q] = run[q] /\ RunOK(run, u, d, q)
    BY <1>5, <1>14 DEF PairsInv
  <2>2. <<q, run[q].crashes>> # by
    BY <1>8, <1>14
  <2>3. Sound(run, u, d, q) \subseteq Sound(run', u', d', q)
    BY <1>12, <2>1, <2>2 DEF Sound
  <2>4. run'[q].pairs \in Seq(Sound(run', u', d', q))
    BY <2>1, <2>3 DEF RunOK
  <2>5. SplitOK(run', u', d', run'[q].data.train) /\ SplitOK(run', u', d', run'[q].data.test)
    BY <1>13, <2>1 DEF RunOK
  <2> QED BY <2>1, <2>3, <2>4, <2>5 DEF RunOK
<1>15. RunOK(run', u', d', p)
  <2> DEFINE sound == Sound(run', u', d', p)
  <2>1. \A x : x \in sound <=> x \in FitPair(p) /\ Unwritten(u', d', by, x)
    BY <1>2, <1>5, <1>8 DEF Sound
  <2>2. pairs \in Seq(FitPair(p))
    <3>1. pairs \in Seq(Sound(run, u, d, p)) /\ Sound(run, u, d, p) \subseteq FitPair(p)
      BY <1>7 DEF RunOK, Sound
    <3> QED BY <3>1
  <2> HIDE DEF sound
  <2>3. CASE whole
    <3>1. \A i \in DOMAIN pairs : Fits(pairs[i]) => pairs[i] \in sound
      <4> SUFFICES ASSUME NEW i \in DOMAIN pairs, Fits(pairs[i]) PROVE pairs[i] \in sound
        OBVIOUS
      <4>1. pairs[i] \in FitPair(p)
        BY <2>2
      <4>2. <<by, pairs[i]>> \notin d'
        BY <1>1, <1>9
      <4> QED BY <2>1, <4>1, <4>2 DEF Unwritten
    <3> DEFINE places == {i \in DOMAIN pairs : Fits(pairs[i])}
    <3>2. \A i \in DOMAIN pairs : i \in places => pairs[i] \in sound
      BY <3>1
    <3>3. Kept(pairs) = Picked(pairs, places)
      BY DEF Kept
    <3> HIDE DEF places
    <3>4. Kept(pairs) \in Seq(sound)
      BY <2>2, <3>2, <3>3, PickedFrom
    <3> QED BY <1>2, <1>4, <1>5, <1>7, <1>13, <2>3, <3>4 DEF RunOK, Early, sound
  <2>4. CASE ~whole
    <3>1. by \in u'
      BY <1>1, <2>4
    <3>2. \A x \in FitPair(p) : x \in sound
      BY <2>1, <3>1 DEF Unwritten
    <3>3. pairs \in Seq(sound)
      BY <2>2, <3>2
    <3> QED BY <1>2, <1>4, <1>5, <1>7, <1>13, <2>4, <3>3 DEF RunOK, Early, sound
  <2> QED BY <2>3, <2>4
<1>16. SplitOK(run', u', d', cache'.train) /\ SplitOK(run', u', d', cache'.test)
  BY <1>4, <1>13 DEF PairsInv
<1>17. \A line \in d' : Filtered(run', line[1])
  <2> SUFFICES ASSUME NEW line \in d' PROVE Filtered(run', line[1])
    OBVIOUS
  <2>1. CASE line \in d
    BY <1>11, <2>1 DEF PairsInv
  <2>2. CASE line \notin d
    <3>1. PICK i \in 1..n : line = <<by, pairs[i]>>
      BY <1>1, <2>2
    <3> HIDE DEF by
    <3>2. line[1] = by
      BY <3>1
    <3> QED BY <1>10, <3>2
  <2> QED BY <2>1, <2>2
<1> QED BY <1>6, <1>14, <1>15, <1>16, <1>17 DEF PairsInv

LEMMA SplitStep ==
  ASSUME PairsInv, NEW p \in Run, Split(p)
  PROVE  PairsInv'
<1> DEFINE pairs == run[p].pairs
           sound == Sound(run, unfiltered, discarded, p)
<1>1. /\ run[p].phase = "splitting"
      /\ UNCHANGED <<cache, discarded, unfiltered, overlapped>>
  BY DEF Split, In
<1>2. RunOK(run, unfiltered, discarded, p) /\ pairs \in Seq(sound)
  BY DEF PairsInv, RunOK
<1>3. CASE Goes(p, [run[p] EXCEPT !.phase = "shuffling"])
  BY <1>1, <1>3, PhaseOnly DEF Goes, Early
<1>4. CASE Goes(p, [run[p] EXCEPT !.phase = "failed"])
  BY <1>1, <1>4, PhaseOnly DEF Goes, Early
<1>5. ASSUME NEW test \in kSubset(EvalCount(Len(pairs)), Rows(pairs)),
             NEW train \in SetToSeqs(Rows(pairs) \ test),
             Goes(p, [run[p] EXCEPT !.phase = "shuffling", !.pairs = train, !.test = test])
      PROVE  PairsInv'
  <2> DEFINE new == [run[p] EXCEPT !.phase = "shuffling", !.pairs = train, !.test = test]
  <2>1. /\ DOMAIN new = Fields /\ new.phase = "shuffling" /\ new.pairs = train
        /\ new.test = test /\ new.crashes = run[p].crashes /\ new.at = run[p].at
        /\ new.data = run[p].data
    BY DEF PairsInv, Shape, Fields
  <2>2. run' = [run EXCEPT ![p] = new]
    BY <1>5 DEF Goes
  <2> HIDE DEF new
  <2>3. IsFiniteSet(Rows(pairs)) /\ Rows(pairs) \subseteq sound
    BY <1>2, RowsFinite
  <2>4. test \subseteq Rows(pairs)
    BY DEF kSubset
  <2>5. IsFiniteSet(Rows(pairs) \ test) /\ Rows(pairs) \ test \subseteq sound
    BY <2>3, FS_Difference
  <2>6. train \in Seq(Rows(pairs) \ test)
    BY <2>5, OrderedFrom
  <2>7. train \in Seq(sound) /\ test \subseteq sound
    BY <2>3, <2>4, <2>5, <2>6
  <2>8. Onwards(run[p], new) /\ (new.phase \in Early => new.test = {})
    BY <1>2, <2>1 DEF Onwards, Early, RunOK
  <2>9. DOMAIN cache' = {"train", "test"}
    BY <1>1 DEF PairsInv, Shape
  <2> QED BY <1>1, <1>2, <2>1, <2>2, <2>7, <2>8, <2>9, PairsKept DEF RunOK, PairsInv
<1> QED BY <1>3, <1>4, <1>5 DEF Split

(* A step of which nothing but the phase, the pairs and the cache matter.  *)
LEMMA SaveKept ==
  ASSUME PairsInv, NEW p \in Run, NEW new, run' = [run EXCEPT ![p] = new],
         DOMAIN new = Fields, UNCHANGED <<discarded, unfiltered>>,
         new.phase \notin Early, new.crashes = run[p].crashes, new.at = run[p].at,
         new.pairs \in {<<>>, run[p].pairs}, new.test \in {{}, run[p].test},
         new.data = run[p].data, DOMAIN cache' = {"train", "test"},
         SplitOK(run, unfiltered, discarded, cache'.train),
         SplitOK(run, unfiltered, discarded, cache'.test)
  PROVE  PairsInv'
<1>1. RunOK(run, unfiltered, discarded, p)
  BY DEF PairsInv
<1>2. Onwards(run[p], new) /\ (new.phase \in Early => new.test = {})
  BY <1>1 DEF Onwards, RunOK
<1>3. new.pairs \in Seq(Sound(run, unfiltered, discarded, p))
  <2>1. \A S : <<>> \in Seq(S)
    OBVIOUS
  <2> QED BY <1>1, <2>1 DEF RunOK
<1> QED BY <1>1, <1>2, <1>3, PairsKept DEF RunOK

LEMMA ShuffleStep ==
  ASSUME PairsInv, NEW p \in Run, Shuffle(p)
  PROVE  PairsInv'
<1> DEFINE pairs == run[p].pairs
           sound == Sound(run, unfiltered, discarded, p)
<1>1. PICK blocks \in IF Order = "none" THEN {<<pairs>>} ELSE Shuffles(pairs) :
        Goes(p, [run[p] EXCEPT !.phase = "cleaning", !.pairs = FlattenSeq(blocks)])
  BY DEF Shuffle
<1> DEFINE flat == FlattenSeq(blocks)
           new == [run[p] EXCEPT !.phase = "cleaning", !.pairs = flat]
<1>2. RunOK(run, unfiltered, discarded, p) /\ pairs \in Seq(sound)
  BY DEF PairsInv, RunOK
<1>3. flat \in Seq(sound)
  BY <1>1, <1>2, ShuffledFrom
<1>4. run' = [run EXCEPT ![p] = new]
  BY <1>1 DEF Goes
<1> HIDE DEF flat
<1>5. /\ DOMAIN new = Fields /\ new.phase = "cleaning" /\ new.pairs = flat
      /\ new.test = run[p].test /\ new.crashes = run[p].crashes /\ new.at = run[p].at
      /\ new.data = run[p].data
  BY DEF PairsInv, Shape, Fields
<1> HIDE DEF new
<1>6. UNCHANGED <<cache, discarded, unfiltered, overlapped>>
  BY DEF Shuffle
<1>7. Onwards(run[p], new) /\ (new.phase \in Early => new.test = {})
  BY <1>2, <1>5 DEF Onwards, Early, RunOK
<1>8. DOMAIN cache' = {"train", "test"}
  BY <1>6 DEF PairsInv, Shape
<1> QED BY <1>2, <1>3, <1>4, <1>5, <1>6, <1>7, <1>8, PairsKept DEF RunOK, PairsInv

(* What a run past its filter saves of its sound pairs is sound.           *)
LEMMA SavedOK ==
  ASSUME PairsInv, NEW p \in Run, run[p].phase \notin Early,
         NEW rows, rows \subseteq Sound(run, unfiltered, discarded, p),
         NEW split, split = [by |-> Attempt(p), rows |-> rows]
  PROVE  SplitOK(run, unfiltered, discarded, split)
<1>1. split.by = Attempt(p) /\ split.rows = rows
  OBVIOUS
<1>2. Filtered(run, Attempt(p))
  BY LateFiltered
<1> QED BY <1>1, <1>2 DEF SplitOK, Sound, Attempt

LEMMA SaveTrainStep ==
  ASSUME PairsInv, NEW p \in Run, SaveTrain(p)
  PROVE  PairsInv'
<1> DEFINE new == [run[p] EXCEPT !.phase = "saving test", !.pairs = <<>>]
           rows == Rows(run[p].pairs)
           train == [by |-> Attempt(p), rows |-> rows]
           sound == Sound(run, unfiltered, discarded, p)
<1>1. /\ run' = [run EXCEPT ![p] = new] /\ cache' = [cache EXCEPT !.train = train]
      /\ run[p].phase = "saving train" /\ UNCHANGED <<discarded, unfiltered>>
  BY DEF SaveTrain, Goes, In
<1>2. /\ DOMAIN new = Fields /\ new.phase = "saving test" /\ new.pairs = <<>>
      /\ new.test = run[p].test /\ new.crashes = run[p].crashes /\ new.at = run[p].at
      /\ new.data = run[p].data
  BY DEF PairsInv, Shape, Fields
<1> HIDE DEF new
<1>3. rows \subseteq sound
  <2>1. run[p].pairs \in Seq(sound)
    BY DEF PairsInv, RunOK
  <2> HIDE DEF sound
  <2> QED BY <2>1, RowsFinite
<1>4. SplitOK(run, unfiltered, discarded, train)
  <2> HIDE DEF rows
  <2>1. run[p].phase \notin Early
    BY <1>1 DEF Early
  <2> QED BY <1>3, <2>1, SavedOK
<1> HIDE DEF train
<1>5. /\ DOMAIN cache' = {"train", "test"} /\ cache'.train = train
      /\ cache'.test = cache.test
  BY <1>1 DEF PairsInv, Shape
<1> QED BY <1>1, <1>2, <1>4, <1>5, SaveKept DEF Early, PairsInv

LEMMA SaveTestStep ==
  ASSUME PairsInv, NEW p \in Run, SaveTest(p)
  PROVE  PairsInv'
<1> DEFINE new == [run[p] EXCEPT !.phase = "prepared", !.test = {}]
           rows == run[p].test
           test == [by |-> Attempt(p), rows |-> rows]
<1>1. /\ run' = [run EXCEPT ![p] = new] /\ cache' = [cache EXCEPT !.test = test]
      /\ run[p].phase = "saving test" /\ UNCHANGED <<discarded, unfiltered>>
  BY DEF SaveTest, Goes, In
<1>2. /\ DOMAIN new = Fields /\ new.phase = "prepared" /\ new.pairs = run[p].pairs
      /\ new.test = {} /\ new.crashes = run[p].crashes /\ new.at = run[p].at
      /\ new.data = run[p].data
  BY DEF PairsInv, Shape, Fields
<1> HIDE DEF new
<1>3. rows \subseteq Sound(run, unfiltered, discarded, p)
  BY DEF PairsInv, RunOK
<1>4. SplitOK(run, unfiltered, discarded, test)
  <2> HIDE DEF rows
  <2>1. run[p].phase \notin Early
    BY <1>1 DEF Early
  <2> QED BY <1>3, <2>1, SavedOK
<1> HIDE DEF test
<1>5. /\ DOMAIN cache' = {"train", "test"} /\ cache'.test = test
      /\ cache'.train = cache.train
  BY <1>1 DEF PairsInv, Shape
<1> QED BY <1>1, <1>2, <1>4, <1>5, SaveKept DEF Early, PairsInv

(* A step of a training that is past its preparation and loads data that   *)
(* are in the cache, or none.                                              *)
LEMMA LoadKept ==
  ASSUME PairsInv, NEW p \in Run, NEW phase, phase \notin Early, NEW data,
         SplitOK(run, unfiltered, discarded, data.train),
         SplitOK(run, unfiltered, discarded, data.test),
         run' = [run EXCEPT ![p] = [run[p] EXCEPT !.phase = phase, !.data = data]],
         UNCHANGED <<cache, discarded, unfiltered>>
  PROVE  PairsInv'
<1> DEFINE new == [run[p] EXCEPT !.phase = phase, !.data = data]
<1>1. run' = [run EXCEPT ![p] = new] /\ UNCHANGED <<cache, discarded, unfiltered>>
  OBVIOUS
<1>2. /\ DOMAIN new = Fields /\ new.phase = phase /\ new.pairs = run[p].pairs
      /\ new.test = run[p].test /\ new.crashes = run[p].crashes /\ new.at = run[p].at
      /\ new.data = data
  BY DEF PairsInv, Shape, Fields
<1> HIDE DEF new
<1>3. RunOK(run, unfiltered, discarded, p)
  BY DEF PairsInv
<1>4. Onwards(run[p], new) /\ (new.phase \in Early => new.test = {})
  BY <1>2, <1>3 DEF Onwards, RunOK
<1>5. DOMAIN cache' = {"train", "test"}
  BY <1>1 DEF PairsInv, Shape
<1> QED BY <1>1, <1>2, <1>3, <1>4, <1>5, PairsKept DEF RunOK, PairsInv

LEMMA LoadStep ==
  ASSUME PairsInv, NEW p \in Run, LoadTrain(p) \/ LoadTest(p)
  PROVE  PairsInv'
<1>1. CASE LoadTrain(p)
  <2> DEFINE phase == IF cache.train = NoSplit THEN "failed" ELSE "loading"
             data == [train |-> cache.train, test |-> NoSplit]
  <2>1. phase \notin Early
    BY DEF Early
  <2>2. data.train = cache.train /\ data.test = NoSplit
    OBVIOUS
  <2>3. /\ run' = [run EXCEPT ![p] = [run[p] EXCEPT !.phase = phase, !.data = data]]
        /\ UNCHANGED <<cache, discarded, unfiltered>>
    BY <1>1 DEF LoadTrain, Goes
  <2> HIDE DEF phase, data
  <2>4. /\ SplitOK(run, unfiltered, discarded, data.train)
        /\ SplitOK(run, unfiltered, discarded, data.test)
    BY <2>2 DEF PairsInv, SplitOK, NoSplit
  <2> QED BY <2>1, <2>3, <2>4, LoadKept
<1>2. CASE LoadTest(p)
  <2> DEFINE phase == CASE cache.test = NoSplit -> "failed"
                        [] cache.test # NoSplit /\ EvalPart = 0 -> "refused"
                        [] OTHER -> "trained"
             data == [train |-> run[p].data.train, test |-> cache.test]
  <2>1. phase \notin Early
    BY DEF Early
  <2>2. data.train = run[p].data.train /\ data.test = cache.test
    OBVIOUS
  <2>3. /\ run' = [run EXCEPT ![p] = [run[p] EXCEPT !.phase = phase, !.data = data]]
        /\ UNCHANGED <<cache, discarded, unfiltered>>
    BY <1>2 DEF LoadTest, Goes
  <2> HIDE DEF phase, data
  <2>4. /\ SplitOK(run, unfiltered, discarded, data.train)
        /\ SplitOK(run, unfiltered, discarded, data.test)
    BY <2>2 DEF PairsInv, RunOK
  <2> QED BY <2>1, <2>3, <2>4, LoadKept
<1> QED BY <1>1, <1>2

LEMMA FreshOK ==
  ASSUME NEW p \in Run, NEW crashes \in Nat, NEW r, NEW u, NEW d
  PROVE  LET new == Fresh(crashes)
         IN  /\ DOMAIN new = Fields /\ new.phase = "idle" /\ new.crashes = crashes
             /\ new.pairs = <<>> /\ new.test = {} /\ AtOK(p, new.at)
             /\ SplitOK(r, u, d, new.data.train) /\ SplitOK(r, u, d, new.data.test)
<1> DEFINE new == Fresh(crashes)
<1>1. /\ DOMAIN new = Fields /\ new.phase = "idle" /\ new.crashes = crashes
      /\ new.pairs = <<>> /\ new.test = {} /\ new.at = Start /\ new.data = NoCache
  BY DEF Fresh, Fields
<1>2. SplitOK(r, u, d, NoCache.train) /\ SplitOK(r, u, d, NoCache.test)
  BY DEF NoCache, NoSplit, SplitOK
<1>3. AtOK(p, Start)
  <2>1. Recipe[p] \in Seq(DOMAIN Entry)
    BY DataAssumption
  <2>2. 1 <= Len(Recipe[p]) => Recipe[p][1] \in DOMAIN Entry
    BY <2>1
  <2>3. \A e \in DOMAIN Entry : Len(Entry[e].rows) \in Nat /\ 1 <= Len(Entry[e].rows)
    BY DataAssumption
  <2>4. 1 <= Len(Recipe[p]) => 1 <= Len(Entry[Recipe[p][1]].rows)
    BY <2>2, <2>3
  <2> QED BY <2>4 DEF AtOK, Start
<1> HIDE DEF new
<1> QED BY <1>1, <1>2, <1>3 DEF new

LEMMA PairsStep == PairsInv /\ [DataNext]_dataVars => PairsInv'
<1> SUFFICES ASSUME PairsInv, [DataNext]_dataVars PROVE PairsInv'
  OBVIOUS
<1>1. ASSUME NEW p \in Run, Begin(p) PROVE PairsInv'
  <2>1. run[p].phase = "idle" /\ run[p].test = {}
    BY <1>1 DEF Begin, In, PairsInv, RunOK, Early
  <2> QED BY <1>1, <2>1, PhaseOnly DEF Begin, Goes, Early
<1>2. ASSUME NEW p \in Run, Collected(p) PROVE PairsInv'
  <2>1. run[p].phase = "collecting" /\ run[p].test = {}
    BY <1>2 DEF Collected, In, PairsInv, RunOK, Early
  <2> QED BY <1>2, <2>1, PhaseOnly DEF Collected, Goes, Early
<1>3. ASSUME NEW p \in Run, Clean(p) PROVE PairsInv'
  BY <1>3, PhaseOnly DEF Clean, Goes, Early, Removed
<1>4. ASSUME NEW p \in Run, Crash(p) PROVE PairsInv'
  <2> DEFINE new == Fresh(run[p].crashes + 1)
  <2>1. /\ run' = [run EXCEPT ![p] = new]
        /\ UNCHANGED <<cache, discarded, unfiltered, overlapped>>
    BY <1>4 DEF Crash, Goes
  <2>2. RunOK(run, unfiltered, discarded, p) /\ run[p].crashes + 1 \in Nat
    BY DEF PairsInv, RunOK
  <2>3. /\ DOMAIN new = Fields /\ new.phase = "idle" /\ new.crashes = run[p].crashes + 1
        /\ new.pairs = <<>> /\ new.test = {} /\ AtOK(p, new.at)
        /\ SplitOK(run, unfiltered, discarded, new.data.train)
        /\ SplitOK(run, unfiltered, discarded, new.data.test)
    BY <2>2, FreshOK
  <2> HIDE DEF new
  <2>4. Onwards(run[p], new) /\ \A S : <<>> \in Seq(S)
    BY <2>2, <2>3 DEF Onwards
  <2>5. DOMAIN cache' = {"train", "test"}
    BY <2>1 DEF PairsInv, Shape
  <2> QED BY <2>1, <2>3, <2>4, <2>5, PairsKept DEF PairsInv
<1>5. CASE UNCHANGED dataVars
  BY <1>5 DEF dataVars, PairsInv, Shape
<1> QED BY <1>1, <1>2, <1>3, <1>4, <1>5, CollectStep, FilterStep, SplitStep, ShuffleStep,
           SaveTrainStep, SaveTestStep, LoadStep DEF DataNext

LEMMA PairsAlways == DataSpec => []PairsInv
<1>1. DataInit => PairsInv
  <2> SUFFICES ASSUME DataInit PROVE PairsInv
    OBVIOUS
  <2>1. /\ run = [p \in Run |-> Fresh(0)] /\ cache = NoCache
        /\ discarded = {} /\ unfiltered = {}
    BY DEF DataInit
  <2>2. \A p \in Run : run[p] = Fresh(0)
    BY <2>1
  <2>3. ASSUME NEW p \in Run
        PROVE  DOMAIN run[p] = Fields /\ RunOK(run, unfiltered, discarded, p)
    <3> DEFINE new == Fresh(0)
    <3>1. \A S : <<>> \in Seq(S)
      OBVIOUS
    <3>2. /\ DOMAIN new = Fields /\ new.phase = "idle" /\ new.crashes = 0
          /\ new.pairs = <<>> /\ new.test = {} /\ AtOK(p, new.at)
          /\ SplitOK(run, unfiltered, discarded, new.data.train)
          /\ SplitOK(run, unfiltered, discarded, new.data.test)
      <4>1. 0 \in Nat
        OBVIOUS
      <4> QED BY <4>1, FreshOK
    <3>3. run[p] = new
      BY <2>2
    <3> HIDE DEF new
    <3>4. <<>> \in Seq(Sound(run, unfiltered, discarded, p))
      BY <3>1
    <3>5. /\ run[p].crashes \in Nat /\ AtOK(p, run[p].at)
          /\ run[p].pairs = <<>> /\ run[p].test = {}
          /\ run[p].phase = "idle" /\ DOMAIN run[p] = Fields
          /\ SplitOK(run, unfiltered, discarded, run[p].data.train)
          /\ SplitOK(run, unfiltered, discarded, run[p].data.test)
      BY <3>2, <3>3
    <3> QED BY <2>1, <3>4, <3>5 DEF RunOK, Unwritten, Early
  <2>4. /\ DOMAIN cache = {"train", "test"}
        /\ SplitOK(run, unfiltered, discarded, cache.train)
        /\ SplitOK(run, unfiltered, discarded, cache.test)
    BY <2>1 DEF NoCache, NoSplit, SplitOK
  <2> QED BY <2>1, <2>3, <2>4 DEF PairsInv, Shape
<1> QED BY <1>1, PairsStep, PTL DEF DataSpec

(* What an attempt wrote down as too long is not in the data a training    *)
(* starts from, unless its filter failed on the way: of any number of      *)
(* runs, attempts and pairs, whoever saved the splits and whatever was     *)
(* killed (filter_by_token_len.py, prepare.py).                            *)
THEOREM DiscardedStayOut == DataSpec => []DiscardedNotTrained
<1>1. PairsInv => DiscardedNotTrained
  BY DEF PairsInv, RunOK, SplitOK, Unwritten, DiscardedNotTrained
<1> QED BY <1>1, PairsAlways, PTL

(* Where the filter of hard negatives is on, of several candidates the     *)
(* rejected one is fit, for any candidates and thresholds                  *)
(* (hard_negative_filtering.py:618-665, prepare.py:70-84,104).             *)
THEOREM RejectedFit == DataSpec => []RejectedIsFit
<1>1. PairsInv => RejectedIsFit
  <2> SUFFICES ASSUME PairsInv, NEW p \in Run, HardNegatives[p],
                      NEW pair \in Rows(run[p].pairs) \cup run[p].test
               PROVE  LET cands  == RowAt(pair).candidates
                          limits == Limits(pair.entry)
                          kept(i) == Degenerate(cands[i], limits) => Rescued(cands[i])
                      IN  Len(cands) > 1 =>
                            /\ kept(pair.rejected)
                            /\ FalseNegative(cands[pair.rejected], limits) =>
                                 /\ Fallback = "temperature"
                                 /\ \A i \in DOMAIN cands :
                                      kept(i) => FalseNegative(cands[i], limits)
    BY DEF RejectedIsFit
  <2> DEFINE sound == Sound(run, unfiltered, discarded, p)
  <2>1. run[p].pairs \in Seq(sound) /\ run[p].test \subseteq sound
    BY DEF PairsInv, RunOK
  <2>2. pair \in sound
    <3> HIDE DEF sound
    <3> QED BY <2>1, RowsFinite
  <2>3. pair \in FitPair(p)
    BY <2>2 DEF Sound
  <2> QED BY <2>3 DEF FitPair, IsFit
<1> QED BY <1>1, PairsAlways, PTL

-----------------------------------------------------------------------------

-----------------------------------------------------------------------------
(* Diffs and how they are applied *)

IsSide(f, diff, tags) ==
  f = [i \in 0..Len(diff) |->
        IF i = 0 THEN Empty
        ELSE IF diff[i].tag \in tags THEN Append(f[i - 1], diff[i].at) ELSE f[i - 1]]

(* c counts the lines of these tags, which are those of the text.          *)
CountsLines(c, n, diff, tags, text) ==
  /\ c \in [0..n -> 0..Len(text)] /\ c[0] = 0
  /\ \A i \in 1..n :
       IF diff[i].tag \in tags THEN c[i] = c[i - 1] + 1 /\ diff[i].at = text[c[i]]
       ELSE c[i] = c[i - 1]

(* If the lines of these tags are those of a text one after the other,     *)
(* counted by c, then that text is the side of the diff.                   *)
LEMMA SideIs ==
  ASSUME NEW V, NEW text \in Seq(V), NEW n \in Nat, NEW diff, Len(diff) = n, NEW tags,
         NEW c, CountsLines(c, n, diff, tags, text)
  PROVE  Side(diff, tags) = SubSeq(text, 1, c[n])
<1>0. /\ c \in [0..n -> 0..Len(text)] /\ c[0] = 0
      /\ \A i \in 1..n :
           IF diff[i].tag \in tags THEN c[i] = c[i - 1] + 1 /\ diff[i].at = text[c[i]]
           ELSE c[i] = c[i - 1]
  BY DEF CountsLines
<1> DEFINE f == [i \in 0..n |-> SubSeq(text, 1, c[i])]
           body(g, i) == IF i = 0 THEN Empty
                         ELSE IF diff[i].tag \in tags THEN Append(g[i - 1], diff[i].at)
                         ELSE g[i - 1]
<1>1. f[0] = Empty
  BY <1>0, SubSeqEmpty DEF Empty
<1>2. ASSUME NEW i \in 1..n PROVE f[i] = body(f, i)
  <2>1. i - 1 \in 0..n /\ i \in 0..n /\ i # 0
    OBVIOUS
  <2>2. CASE diff[i].tag \in tags
    <3>1. c[i] = c[i - 1] + 1 /\ diff[i].at = text[c[i]]
      BY <1>0, <2>2
    <3>2. c[i] \in 1..Len(text) /\ c[i - 1] = c[i] - 1
      BY <1>0, <2>1, <3>1
    <3>3. text[c[i]] \in V /\ SubSeq(text, 1, c[i] - 1) \in Seq(V)
      BY <3>2
    <3>4. Append(SubSeq(text, 1, c[i] - 1), text[c[i]])
            = SubSeq(text, 1, c[i] - 1) \o <<text[c[i]]>>
      BY <3>3, AppendIsConcat
    <3>5. SubSeq(text, 1, c[i]) = SubSeq(text, 1, c[i] - 1) \o <<text[c[i]]>>
      <4> DEFINE k == c[i]
      <4>1. k \in 1..Len(text) /\ 1 \in 1..Len(text) /\ Len(text) \in Nat
        BY <3>2
      <4> HIDE DEF k
      <4>2. SubSeq(text, 1, k) = SubSeq(text, 1, k - 1) \o <<text[k]>>
        BY <4>1, SubSeqRecursiveSecond
      <4> QED BY <4>2 DEF k
    <3>6. f[i] = SubSeq(text, 1, c[i]) /\ f[i - 1] = SubSeq(text, 1, c[i] - 1)
      BY <2>1, <3>2
    <3> HIDE DEF f
    <3> QED BY <2>1, <2>2, <3>1, <3>4, <3>5, <3>6
  <2>3. CASE diff[i].tag \notin tags
    BY <1>0, <2>1, <2>3
  <2> HIDE DEF f
  <2> QED BY <2>2, <2>3
<1>3. IsSide(f, diff, tags)
  <2>1. \A i \in 0..n : f[i] = body(f, i)
    <3> HIDE DEF f
    <3>1. \A i \in 0..n : i = 0 \/ i \in 1..n
      OBVIOUS
    <3> QED BY <1>1, <1>2, <3>1
  <2>2. f = [i \in 0..n |-> f[i]]
    OBVIOUS
  <2>3. f = [i \in 0..n |-> body(f, i)]
    <3> HIDE DEF f, body
    <3> QED BY <2>1, <2>2
  <2> HIDE DEF f
  <2> QED BY <2>3, Zenon DEF IsSide
<1> DEFINE g == CHOOSE g : IsSide(g, diff, tags)
<1>4. IsSide(g, diff, tags)
  BY <1>3
<1>5. Side(diff, tags) = g[n]
  BY DEF Side, IsSide
<1> HIDE DEF g, f
<1>6. \A i \in 0..n : g[i] = body(g, i) /\ f[i] = body(f, i)
  BY <1>3, <1>4 DEF IsSide
<1> DEFINE parent == [i \in 1..n |-> i - 1]
           S == {i \in 1..n : g[i] = f[i]}
<1>7. Forest(n, parent)
  BY DEF Forest
<1>8. g[0] = f[0]
  BY <1>6
<1>9. ASSUME NEW i \in 1..n, parent[i] = 0 \/ parent[i] \in S PROVE i \in S
  <2>1. g[i - 1] = f[i - 1]
    BY <1>8, <1>9
  <2>2. i \in 0..n
    OBVIOUS
  <2>3. body(g, i) = body(f, i)
    BY <2>1
  <2> HIDE DEF body
  <2> QED BY <1>6, <2>2, <2>3
<1> HIDE DEF S, parent
<1>10. \A i \in 1..n : i \in S
  BY <1>7, <1>9, ForestInduction
<1>11. g[n] = f[n]
  BY <1>8, <1>10 DEF S
<1>12. f[n] = SubSeq(text, 1, c[n])
  <2>1. n \in 0..n
    OBVIOUS
  <2> QED BY <2>1 DEF f
<1> QED BY <1>5, <1>11, <1>12

LEMMA UptoIs ==
  ASSUME NEW max \in Nat, NEW set
  PROVE  /\ Upto(max, set) \in 0..max /\ 1..Upto(max, set) \subseteq set
         /\ Upto(max, set) = max \/ Upto(max, set) + 1 \notin set
<1> DEFINE T == {n \in 0..max : n = max \/ n + 1 \notin set}
<1>1. T \subseteq Nat /\ T # {}
  <2>1. max \in T
    OBVIOUS
  <2>2. T \subseteq Nat
    OBVIOUS
  <2> QED BY <2>1, <2>2
<1>2. PICK n \in T : \A m \in T : n <= m
  <2> HIDE DEF T
  <2> QED BY <1>1, LeastNumber
<1>3. 1..n \subseteq set
  <2> SUFFICES ASSUME NEW i \in 1..n PROVE i \in set
    OBVIOUS
  <2>1. i - 1 \in 0..max /\ i - 1 < n /\ (i - 1) + 1 = i
    BY <1>2
  <2> QED BY <1>2, <2>1
<1> QED BY <1>2, <1>3 DEF Upto

(* A diff has h lines in common, then those removed, those added, and k    *)
(* lines in common; and the last lines are, where they can be.             *)
DiffParts(from, to, diff, a, b, h, k, d) ==
  /\ a \in Nat /\ b \in Nat /\ h \in Nat /\ k \in Nat /\ d \in Nat
  /\ Len(from) = a /\ Len(to) = b
  /\ h + k <= a /\ b = h + k + d
  /\ k = 0 => h = a \/ h = b \/ from[a] # to[b]
  /\ Len(diff) = a + d /\ DOMAIN diff = 1..(a + d)
  /\ \A i \in 1..h : diff[i].tag = " " /\ diff[i].at = from[i] /\ from[i] = to[i]
  /\ \A i \in (h + 1)..(a - k) : diff[i].tag = "-" /\ diff[i].at = from[i]
  /\ \A i \in (a - k + 1)..(a - k + d) :
       diff[i].tag = "+" /\ diff[i].at = to[i - (a - k) + h]
  /\ \A i \in (a - k + d + 1)..(a + d) :
       diff[i].tag = " " /\ diff[i].at = from[i - d] /\ from[i - d] = to[i - a + h + k]

LEMMA MadeSequence ==
  ASSUME NEW W, NEW n \in Nat, NEW f \in [1..n -> W]
  PROVE  f \in Seq(W) /\ Len(f) = n
<1>1. f = [i \in 1..n |-> f[i]] /\ \A i \in 1..n : f[i] \in W
  OBVIOUS
<1>2. [i \in 1..n |-> f[i]] \in Seq(W)
  BY <1>1
<1>3. f \in Seq(W)
  BY <1>1, <1>2
<1>4. Len(f) \in Nat /\ DOMAIN f = 1..Len(f) /\ DOMAIN f = 1..n
  BY <1>3, LenProperties
<1> QED BY <1>3, <1>4

IsTagged(s, tag, text, W) ==
  /\ s \in Seq(W) /\ Len(s) = Len(text)
  /\ \A i \in 1..Len(text) : s[i].tag = tag /\ s[i].at = text[i]

LEMMA TaggedIs ==
  ASSUME NEW V, NEW text \in Seq(V), NEW tag \in {" ", "-", "+"}
  PROVE  IsTagged(Tagged(tag, text), tag, text, [tag : {" ", "-", "+"}, at : V])
<1>1. DOMAIN text = 1..Len(text) /\ Len(text) \in Nat /\ \A i \in 1..Len(text) : text[i] \in V
  BY LenProperties, ElementOfSeq
<1> DEFINE n == Len(text)
           W == [tag : {" ", "-", "+"}, at : V]
           f == [i \in 1..n |-> [tag |-> tag, at |-> text[i]]]
<1>2. Tagged(tag, text) = f
  BY <1>1 DEF Tagged
<1>3. f \in [1..n -> W] /\ \A i \in 1..n : f[i].tag = tag /\ f[i].at = text[i]
  BY <1>1
<1> HIDE DEF f, W
<1>4. f \in Seq(W) /\ Len(f) = n
  BY <1>1, <1>3, MadeSequence
<1>5. IsTagged(f, tag, text, W)
  BY <1>3, <1>4 DEF IsTagged
<1> QED BY <1>2, <1>5 DEF W

FourJoined(s, w, x, y, z) ==
  LET p == Len(w)
      q == p + Len(x)
      r == q + Len(y)
  IN  /\ Len(s) = r + Len(z)
      /\ \A i \in 1..p : s[i] = w[i]
      /\ \A i \in (p + 1)..q : s[i] = x[i - p]
      /\ \A i \in (q + 1)..r : s[i] = y[i - q]
      /\ \A i \in (r + 1)..(r + Len(z)) : s[i] = z[i - r]

LEMMA FourParts ==
  ASSUME NEW V, NEW w \in Seq(V), NEW x \in Seq(V), NEW y \in Seq(V), NEW z \in Seq(V)
  PROVE  /\ w \o x \o y \o z \in Seq(V)
         /\ FourJoined(w \o x \o y \o z, w, x, y, z)
<1> DEFINE wx == w \o x
           wxy == wx \o y
           s == wxy \o z
<1>1. Len(w) \in Nat /\ Len(x) \in Nat /\ Len(y) \in Nat /\ Len(z) \in Nat
  OBVIOUS
<1>2. /\ wx \in Seq(V) /\ Len(wx) = Len(w) + Len(x)
      /\ \A i \in 1..Len(w) + Len(x) :
           wx[i] = IF i <= Len(w) THEN w[i] ELSE x[i - Len(w)]
  BY ConcatProperties
<1> HIDE DEF wx
<1>3. /\ wxy \in Seq(V) /\ Len(wxy) = Len(wx) + Len(y)
      /\ \A i \in 1..Len(wx) + Len(y) :
           wxy[i] = IF i <= Len(wx) THEN wx[i] ELSE y[i - Len(wx)]
  <2>1. wx \in Seq(V)
    BY <1>2
  <2> QED BY <2>1, ConcatProperties
<1> HIDE DEF wxy
<1>4. /\ s \in Seq(V) /\ Len(s) = Len(wxy) + Len(z)
      /\ \A i \in 1..Len(wxy) + Len(z) :
           s[i] = IF i <= Len(wxy) THEN wxy[i] ELSE z[i - Len(wxy)]
  <2>1. wxy \in Seq(V)
    BY <1>3
  <2> QED BY <2>1, ConcatProperties
<1>5. s = w \o x \o y \o z
  BY DEF s, wxy, wx
<1> HIDE DEF s
<1>6. \A i \in 1..Len(w) : s[i] = w[i]
  BY <1>1, <1>2, <1>3, <1>4
<1>7. \A i \in (Len(w) + 1)..(Len(w) + Len(x)) : s[i] = x[i - Len(w)]
  BY <1>1, <1>2, <1>3, <1>4
<1>8. \A i \in (Len(w) + Len(x) + 1)..(Len(w) + Len(x) + Len(y)) :
        s[i] = y[i - (Len(w) + Len(x))]
  BY <1>1, <1>2, <1>3, <1>4
<1>9. \A i \in (Len(w) + Len(x) + Len(y) + 1)..(Len(w) + Len(x) + Len(y) + Len(z)) :
        s[i] = z[i - (Len(w) + Len(x) + Len(y))]
  BY <1>1, <1>2, <1>3, <1>4
<1>10. Len(s) = Len(w) + Len(x) + Len(y) + Len(z)
  BY <1>2, <1>3, <1>4
<1>11. FourJoined(s, w, x, y, z)
  BY <1>6, <1>7, <1>8, <1>9, <1>10 DEF FourJoined
<1> QED BY <1>4, <1>5, <1>11

LEMMA DiffIs ==
  ASSUME NEW V, NEW from \in Seq(V), NEW to \in Seq(V), from # to
  PROVE  \E a, b, h, k, d : DiffParts(from, to, UnifiedDiff(from, to), a, b, h, k, d)
<1> DEFINE a == Len(from)
           b == Len(to)
           both == IF a < b THEN a ELSE b
           starts == {i \in 1..both : from[i] = to[i]}
           ends == {i \in 1..both : from[a - i + 1] = to[b - i + 1]}
           h == Upto(both, starts)
           k == Upto(both - h, ends)
<1>0. a \in Nat /\ b \in Nat /\ both \in Nat /\ both <= a /\ both <= b
      /\ (both = a \/ both = b)
  OBVIOUS
<1> DEFINE head == SubSeq(from, 1, h)
           tail == SubSeq(from, a - k + 1, a)
           gone == SubSeq(from, h + 1, a - k)
           new == SubSeq(to, h + 1, b - k)
<1>1. UnifiedDiff(from, to)
        = Tagged(" ", head) \o Tagged("-", gone) \o Tagged("+", new) \o Tagged(" ", tail)
  <2> DEFINE parts == Tagged(" ", head) \o Tagged("-", gone) \o Tagged("+", new)
                        \o Tagged(" ", tail)
  <2>1. UnifiedDiff(from, to) = IF from = to THEN <<>> ELSE parts
    BY DEF UnifiedDiff
  <2> HIDE DEF parts
  <2> QED BY <2>1 DEF parts
<1> HIDE DEF both
<1>2. h \in 0..both /\ 1..h \subseteq starts /\ (h = both \/ h + 1 \notin starts)
  BY <1>0, UptoIs
<1> HIDE DEF h
<1>3. k \in 0..(both - h) /\ 1..k \subseteq ends /\ (k = both - h \/ k + 1 \notin ends)
  <2>1. both - h \in Nat
    BY <1>0, <1>2
  <2> QED BY <2>1, UptoIs
<1> HIDE DEF k
<1>4. /\ h \in Nat /\ k \in Nat /\ h + k <= a /\ h + k <= b
      /\ k = 0 => h = a \/ h = b \/ from[a] # to[b]
  <2>1. h \in Nat /\ k \in Nat /\ h + k <= a /\ h + k <= b
    BY <1>0, <1>2, <1>3
  <2>2. ASSUME k = 0, h # a, h # b PROVE from[a] # to[b]
    <3>1. 1 \in 1..both /\ 1 \notin ends
      BY <1>0, <1>2, <1>3, <2>2
    <3>2. a - 1 + 1 = a /\ b - 1 + 1 = b
      BY <1>0
    <3> QED BY <3>1, <3>2
  <2> QED BY <2>1, <2>2
<1>5. (\A i \in 1..h : from[i] = to[i])
      /\ \A i \in 1..k : from[a - i + 1] = to[b - i + 1]
  BY <1>2, <1>3
<1>6. head \in Seq(V) /\ Len(head) = h /\ \A i \in 1..h : head[i] = from[i]
  BY <1>0, <1>4
<1>7. tail \in Seq(V) /\ Len(tail) = k /\ \A i \in 1..k : tail[i] = from[a - k + i]
  BY <1>0, <1>4
<1>8. /\ gone \in Seq(V) /\ Len(gone) = a - h - k
      /\ \A i \in 1..(a - h - k) : gone[i] = from[h + i]
  BY <1>0, <1>4
<1>9. /\ new \in Seq(V) /\ Len(new) = b - h - k
      /\ \A i \in 1..(b - h - k) : new[i] = to[h + i]
  BY <1>0, <1>4
<1> HIDE DEF head, tail, gone, new, starts, ends
<1> DEFINE w == Tagged(" ", head)
           x == Tagged("-", gone)
           y == Tagged("+", new)
           z == Tagged(" ", tail)
           W == [tag : {" ", "-", "+"}, at : V]
<1>10a. head \in Seq(V) /\ tail \in Seq(V) /\ gone \in Seq(V) /\ new \in Seq(V)
  BY <1>6, <1>7, <1>8, <1>9
<1>10b. /\ IsTagged(w, " ", head, W) /\ IsTagged(x, "-", gone, W)
        /\ IsTagged(y, "+", new, W) /\ IsTagged(z, " ", tail, W)
  BY <1>10a, TaggedIs
<1> HIDE DEF w, x, y, z, W
<1>11. /\ w \in Seq(W) /\ Len(w) = h /\ \A i \in 1..h : w[i].tag = " " /\ w[i].at = head[i]
       /\ z \in Seq(W) /\ Len(z) = k /\ \A i \in 1..k : z[i].tag = " " /\ z[i].at = tail[i]
  BY <1>6, <1>7, <1>10b DEF IsTagged
<1>12. /\ x \in Seq(W) /\ Len(x) = a - h - k
       /\ \A i \in 1..(a - h - k) : x[i].tag = "-" /\ x[i].at = gone[i]
  BY <1>8, <1>10b DEF IsTagged
<1>13. /\ y \in Seq(W) /\ Len(y) = b - h - k
       /\ \A i \in 1..(b - h - k) : y[i].tag = "+" /\ y[i].at = new[i]
  BY <1>9, <1>10b DEF IsTagged
<1> DEFINE diff == w \o x \o y \o z
           d == b - h - k
<1>14. /\ diff \in Seq(W) /\ Len(diff) = a + d
       /\ \A i \in 1..h : diff[i] = w[i]
       /\ \A i \in (h + 1)..(a - k) : diff[i] = x[i - h]
       /\ \A i \in (a - k + 1)..(a - k + d) : diff[i] = y[i - (a - k)]
       /\ \A i \in (a - k + d + 1)..(a + d) : diff[i] = z[i - (a - k + d)]
  <2>1. /\ diff \in Seq(W)
        /\ Len(diff) = Len(w) + Len(x) + Len(y) + Len(z)
        /\ \A i \in 1..Len(w) : diff[i] = w[i]
        /\ \A i \in (Len(w) + 1)..(Len(w) + Len(x)) : diff[i] = x[i - Len(w)]
        /\ \A i \in (Len(w) + Len(x) + 1)..(Len(w) + Len(x) + Len(y)) :
             diff[i] = y[i - (Len(w) + Len(x))]
        /\ \A i \in (Len(w) + Len(x) + Len(y) + 1)..(Len(w) + Len(x) + Len(y) + Len(z)) :
             diff[i] = z[i - (Len(w) + Len(x) + Len(y))]
    <3>1. w \in Seq(W) /\ x \in Seq(W) /\ y \in Seq(W) /\ z \in Seq(W)
      BY <1>11, <1>12, <1>13
    <3>2. w \o x \o y \o z \in Seq(W) /\ FourJoined(w \o x \o y \o z, w, x, y, z)
      BY <3>1, FourParts
    <3>3. diff \in Seq(W) /\ FourJoined(diff, w, x, y, z)
      BY <3>2
    <3> HIDE DEF diff
    <3> QED BY <3>3 DEF FourJoined
  <2> HIDE DEF diff
  <2>2. /\ Len(w) = h /\ Len(w) + Len(x) = a - k /\ Len(w) + Len(x) + Len(y) = a - k + d
        /\ Len(w) + Len(x) + Len(y) + Len(z) = a + d
    <3>1. Len(w) = h /\ Len(x) = a - h - k /\ Len(y) = b - h - k /\ Len(z) = k
      BY <1>11, <1>12, <1>13
    <3> QED BY <1>0, <1>4, <3>1
  <2> QED BY <2>1, <2>2
<1>15. UnifiedDiff(from, to) = diff
  BY <1>1 DEF w, x, y, z
<1> HIDE DEF diff
<1>17. ASSUME NEW i \in 1..h
       PROVE  diff[i].tag = " " /\ diff[i].at = from[i] /\ from[i] = to[i]
  BY <1>5, <1>6, <1>11, <1>14
<1>18. ASSUME NEW i \in (h + 1)..(a - k)
       PROVE  diff[i].tag = "-" /\ diff[i].at = from[i]
  <2>1. i - h \in 1..(a - h - k) /\ h + (i - h) = i
    BY <1>0, <1>4
  <2>2. diff[i] = x[i - h]
    BY <1>14
  <2>3. gone[i - h] = from[i]
    BY <1>8, <2>1
  <2> QED BY <1>12, <2>1, <2>2, <2>3
<1>19. ASSUME NEW i \in (a - k + 1)..(a - k + d)
       PROVE  diff[i].tag = "+" /\ diff[i].at = to[i - (a - k) + h]
  <2> DEFINE j == i - (a - k)
  <2>1. j \in 1..(b - h - k) /\ h + j = j + h
    BY <1>0, <1>4
  <2>2. diff[i] = y[j]
    BY <1>14
  <2> HIDE DEF j
  <2>3. new[j] = to[j + h] /\ y[j].tag = "+" /\ y[j].at = new[j]
    BY <1>9, <1>13, <2>1
  <2> QED BY <2>2, <2>3 DEF j
<1>20. ASSUME NEW i \in (a - k + d + 1)..(a + d)
       PROVE  diff[i].tag = " " /\ diff[i].at = from[i - d] /\ from[i - d] = to[i - a + h + k]
  <2> DEFINE j == i - (a - k + d)
             m == k - j + 1
  <2>1. /\ j \in 1..k /\ m \in 1..k /\ a - k + j = i - d
        /\ a - m + 1 = i - d /\ b - m + 1 = i - a + h + k
    BY <1>0, <1>4
  <2>2. diff[i] = z[j]
    BY <1>14
  <2> HIDE DEF j
  <2>3. z[j].tag = " " /\ z[j].at = tail[j] /\ tail[j] = from[i - d]
    BY <1>7, <1>11, <2>1
  <2> HIDE DEF m
  <2>4. from[i - d] = to[i - a + h + k]
    BY <1>5, <2>1
  <2> QED BY <2>2, <2>3, <2>4
<1>21. Len(diff) = a + d /\ DOMAIN diff = 1..(a + d)
  BY <1>14
<1>22. d \in Nat /\ b = h + k + d
  BY <1>0, <1>4
<1> HIDE DEF d
<1>23. DiffParts(from, to, diff, a, b, h, k, d)
  BY <1>0, <1>4, <1>17, <1>18, <1>19, <1>20, <1>21, <1>22 DEF DiffParts
<1> HIDE DEF a, b
<1> QED BY <1>15, <1>23

(* The two sides of a diff are the texts it was made of.                   *)
LEMMA SidesOfDiff ==
  ASSUME NEW V, NEW from \in Seq(V), NEW to \in Seq(V), NEW diff,
         NEW a, NEW b, NEW h, NEW k, NEW d, DiffParts(from, to, diff, a, b, h, k, d)
  PROVE  Side(diff, {" ", "-"}) = from /\ Side(diff, {" ", "+"}) = to
<1> DEFINE n == a + d
<1>1. /\ a \in Nat /\ b \in Nat /\ h \in Nat /\ k \in Nat /\ d \in Nat
      /\ Len(from) = a /\ Len(to) = b /\ Len(diff) = n /\ DOMAIN diff = 1..n
      /\ h + k <= a /\ b = h + k + d
      /\ k = 0 => h = a \/ h = b \/ from[a] # to[b]
  BY Zenon DEF DiffParts
<1>2. n \in Nat /\ n = a + d
  BY <1>1
<1>3. /\ \A i \in 1..h : diff[i].tag = " " /\ diff[i].at = from[i] /\ from[i] = to[i]
      /\ \A i \in (h + 1)..(a - k) : diff[i].tag = "-" /\ diff[i].at = from[i]
      /\ \A i \in (a - k + 1)..(a - k + d) :
           diff[i].tag = "+" /\ diff[i].at = to[i - (a - k) + h]
      /\ \A i \in (a - k + d + 1)..n :
           diff[i].tag = " " /\ diff[i].at = from[i - d] /\ from[i - d] = to[i - a + h + k]
  BY Zenon DEF DiffParts
<1> HIDE DEF n
<1>4. \A i \in 1..n : \/ i \in 1..h
                      \/ i \in (h + 1)..(a - k)
                      \/ i \in (a - k + 1)..(a - k + d)
                      \/ i \in (a - k + d + 1)..n
  BY <1>1, <1>2
<1>5. Side(diff, {" ", "-"}) = from
  <2> DEFINE at(i) == IF i <= a - k THEN i ELSE IF i <= a - k + d THEN a - k ELSE i - d
             c == [i \in 0..n |-> at(i)]
  <2>1. \A i \in 0..n : at(i) \in 0..a
    BY <1>1, <1>2
  <2>2. at(0) = 0 /\ at(n) = a
    BY <1>1, <1>2
  <2>3. ASSUME NEW i \in 1..n
        PROVE  IF diff[i].tag \in {" ", "-"}
               THEN at(i) = at(i - 1) + 1 /\ diff[i].at = from[at(i)]
               ELSE at(i) = at(i - 1)
    <3>1. CASE i \in 1..h
      <4>1. at(i) = i /\ at(i) = at(i - 1) + 1
        BY <1>1, <1>2, <3>1
      <4> HIDE DEF at
      <4> QED BY <1>3, <3>1, <4>1
    <3>2. CASE i \in (h + 1)..(a - k)
      <4>1. at(i) = i /\ at(i) = at(i - 1) + 1
        BY <1>1, <1>2, <3>2
      <4> HIDE DEF at
      <4> QED BY <1>3, <3>2, <4>1
    <3>3. CASE i \in (a - k + 1)..(a - k + d)
      <4>1. at(i) = at(i - 1)
        BY <1>1, <1>2, <3>3
      <4> HIDE DEF at
      <4> QED BY <1>3, <3>3, <4>1
    <3>4. CASE i \in (a - k + d + 1)..n
      <4>1. at(i) = i - d /\ at(i) = at(i - 1) + 1
        BY <1>1, <1>2, <3>4
      <4> HIDE DEF at
      <4> QED BY <1>3, <3>4, <4>1
    <3> HIDE DEF at
    <3> QED BY <1>4, <3>1, <3>2, <3>3, <3>4
  <2>4. \A i \in 1..n : i \in 0..n /\ i - 1 \in 0..n
    BY <1>2
  <2>5. 0 \in 0..n /\ n \in 0..n
    BY <1>2
  <2> HIDE DEF at
  <2>6. c \in [0..n -> 0..Len(from)] /\ c[0] = 0 /\ c[n] = a
    BY <1>1, <2>1, <2>2, <2>5
  <2>7. \A i \in 1..n : IF diff[i].tag \in {" ", "-"}
                        THEN c[i] = c[i - 1] + 1 /\ diff[i].at = from[c[i]]
                        ELSE c[i] = c[i - 1]
    BY <2>3, <2>4
  <2> HIDE DEF c
  <2>a. CountsLines(c, n, diff, {" ", "-"}, from)
    BY <2>6, <2>7 DEF CountsLines
  <2>b. Len(diff) = n /\ n \in Nat
    BY <1>1, <1>2
  <2>8. Side(diff, {" ", "-"}) = SubSeq(from, 1, c[n])
    BY <2>a, <2>b, SideIs
  <2> QED BY <1>1, <2>6, <2>8, SubSeqFull
<1>6. Side(diff, {" ", "+"}) = to
  <2> DEFINE at(i) == IF i <= h THEN i ELSE IF i <= a - k THEN h ELSE i - (a - k) + h
             c == [i \in 0..n |-> at(i)]
  <2>1. \A i \in 0..n : at(i) \in 0..b
    BY <1>1, <1>2
  <2>2. at(0) = 0 /\ at(n) = b
    BY <1>1, <1>2
  <2>3. ASSUME NEW i \in 1..n
        PROVE  IF diff[i].tag \in {" ", "+"}
               THEN at(i) = at(i - 1) + 1 /\ diff[i].at = to[at(i)]
               ELSE at(i) = at(i - 1)
    <3>1. CASE i \in 1..h
      <4>1. at(i) = i /\ at(i) = at(i - 1) + 1
        BY <1>1, <1>2, <3>1
      <4> HIDE DEF at
      <4> QED BY <1>3, <3>1, <4>1
    <3>2. CASE i \in (h + 1)..(a - k)
      <4>1. at(i) = at(i - 1)
        BY <1>1, <1>2, <3>2
      <4> HIDE DEF at
      <4> QED BY <1>3, <3>2, <4>1
    <3>3. CASE i \in (a - k + 1)..(a - k + d)
      <4>1. at(i) = i - (a - k) + h /\ at(i) = at(i - 1) + 1
        BY <1>1, <1>2, <3>3
      <4> HIDE DEF at
      <4> QED BY <1>3, <3>3, <4>1
    <3>4. CASE i \in (a - k + d + 1)..n
      <4>1. at(i) = i - a + h + k /\ at(i) = at(i - 1) + 1
        BY <1>1, <1>2, <3>4
      <4> HIDE DEF at
      <4> QED BY <1>3, <3>4, <4>1
    <3> HIDE DEF at
    <3> QED BY <1>4, <3>1, <3>2, <3>3, <3>4
  <2>4. \A i \in 1..n : i \in 0..n /\ i - 1 \in 0..n
    BY <1>2
  <2>5. 0 \in 0..n /\ n \in 0..n
    BY <1>2
  <2> HIDE DEF at
  <2>6. c \in [0..n -> 0..Len(to)] /\ c[0] = 0 /\ c[n] = b
    BY <1>1, <2>1, <2>2, <2>5
  <2>7. \A i \in 1..n : IF diff[i].tag \in {" ", "+"}
                        THEN c[i] = c[i - 1] + 1 /\ diff[i].at = to[c[i]]
                        ELSE c[i] = c[i - 1]
    BY <2>3, <2>4
  <2> HIDE DEF c
  <2>a. CountsLines(c, n, diff, {" ", "+"}, to)
    BY <2>6, <2>7 DEF CountsLines
  <2>b. Len(diff) = n /\ n \in Nat
    BY <1>1, <1>2
  <2>8. Side(diff, {" ", "+"}) = SubSeq(to, 1, c[n])
    BY <2>a, <2>b, SideIs
  <2> QED BY <1>1, <2>6, <2>8, SubSeqFull
<1> QED BY <1>5, <1>6

(* Where all lines end, or the same last line does not, the lines of a     *)
(* diff stay apart.                                                        *)
LEMMA ReadableUnlessLoose ==
  ASSUME NEW from, IsText(from), NEW to, IsText(to), NEW diff,
         NEW a, NEW b, NEW h, NEW k, NEW d, DiffParts(from, to, diff, a, b, h, k, d), from # to,
         EndOf(from) = EndOf(to) \/ (EndOf(from).nl /\ EndOf(to).nl)
  PROVE  Readable(diff)
<1> DEFINE n == a + d
<1>1. /\ a \in Nat /\ b \in Nat /\ h \in Nat /\ k \in Nat /\ d \in Nat
      /\ Len(from) = a /\ Len(to) = b /\ Len(diff) = n /\ DOMAIN diff = 1..n
      /\ h + k <= a /\ b = h + k + d
      /\ k = 0 => h = a \/ h = b \/ from[a] # to[b]
  BY Zenon DEF DiffParts
<1>2. n \in Nat /\ n = a + d
  BY <1>1
<1>3. /\ \A i \in 1..h : diff[i].tag = " " /\ diff[i].at = from[i] /\ from[i] = to[i]
      /\ \A i \in (h + 1)..(a - k) : diff[i].tag = "-" /\ diff[i].at = from[i]
      /\ \A i \in (a - k + 1)..(a - k + d) :
           diff[i].tag = "+" /\ diff[i].at = to[i - (a - k) + h]
      /\ \A i \in (a - k + d + 1)..n :
           diff[i].tag = " " /\ diff[i].at = from[i - d] /\ from[i - d] = to[i - a + h + k]
  BY Zenon DEF DiffParts
<1> HIDE DEF n
<1>4. \A i \in 1..n : \/ i \in 1..h
                      \/ i \in (h + 1)..(a - k)
                      \/ i \in (a - k + 1)..(a - k + d)
                      \/ i \in (a - k + d + 1)..n
  BY <1>1, <1>2
<1>5. /\ DOMAIN from = 1..a /\ DOMAIN to = 1..b
      /\ \A i \in 1..a : from[i].nl \/ i = a
      /\ \A i \in 1..b : to[i].nl \/ i = b
  <2>1. DOMAIN from = 1..a /\ DOMAIN to = 1..b
    BY <1>1 DEF IsText
  <2> QED BY <1>1, <2>1 DEF IsText
<1>e. /\ IF a = 0 THEN EndOf(from).nl ELSE EndOf(from) = from[a]
      /\ IF b = 0 THEN EndOf(to).nl ELSE EndOf(to) = to[b]
  <2>1. (a = 0 <=> from = <<>>) /\ (b = 0 <=> to = <<>>)
    BY <1>1, EmptySeq DEF IsText
  <2> QED BY <1>1, <2>1 DEF EndOf, Empty
<1>6. CASE EndOf(from).nl /\ EndOf(to).nl
  <2>1. ASSUME NEW i \in 1..a PROVE from[i].nl
    <3>1. a # 0
      BY <1>1
    <3>2. from[a].nl
      BY <1>6, <1>e, <3>1
    <3> QED BY <1>5, <3>2
  <2>2. ASSUME NEW i \in 1..b PROVE to[i].nl
    <3>1. b # 0
      BY <1>1
    <3>2. to[b].nl
      BY <1>6, <1>e, <3>1
    <3> QED BY <1>5, <3>2
  <2>3. ASSUME NEW i \in 1..n PROVE diff[i].at.nl
    <3>1. CASE i \in 1..h
      <4>1. i \in 1..a
        BY <1>1, <3>1
      <4> QED BY <1>3, <2>1, <3>1, <4>1
    <3>2. CASE i \in (h + 1)..(a - k)
      <4>1. i \in 1..a
        BY <1>1, <3>2
      <4> QED BY <1>3, <2>1, <3>2, <4>1
    <3>3. CASE i \in (a - k + 1)..(a - k + d)
      <4>1. i - (a - k) + h \in 1..b
        BY <1>1, <1>2, <3>3
      <4> QED BY <1>3, <2>2, <3>3, <4>1
    <3>4. CASE i \in (a - k + d + 1)..n
      <4>1. i - d \in 1..a
        BY <1>1, <1>2, <3>4
      <4> QED BY <1>3, <2>1, <3>4, <4>1
    <3> QED BY <1>4, <3>1, <3>2, <3>3, <3>4
  <2> QED BY <1>1, <2>3 DEF Readable
<1>7. CASE EndOf(from) = EndOf(to) /\ ~EndOf(from).nl
  <2>1. a # 0 /\ b # 0
    BY <1>7, <1>e
  <2>2. from[a] = to[b] /\ ~from[a].nl /\ ~to[b].nl
    BY <1>7, <1>e, <2>1
  <2>3. k # 0
    <3> SUFFICES ASSUME k = 0 PROVE FALSE
      OBVIOUS
    <3>1. CASE h = a
      <4>1. a \in 1..h /\ a \in 1..b
        BY <1>1, <2>1, <3>1
      <4>2. from[a] = to[a]
        BY <1>3, <4>1
      <4>3. a = b
        BY <1>5, <2>2, <4>1, <4>2
      <4>4. \A i \in 1..a : from[i] = to[i]
        BY <1>3, <3>1
      <4>5. from = to
        BY <1>1, <4>3, <4>4, SeqEqual DEF IsText
      <4> QED BY <4>5
    <3>2. CASE h = b
      <4>1. b \in 1..h /\ b \in 1..a
        BY <1>1, <2>1, <3>2
      <4>2. from[b] = to[b]
        BY <1>3, <4>1
      <4>3. a = b
        BY <1>5, <2>2, <4>1, <4>2
      <4>4. \A i \in 1..a : from[i] = to[i]
        BY <1>3, <3>2, <4>3
      <4>5. from = to
        BY <1>1, <4>3, <4>4, SeqEqual DEF IsText
      <4> QED BY <4>5
    <3> QED BY <1>1, <2>2, <3>1, <3>2
  <2>4. ASSUME NEW i \in 1..n PROVE diff[i].at.nl \/ (i = n /\ diff[i].tag = " ")
    <3>1. CASE i \in 1..h
      <4>1. i \in 1..a /\ i # a
        BY <1>1, <1>2, <2>3, <3>1
      <4> QED BY <1>3, <1>5, <3>1, <4>1
    <3>2. CASE i \in (h + 1)..(a - k)
      <4>1. i \in 1..a /\ i # a
        BY <1>1, <1>2, <2>3, <3>2
      <4> QED BY <1>3, <1>5, <3>2, <4>1
    <3>3. CASE i \in (a - k + 1)..(a - k + d)
      <4> DEFINE j == i - (a - k) + h
      <4>1. j \in 1..b /\ j # b
        BY <1>1, <1>2, <2>3, <3>3
      <4>2. diff[i].at = to[j]
        BY <1>3, <3>3
      <4> HIDE DEF j
      <4> QED BY <1>5, <4>1, <4>2
    <3>4. CASE i \in (a - k + d + 1)..n
      <4> DEFINE j == i - d
      <4>1. j \in 1..a /\ (j = a => i = n)
        BY <1>1, <1>2, <3>4
      <4>2. diff[i].at = from[j] /\ diff[i].tag = " "
        BY <1>3, <3>4
      <4> HIDE DEF j
      <4> QED BY <1>5, <4>1, <4>2
    <3> QED BY <1>4, <3>1, <3>2, <3>3, <3>4
  <2> QED BY <1>1, <2>4 DEF Readable
<1> QED BY <1>6, <1>7

(* Applying a text's diff gives the other text, but for a loose end.       *)
LEMMA AppliedGives ==
  ASSUME NEW from, IsText(from), NEW to, IsText(to),
         EndOf(from) = EndOf(to) \/ (EndOf(from).nl /\ EndOf(to).nl)
  PROVE  Applied(from, UnifiedDiff(from, to)) = to
<1>1. CASE from = to
  <2>1. UnifiedDiff(from, to) = <<>>
    BY <1>1 DEF UnifiedDiff
  <2> QED BY <1>1, <2>1 DEF Applied
<1>2. CASE from # to
  <2> DEFINE diff == UnifiedDiff(from, to)
             V == [line : Line, nl : BOOLEAN]
  <2>1. from \in Seq(V) /\ to \in Seq(V)
    BY DEF IsText
  <2>2. PICK a, b, h, k, d : DiffParts(from, to, diff, a, b, h, k, d)
    BY <1>2, <2>1, DiffIs
  <2> HIDE DEF diff, V
  <2>3. Side(diff, {" ", "-"}) = from /\ Side(diff, {" ", "+"}) = to
    BY <2>1, <2>2, SidesOfDiff
  <2>4. Readable(diff)
    BY <1>2, <2>2, ReadableUnlessLoose
  <2>5. CASE diff = <<>>
    <3>1. Len(from) = 0 /\ Len(to) = 0
      <4>1. Len(diff) = 0
        BY <2>5
      <4>2. /\ Len(diff) = a + d /\ h + k <= a /\ b = h + k + d
            /\ Len(from) = a /\ Len(to) = b
            /\ a \in Nat /\ h \in Nat /\ k \in Nat /\ d \in Nat
        BY <2>2, Zenon DEF DiffParts
      <4> QED BY <4>1, <4>2
    <3>2. from = to
      BY <2>1, <3>1
    <3> QED BY <1>2, <3>2
  <2>6. CASE diff # <<>>
    <3>1. Applied(from, diff) = Side(diff, {" ", "+"})
      BY <2>3, <2>4, <2>6 DEF Applied
    <3> QED BY <2>3, <3>1 DEF diff
  <2> QED BY <2>5, <2>6 DEF diff
<1> QED BY <1>1, <1>2

(* What is stored of a derived run is the diff to what was captured.       *)
DiffInv == derived.strategy # "none" => derived.diffs = SnapshotDiff(base, derived.codebase)

LEMMA DiffStep == TypeOK /\ DiffInv /\ [Next]_vars => DiffInv'
<1> SUFFICES ASSUME TypeOK, DiffInv, [Next]_vars PROVE DiffInv'
  OBVIOUS
<1>1. ASSUME UNCHANGED <<base, derived>> PROVE DiffInv'
  BY <1>1 DEF DiffInv
<1>2. CASE RunBase
  <2>1. derived'.strategy = "none"
    BY <1>2 DEF RunBase, TypeOK
  <2> QED BY <2>1 DEF DiffInv
<1>3. CASE RunDerived
  BY <1>3 DEF RunDerived, DiffInv
<1>4. CASE UNCHANGED vars
  BY <1>1, <1>4 DEF vars
<1> QED BY <1>1, <1>2, <1>3, <1>4 DEF Next, Edit, Unlink

(* Rebuilding a run from the base and its diffs gives every file it was    *)
(* recorded with, and a wrong one only at a loose end (differ.py:16-61,    *)
(* reconstructor.py:13-113).                                               *)
THEOREM RunsRebuilt == Spec => []RebuiltButLooseEnds
<1>1. Init => DiffInv
  BY DEF Init, DiffInv, NoRun
<1>2. TypeOK /\ DiffInv => RebuiltButLooseEnds
  <2> SUFFICES ASSUME TypeOK, DiffInv, derived.strategy # "none"
               PROVE  /\ DOMAIN Rebuilt = DOMAIN base \cup DOMAIN derived.codebase
                      /\ \A p \in DOMAIN Rebuilt :
                           Rebuilt[p] = Content(derived.codebase, p) \/ LooseEnd(p)
    BY DEF RebuiltButLooseEnds
  <2> DEFINE new == derived.codebase
             diffs == derived.diffs
  <2>1. diffs = SnapshotDiff(base, new)
    BY DEF DiffInv
  <2>2. DOMAIN diffs = Changed(base, new)
        /\ \A p \in DOMAIN diffs : diffs[p] = UnifiedDiff(Content(base, p), Content(new, p))
    BY <2>1 DEF SnapshotDiff
  <2>3. DOMAIN Rebuilt = DOMAIN base \cup DOMAIN diffs
        /\ \A p \in DOMAIN Rebuilt :
             Rebuilt[p] = IF p \in DOMAIN diffs THEN Applied(Content(base, p), diffs[p])
                          ELSE base[p]
    BY DEF Rebuilt, Reconstruct
  <2>4. ASSUME NEW p PROVE IsText(Content(base, p)) /\ IsText(Content(new, p))
    BY EmptyIsText DEF TypeOK, IsCodebase, Content
  <2>5. DOMAIN Rebuilt = DOMAIN base \cup DOMAIN new
    BY <2>2, <2>3 DEF Changed, Differs
  <2>6. ASSUME NEW p \in DOMAIN Rebuilt, ~LooseEnd(p)
        PROVE  Rebuilt[p] = Content(new, p)
    <3>1. CASE p \in DOMAIN diffs
      <4> DEFINE from == Content(base, p)
                 to == Content(new, p)
      <4>1. EndOf(from) = EndOf(to) \/ (EndOf(from).nl /\ EndOf(to).nl)
        BY <2>6 DEF LooseEnd
      <4>2. IsText(from) /\ IsText(to)
        BY <2>4
      <4>3. Rebuilt[p] = Applied(from, UnifiedDiff(from, to))
        BY <2>2, <2>3, <3>1
      <4> HIDE DEF from, to
      <4>4. Applied(from, UnifiedDiff(from, to)) = to
        BY <4>1, <4>2, AppliedGives
      <4> QED BY <4>3, <4>4 DEF to
    <3>2. CASE p \notin DOMAIN diffs
      <4>1. p \in DOMAIN base /\ p \in DOMAIN new /\ base[p] = new[p]
        BY <2>2, <2>3, <3>2 DEF Changed, Differs
      <4> QED BY <2>3, <3>2, <4>1 DEF Content
    <3> QED BY <3>1, <3>2
  <2> QED BY <2>5, <2>6
<1> QED BY <1>1, <1>2, DiffStep, CodebaseTyped, PTL DEF Spec
=============================================================================
