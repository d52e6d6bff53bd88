---------------------------- MODULE CodebaseDiff ----------------------------
(***************************************************************************)
(* A project directory, what the client captures of it (utils/snapshot.py  *)
(* and its copy diff_util/snapshot.py), and what the server keeps of it:   *)
(* the whole codebase for a base, a diff per changed file for a run        *)
(* derived from the base (diff_util, state_provider.py).  Between runs the *)
(* user edits files; a run that is recorded rewrites experiment.yml.       *)
(*                                                                         *)
(* A text is its lines, of which the last may lack its newline; no other   *)
(* character that str.splitlines takes for a line break ends a line.       *)
(***************************************************************************)
EXTENDS Integers, Sequences, FiniteSets

CONSTANTS
  Path,      \* the files a project may have
  Place,     \* where each lies: its top directory, dot parts, extension
  Identity,  \* .lineage/experiment.yml
  Server,    \* .lineage/server.yml
  Line,      \* what a line of a file may say
  TextsOf,   \* bound: the texts a file is given
  MaxRuns    \* bound: runs recorded

IsText(text) ==
  /\ text \in Seq([line : Line, nl : BOOLEAN])
  /\ \A i \in DOMAIN text : text[i].nl \/ i = Len(text)

ASSUME CodebaseAssumption ==
  /\ Place \in [Path -> [top : {"root", "modules", ".lineage", "other"},
                         dot : BOOLEAN, ext : {".py", ".txt", ".yml", "other"}]]
  /\ {Identity, Server} \subseteq Path
  /\ Place[Identity].top = ".lineage" /\ Place[Server].top = ".lineage"
  /\ \A p \in Path : \A text \in TextsOf[p] : IsText(text)
  /\ MaxRuns \in Nat

VARIABLES
  disk,    \* the files of the project, a function of their paths
  base,    \* the codebase stored with the base; NoBase before the first run
  derived, \* the last run derived from it
  runs     \* runs recorded so far

vars == <<disk, base, derived, runs>>

-----------------------------------------------------------------------------
(* Files and texts *)

Empty == <<>>

(* Stands for whatever patch prints when it rejects a patch.               *)
Mangled == <<[line |-> "rejected", nl |-> TRUE]>>

(* A file on disk: as the editor left it, with CRLF line ends, a link to   *)
(* another file of the project, or of more than MAX_FILE_SIZE bytes.       *)
FileKind == {"plain", "crlf", "link", "big"}

NoBase == [p \in {} |-> Empty]

-----------------------------------------------------------------------------
(* capture_codebase *)

(* The three scans: the root, modules/ and .lineage/.                      *)
Tracked(p) ==
  CASE Place[p].top = "root"     -> ~Place[p].dot /\ Place[p].ext \in {".py", ".txt", ".yml"}
    [] Place[p].top = "modules"  -> ~Place[p].dot /\ Place[p].ext \in {".py", ".yml"}
    [] Place[p].top = ".lineage" -> TRUE
    [] OTHER                     -> FALSE

(* _read_file_safe: a link reads as empty, CRLF as LF.                     *)
AsRead(file) == IF file.kind = "link" THEN Empty ELSE file.text

TooLarge == \E p \in DOMAIN disk : Tracked(p) /\ disk[p].kind = "big"

Captured == [p \in {q \in DOMAIN disk : Tracked(q)} |-> AsRead(disk[p])]

-----------------------------------------------------------------------------
(* diff_util and StateProvider *)

(* A file a codebase does not have is compared as one with another hash... *)
Differs(old, new, p) ==
  \/ (p \in DOMAIN old) # (p \in DOMAIN new)
  \/ p \in DOMAIN old /\ old[p] # new[p]

(* ... and diffed as an empty one.                                         *)
Content(codebase, p) == IF p \in DOMAIN codebase THEN codebase[p] ELSE Empty

(* detect_changes *)
Changed(old, new) == {p \in DOMAIN old \cup DOMAIN new : Differs(old, new, p)}

Tagged(tag, text) == [i \in DOMAIN text |-> [tag |-> tag, at |-> text[i]]]

(* Of the numbers from 1 to max, how many there are up to the first that   *)
(* is not in the set.                                                      *)
Upto(max, set) ==
  CHOOSE n \in 0..max : 1..n \subseteq set /\ (n = max \/ n + 1 \notin set)

(* compute_unified_diff: the lines in common at both ends, and between     *)
(* them those removed and those added.  (difflib may find more in common;  *)
(* the last line it finds in common in either case.)                       *)
UnifiedDiff(from, to) ==
  LET a    == Len(from)
      b    == Len(to)
      both == IF a < b THEN a ELSE b
      head == Upto(both, {i \in 1..both : from[i] = to[i]})
      tail == Upto(both - head, {i \in 1..both : from[a - i + 1] = to[b - i + 1]})
  IN  IF from = to THEN <<>>
      ELSE Tagged(" ", SubSeq(from, 1, head)) \o Tagged("-", SubSeq(from, head + 1, a - tail))
             \o Tagged("+", SubSeq(to, head + 1, b - tail))
             \o Tagged(" ", SubSeq(from, a - tail + 1, a))

(* compute_snapshot_diff *)
SnapshotDiff(old, new) ==
  [p \in Changed(old, new) |-> UnifiedDiff(Content(old, p), Content(new, p))]

(* The text a diff leads from, or to: its lines of these tags.             *)
Side(diff, tags) ==
  LET upto[i \in 0..Len(diff)] ==
        IF i = 0 THEN Empty
        ELSE IF diff[i].tag \in tags THEN Append(upto[i - 1], diff[i].at) ELSE upto[i - 1]
  IN  upto[Len(diff)]

(* The lines of a diff are joined as they are: one without a newline runs  *)
(* into the next and the counts of the hunk are wrong, and at the end of   *)
(* the diff patch takes it for a context line only.                        *)
Readable(diff) ==
  \A i \in DOMAIN diff : diff[i].at.nl \/ (i = Len(diff) /\ diff[i].tag = " ")

(* Mutant: patch is run with the sides swapped.                            *)
AppliedBackwards(original, diff) ==
  IF diff = <<>> THEN original
  ELSE IF Readable(diff) /\ original = Side(diff, {" ", "+"}) THEN Side(diff, {" ", "-"})
  ELSE Mangled

(* apply_unified_diff: the standard output of patch, whatever its status.  *)
Applied(original, diff) ==
  IF diff = <<>> THEN original
  ELSE IF Readable(diff) /\ original = Side(diff, {" ", "-"}) THEN Side(diff, {" ", "+"})
  ELSE IF Side(diff, {" ", "+"}) = Empty THEN Empty
  ELSE Mangled

(* reconstruct_codebase of a base and one diff.                            *)
Reconstruct(codebase, diffs) ==
  [p \in DOMAIN codebase \cup DOMAIN diffs |->
     IF p \in DOMAIN diffs THEN Applied(Content(codebase, p), diffs[p]) ELSE codebase[p]]

(* ignore_patterns: the files of .lineage that no comparison looks at.     *)
Ignored == {Identity, Server}

(* Mutant: only the files the base has are compared.                       *)
IdenticalOld(old, new) ==
  \A p \in DOMAIN old \ Ignored : p \in DOMAIN new /\ old[p] = new[p]

(* StateProvider.compare *)
Identical(old, new) == Changed(old, new) \subseteq Ignored

-----------------------------------------------------------------------------
NoRun == [strategy |-> "none", codebase |-> NoBase, diffs |-> <<>>]

Init ==
  /\ disk \in [Path -> [text : {Empty}, kind : {"plain"}]]
  /\ base = NoBase /\ derived = NoRun /\ runs = 0

-----------------------------------------------------------------------------
(* The user, while runs are still to come *)

Edit(p, text, kind) ==
  /\ runs < MaxRuns /\ p # Identity
  /\ disk' = [q \in DOMAIN disk \cup {p} |->
               IF q = p THEN [text |-> text, kind |-> kind] ELSE disk[q]]
  /\ UNCHANGED <<base, derived, runs>>

Unlink(p) ==
  /\ runs < MaxRuns /\ p \in DOMAIN disk \ {Identity}
  /\ disk' = [q \in DOMAIN disk \ {p} |-> disk[q]]
  /\ UNCHANGED <<base, derived, runs>>

-----------------------------------------------------------------------------
(* Runs: the client captures, the server compares and stores, the client   *)
(* writes the identity it is given.  FileTooLargeError ends a run at once. *)

Recorded ==
  /\ runs < MaxRuns /\ ~TooLarge
  /\ runs' = runs + 1
  /\ \E line \in Line :
       disk' = [disk EXCEPT ![Identity].text = <<[line |-> line, nl |-> TRUE]>>]

RunBase ==
  /\ base = NoBase
  /\ Recorded
  /\ base' = Captured
  /\ UNCHANGED derived

(* A run derived from the base: RETRY or BRANCH, either with the diff.     *)
RunDerived ==
  /\ base # NoBase
  /\ Recorded
  /\ derived' = [strategy |-> IF Identical(base, Captured) THEN "RETRY" ELSE "BRANCH",
                 codebase |-> Captured, diffs |-> SnapshotDiff(base, Captured)]
  /\ UNCHANGED base

Next ==
  \/ \E p \in Path : \E text \in TextsOf[p], kind \in FileKind : Edit(p, text, kind)
  \/ \E p \in Path : Unlink(p)
  \/ RunBase
  \/ RunDerived

Spec == Init /\ [][Next]_vars

-----------------------------------------------------------------------------
(* Type invariant: what is on disk, and what is stored of the tracked      *)
(* files, are texts; the identity is never lost.                           *)
IsCodebase(codebase) ==
  \A p \in DOMAIN codebase : p \in Path /\ Tracked(p) /\ IsText(codebase[p])

TypeOK ==
  /\ Identity \in DOMAIN disk /\ DOMAIN disk \subseteq Path
  /\ \A p \in DOMAIN disk :
       /\ DOMAIN disk[p] = {"text", "kind"}
       /\ disk[p].kind \in FileKind /\ IsText(disk[p].text)
  /\ IsCodebase(base) /\ IsCodebase(derived.codebase)
  /\ derived.strategy \in {"none", "RETRY", "BRANCH"}
  /\ derived.strategy # "none" => base # NoBase
  /\ runs \in 0..MaxRuns

Rebuilt == Reconstruct(base, derived.diffs)

EndOf(text) == IF text = Empty THEN [line |-> "", nl |-> TRUE] ELSE text[Len(text)]

(* The last line of the file lacks its newline, in the base or in the run, *)
(* and it is not the last line of both.                                    *)
LooseEnd(p) ==
  LET old == EndOf(Content(base, p))
      new == EndOf(Content(derived.codebase, p))
  IN  old # new /\ ~(old.nl /\ new.nl)

(* Rebuilding a run from the base and its diffs gives every file it was    *)
(* recorded with, those it no longer had as empty ones, and gives a file   *)
(* wrong only where a last line without a newline was added, removed or    *)
(* changed (differ.py:16-61, reconstructor.py:13-113).                     *)
RebuiltButLooseEnds ==
  derived.strategy # "none" =>
    /\ DOMAIN Rebuilt = DOMAIN base \cup DOMAIN derived.codebase
    /\ \A p \in DOMAIN Rebuilt :
         Rebuilt[p] = Content(derived.codebase, p) \/ LooseEnd(p)

(* A run is a RETRY exactly when every file that is captured, but the      *)
(* identity and the address of the server, reads as it did for the base:   *)
(* no change of a line end, of a file that is not tracked or of those two  *)
(* makes it a BRANCH, no addition or removal of an empty file goes         *)
(* unnoticed (state_provider.py:26-58).                                    *)
RetryIffSame ==
  derived.strategy # "none" =>
    (derived.strategy = "RETRY" <=>
       LET seen(codebase) ==
             {<<p, codebase[p]>> : p \in DOMAIN codebase \ {Identity, Server}}
       IN  seen(base) = seen(derived.codebase))
=============================================================================
