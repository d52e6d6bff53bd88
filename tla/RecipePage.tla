------------------------------ MODULE RecipePage ------------------------------
(***************************************************************************)
(* The recipe page of the Streamlit UI (ui_pages/recipes.py) and what its  *)
(* forms do to the fields of a recipe.  Names and uses are the matter of   *)
(* module Catalogue.  A click is one run of the script from top to bottom; *)
(* the save of a form reads the recipe early in its run and writes it at   *)
(* the end.  What a session has typed, and the flags its clicks have set,  *)
(* wait in its session state, while other sessions write the same recipe.  *)
(***************************************************************************)
EXTENDS Naturals, Sequences, FiniteSets

CONSTANTS
  Session,     \* sessions of the UI
  Editor,      \* those of them that open forms
  Recipe,      \* ids of recipes
  Field,       \* fields of a recipe that hold one text, custom ones too
  Own,         \* those of them that are custom
  Text,        \* what a field, or a custom field of an entry, may say
  ScopeEnum,   \* what the box of scopes offers
  Task,        \* tasks a recipe may name
  TaskEnum,    \* those that the box of tasks offers
  NoText,      \* an absent or blank field
  Uri,         \* where an entry's data lie
  MaxEntries   \* bound: entries of a recipe

(* The tasks and the entries of a recipe, among the parts typed into.      *)
Tasks == "tasks"
Whole == "entries"

VARIABLES
  recipes,    \* the recipes in the graph, a function of their ids
  confirmed,  \* sessions with overwrite_recipe_confirmed set
  edit,       \* edit_recipe_{id} and edit_state_{id} of each editor
  saving      \* of each editor, the run in which its form is being saved

vars == <<recipes, confirmed, edit, saving>>

-----------------------------------------------------------------------------
MaybeText == Text \cup {NoText}

(* RecipeEntry: its declared fields, here the uri, and a custom one.       *)
Entry    == [uri : Uri, note : MaybeText]
Entries  == UNION {[1..n -> Entry] : n \in 0..MaxEntries}
Content  == [field : [Field -> MaybeText], tasks : SUBSET Task, entries : Entries]

(* The edit state of a recipe, and beside it, for the properties, what the *)
(* recipe was when Edit was clicked and which parts were typed into since. *)
Closed == [open |-> FALSE]
NoRun  == [on |-> FALSE]

Init ==
  /\ recipes = [r \in {} |-> NoText]
  /\ confirmed = {}
  /\ edit = [s \in Editor |-> [r \in Recipe |-> Closed]]
  /\ saving = [s \in Editor |-> NoRun]

(* SET +=: what is given replaces, what is absent stays; the tasks and the *)
(* entries are one property each and are replaced as a whole, the tasks of *)
(* a file that names none by none.                                         *)
Merged(node, given) ==
  [field |-> [f \in Field |-> IF given.field[f] = NoText THEN node.field[f]
                              ELSE given.field[f]],
   tasks |-> given.tasks,
   entries |-> given.entries]

Exists(r) == r \in DOMAIN recipes

(* A session has one run at a time.                                        *)
Idle(s) == s \in Editor => ~saving[s].on

Put(r, content) ==
  recipes' = [q \in DOMAIN recipes \cup {r} |-> IF q = r THEN content ELSE recipes[q]]

-----------------------------------------------------------------------------
(* Upload tab *)

(* A file is validated, read and flattened; its recipe may be one key down. *)
Yaml == {c \in Content : c.entries # <<>>}

ConfirmOverwrite(s, r) ==
  /\ Exists(r)
  /\ confirmed' = confirmed \cup {s}
  /\ UNCHANGED <<recipes, edit, saving>>

(* The flag says that something was confirmed; it goes with the next save, *)
(* whatever file that saves.                                               *)
SaveUpload(s, r, file) ==
  /\ ~Exists(r) \/ s \in confirmed
  /\ Put(r, IF Exists(r) THEN Merged(recipes[r], file) ELSE file)
  /\ confirmed' = confirmed \ {s}
  /\ UNCHANGED <<edit, saving>>

-----------------------------------------------------------------------------
(* Create tab: a draft is its session's own until it is submitted *)

(* A scope and tasks are picked from what their boxes offer.               *)
Offered(f) == IF f = "scope" THEN ScopeEnum ELSE Text

Fields == {field \in [Field -> MaybeText] :
             \A f \in Field : field[f] \in Offered(f) \cup {NoText}}

Drafts == [field : Fields, tasks : SUBSET TaskEnum, entries : Entries \ {<<>>}]

CreateRecipe(r, draft) ==
  /\ ~Exists(r)
  /\ Put(r, draft)
  /\ UNCHANGED <<confirmed, edit, saving>>

-----------------------------------------------------------------------------
(* Browse tab: the form of a recipe *)

(* RecipeEntry.custom_fields looks for the extra fields where pydantic     *)
(* does not keep them, and finds none.                                     *)
CustomFields(entry) == NoText

(* Mutant: the form is filled without the entries.                         *)
FilledWithoutEntries(node) == [node EXCEPT !.tasks = @ \cap TaskEnum, !.entries = <<>>]

(* A scope or a task that its box does not offer is not in the form.       *)
Filled(node) ==
  [field |-> [f \in Field |-> IF node.field[f] \in Offered(f) THEN node.field[f]
                              ELSE NoText],
   tasks |-> node.tasks \cap TaskEnum,
   entries |-> [i \in DOMAIN node.entries |->
     [node.entries[i] EXCEPT !.note = CustomFields(node.entries[i])]]]

OpenEdit(s, r) ==
  /\ Exists(r) /\ ~edit[s][r].open
  /\ edit' = [edit EXCEPT ![s][r] =
       [open |-> TRUE, state |-> Filled(recipes[r]), seen |-> recipes[r], typed |-> {}]]
  /\ UNCHANGED <<recipes, confirmed, saving>>

Editing(s, r) == Exists(r) /\ edit[s][r].open

Typed(s, r, part, state) ==
  /\ Editing(s, r)
  /\ edit' = [edit EXCEPT ![s][r].state = state, ![s][r].typed = @ \cup {part}]
  /\ UNCHANGED <<recipes, confirmed, saving>>

(* Base fields and custom fields; a custom field may be removed again.     *)
TypeField(s, r, f, text) ==
  Typed(s, r, f, [edit[s][r].state EXCEPT !.field[f] = text])

PickTasks(s, r, tasks) ==
  Typed(s, r, Tasks, [edit[s][r].state EXCEPT !.tasks = tasks])

(* Entries are added, typed into and deleted.                              *)
TypeEntries(s, r, entries) ==
  Typed(s, r, Whole, [edit[s][r].state EXCEPT !.entries = entries])

(* "Save All Changes": the run has read the recipe before it meets the     *)
(* button; of what it read, the custom fields go into the copy it writes.  *)
PressSave(s, r) ==
  /\ Editing(s, r)
  /\ saving' = [saving EXCEPT ![s] =
       [on |-> TRUE, recipe |-> r, own |-> [f \in Own |-> recipes[r].field[f]]]]
  /\ UNCHANGED <<recipes, confirmed, edit>>

(* model_copy: a custom field that the form has not, or has no more, is    *)
(* that of the recipe read.  No tasks in the form are none given.          *)
Copied(node, own, form) ==
  [field |-> [f \in Field |-> IF f \in Own /\ form.field[f] = NoText THEN own[f]
                              ELSE form.field[f]],
   tasks |-> IF form.tasks = {} THEN node.tasks ELSE form.tasks,
   entries |-> form.entries]

WriteEdit(s) ==
  LET r == saving[s].recipe
  IN  /\ saving[s].on /\ Exists(r)
      /\ Put(r, Merged(recipes[r], Copied(recipes[r], saving[s].own, edit[s][r].state)))
      /\ edit' = [edit EXCEPT ![s][r] = Closed]
      /\ saving' = [saving EXCEPT ![s] = NoRun]
      /\ UNCHANGED confirmed

(* The recipe is gone, its new name is taken, or an entry does not         *)
(* validate: an error is shown, and the form stays.                        *)
SaveFails(s) ==
  /\ saving[s].on
  /\ saving' = [saving EXCEPT ![s] = NoRun]
  /\ UNCHANGED <<recipes, confirmed, edit>>

CancelEdit(s, r) ==
  /\ Editing(s, r)
  /\ edit' = [edit EXCEPT ![s][r] = Closed]
  /\ UNCHANGED <<recipes, confirmed, saving>>

(* Delete, "Yes, delete": the edit states of the recipe stay, and wait for *)
(* an upload that brings its id back.                                      *)
DeleteRecipe(r) ==
  /\ Exists(r)
  /\ recipes' = [q \in DOMAIN recipes \ {r} |-> recipes[q]]
  /\ UNCHANGED <<confirmed, edit, saving>>

-----------------------------------------------------------------------------
Upload(s) ==
  /\ Idle(s)
  /\ \E r \in Recipe : ConfirmOverwrite(s, r) \/ \E file \in Yaml : SaveUpload(s, r, file)

Edit(s) ==
  /\ Idle(s)
  /\ \E r \in Recipe :
       \/ OpenEdit(s, r) \/ PressSave(s, r) \/ CancelEdit(s, r)
       \/ \E f \in Field : \E text \in Offered(f) \cup {NoText} : TypeField(s, r, f, text)
       \/ \E tasks \in SUBSET TaskEnum : PickTasks(s, r, tasks)
       \/ \E entries \in Entries : TypeEntries(s, r, entries)

Next ==
  \/ \E s \in Session : Upload(s)
  \/ \E s \in Editor : Edit(s) \/ WriteEdit(s) \/ SaveFails(s)
  \/ \E r \in Recipe : DeleteRecipe(r) \/ \E draft \in Drafts : CreateRecipe(r, draft)

Spec == Init /\ [][Next]_vars

-----------------------------------------------------------------------------
Uris(entries) == [i \in DOMAIN entries |-> entries[i].uri]

(* Of a recipe before and after a save, each part but those typed into is  *)
(* as before, as at the click on Edit, or, for a custom field that the     *)
(* recipe had not then, as the saving run read it.                         *)
SavedOnlyForm(before, after, form, own) ==
  /\ \A f \in Field \ form.typed :
       \/ after.field[f] = before.field[f]
       \/ form.seen.field[f] \in Text /\ after.field[f] = form.seen.field[f]
       \/ f \in Own /\ form.seen.field[f] = NoText /\ after.field[f] = own[f]
  /\ Tasks \notin form.typed =>
       after.tasks \in {before.tasks, form.seen.tasks \cap TaskEnum}
  /\ Whole \notin form.typed => Uris(after.entries) = Uris(form.seen.entries)

(* A save through the form of a recipe changes of it only what was typed   *)
(* since Edit was clicked, and what another session has changed since: a   *)
(* field it takes back to what it was at the click, or, if the form had    *)
(* none of it, to what the saving run read; the tasks to those of the      *)
(* click that the form offers; the data of the entries to those of the     *)
(* click; and nothing to anything older (recipes.py:571-654, 868-928,      *)
(* recipe_repository.py:259-298).                                          *)
SavesOwnForm ==
  [][\A s \in Editor : WriteEdit(s) =>
       LET r == saving[s].recipe
       IN  SavedOnlyForm(recipes[r], recipes'[r], edit[s][r], saving[s].own)]_vars
=============================================================================
