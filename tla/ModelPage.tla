------------------------------ MODULE ModelPage ------------------------------
(***************************************************************************)
(* The model page of the Streamlit UI (ui_pages/models.py).  A model is    *)
(* selected by its name; its URI is an input that is made again whenever   *)
(* the URI in the graph changes, while its custom fields are read when the *)
(* session first shows the model and kept under the model's id from then   *)
(* on.  An upsert gives the model another id, so that every session reads  *)
(* it again.                                                               *)
(***************************************************************************)
EXTENDS FiniteSets

CONSTANTS
  Session,  \* sessions of the UI
  Model,    \* names of models
  Field,    \* names of custom fields
  Value,    \* what one may say, the blank apart
  Uri,      \* what the URI may be, the blank apart
  Blank     \* an empty text

VARIABLES
  models,    \* the models in the graph, a function of their names
  selected,  \* what each session has selected in the Edit tab
  input,     \* the URI each session was shown, and what it typed over it
  edit       \* edit_state_{id} of each session and model

vars == <<models, selected, input, edit>>

-----------------------------------------------------------------------------
Fields   == UNION {[names -> Value \cup {Blank}] : names \in SUBSET Field}
NoFields == [f \in {} |-> Blank]
Node     == [uri : Uri \cup {Blank}, extra : Fields]

NoModel  == "none"
NoInput  == [shown |-> Blank, text |-> Blank]

(* The fields of an edit state.  For the properties: the fields when it    *)
(* was filled, and those typed or removed since.                           *)
Unread       == [read |-> FALSE]
Read(fields) == [read |-> TRUE, fields |-> fields, seen |-> fields, touched |-> {}]

Init ==
  /\ models = [m \in {} |-> Blank]
  /\ selected = [s \in Session |-> NoModel]
  /\ input = [s \in Session |-> NoInput]
  /\ edit = [s \in Session |-> [m \in Model |-> Unread]]

(* SET of the fields given: those not given stay.                          *)
Merged(extra, given) ==
  [f \in DOMAIN extra \cup DOMAIN given |->
     IF f \in DOMAIN given THEN given[f] ELSE extra[f]]

Put(m, node) ==
  models' = [n \in DOMAIN models \cup {m} |-> IF n = m THEN node ELSE models[n]]

(* The id of model m is gone, and with it what sessions kept under it.     *)
Forget(m) == [s \in Session |-> [edit[s] EXCEPT ![m] = Unread]]

-----------------------------------------------------------------------------
(* Create tab: the form is its session's own until it is submitted *)

CreateModel(m, uri, fields) ==
  /\ m \notin DOMAIN models
  /\ Put(m, [uri |-> uri, extra |-> fields])
  /\ edit' = Forget(m)
  /\ UNCHANGED <<selected, input>>

(* What is blank in the form leaves the node as it is.                     *)
Upserted(node, uri, fields) ==
  LET said == [f \in {g \in DOMAIN fields : fields[g] # Blank} |-> fields[f]]
  IN  [uri |-> IF uri = Blank THEN node.uri ELSE uri, extra |-> Merged(node.extra, said)]

(* ON MATCH, the new id among what is set.                                 *)
UpsertModel(m, uri, fields) ==
  /\ m \in DOMAIN models
  /\ Put(m, Upserted(models[m], uri, fields))
  /\ edit' = Forget(m)
  /\ UNCHANGED <<selected, input>>

-----------------------------------------------------------------------------
(* Edit tab *)

Rendered(i, uri) == IF i.shown = uri THEN i ELSE [shown |-> uri, text |-> uri]

(* A run of the page with m selected; nothing is selected that is gone.    *)
Show(s, m, i) ==
  /\ IF m \in DOMAIN models
     THEN /\ selected' = [selected EXCEPT ![s] = m]
          /\ input' = [input EXCEPT ![s] = Rendered(i, models[m].uri)]
          /\ edit' = IF edit[s][m].read THEN edit
                     ELSE [edit EXCEPT ![s][m] = Read(models[m].extra)]
     ELSE /\ selected' = [selected EXCEPT ![s] = NoModel]
          /\ input' = [input EXCEPT ![s] = NoInput]
          /\ UNCHANGED edit
  /\ UNCHANGED models

Select(s, m) == Show(s, m, input[s])

TypeUri(s, uri) == selected[s] # NoModel /\ Show(s, selected[s], [input[s] EXCEPT !.text = uri])

Editing(s) == selected[s] \in DOMAIN models /\ edit[s][selected[s]].read

Type(s, f, fields) ==
  /\ edit' = [edit EXCEPT ![s][selected[s]].fields = fields,
                          ![s][selected[s]].touched = @ \cup {f}]
  /\ input' = [input EXCEPT ![s] = Rendered(@, models[selected[s]].uri)]
  /\ UNCHANGED <<models, selected>>

TypeField(s, f, value) ==
  Editing(s) /\ Type(s, f, Merged(edit[s][selected[s]].fields, [g \in {f} |-> value]))

RemoveField(s, f) ==
  /\ Editing(s) /\ f \in DOMAIN edit[s][selected[s]].fields
  /\ LET fields == edit[s][selected[s]].fields
     IN  Type(s, f, [g \in DOMAIN fields \ {f} |-> fields[g]])

(* Mutant: the edit state is left as it is.                                *)
EditStateLeft(e) == [e EXCEPT !.touched = {}, !.seen = NoFields]

EditStateSaved(e) == Read(NoFields)

(* Update Model: what is shown is written, the edit state set to {} (it is *)
(* there, so it is not read again), and the page is run again.             *)
UpdateModel(s) ==
  LET m == selected[s]
      i == Rendered(input[s], models[m].uri)
  IN  /\ Editing(s)
      /\ Put(m, [uri |-> i.text, extra |-> Merged(models[m].extra, edit[s][m].fields)])
      /\ edit' = [edit EXCEPT ![s][m] = EditStateSaved(@)]
      /\ input' = [input EXCEPT ![s] = Rendered(i, i.text)]
      /\ UNCHANGED selected

-----------------------------------------------------------------------------
DeleteModel(m) ==
  /\ m \in DOMAIN models
  /\ models' = [n \in DOMAIN models \ {m} |-> models[n]]
  /\ edit' = Forget(m)
  /\ UNCHANGED <<selected, input>>

Create ==
  \E m \in Model, uri \in Uri \cup {Blank}, fields \in Fields :
    CreateModel(m, uri, fields) \/ UpsertModel(m, uri, fields)

Edit(s) ==
  \/ \E m \in Model : Select(s, m)
  \/ \E uri \in Uri \cup {Blank} : TypeUri(s, uri)
  \/ \E f \in Field :
       RemoveField(s, f) \/ \E value \in Value \cup {Blank} : TypeField(s, f, value)
  \/ UpdateModel(s)

Next == Create \/ (\E s \in Session : Edit(s)) \/ (\E m \in Model : DeleteModel(m))

Spec == Init /\ [][Next]_vars

-----------------------------------------------------------------------------
(* A save changes a custom field only if it was typed since the fields     *)
(* were read, or takes it back to what it then was; and the session that   *)
(* has saved once changes only what it types, for as long as it lasts      *)
(* (models.py:315-318, 353, 376, model_repository.py:201-222).             *)
SavesWhatWasRead ==
  [][\A s \in Session : UpdateModel(s) =>
       LET m == selected[s]
           e == edit[s][m]
       IN  \A f \in DOMAIN models'[m].extra :
             \/ f \in e.touched
             \/ f \in DOMAIN models[m].extra /\ models'[m].extra[f] = models[m].extra[f]
             \/ f \in DOMAIN e.seen /\ models'[m].extra[f] = e.seen[f]]_vars
=============================================================================
