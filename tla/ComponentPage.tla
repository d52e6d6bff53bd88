---------------------------- MODULE ComponentPage ----------------------------
(***************************************************************************)
(* The component page of the Streamlit UI (ui_pages/components.py): the    *)
(* wizard that creates a component, the form that edits one, and the rows  *)
(* of custom fields either has.  Every click runs the whole page again,    *)
(* against the components as they then are; in between a session keeps     *)
(* what its session state and its widgets hold.  A run that saves the form *)
(* reads the component first and writes it later.                          *)
(*                                                                         *)
(* Components have different labels here: of two with the same, the form   *)
(* only reaches one (components.py:348).                                   *)
(***************************************************************************)
EXTENDS FiniteSets

CONSTANTS
  Session,    \* sessions of the UI
  Creator,    \* those that create components too
  Component,  \* ids of components
  Key,        \* names of custom fields
  Value,      \* what a custom field may say
  Text,       \* what a description may say
  NoText      \* a blank description

VARIABLES
  components,  \* the components in the graph, a function of their ids
  wizard,      \* wizard_step and create_extra_fields of each creator
  form,        \* the Edit tab of each session
  save         \* whether the run of a session is about to write; history: the
               \* description it had shown before, and if others wrote meanwhile

vars == <<components, wizard, form, save>>

-----------------------------------------------------------------------------
(* Custom fields, of a component or as the rows of a session: a function   *)
(* of the names that are there.                                            *)
Rows   == UNION {[keys -> Value] : keys \in SUBSET Key}
NoRows == [k \in {} |-> NoText]

Description == Text \cup {NoText}
Node == [description : Description, extra : Rows]

(* SET for each of the fields given.                                       *)
Merged(extra, given) ==
  [k \in DOMAIN extra \cup DOMAIN given |->
     IF k \in DOMAIN given THEN given[k] ELSE extra[k]]

With(rows, k, v)    == Merged(rows, [q \in {k} |-> v])
Without(rows, k)    == [q \in DOMAIN rows \ {k} |-> rows[q]]

(* The component a session has selected, the description it was shown and  *)
(* the one it has typed over it, and its rows, kept from one component to  *)
(* the next.                                                               *)
Blank == [comp |-> "none", shown |-> NoText, text |-> NoText, rows |-> NoRows]

NoSave == [on |-> FALSE, seen |-> NoText, overtaken |-> FALSE]

Init ==
  /\ components = [c \in {} |-> NoText]
  /\ wizard = [s \in Creator |-> [step |-> 1, rows |-> NoRows]]
  /\ form = [s \in Session |-> Blank]
  /\ save = [s \in Session |-> NoSave]

-----------------------------------------------------------------------------
(* _render_extra_fields_ui: rows are filled when there are none.           *)
Filled(f, node) ==
  IF f.rows # NoRows THEN f ELSE [f EXCEPT !.rows = node.extra]

(* Mutant: a widget with a key keeps its text whatever it was filled with. *)
RefreshedWithKey(f, node) == [f EXCEPT !.shown = node.description]

(* An input without a key is another one when its default is another.      *)
Refreshed(f, node) ==
  IF f.shown = node.description THEN f
  ELSE [f EXCEPT !.shown = node.description, !.text = node.description]

(* _render_edit: a selection that is gone falls back to one that is there. *)
Rendered(f, nodes) ==
  IF nodes = NoRows THEN {[f EXCEPT !.comp = "none", !.shown = NoText, !.text = NoText]}
  ELSE {Filled(Refreshed([f EXCEPT !.comp = c], nodes[c]), nodes[c]) :
          c \in IF f.comp \in DOMAIN nodes THEN {f.comp} ELSE DOMAIN nodes}

Render(s, f, nodes) == \E g \in Rendered(f, nodes) : form' = [form EXCEPT ![s] = g]

(* A click on a page whose last run has ended.                             *)
Click(s, f, nodes) == ~save[s].on /\ Render(s, f, nodes)

(* The saves of the others that have read c as it was.                     *)
Overtake(s, c) ==
  [t \in Session |-> IF t # s /\ save[t].on /\ form[t].comp = c
                     THEN [save[t] EXCEPT !.overtaken = TRUE] ELSE save[t]]

-----------------------------------------------------------------------------
(* Create tab *)

Wizard(s, step, rows) ==
  /\ wizard' = [wizard EXCEPT ![s] = [step |-> step, rows |-> rows]]
  /\ Click(s, form[s], components)
  /\ UNCHANGED <<components, save>>

Next1(s) == wizard[s].step = 1 /\ Wizard(s, 2, wizard[s].rows)

(* Mutant: going back keeps the rows.                                      *)
BackWithRows(s) == wizard[s].step = 2 /\ Wizard(s, 1, wizard[s].rows)

Back(s) == wizard[s].step = 2 /\ Wizard(s, 1, NoRows)

WizardRow(s, k, v) ==
  wizard[s].step = 2 /\ Wizard(s, 2, With(wizard[s].rows, k, v))

RemoveWizardRow(s, k) ==
  /\ wizard[s].step = 2 /\ k \in DOMAIN wizard[s].rows
  /\ Wizard(s, 2, Without(wizard[s].rows, k))

CreateComponent(s, c, description) ==
  /\ wizard[s].step = 2 /\ c \notin DOMAIN components
  /\ components' = [d \in DOMAIN components \cup {c} |->
       IF d = c THEN [description |-> description, extra |-> wizard[s].rows]
       ELSE components[d]]
  /\ wizard' = [wizard EXCEPT ![s] = [step |-> 1, rows |-> NoRows]]
  /\ Click(s, form[s], components')
  /\ UNCHANGED save

-----------------------------------------------------------------------------
(* Edit tab *)

Input(s, f) == Click(s, f, components) /\ UNCHANGED <<components, wizard, save>>

Select(s, c) == c \in DOMAIN components /\ Input(s, [form[s] EXCEPT !.comp = c])

TypeDescription(s, text) == form[s].comp # "none" /\ Input(s, [form[s] EXCEPT !.text = text])

TypeRow(s, k, v) ==
  form[s].comp # "none" /\ Input(s, [form[s] EXCEPT !.rows = With(@, k, v)])

RemoveRow(s, k) ==
  /\ form[s].comp # "none" /\ k \in DOMAIN form[s].rows
  /\ Input(s, [form[s] EXCEPT !.rows = Without(@, k)])

(* The page is rendered, and the button is found pressed.                  *)
PressUpdate(s) ==
  /\ ~save[s].on
  /\ \E f \in Rendered(form[s], components) :
       f.comp # "none" /\ form' = [form EXCEPT ![s] = f]
  /\ save' = [save EXCEPT ![s] = [on |-> TRUE, seen |-> form[s].shown, overtaken |-> FALSE]]
  /\ UNCHANGED <<components, wizard>>

(* ComponentRepository.update, of a component that is there.               *)
Updated(node, f) == [description |-> f.text, extra |-> Merged(node.extra, f.rows)]

(* What is shown is written, and the page is rendered again with the rows  *)
(* filled anew; but rows are numbered anew as well, and the widgets of a   *)
(* number show what they showed: some fields may be there twice, and       *)
(* others not at all.                                                      *)
WriteComponent(s) ==
  LET f == form[s]
  IN  /\ save[s].on /\ f.comp \in DOMAIN components
      /\ components' = [components EXCEPT ![f.comp] = Updated(@, f)]
      /\ \E keys \in SUBSET DOMAIN components'[f.comp].extra :
           /\ keys = {} => components'[f.comp].extra = NoRows
           /\ Render(s, [f EXCEPT !.rows = [k \in keys |-> components'[f.comp].extra[k]]],
                     components')
      /\ save' = [Overtake(s, f.comp) EXCEPT ![s] = NoSave]
      /\ UNCHANGED wizard

(* The component is gone: an error is shown.                               *)
UpdateFails(s) ==
  /\ save[s].on /\ form[s].comp \notin DOMAIN components
  /\ save' = [save EXCEPT ![s] = NoSave]
  /\ UNCHANGED <<components, wizard, form>>

-----------------------------------------------------------------------------
(* Delete tab, the last of the page *)

DeleteComponent(s, c) ==
  /\ c \in DOMAIN components
  /\ components' = [d \in DOMAIN components \ {c} |-> components[d]]
  /\ Click(s, form[s], components)
  /\ save' = Overtake(s, c)
  /\ UNCHANGED wizard

-----------------------------------------------------------------------------
Create(s) ==
  \/ Next1(s) \/ Back(s)
  \/ \E k \in Key : RemoveWizardRow(s, k) \/ \E v \in Value : WizardRow(s, k, v)
  \/ \E c \in Component, text \in Description : CreateComponent(s, c, text)

Edit(s) ==
  \/ \E c \in Component : Select(s, c) \/ DeleteComponent(s, c)
  \/ \E text \in Description : TypeDescription(s, text)
  \/ \E k \in Key : RemoveRow(s, k) \/ \E v \in Value : TypeRow(s, k, v)
  \/ PressUpdate(s) \/ WriteComponent(s) \/ UpdateFails(s)

Next == (\E s \in Creator : Create(s)) \/ (\E s \in Session : Edit(s))

Spec == Init /\ [][Next]_vars

-----------------------------------------------------------------------------
(* A wizard begins without custom fields: those of a component that was    *)
(* given up never reach the next one (components.py:211-221, 262-291).     *)
WizardStartsClean == \A s \in Creator : wizard[s].step = 1 => wizard[s].rows = NoRows

Kept == DOMAIN components \cap DOMAIN components'

(* A description changes only from what the session that changes it had on *)
(* its page when it pressed the button: what another session wrote before  *)
(* that replaces what was typed, and only what it writes while the form is *)
(* being saved is written over unseen (components.py:354-383,              *)
(* component_repository.py:221-256).                                       *)
DescriptionSeen ==
  [][\A c \in Kept : components'[c].description # components[c].description =>
       \E s \in Session : /\ WriteComponent(s) /\ form[s].comp = c
                          /\ save[s].seen = components[c].description \/ save[s].overtaken]_vars
=============================================================================
