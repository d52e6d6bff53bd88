---------------------------- MODULE ExperimentPage ----------------------------
(***************************************************************************)
(* The experiment page of the Streamlit UI (ui_pages/experiments.py): the  *)
(* Edit tab with the custom fields of an experiment, and the tab for its   *)
(* agentic metadata, which are kept twice, as properties of the node and   *)
(* as one nested document.  Both write the same properties.                *)
(*                                                                         *)
(* The widgets of the page have keys and what is kept beside them is not   *)
(* kept per experiment: when a session selects another experiment it still *)
(* shows, and saves, what it has read and typed for the first.             *)
(***************************************************************************)
EXTENDS FiniteSets

CONSTANTS
  Session,     \* sessions of the UI
  Experiment,  \* the experiments the server has recorded
  Agentic,     \* the fixed names of agentic metadata
  Custom,      \* names of custom fields; the agentic tab takes them too
  Value,       \* what agentic metadata may say
  Text         \* what a custom field or a description may say, the blank apart

(* Properties of a node that are no agentic fields: one declared by class  *)
(* Experiment that the page takes for a custom field, and one that is not. *)
RunType == "run_type"
Notes   == "notes"

Blank == ""

VARIABLES
  nodes,  \* the properties of each experiment
  form,   \* the Edit tab of each session
  draft   \* what each session has typed in the agentic tab

vars == <<nodes, form, draft>>

-----------------------------------------------------------------------------
NoFields == [f \in {} |-> Blank]

Merged(fields, given) ==
  [f \in DOMAIN fields \cup DOMAIN given |->
     IF f \in DOMAIN given THEN given[f] ELSE fields[f]]

With(fields, f, v) == Merged(fields, [g \in {f} |-> v])
Without(fields, f) == [g \in DOMAIN fields \ {f} |-> fields[g]]
Only(fields, names) == [f \in DOMAIN fields \cap names |-> fields[f]]

(* A member of ExperimentType, and the text str() makes of it.             *)
Member == "training"
Named  == "ExperimentType.TRAINING"

(* Not yet shown: nothing is read.                                         *)
Unread == [read |-> FALSE, description |-> Blank, fields |-> NoFields]

Init ==
  /\ nodes = [e \in Experiment |->
       [description |-> Blank, prop |-> [f \in {RunType} |-> Member], nested |-> NoFields]]
  /\ form = [s \in Session |-> Unread]
  /\ draft = [s \in Session |-> NoFields]

(* Class Experiment takes a member's value only; every tab lists all the   *)
(* experiments first, and one that it does not take ends the page.         *)
Readable == \A e \in Experiment : nodes[e].prop[RunType] = Member

-----------------------------------------------------------------------------
(* Edit tab *)

(* _experiment_to_dict and the editor: what is not a core field is read as *)
(* a custom field, and shown as the text of what it is.                    *)
Shown(prop) ==
  [f \in DOMAIN prop \ Agentic |->
     IF f = RunType /\ prop[f] = Member THEN Named ELSE prop[f]]

(* The description is read when its widget is first shown, the custom      *)
(* fields whenever edit_dynamic_fields is not there.                       *)
OpenEdit(s, e) ==
  /\ Readable /\ ~form[s].read
  /\ form' = [form EXCEPT ![s] = [read |-> TRUE, fields |-> Shown(nodes[e].prop),
                                  description |-> nodes[e].description]]
  /\ UNCHANGED <<nodes, draft>>

Type(s, g) ==
  /\ Readable /\ form[s].read
  /\ form' = [form EXCEPT ![s] = g]
  /\ UNCHANGED <<nodes, draft>>

TypeDescription(s, text) == Type(s, [form[s] EXCEPT !.description = text])

TypeField(s, f, v) == Type(s, [form[s] EXCEPT !.fields = With(@, f, v)])

RemoveField(s, f) ==
  f \in DOMAIN form[s].fields /\ Type(s, [form[s] EXCEPT !.fields = Without(@, f)])

(* Reset, with e selected.                                                 *)
ResetEdit(s, e) == Type(s, [form[s] EXCEPT !.fields = Shown(nodes[e].prop)])

(* update_metadata: what is given is set.                                  *)
Updated(prop, fields) == Merged(prop, With(fields, Notes, Blank))

(* Save Metadata, with e selected.  The notes are an argument of the call  *)
(* beside the others, which must not have notes again and must have a      *)
(* description; if not, the call raises a TypeError.  A node that cannot   *)
(* be read back raises when it has been written.                           *)
SaveEdit(s, e) ==
  /\ Readable /\ form[s].read
  /\ form[s].description # Blank /\ Notes \notin DOMAIN form[s].fields
  /\ LET prop == Updated(nodes[e].prop, form[s].fields)
     IN  /\ nodes' = [nodes EXCEPT ![e].prop = prop, ![e].description = form[s].description]
         /\ form' = IF prop[RunType] = Member
                    THEN [form EXCEPT ![s].fields = Shown(prop)] ELSE form
  /\ UNCHANGED draft

-----------------------------------------------------------------------------
(* Agentic tab.  The sections are looked for as properties of the node,    *)
(* where there are none: the tab is empty at first and after each save.    *)

TypeDraft(s, f, v) ==
  /\ Readable
  /\ draft' = [draft EXCEPT ![s] = With(@, f, v)]
  /\ UNCHANGED <<nodes, form>>

ClearDraft(s, f) ==
  /\ Readable /\ f \in DOMAIN draft[s]
  /\ draft' = [draft EXCEPT ![s] = Without(@, f)]
  /\ UNCHANGED <<nodes, form>>

(* Mutant: a property the node has is left to it.                          *)
FlattenedBehind(prop, fields) == Merged(fields, prop)

Flattened(prop, fields) == Merged(prop, fields)

(* One SET: the document is replaced, the properties are merged.           *)
SaveAgentic(s, e) ==
  /\ Readable
  /\ nodes' = [nodes EXCEPT ![e].nested = draft[s],
                            ![e].prop = Flattened(@, draft[s])]
  /\ draft' = [draft EXCEPT ![s] = NoFields]
  /\ UNCHANGED form

(* Ricarica dal DB *)
ReloadAgentic(s) ==
  /\ Readable
  /\ draft' = [draft EXCEPT ![s] = NoFields]
  /\ UNCHANGED <<nodes, form>>

-----------------------------------------------------------------------------
EditTab(s) ==
  \/ \E e \in Experiment : OpenEdit(s, e) \/ ResetEdit(s, e) \/ SaveEdit(s, e)
  \/ \E text \in Text \cup {Blank} : TypeDescription(s, text)
  \/ \E f \in Custom \cup {RunType, Notes} : RemoveField(s, f)
  \/ \E f \in Custom, v \in Text : TypeField(s, f, v)

AgenticTab(s) ==
  \/ \E f \in Agentic \cup Custom : ClearDraft(s, f)
  \/ \E f \in Agentic, v \in Value : TypeDraft(s, f, v)
  \/ \E f \in Custom, v \in Text : TypeDraft(s, f, v)
  \/ \E e \in Experiment : SaveAgentic(s, e)
  \/ ReloadAgentic(s)

Next == \E s \in Session : EditTab(s) \/ AgenticTab(s)

Spec == Init /\ [][Next]_vars

-----------------------------------------------------------------------------
(* "Save as nested dict (primary) + flat fields (backward compat)"         *)
(* (experiments.py:701): what the document says of an agentic field, the   *)
(* property says too, whatever stale forms of the Edit tab are saved over  *)
(* it.  Of a custom field, or the other way round, it does not hold.       *)
NestedWithinFlat ==
  \A e \in Experiment : \A f \in DOMAIN nodes[e].nested \cap Agentic :
    f \in DOMAIN nodes[e].prop /\ nodes[e].prop[f] = nodes[e].nested[f]
=============================================================================
