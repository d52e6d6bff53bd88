------------------------------- MODULE SetupPage -------------------------------
(***************************************************************************)
(* The setup page of the Streamlit UI (ui_pages/setups.py): a wizard that  *)
(* asks for a type of experiment, a form per type over what the catalogue  *)
(* lists, and the scaffold it generates.                                   *)
(*                                                                         *)
(* Every interaction runs the script again, which lists the catalogue anew *)
(* while other sessions edit it.  The select boxes have no key: Streamlit  *)
(* tells them by their options, and one whose options changed starts over. *)
(***************************************************************************)
EXTENDS Naturals, FiniteSets, SequencesExt, TLC

CONSTANTS
  Session,       \* sessions of the UI
  ModelRow,      \* models that may be listed: a name, and a uri that is not blank
  ComponentRow,  \* the same of components
  RecipeRow,     \* recipes that may be listed: a name, and what fields hold
  Disk,          \* the template directories, a function of where they are
  MaxListed      \* bounds: rows of each listing

ExperimentType == {"training", "evaluation", "inference", "merging"}

NoName == ""

VARIABLES
  listing,   \* the models, components and recipes in the graph, newest first
  page       \* the wizard, the widgets and the last scaffold of each session

vars == <<listing, page>>

-----------------------------------------------------------------------------
(* Trees: dictionaries of dictionaries, as functions of the paths in them. *)
(* An inner path, or one that leads to an empty dictionary, has Dict.      *)

Dict == "{}"

Tree(leaf) ==
  LET paths == UNION {{SubSeq(p, 1, n) : n \in 1..Len(p)} : p \in DOMAIN leaf}
  IN  [p \in paths |-> IF p \in DOMAIN leaf THEN leaf[p] ELSE Dict]

Pruned(tree, path) == [p \in {p \in DOMAIN tree : ~IsPrefix(path, p)} |-> tree[p]]

Subtree(tree, path) == [p \in {p \in DOMAIN tree : IsPrefix(path, p)} |-> tree[p]]

(* What is in both is taken from "over", unless both are dictionaries.     *)
DeepMerge(base, over) ==
  LET stays(p) == \A q \in DOMAIN over : IsPrefix(q, p) => base[q] = Dict /\ over[q] = Dict
  IN  over @@ [p \in {p \in DOMAIN base : stays(p)} |-> base[p]]

-----------------------------------------------------------------------------
(* config.yml.  A value the form takes from its own text inputs is         *)
(* "typed", one the code writes down is "default".                         *)

NoRecipe == <<>>

RecipeTree(recipe) ==
  Tree((<<"recipe">> :> Dict) @@
       [p \in {<<"recipe", f>> : f \in DOMAIN recipe} |-> recipe[p[2]]])

(* A name, a name with its count, a list; or a set, which is a dictionary. *)
GpuText == {"", "A100", "{V100:1}"}

Accelerators == <<"hardware", "accelerators">>

Hardware(gpu) ==
  CASE gpu = ""         -> (<<"hardware">> :> Dict)
    [] gpu = "A100"     -> (Accelerators :> gpu)
    [] gpu = "{V100:1}" -> (Append(Accelerators, "V100") :> "typed")

MergeMethod == {"linear", "slerp", "ties", "dare", "task_arithmetic"}

NoMerging == [enabled |-> FALSE]
Merging == {NoMerging} \cup [enabled : {TRUE}, method : MergeMethod]

MergingLeaves(merging) ==
  IF merging.enabled
  THEN (<<"model_merging", "merge_method">> :> merging.method) @@
       (<<"model_merging", "sources">> :> "typed")
  ELSE <<>>

ModelUri  == <<"model", "model_uri">>
ModelId   == <<"model", "model_id">>
SaveSteps == <<"model", "training", "save_steps">>
Epochs    == <<"model", "training", "num_train_epochs">>
OutputDir == <<"output", "output_dir">>

Generated(model, recipe, gpu, merging) ==
  Tree((ModelUri :> model.uri) @@ (ModelId :> model.name) @@
       (SaveSteps :> "default") @@ (Epochs :> "typed") @@ (OutputDir :> "typed") @@
       Hardware(gpu) @@ MergingLeaves(merging)) @@ RecipeTree(recipe)

(* Mutant: what the merge made of the recipe is left.                      *)
EnforcedButRecipe(config, model, recipe) ==
  (ModelUri :> model.uri) @@ (ModelId :> model.name) @@ (OutputDir :> "typed") @@ config

(* After the merge the choices are written again, the recipe as a whole.   *)
Enforced(config, model, recipe) ==
  (ModelUri :> model.uri) @@ (ModelId :> model.name) @@ (OutputDir :> "typed") @@
  RecipeTree(recipe) @@ Pruned(config, <<"recipe">>)

(* A template without a readable config.yml has an empty tree for it.      *)
ConfigYml(model, recipe, gpu, merging, template) ==
  LET base == IF recipe = NoRecipe THEN Pruned(template, <<"recipe">>) ELSE template
  IN  Enforced(DeepMerge(base, Generated(model, recipe, gpu, merging)), model, recipe)

-----------------------------------------------------------------------------
(* The archive: entries in the order they are written, of which the last   *)
(* of a name is the one that is unpacked.                                  *)

NoTemplate == [files |-> {}, config |-> <<>>]

(* An absolute path that exists, or the name of a template of this type.   *)
TemplateDir(type, uri) ==
  IF <<"/", uri>> \in DOMAIN Disk THEN Disk[<<"/", uri>>]
  ELSE IF <<type, uri>> \in DOMAIN Disk THEN Disk[<<type, uri>>] ELSE NoTemplate

BaseFiles == {"modules"}
Manifests == {"config.yml", ".lineage/experiment.yml", ".lineage/server.yml", "setup.json"}

Archive(template) ==
  <<[of |-> "template", names |-> template.files \ {"config.yml"}],
    [of |-> "base", names |-> BaseFiles],
    [of |-> "page", names |-> Manifests]>>

Unpacked(archive) ==
  [f \in UNION {archive[i].names : i \in DOMAIN archive} |->
     archive[CHOOSE i \in DOMAIN archive : f \in archive[i].names /\
           \A j \in DOMAIN archive : f \in archive[j].names => j <= i].of]

-----------------------------------------------------------------------------
(* Widgets *)

Names(rows) == [i \in DOMAIN rows |-> rows[i].name]

RowNamed(rows, name) ==
  rows[CHOOSE i \in DOMAIN rows :
         rows[i].name = name /\ \A j \in DOMAIN rows : rows[j].name = name => i <= j]

(* component_map: of equal names the last one, which is the oldest.        *)
LastNamed(rows, name) ==
  rows[CHOOSE i \in DOMAIN rows :
         rows[i].name = name /\ \A j \in DOMAIN rows : rows[j].name = name => j <= i]

NoBox == [options |-> <<>>, choice |-> NoName]

(* Mutant: a box keeps the place of its choice, whatever is there now.     *)
BoxByPlace(box, options) ==
  LET places == {i \in DOMAIN options : i \in DOMAIN box.options /\ box.options[i] = box.choice}
  IN  [options |-> options,
       choice |-> IF options = <<>> THEN NoName
                  ELSE options[IF places = {} THEN 1 ELSE CHOOSE i \in places : TRUE]]

Box(box, options) ==
  IF options = box.options THEN box
  ELSE [options |-> options, choice |-> IF options = <<>> THEN NoName ELSE options[1]]

(* Recipes have a first option that stands for none.                       *)
RecipeOptions == <<NoName>> \o Names(listing.recipes)

NoModel == [name |-> NoName, uri |-> NoName]
NoForm  == [type |-> NoName]
NoScaffold == [made |-> FALSE]

Fresh(type) ==
  [type |-> type, component |-> NoBox, model |-> NoBox, recipe |-> NoBox,
   manual |-> FALSE, typed |-> NoModel, picked |-> NoName]

(* "picked" is for the properties: the option of the box of models that    *)
(* was last chosen by hand.                                                *)
(* The form as the script draws it over what is listed now.  The box of    *)
(* models and the text inputs take each other's place, and forget.         *)
Drawn(form) ==
  LET typing == form.manual \/ listing.models = <<>>
  IN  [form EXCEPT !.component = Box(@, Names(listing.components)),
                   !.model = IF typing THEN NoBox ELSE Box(@, Names(listing.models)),
                   !.typed = IF typing THEN @ ELSE NoModel,
                   !.recipe = IF form.type = "merging" THEN NoBox ELSE Box(@, RecipeOptions)]

ChosenModel(form) ==
  IF form.model = NoBox THEN form.typed ELSE RowNamed(listing.models, form.model.choice)

Idle == [form |-> NoForm, asked |-> NoForm, scaffold |-> NoScaffold]

Shows(s, form) == page' = [page EXCEPT ![s] = [Idle EXCEPT !.form = form]]

Init ==
  /\ listing = [models |-> <<>>, components |-> <<>>, recipes |-> <<>>]
  /\ page = [s \in Session |-> Idle]

Waits(s) == page[s].asked = NoForm

ChooseType(s, type) ==
  /\ page[s].form = NoForm
  /\ Shows(s, Drawn(Fresh(type)))
  /\ UNCHANGED listing

(* "Cambia tipo": what is not drawn is forgotten.                          *)
ChangeType(s) ==
  /\ page[s].form # NoForm /\ Waits(s)
  /\ Shows(s, NoForm)
  /\ UNCHANGED listing

(* One interaction with the form, and the rerun it causes.                 *)
Interacts(s, form) ==
  /\ Waits(s)
  /\ Shows(s, Drawn(form))
  /\ UNCHANGED listing

Choose(s) ==
  /\ page[s].form # NoForm
  /\ LET form == page[s].form IN
       \/ \E i \in DOMAIN form.component.options :
            Interacts(s, [form EXCEPT !.component.choice = form.component.options[i]])
       \/ \E i \in DOMAIN form.model.options :
            Interacts(s, [form EXCEPT !.model.choice = form.model.options[i],
                                      !.picked = form.model.options[i]])
       \/ \E i \in DOMAIN form.recipe.options :
            Interacts(s, [form EXCEPT !.recipe.choice = form.recipe.options[i]])

TypeModel(s) ==
  /\ page[s].form # NoForm /\ page[s].form.model = NoBox
  /\ \E row \in ModelRow : Interacts(s, [page[s].form EXCEPT !.typed = row])

ModelSource(s) ==
  /\ page[s].form # NoForm
  /\ Interacts(s, [page[s].form EXCEPT !.manual = ~@])

(* The button is enabled by what was drawn; the click draws the form again *)
(* and goes on with whatever that shows.                                   *)
Click(s, type) ==
  /\ page[s].form # NoForm /\ page[s].form.type = type /\ Waits(s)
  /\ page[s].form.model # NoBox \/ page[s].form.typed # NoModel
  /\ LET form == Drawn(page[s].form)
     IN  page' = [page EXCEPT ![s] = [form |-> form, scaffold |-> NoScaffold,
           asked |-> [model |-> ChosenModel(form), recipe |-> form.recipe.choice,
                      component |-> form.component.choice,
                      uri |-> IF form.component.choice = NoName THEN NoName
                              ELSE LastNamed(listing.components, form.component.choice).uri]]]
  /\ UNCHANGED listing

ClickTraining(s)   == Click(s, "training")
ClickEvaluation(s) == Click(s, "evaluation")
ClickInference(s)  == Click(s, "inference")
ClickMerging(s)    == Click(s, "merging")

(* The recipe is read by its name once more, and is none if it has gone.   *)
FetchedRecipe(name) ==
  IF \E i \in DOMAIN listing.recipes : listing.recipes[i].name = name
  THEN RowNamed(listing.recipes, name).fields ELSE NoRecipe

(* Without a component its name is None, and experiment.yml cannot be      *)
(* filled in: the page shows the exception and no archive.                 *)
Built(asked, type, gpu, merging) ==
  LET template == TemplateDir(type, asked.uri)
  IN  IF asked.component = NoName THEN NoScaffold
      ELSE [made |-> TRUE, type |-> type, files |-> Unpacked(Archive(template)),
            config |-> ConfigYml(asked.model, FetchedRecipe(asked.recipe), gpu, merging,
                                 template.config)]

Generate(s, gpu, merging) ==
  /\ ~Waits(s)
  /\ page[s].form.type # "merging" => merging = NoMerging
  /\ page' = [page EXCEPT ![s].asked = NoForm,
       ![s].scaffold = Built(page[s].asked, page[s].form.type, gpu, merging)]
  /\ UNCHANGED listing

-----------------------------------------------------------------------------
(* Other pages: a row is created, deleted, or given other contents.  Names *)
(* of models and recipes are unique.  A scaffold on the screen is gone at  *)
(* the next rerun, which lists anew: what changes meanwhile may wait.      *)

Changed(part, rows) ==
  /\ listing' = [listing EXCEPT ![part] = rows]
  /\ UNCHANGED page

Row(part) ==
  CASE part = "models" -> ModelRow [] part = "components" -> ComponentRow
    [] part = "recipes" -> RecipeRow

Unique(part, rows) ==
  part # "components" =>
    \A i, j \in DOMAIN rows : rows[i].name = rows[j].name => i = j

Others ==
  /\ \A s \in Session : page[s].scaffold = NoScaffold
  /\ \E part \in DOMAIN listing : LET rows == listing[part] IN
       \/ \E row \in Row(part) :
            /\ Len(rows) < MaxListed[part] /\ Unique(part, <<row>> \o rows)
            /\ Changed(part, <<row>> \o rows)
       \/ \E i \in DOMAIN rows : Changed(part, RemoveAt(rows, i))
       \/ \E i \in DOMAIN rows, row \in Row(part) :
            row.name = rows[i].name /\ Changed(part, [rows EXCEPT ![i] = row])

Next ==
  \/ Others
  \/ \E s \in Session :
       \/ \E type \in ExperimentType : ChooseType(s, type)
       \/ ChangeType(s) \/ Choose(s) \/ TypeModel(s) \/ ModelSource(s)
       \/ ClickTraining(s) \/ ClickEvaluation(s) \/ ClickInference(s) \/ ClickMerging(s)
       \/ \E gpu \in GpuText, merging \in Merging : Generate(s, gpu, merging)

Spec == Init /\ [][Next]_vars

-----------------------------------------------------------------------------
(* A scaffold is generated for the model that was last picked, or, once    *)
(* the names in the listing have changed, for the newest one; and with the *)
(* uri that this model has now (setups.py:458-491, 589-590).               *)
PickedOrNewest ==
  [][\A s \in Session : page[s].asked = NoForm /\ page'[s].asked # NoForm =>
       LET model == page'[s].asked.model
           rows  == {listing.models[i] : i \in DOMAIN listing.models}
       IN  \/ model \in rows /\ model.name \in {page[s].form.picked, listing.models[1].name}
           \/ model = page'[s].form.typed]_vars

(* Whatever template a scaffold is made from, also the directory of a      *)
(* project that has already run: its recipe is the chosen one, whole and   *)
(* with nothing of the template's, or none; it names the chosen model; and *)
(* its four manifests are new (setups.py:249-264, 339-385).  Of the rest   *)
(* it says nothing: other blocks of the template's config.yml, such as     *)
(* experiment, survive the merge, and its other files are copied.          *)
ScaffoldIsOwn ==
  [][\A s \in Session : page'[s].scaffold.made /\ page'[s] # page[s] =>
       LET config == page'[s].scaffold.config
       IN  /\ Subtree(config, <<"recipe">>) = RecipeTree(FetchedRecipe(page[s].asked.recipe))
           /\ [name |-> config[ModelId], uri |-> config[ModelUri]] = page[s].asked.model
           /\ \A f \in Manifests : page'[s].scaffold.files[f] = "page"]_vars
=============================================================================
