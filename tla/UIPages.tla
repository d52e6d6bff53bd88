-------------------------------- MODULE UIPages --------------------------------
(***************************************************************************)
(* The catalogue and its deletions, the chains of the experiments, and the *)
(* pages of recipes, components, models, experiments and setups of the     *)
(* Streamlit UI, beside each other.                                        *)
(*                                                                         *)
(* The parts keep their widgets under keys of their own, and each module   *)
(* has only those properties of the nodes that its part reads and writes;  *)
(* no two of them share a variable.  A behaviour therefore goes through    *)
(* one part, chosen at the start: together they would show nothing more.   *)
(***************************************************************************)
EXTENDS Catalogue

CONSTANTS
  Title, MaxHistory,              \* ExperimentHistory
  Recipe, Field, Own, ScopeEnum, Topic, TaskEnum, Uri, MaxEntries, \* RecipePage
  Staff,                          \* sessions at the pages of recipes and components
  Author,                         \* those of Staff that also open forms or a wizard
  Component, Key,                 \* ComponentPage
  Model,                          \* ModelPage
  Experiment, Agentic, Custom,    \* ExperimentPage
  ModelRow, ComponentRow, RecipeRow, Disk, MaxListed, \* SetupPage
  Value, Text, NoText             \* what is typed

VARIABLES
  part,                                                   \* the part that is used
  exps, kept, managing,                                   \* ExperimentHistory
  recipes, confirmed, recipeEdit, saving,                 \* RecipePage
  components, wizard, componentForm, save,                \* ComponentPage
  models, selected, input, modelEdit,                     \* ModelPage
  nodes, experimentForm, draft,                           \* ExperimentPage
  listing, page                                           \* SetupPage

Managed == INSTANCE ExperimentHistory
             WITH Name <- Title, MaxExperiments <- MaxHistory,
                  live <- kept, session <- managing
OfRecipes == INSTANCE RecipePage
               WITH Session <- Staff, Editor <- Author, Task <- Topic, edit <- recipeEdit
OfComponents == INSTANCE ComponentPage
                  WITH Session <- Staff, Creator <- Author, Value <- Text, form <- componentForm
OfModels == INSTANCE ModelPage WITH Field <- Custom, Blank <- NoText, edit <- modelEdit
OfExperiments == INSTANCE ExperimentPage WITH Session <- Author, form <- experimentForm
OfSetups == INSTANCE SetupPage WITH Session <- Author

(* No text is the absent one, and the names of fields are told apart from  *)
(* those the pages give a meaning.                                         *)
ASSUME UIPagesAssumption ==
  /\ NoText \notin Text \cup Value \cup Uri /\ "" \notin Text
  /\ Author \subseteq Staff
  /\ {"tasks", "entries"} \cap Field = {}
  /\ Own \subseteq Field \ {"scope"} /\ ScopeEnum \subseteq Text /\ TaskEnum \subseteq Topic
  /\ Custom \cap (Agentic \cup {"run_type", "notes"}) = {}
  /\ Agentic \cap {"run_type", "notes"} = {}
  /\ {MaxHistory, MaxEntries} \subseteq Nat

catalogueVars == vars
historyVars   == <<exps, kept, managing>>
recipeVars    == <<recipes, confirmed, recipeEdit, saving>>
componentVars == <<components, wizard, componentForm, save>>
modelVars     == <<models, selected, input, modelEdit>>
experimentVars == <<nodes, experimentForm, draft>>
setupVars      == <<listing, page>>

uiVars == <<part, catalogueVars, historyVars, recipeVars, componentVars, modelVars,
            experimentVars, setupVars>>

UIInit ==
  /\ part \in {"catalogue", "history", "recipes", "components", "models", "experiments",
              "setups"}
  /\ Init /\ Managed!Init
  /\ OfRecipes!Init /\ OfComponents!Init /\ OfModels!Init /\ OfExperiments!Init
  /\ OfSetups!Init

UINext ==
  \/ /\ part = "catalogue" /\ Next
     /\ UNCHANGED <<part, historyVars, recipeVars, componentVars, modelVars,
                     experimentVars, setupVars>>
  \/ /\ part = "history" /\ Managed!Next
     /\ UNCHANGED <<part, catalogueVars, recipeVars, componentVars, modelVars,
                     experimentVars, setupVars>>
  \/ /\ part = "recipes" /\ OfRecipes!Next
     /\ UNCHANGED <<part, catalogueVars, historyVars, componentVars, modelVars,
                     experimentVars, setupVars>>
  \/ /\ part = "components" /\ OfComponents!Next
     /\ UNCHANGED <<part, catalogueVars, historyVars, recipeVars, modelVars,
                     experimentVars, setupVars>>
  \/ /\ part = "models" /\ OfModels!Next
     /\ UNCHANGED <<part, catalogueVars, historyVars, recipeVars, componentVars,
                     experimentVars, setupVars>>
  \/ /\ part = "experiments" /\ OfExperiments!Next
     /\ UNCHANGED <<part, catalogueVars, historyVars, recipeVars, componentVars,
                     modelVars, setupVars>>
  \/ /\ part = "setups" /\ OfSetups!Next
     /\ UNCHANGED <<part, catalogueVars, historyVars, recipeVars, componentVars,
                     modelVars, experimentVars>>

UISpec == UIInit /\ [][UINext]_uiVars

-----------------------------------------------------------------------------
(* The properties of the parts but the catalogue, whose names they keep;   *)
(* each is explained where it is stated.                                   *)

(* Depths, and chain ids of one name, grow along every chain.              *)
OrderedAlongChains == Managed!OrderedAlongChains
(* No more experiments share a chain id than are created at a time.        *)
ClashBounded == Managed!ClashBounded

(* A recipe's form changes what was typed, and nothing to an older state.  *)
SavesOwnForm == OfRecipes!SavesOwnForm
(* A wizard begins without the fields of a component given up.             *)
WizardStartsClean == OfComponents!WizardStartsClean
(* A description is changed from what the session saw.                     *)
DescriptionSeen == OfComponents!DescriptionSeen
(* A model's form saves what it read and what was typed.                   *)
SavesWhatWasRead == OfModels!SavesWhatWasRead
(* The nested document agrees with the properties.                         *)
NestedWithinFlat == OfExperiments!NestedWithinFlat
(* A scaffold is for the model picked, or the newest once names changed.   *)
PickedOrNewest == OfSetups!PickedOrNewest
(* A scaffold's recipe, model and manifests are not its template's.        *)
ScaffoldIsOwn == OfSetups!ScaffoldIsOwn
=============================================================================
