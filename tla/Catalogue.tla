------------------------------ MODULE Catalogue ------------------------------
(***************************************************************************)
(* The catalogue of recipes, components and models as the sessions of the  *)
(* Streamlit UI edit it, while the server creates experiments that use it. *)
(*                                                                         *)
(* The repositories of the UI check first and write afterwards, in two     *)
(* transactions; the constraints of 01-schema.cypher are what the store    *)
(* itself enforces.  A node keeps its id for ever; "live" and "alive" say  *)
(* which nodes are in the graph.  Of a component's codes only this matters *)
(* here: two components may have the same name, if their codes differ.     *)
(***************************************************************************)
EXTENDS Naturals, Sequences, FiniteSets

CONSTANTS
  Session,         \* sessions of the UI, each a thread of its own
  Name,            \* names of recipes, components and models
  Seed,            \* the catalogue at the start
  MaxItems,        \* bound: catalogue nodes ever created
  MaxExperiments,  \* bound: experiments ever created
  Hops             \* how far back the listing follows a lineage (50)

Kind == {"recipe", "component", "model"}
Item == [kind : Kind, name : Name]

(* Kinds the schema gives a uniqueness constraint on the name.             *)
NamedUniquely == {"recipe", "model"}

ASSUME CatalogueAssumption ==
  /\ Seed \in Seq(Item)
  /\ \A i, j \in DOMAIN Seed :
       Seed[i].kind \in NamedUniquely /\ Seed[i] = Seed[j] => i = j
  /\ MaxItems \in Nat
  /\ MaxExperiments \in Nat
  /\ Hops \in Nat

VARIABLES
  items,        \* every recipe, component and model ever created
  live,         \* the ids of those in the graph
  experiments,  \* every experiment ever created: is it a base?
  alive,        \* the ids of those in the graph
  edges,        \* the relationships that start at an experiment
  session       \* what each session has checked and is about to write

vars == <<items, live, experiments, alive, edges, session>>

(* The relationship the server creates to an item of each kind, and the    *)
(* one the deletion guard of the UI counts.                                *)
Uses == [recipe |-> "USES_RECIPE", component |-> "USES_COMPONENT",
         model |-> "USES_MODEL"]

Guarded == [recipe |-> "BASED_ON", component |-> "USED_FOR",
            model |-> "SELECTED_FOR"]

Chain    == {"DERIVED_FROM", "RETRY_FROM"}
EdgeType == {Uses[k] : k \in Kind} \cup {Guarded[k] : k \in Kind} \cup Chain
Edge     == [type : EdgeType, from : Nat, to : Nat]

(* A write a session is about to issue: on a node, with a name.            *)
Idle == [op |-> "none"]
Task ==
  {Idle} \cup [op : {"create"}, name : Name]
         \cup [op : {"rename", "merge"}, id : Nat, name : Name]
         \cup [op : {"delete", "deleteExperiment"}, id : Nat]

TypeOK ==
  /\ items \in Seq(Item)
  /\ live \subseteq DOMAIN items
  /\ experiments \in Seq(BOOLEAN)
  /\ alive \subseteq DOMAIN experiments
  /\ edges \subseteq Edge
  /\ session \in [Session -> Task]

Init ==
  /\ items = Seed /\ live = DOMAIN Seed
  /\ experiments = <<>> /\ alive = {} /\ edges = {}
  /\ session = [s \in Session |-> Idle]

-----------------------------------------------------------------------------
Named(kind, name) == {i \in live : items[i] = [kind |-> kind, name |-> name]}

(* Mutant: the schema without its constraints on names.                    *)
Unconstrained(kind, name, id) == TRUE

(* The constraint on the name of node id lets this write through.          *)
Allowed(kind, name, id) == kind \in NamedUniquely => Named(kind, name) \subseteq {id}

About(s, task) == session[s] = Idle /\ session' = [session EXCEPT ![s] = task]
Done(s)        == session' = [session EXCEPT ![s] = Idle]

Add(item) ==
  /\ Len(items) < MaxItems
  /\ items' = Append(items, item)
  /\ live' = live \cup {Len(items) + 1}

(* Set the name of node id, if it is there and the constraint allows it.   *)
Rename(kind, id, name) ==
  items' = IF id \in live /\ Allowed(kind, name, id)
           THEN [items EXCEPT ![id].name = name] ELSE items

graphVars == <<items, live, experiments, alive, edges>>

-----------------------------------------------------------------------------
(* RecipeRepository: each operation looks for the name first               *)

CheckNewRecipe(s, name) ==
  /\ Named("recipe", name) = {}
  /\ About(s, [op |-> "create", name |-> name])
  /\ UNCHANGED graphVars

CreateRecipe(s) ==
  /\ session[s].op = "create"
  /\ IF Allowed("recipe", session[s].name, Len(items) + 1)
     THEN Add([kind |-> "recipe", name |-> session[s].name])
     ELSE UNCHANGED <<items, live>>
  /\ Done(s)
  /\ UNCHANGED <<experiments, alive, edges>>

CheckRecipeRename(s, id, name) ==
  /\ id \in live /\ items[id].kind = "recipe" /\ items[id].name # name
  /\ Named("recipe", name) = {}
  /\ About(s, [op |-> "rename", id |-> id, name |-> name])
  /\ UNCHANGED graphVars

UpdateRecipe(s) ==
  /\ session[s].op = "rename"
  /\ Rename("recipe", session[s].id, session[s].name)
  /\ Done(s)
  /\ UNCHANGED <<live, experiments, alive, edges>>

(* A YAML saved with overwrite carries the id of a recipe, deleted or not. *)
CheckUpsert(s, id, name) ==
  /\ id \in DOMAIN items /\ items[id].kind = "recipe"
  /\ Named("recipe", name) \subseteq {id}
  /\ About(s, [op |-> "merge", id |-> id, name |-> name])
  /\ UNCHANGED graphVars

(* MERGE on the id: a node deleted since the check comes back.             *)
UpsertRecipe(s) ==
  /\ session[s].op = "merge"
  /\ IF Allowed("recipe", session[s].name, session[s].id)
     THEN /\ items' = [items EXCEPT ![session[s].id].name = session[s].name]
          /\ live' = live \cup {session[s].id}
     ELSE UNCHANGED <<items, live>>
  /\ Done(s)
  /\ UNCHANGED <<experiments, alive, edges>>

-----------------------------------------------------------------------------
(* ModelRepository and ComponentRepository: no look before a creation      *)

(* Model creation, upsert by name, and the server's checkpoint promotion.  *)
CreateModel(name) ==
  /\ Allowed("model", name, Len(items) + 1)
  /\ Add([kind |-> "model", name |-> name])
  /\ UNCHANGED <<experiments, alive, edges, session>>

CreateComponent(name) ==
  /\ Add([kind |-> "component", name |-> name])
  /\ UNCHANGED <<experiments, alive, edges, session>>

UpdateComponent(id, name) ==
  /\ id \in live /\ items[id].kind = "component"
  /\ Rename("component", id, name)
  /\ UNCHANGED <<live, experiments, alive, edges, session>>

-----------------------------------------------------------------------------
(* Deletions *)

To(id) == {x \in edges : x.to = id /\ x.type \notin Chain}

(* is_deletable: no relationship of the type the guard knows.              *)
CheckDeletable(s, id) ==
  /\ id \in live
  /\ \A x \in To(id) : x.type # Guarded[items[id].kind]
  /\ About(s, [op |-> "delete", id |-> id])
  /\ UNCHANGED graphVars

(* Mutant: a recipe is deleted with DETACH DELETE, like the others.        *)
DetachDelete(s) ==
  /\ session[s].op = "delete"
  /\ live' = live \ {session[s].id}
  /\ edges' = edges \ To(session[s].id)
  /\ Done(s)
  /\ UNCHANGED <<items, experiments, alive>>

(* Models and components: DETACH DELETE.  Recipes: a plain DELETE, which   *)
(* the store refuses while any relationship is attached.                   *)
DeleteItem(s) ==
  LET id == session[s].id
  IN  /\ session[s].op = "delete"
      /\ IF items[id].kind = "recipe" /\ To(id) # {}
         THEN UNCHANGED <<live, edges>>
         ELSE live' = live \ {id} /\ edges' = edges \ To(id)
      /\ Done(s)
      /\ UNCHANGED <<items, experiments, alive>>

(* ExperimentRepository.is_deletable counts the edges that leave e.        *)
CheckExperiment(s, e) ==
  /\ e \in alive
  /\ \A x \in edges : x.from = e => x.type \notin Chain
  /\ About(s, [op |-> "deleteExperiment", id |-> e])
  /\ UNCHANGED graphVars

Touches(x, e) == x.from = e \/ (x.to = e /\ x.type \in Chain)

DeleteExperiment(s) ==
  LET e == session[s].id
  IN  /\ session[s].op = "deleteExperiment"
      /\ alive' = alive \ {e}
      /\ edges' = {x \in edges : ~Touches(x, e)}
      /\ Done(s)
      /\ UNCHANGED <<items, live, experiments>>

-----------------------------------------------------------------------------
(* The server: one transaction per creation *)

NewExperiment(base) ==
  /\ Len(experiments) < MaxExperiments
  /\ experiments' = Append(experiments, base)
  /\ alive' = alive \cup {Len(experiments) + 1}
  /\ UNCHANGED <<items, live, session>>

UsesOf(e, picked) == {[type |-> Uses[items[i].kind], from |-> e, to |-> i] : i \in picked}

(* Mutant: no unique_exp_id, the rows the MATCHes find are not one.        *)
CreateBaseOfRows(recipe, component, model) ==
  LET picked == Named("recipe", recipe) \cup Named("component", component)
                  \cup Named("model", model)
  IN  /\ NewExperiment(TRUE)
      /\ edges' = edges \cup UsesOf(Len(experiments) + 1, picked)

(* One row per combination of matches: none is a ValueError, and several   *)
(* would create several nodes with one id, which unique_exp_id refuses.    *)
CreateBase(recipe, component, model) ==
  \E r \in Named("recipe", recipe), c \in Named("component", component),
     m \in Named("model", model) :
    /\ Named("recipe", recipe) = {r}
    /\ Named("component", component) = {c}
    /\ Named("model", model) = {m}
    /\ NewExperiment(TRUE)
    /\ edges' = edges \cup UsesOf(Len(experiments) + 1, {r, c, m})

CreateDerived(parent, type) ==
  /\ parent \in alive
  /\ NewExperiment(FALSE)
  /\ edges' = edges \cup {[type |-> type, from |-> Len(experiments) + 1, to |-> parent]}

-----------------------------------------------------------------------------
(* The listing of experiments: list_with_lineage, a query *)

Parents(group) == {x.to : x \in {y \in edges : y.from \in group /\ y.type \in Chain}}

(* Mutant: a lineage without the experiment itself (the "1..50" of old).   *)
Ancestry(e) ==
  LET upTo[n \in 0..Hops] ==
        IF n = 0 THEN {} ELSE LET near == upTo[n - 1] IN near \cup Parents({e} \cup near)
  IN  upTo[Hops]

Lineage(e) ==
  LET upTo[n \in 0..Hops] ==
        IF n = 0 THEN {e} ELSE LET near == upTo[n - 1] IN near \cup Parents(near)
  IN  upTo[Hops]

(* A subquery that finds no model, no recipe or no component in the        *)
(* lineage has no row, and e goes with it.                                 *)
Listed(e) ==
  \A k \in Kind : \E x \in edges : x.from \in Lineage(e) /\ x.type = Uses[k]

-----------------------------------------------------------------------------
Recipes(s) ==
  \/ \E name \in Name :
       \/ CheckNewRecipe(s, name)
       \/ \E id \in DOMAIN items : CheckRecipeRename(s, id, name) \/ CheckUpsert(s, id, name)
  \/ CreateRecipe(s) \/ UpdateRecipe(s) \/ UpsertRecipe(s)

Deletions(s) ==
  \/ \E id \in live : CheckDeletable(s, id)
  \/ \E e \in alive : CheckExperiment(s, e)
  \/ DeleteItem(s) \/ DeleteExperiment(s)

Next ==
  \/ \E s \in Session : Recipes(s) \/ Deletions(s)
  \/ \E name \in Name :
       \/ CreateModel(name) \/ CreateComponent(name)
       \/ \E id \in live : UpdateComponent(id, name)
  \/ \E r, c, m \in Name : CreateBase(r, c, m)
  \/ \E p \in alive, type \in Chain : CreateDerived(p, type)

Spec == Init /\ [][Next]_vars

-----------------------------------------------------------------------------
(* Properties *)

(* A name means one recipe and one model, the repositories' separate       *)
(* checks and whatever the sessions do at the same time notwithstanding.   *)
NamesIdentify ==
  \A i, j \in live :
    items[i].kind \in NamedUniquely /\ items[i] = items[j] => i = j

(* A base experiment never loses its recipe: the guard that should see to  *)
(* it counts edges nobody creates, but the plain DELETE is refused.        *)
BaseKeepsRecipe ==
  \A e \in alive : experiments[e] =>
    \E i \in live : [type |-> "USES_RECIPE", from |-> e, to |-> i] \in edges

(* A base experiment is created with one recipe, one component and one     *)
(* model, also when names are shared: otherwise it is not created.         *)
CreatedWithOneOfEach ==
  [][\A e \in alive' \ alive : experiments'[e] =>
       \A k \in Kind :
         Cardinality({x \in edges' : x.from = e /\ x.type = Uses[k]}) = 1]_vars

(* As long as nothing of the catalogue and no experiment has been deleted, *)
(* every experiment whose lineage is not longer than Hops is listed: later *)
(* ones may go missing (experiment_repository.py:525-553).                 *)
ListedWhileComplete ==
  live = DOMAIN items /\ alive = DOMAIN experiments /\ Len(experiments) <= Hops
    => \A e \in alive : Listed(e)

(* is_deletable of the repositories is to tell that no experiment uses the *)
(* node (component_repository.py:317, model_repository.py:374): what a     *)
(* session goes on to delete was unused when it checked.                   *)
DeletableMeansUnused ==
  [][\A s \in Session : session[s] = Idle /\ session'[s].op = "delete"
       => To(session'[s].id) = {}]_vars
=============================================================================
