-------------------------------- MODULE UIProofs --------------------------------
(***************************************************************************)
(* Theorems about the user interface, for any number of sessions, names,   *)
(* items, experiments, components and fields.  Of the catalogue: names     *)
(* stay unique, a base keeps its recipe and is created with one item of    *)
(* each kind.  Of the pages: what a form holds and what a session saw.     *)
(* The history of the experiments has a module of its own, HistoryProofs.  *)
(***************************************************************************)
EXTENDS UIPages, ChainRecursion, SequenceTheorems

-----------------------------------------------------------------------------
(* The catalogue *)

(* What a session is about to write on is a node that exists or existed,   *)
(* of the right kind.                                                      *)
TaskOK(task) ==
  /\ task.op \in {"rename", "merge"} =>
       task.id \in DOMAIN items /\ items[task.id].kind = "recipe"
  /\ task.op = "delete" => task.id \in DOMAIN items
  /\ task.op = "deleteExperiment" => task.id \in DOMAIN experiments

(* Edges start at an experiment, and a USES_RECIPE edge ends at a recipe.  *)
EdgeOK(x) ==
  /\ x.from \in DOMAIN experiments
  /\ x.type = "USES_RECIPE" => x.to \in DOMAIN items /\ items[x.to].kind = "recipe"

CatalogueInv ==
  /\ TypeOK
  /\ NamesIdentify
  /\ BaseKeepsRecipe
  /\ \A s \in Session : TaskOK(session[s])
  /\ \A x \in edges : EdgeOK(x)

(* Items are only ever added, and keep their kind.                         *)
ItemsKept ==
  /\ DOMAIN items \subseteq DOMAIN items'
  /\ \A i \in DOMAIN items : items'[i].kind = items[i].kind

(* What is said of a session and of an edge stays true as items and        *)
(* experiments are added.                                                  *)
LEMMA Kept ==
  ASSUME ItemsKept, DOMAIN experiments \subseteq DOMAIN experiments'
  PROVE  /\ \A task : TaskOK(task) => TaskOK(task)'
         /\ \A x : EdgeOK(x) => EdgeOK(x)'
  BY DEF ItemsKept, TaskOK, EdgeOK

LEMMA IdleOK == Idle \in Task /\ TaskOK(Idle)
  BY DEF Idle, Task, TaskOK

LEMMA InitInv == Init => CatalogueInv
<1> SUFFICES ASSUME Init PROVE CatalogueInv
  OBVIOUS
<1>1. TypeOK
  BY CatalogueAssumption, IdleOK DEF Init, TypeOK
<1>2. NamesIdentify
  BY CatalogueAssumption DEF Init, NamesIdentify
<1>3. BaseKeepsRecipe
  BY DEF Init, BaseKeepsRecipe
<1>4. \A s \in Session : TaskOK(session[s])
  BY IdleOK DEF Init
<1> QED
  BY <1>1, <1>2, <1>3, <1>4 DEF Init, CatalogueInv

(* A step of sessions only.                                                *)
LEMMA SessionStep ==
  ASSUME CatalogueInv, NEW s \in Session, NEW task \in Task, TaskOK(task),
         session' = [session EXCEPT ![s] = task], UNCHANGED graphVars
  PROVE  CatalogueInv'
<1>1. ItemsKept /\ DOMAIN experiments \subseteq DOMAIN experiments'
  BY DEF graphVars, ItemsKept
<1>2. TypeOK'
  BY DEF CatalogueInv, TypeOK, graphVars
<1>3. NamesIdentify' /\ BaseKeepsRecipe'
  BY DEF CatalogueInv, NamesIdentify, BaseKeepsRecipe, graphVars
<1>4. \A t \in Session : TaskOK(session[t])'
  BY <1>1, Kept DEF CatalogueInv, TypeOK
<1>5. \A x \in edges' : EdgeOK(x)'
  BY <1>1, Kept DEF CatalogueInv, graphVars
<1> QED
  BY <1>2, <1>3, <1>4, <1>5 DEF CatalogueInv

(* The sessions after a step in which at most one of them becomes idle.    *)
SessionsOnly ==
  \/ session' = session
  \/ \E s \in Session : session' = [session EXCEPT ![s] = Idle]

LEMMA SessionsOK ==
  ASSUME CatalogueInv, SessionsOnly, ItemsKept,
         DOMAIN experiments \subseteq DOMAIN experiments'
  PROVE  /\ session' \in [Session -> Task]
         /\ \A s \in Session : TaskOK(session[s])'
  BY Kept, IdleOK DEF CatalogueInv, TypeOK, SessionsOnly

(* A new item.                                                             *)
LEMMA AddStep ==
  ASSUME CatalogueInv, SessionsOnly, NEW item \in Item,
         Allowed(item.kind, item.name, Len(items) + 1), Add(item),
         UNCHANGED <<experiments, alive, edges>>
  PROVE  CatalogueInv'
<1>1. items \in Seq(Item) /\ live \subseteq DOMAIN items
  BY DEF CatalogueInv, TypeOK
<1>2. /\ items' \in Seq(Item)
      /\ Len(items') = Len(items) + 1
      /\ \A i \in DOMAIN items : items'[i] = items[i]
      /\ items'[Len(items) + 1] = item
  BY <1>1 DEF Add
<1>3. ItemsKept
  BY <1>1, <1>2 DEF ItemsKept
<1>4. live' \subseteq DOMAIN items'
  BY <1>1, <1>2 DEF Add
<1>5. TypeOK'
  BY <1>2, <1>3, <1>4, SessionsOK DEF CatalogueInv, TypeOK
<1>6. NamesIdentify'
  <2> SUFFICES ASSUME NEW i \in live', NEW j \in live',
                      items'[i].kind \in NamedUniquely, items'[i] = items'[j]
               PROVE  i = j
    BY DEF NamesIdentify
  <2>1. CASE i \in live /\ j \in live
    BY <1>1, <1>2, <2>1 DEF CatalogueInv, NamesIdentify
  <2>2. ASSUME NEW k \in live, items[k] = item, item.kind \in NamedUniquely
        PROVE  FALSE
    <3>1. item = [kind |-> item.kind, name |-> item.name]
      BY DEF Item
    <3>2. k \in Named(item.kind, item.name)
      BY <2>2, <3>1 DEF Named
    <3>3. k = Len(items) + 1
      BY <2>2, <3>2 DEF Allowed
    <3> QED
      BY <1>1, <3>3
  <2> QED
    BY <1>1, <1>2, <2>1, <2>2 DEF Add
<1>7. BaseKeepsRecipe'
  BY DEF CatalogueInv, BaseKeepsRecipe, Add
<1>8. \A x \in edges' : EdgeOK(x)'
  BY <1>3, Kept DEF CatalogueInv
<1> QED
  BY <1>3, <1>5, <1>6, <1>7, <1>8, SessionsOK DEF CatalogueInv

(* A node gets a name the constraint allows it; "here" are the nodes in    *)
(* the graph afterwards, the renamed one perhaps among them.               *)
LEMMA NameStep ==
  ASSUME CatalogueInv, SessionsOnly, NEW id \in DOMAIN items, NEW name \in Name,
         Allowed(items[id].kind, name, id),
         items' = [items EXCEPT ![id].name = name],
         live' \in {live, live \cup {id}},
         UNCHANGED <<experiments, alive, edges>>
  PROVE  CatalogueInv'
<1>1. items \in Seq(Item) /\ live \subseteq DOMAIN items
  BY DEF CatalogueInv, TypeOK
<1> DEFINE item == [kind |-> items[id].kind, name |-> name]
<1>2. /\ items \in [1 .. Len(items) -> Item]
      /\ DOMAIN items = 1 .. Len(items)
  BY <1>1
<1>3. items[id] = [kind |-> items[id].kind, name |-> items[id].name]
      /\ items[id].kind \in Kind
  BY <1>2 DEF Item
<1>a. items'[id] = item /\ item \in Item
  BY <1>2, <1>3 DEF Item
<1>b. \A i \in DOMAIN items : i # id => items'[i] = items[i]
  BY <1>2
<1>c. items' \in [1 .. Len(items) -> Item]
  BY <1>2, <1>a, <1>b
<1>4. /\ items' \in Seq(Item)
      /\ DOMAIN items' = DOMAIN items
      /\ items'[id] = item
      /\ \A i \in DOMAIN items : i # id => items'[i] = items[i]
  <2>1. Len(items) \in Nat
    BY <1>1
  <2>2. Seq(Item) = UNION {[1 .. n -> Item] : n \in Nat}
    BY ONLY SeqDef, Zenon
  <2>3. [1 .. Len(items) -> Item] \in {[1 .. n -> Item] : n \in Nat}
    BY <2>1
  <2>4. items' \in Seq(Item)
    BY <1>c, <2>2, <2>3, Zenon
  <2> QED
    BY <1>2, <1>a, <1>b, <1>c, <2>4
<1>5. ItemsKept
  BY <1>4 DEF ItemsKept
<1>6. TypeOK'
  BY <1>1, <1>4, <1>5, SessionsOK DEF CatalogueInv, TypeOK
<1>7. NamesIdentify'
  <2> SUFFICES ASSUME NEW i \in live', NEW j \in live',
                      items'[i].kind \in NamedUniquely, items'[i] = items'[j]
               PROVE  i = j
    BY DEF NamesIdentify
  <2>1. CASE i # id /\ j # id
    BY <1>1, <1>4, <2>1 DEF CatalogueInv, NamesIdentify
  <2>2. ASSUME NEW k \in live, k # id, items[k] = item, item.kind \in NamedUniquely
        PROVE  FALSE
    BY <2>2 DEF Named, Allowed
  <2> QED
    BY <1>1, <1>4, <2>1, <2>2
<1>8. BaseKeepsRecipe'
  BY DEF CatalogueInv, BaseKeepsRecipe
<1>9. \A x \in edges' : EdgeOK(x)'
  BY <1>5, Kept DEF CatalogueInv
<1> QED
  BY <1>5, <1>6, <1>7, <1>8, <1>9, SessionsOK DEF CatalogueInv

(* A step that writes nothing but the end of a session's task.             *)
LEMMA NothingStep ==
  ASSUME CatalogueInv, SessionsOnly, UNCHANGED graphVars
  PROVE  CatalogueInv'
<1>1. CASE session' = session
  BY <1>1 DEF CatalogueInv, TypeOK, NamesIdentify, BaseKeepsRecipe, TaskOK, EdgeOK, graphVars
<1>2. CASE \E s \in Session : session' = [session EXCEPT ![s] = Idle]
  BY <1>2, IdleOK, SessionStep
<1> QED
  BY <1>1, <1>2 DEF SessionsOnly

LEMMA CreateRecipeStep ==
  ASSUME CatalogueInv, NEW s \in Session, CreateRecipe(s) PROVE CatalogueInv'
<1>1. SessionsOnly
  BY DEF CreateRecipe, Done, SessionsOnly
<1>2. session[s].name \in Name
  BY DEF CreateRecipe, CatalogueInv, TypeOK, Task, Idle
<1> DEFINE item == [kind |-> "recipe", name |-> session[s].name]
<1>3. item \in Item
  BY <1>2 DEF Item, Kind
<1>4. CASE Allowed("recipe", session[s].name, Len(items) + 1)
  BY <1>1, <1>3, <1>4, AddStep DEF CreateRecipe
<1>5. CASE ~Allowed("recipe", session[s].name, Len(items) + 1)
  BY <1>1, <1>5, NothingStep DEF CreateRecipe, graphVars
<1> QED
  BY <1>4, <1>5

LEMMA UpdateRecipeStep ==
  ASSUME CatalogueInv, NEW s \in Session, UpdateRecipe(s) PROVE CatalogueInv'
<1>1. SessionsOnly
  BY DEF UpdateRecipe, Done, SessionsOnly
<1>2. /\ session[s].name \in Name
      /\ session[s].id \in DOMAIN items /\ items[session[s].id].kind = "recipe"
  BY DEF UpdateRecipe, CatalogueInv, TypeOK, Task, TaskOK, Idle
<1>3. CASE session[s].id \in live /\ Allowed("recipe", session[s].name, session[s].id)
  BY <1>1, <1>2, <1>3, NameStep DEF UpdateRecipe, Rename
<1>4. CASE ~(session[s].id \in live /\ Allowed("recipe", session[s].name, session[s].id))
  BY <1>1, <1>4, NothingStep DEF UpdateRecipe, Rename, graphVars
<1> QED
  BY <1>3, <1>4

LEMMA UpsertRecipeStep ==
  ASSUME CatalogueInv, NEW s \in Session, UpsertRecipe(s) PROVE CatalogueInv'
<1>1. SessionsOnly
  BY DEF UpsertRecipe, Done, SessionsOnly
<1>2. /\ session[s].name \in Name
      /\ session[s].id \in DOMAIN items /\ items[session[s].id].kind = "recipe"
  BY DEF UpsertRecipe, CatalogueInv, TypeOK, Task, TaskOK, Idle
<1>3. CASE Allowed("recipe", session[s].name, session[s].id)
  BY <1>1, <1>2, <1>3, NameStep DEF UpsertRecipe
<1>4. CASE ~Allowed("recipe", session[s].name, session[s].id)
  BY <1>1, <1>4, NothingStep DEF UpsertRecipe, graphVars
<1> QED
  BY <1>3, <1>4

LEMMA CreateModelStep ==
  ASSUME CatalogueInv, NEW name \in Name, CreateModel(name) PROVE CatalogueInv'
  BY AddStep DEF CreateModel, SessionsOnly, Item, Kind

LEMMA CreateComponentStep ==
  ASSUME CatalogueInv, NEW name \in Name, CreateComponent(name) PROVE CatalogueInv'
  BY AddStep DEF CreateComponent, SessionsOnly, Item, Kind, Allowed, NamedUniquely

LEMMA UpdateComponentStep ==
  ASSUME CatalogueInv, NEW id \in live, NEW name \in Name, UpdateComponent(id, name)
  PROVE  CatalogueInv'
<1>1. id \in DOMAIN items /\ items[id].kind = "component"
  BY DEF UpdateComponent, CatalogueInv, TypeOK
<1>2. Allowed("component", name, id)
  BY DEF Allowed, NamedUniquely
<1> QED
  BY <1>1, <1>2, NameStep DEF UpdateComponent, Rename, SessionsOnly

(* Fewer nodes in the graph, and fewer edges.                              *)
LEMMA FewerStep ==
  ASSUME CatalogueInv, SessionsOnly, UNCHANGED <<items, experiments>>,
         live' \subseteq live, alive' \subseteq alive, edges' \subseteq edges,
         BaseKeepsRecipe'
  PROVE  CatalogueInv'
<1>1. ItemsKept /\ DOMAIN experiments \subseteq DOMAIN experiments'
  BY DEF ItemsKept
<1>2. TypeOK'
  BY <1>1, SessionsOK DEF CatalogueInv, TypeOK
<1>3. NamesIdentify'
  BY DEF CatalogueInv, NamesIdentify
<1>4. \A x \in edges' : EdgeOK(x)'
  BY <1>1, Kept DEF CatalogueInv
<1> QED
  BY <1>1, <1>2, <1>3, <1>4, SessionsOK DEF CatalogueInv

LEMMA DeleteItemStep ==
  ASSUME CatalogueInv, NEW s \in Session, DeleteItem(s) PROVE CatalogueInv'
<1> DEFINE id == session[s].id
<1>1. SessionsOnly
  BY DEF DeleteItem, Done, SessionsOnly
<1>2. CASE items[id].kind = "recipe" /\ To(id) # {}
  BY <1>1, <1>2, NothingStep DEF DeleteItem, graphVars
<1>3. CASE ~(items[id].kind = "recipe" /\ To(id) # {})
  <2>1. live' = live \ {id} /\ edges' = edges \ To(id)
    BY <1>3 DEF DeleteItem
  <2>2. BaseKeepsRecipe'
    <3> SUFFICES ASSUME NEW e \in alive', experiments'[e]
                 PROVE  \E i \in live' :
                          [type |-> "USES_RECIPE", from |-> e, to |-> i] \in edges'
      BY DEF BaseKeepsRecipe
    <3>1. PICK i \in live : [type |-> "USES_RECIPE", from |-> e, to |-> i] \in edges
      BY DEF CatalogueInv, BaseKeepsRecipe, DeleteItem
    <3> DEFINE x == [type |-> "USES_RECIPE", from |-> e, to |-> i]
    <3>2. items[i].kind = "recipe"
      BY <3>1 DEF CatalogueInv, EdgeOK
    <3>3. ASSUME i = id PROVE FALSE
      <4>1. x \in To(id)
        BY <3>1, <3>3 DEF To, Chain
      <4> QED
        BY <1>3, <3>2, <3>3, <4>1
    <3>4. x \notin To(id)
      BY <3>3 DEF To
    <3> QED
      BY <2>1, <3>1, <3>3, <3>4
  <2> QED
    BY <1>1, <2>1, <2>2, FewerStep DEF DeleteItem
<1> QED
  BY <1>2, <1>3

LEMMA DeleteExperimentStep ==
  ASSUME CatalogueInv, NEW s \in Session, DeleteExperiment(s) PROVE CatalogueInv'
<1> DEFINE gone == session[s].id
<1>1. SessionsOnly
  BY DEF DeleteExperiment, Done, SessionsOnly
<1>2. BaseKeepsRecipe'
  <2> SUFFICES ASSUME NEW e \in alive', experiments'[e]
               PROVE  \E i \in live' :
                        [type |-> "USES_RECIPE", from |-> e, to |-> i] \in edges'
    BY DEF BaseKeepsRecipe
  <2>1. PICK i \in live : [type |-> "USES_RECIPE", from |-> e, to |-> i] \in edges
    BY DEF CatalogueInv, BaseKeepsRecipe, DeleteExperiment
  <2> DEFINE x == [type |-> "USES_RECIPE", from |-> e, to |-> i]
  <2>2. ~Touches(x, gone)
    BY DEF DeleteExperiment, Touches, Chain
  <2> QED
    BY <2>1, <2>2 DEF DeleteExperiment
<1> QED
  BY <1>1, <1>2, FewerStep DEF DeleteExperiment

(* A new experiment with its edges.                                        *)
LEMMA CreationStep ==
  ASSUME CatalogueInv, NEW base \in BOOLEAN, NewExperiment(base),
         NEW new \in SUBSET Edge, edges' = edges \cup new,
         \A x \in new : EdgeOK(x)',
         base => \E i \in live :
           [type |-> "USES_RECIPE", from |-> Len(experiments) + 1, to |-> i] \in new
  PROVE  CatalogueInv'
<1>1. /\ experiments' \in Seq(BOOLEAN)
      /\ DOMAIN experiments' = DOMAIN experiments \cup {Len(experiments) + 1}
      /\ \A e \in DOMAIN experiments : experiments'[e] = experiments[e]
      /\ experiments'[Len(experiments) + 1] = base
  BY DEF CatalogueInv, TypeOK, NewExperiment
<1>2. ItemsKept /\ SessionsOnly /\ DOMAIN experiments \subseteq DOMAIN experiments'
  BY <1>1 DEF NewExperiment, ItemsKept, SessionsOnly
<1>3. TypeOK'
  BY <1>1 DEF CatalogueInv, TypeOK, NewExperiment
<1>4. NamesIdentify'
  BY DEF CatalogueInv, NamesIdentify, NewExperiment
<1>5. BaseKeepsRecipe'
  BY <1>1 DEF CatalogueInv, TypeOK, BaseKeepsRecipe, NewExperiment
<1>6. \A x \in edges' : EdgeOK(x)'
  BY <1>2, Kept DEF CatalogueInv
<1> QED
  BY <1>2, <1>3, <1>4, <1>5, <1>6, SessionsOK DEF CatalogueInv

(* What a successful CREATE adds: one edge to an item of each kind.        *)
LEMMA BaseEdges ==
  ASSUME CatalogueInv, NEW n1, NEW n2, NEW n3, CreateBase(n1, n2, n3)
  PROVE  \E r, c, m \in live :
           /\ items[r].kind = "recipe"
           /\ items[c].kind = "component"
           /\ items[m].kind = "model"
           /\ NewExperiment(TRUE)
           /\ edges' = edges \cup UsesOf(Len(experiments) + 1, {r, c, m})
<1>1. PICK r \in Named("recipe", n1), c \in Named("component", n2), m \in Named("model", n3) :
        /\ NewExperiment(TRUE)
        /\ edges' = edges \cup UsesOf(Len(experiments) + 1, {r, c, m})
  BY DEF CreateBase
<1>2. /\ r \in live /\ items[r].kind = "recipe"
      /\ c \in live /\ items[c].kind = "component"
      /\ m \in live /\ items[m].kind = "model"
  BY DEF Named
<1> QED
  BY <1>1, <1>2

LEMMA CreateBaseStep ==
  ASSUME CatalogueInv, NEW n1, NEW n2, NEW n3, CreateBase(n1, n2, n3)
  PROVE  CatalogueInv'
<1>1. PICK r, c, m \in live :
        /\ items[r].kind = "recipe"
        /\ items[c].kind = "component"
        /\ items[m].kind = "model"
        /\ NewExperiment(TRUE)
        /\ edges' = edges \cup UsesOf(Len(experiments) + 1, {r, c, m})
  BY BaseEdges
<1> DEFINE e   == Len(experiments) + 1
           new == UsesOf(e, {r, c, m})
<1>2. r \in DOMAIN items /\ c \in DOMAIN items /\ m \in DOMAIN items
      /\ e \in Nat /\ DOMAIN items \subseteq Nat /\ e \in DOMAIN experiments'
      /\ items' = items
  BY <1>1 DEF CatalogueInv, TypeOK, NewExperiment
<1>3. new = {[type |-> "USES_RECIPE", from |-> e, to |-> r],
             [type |-> "USES_COMPONENT", from |-> e, to |-> c],
             [type |-> "USES_MODEL", from |-> e, to |-> m]}
  BY <1>1 DEF UsesOf, Uses
<1>4. new \in SUBSET Edge
  <2>1. /\ Uses["recipe"] = "USES_RECIPE"
        /\ Uses["component"] = "USES_COMPONENT"
        /\ Uses["model"] = "USES_MODEL"
    BY DEF Uses
  <2>2. {"USES_RECIPE", "USES_COMPONENT", "USES_MODEL"} \subseteq EdgeType
    BY <2>1 DEF EdgeType, Kind
  <2>3. r \in Nat /\ c \in Nat /\ m \in Nat
    BY <1>2
  <2> HIDE DEF new
  <2> QED
    BY <1>2, <1>3, <2>2, <2>3 DEF Edge
<1>5. \A x \in new : EdgeOK(x)'
  <2> HIDE DEF new
  <2> QED
    BY <1>1, <1>2, <1>3 DEF EdgeOK
<1> QED
  BY <1>1, <1>3, <1>4, <1>5, CreationStep

LEMMA CreateDerivedStep ==
  ASSUME CatalogueInv, NEW p \in alive, NEW type \in Chain, CreateDerived(p, type)
  PROVE  CatalogueInv'
<1> DEFINE e   == Len(experiments) + 1
           new == {[type |-> type, from |-> e, to |-> p]}
<1>1. p \in Nat /\ e \in Nat /\ e \in DOMAIN experiments'
  BY DEF CatalogueInv, TypeOK, CreateDerived, NewExperiment
<1>2. new \in SUBSET Edge /\ \A x \in new : EdgeOK(x)'
  BY <1>1 DEF Edge, EdgeType, EdgeOK, Chain
<1> QED
  BY <1>2, CreationStep DEF CreateDerived

-----------------------------------------------------------------------------
LEMMA RecipesStep ==
  ASSUME CatalogueInv, NEW s \in Session, Recipes(s) PROVE CatalogueInv'
<1>1. ASSUME NEW name \in Name, CheckNewRecipe(s, name) PROVE CatalogueInv'
  BY <1>1, SessionStep DEF CheckNewRecipe, About, Task, TaskOK
<1>2. ASSUME NEW name \in Name, NEW id \in DOMAIN items, CheckRecipeRename(s, id, name)
      PROVE  CatalogueInv'
  <2>1. id \in Nat
    BY DEF CatalogueInv, TypeOK
  <2> QED
    BY <1>2, <2>1, SessionStep DEF CheckRecipeRename, About, Task, TaskOK
<1>3. ASSUME NEW name \in Name, NEW id \in DOMAIN items, CheckUpsert(s, id, name)
      PROVE  CatalogueInv'
  <2>1. id \in Nat
    BY DEF CatalogueInv, TypeOK
  <2> QED
    BY <1>3, <2>1, SessionStep DEF CheckUpsert, About, Task, TaskOK
<1> QED
  BY <1>1, <1>2, <1>3, CreateRecipeStep, UpdateRecipeStep, UpsertRecipeStep DEF Recipes

LEMMA DeletionsStep ==
  ASSUME CatalogueInv, NEW s \in Session, Deletions(s) PROVE CatalogueInv'
<1>1. ASSUME NEW id \in live, CheckDeletable(s, id) PROVE CatalogueInv'
  <2>1. id \in DOMAIN items /\ id \in Nat
    BY DEF CatalogueInv, TypeOK
  <2> QED
    BY <1>1, <2>1, SessionStep DEF CheckDeletable, About, Task, TaskOK
<1>2. ASSUME NEW e \in alive, CheckExperiment(s, e) PROVE CatalogueInv'
  <2>1. e \in DOMAIN experiments /\ e \in Nat
    BY DEF CatalogueInv, TypeOK
  <2> QED
    BY <1>2, <2>1, SessionStep DEF CheckExperiment, About, Task, TaskOK
<1> QED
  BY <1>1, <1>2, DeleteItemStep, DeleteExperimentStep DEF Deletions

LEMMA NextInv == CatalogueInv /\ [Next]_vars => CatalogueInv'
<1> SUFFICES ASSUME CatalogueInv, [Next]_vars PROVE CatalogueInv'
  OBVIOUS
<1>1. CASE UNCHANGED vars
  BY <1>1, NothingStep DEF vars, graphVars, SessionsOnly
<1>2. ASSUME NEW s \in Session, Recipes(s) \/ Deletions(s) PROVE CatalogueInv'
  BY <1>2, RecipesStep, DeletionsStep
<1>3. ASSUME NEW name \in Name,
             \/ CreateModel(name) \/ CreateComponent(name)
             \/ \E id \in live : UpdateComponent(id, name)
      PROVE  CatalogueInv'
  BY <1>3, CreateModelStep, CreateComponentStep, UpdateComponentStep
<1>4. ASSUME NEW r \in Name, NEW c \in Name, NEW m \in Name, CreateBase(r, c, m)
      PROVE  CatalogueInv'
  BY <1>4, CreateBaseStep
<1>5. ASSUME NEW p \in alive, NEW type \in Chain, CreateDerived(p, type)
      PROVE  CatalogueInv'
  BY <1>5, CreateDerivedStep
<1> QED
  BY <1>1, <1>2, <1>3, <1>4, <1>5 DEF Next

(* The inductive invariant of the catalogue.                               *)
THEOREM CatalogueInvariance == Spec => []CatalogueInv
<1> QED
  BY InitInv, NextInv, PTL DEF Spec

(* A name means one recipe and one model, whatever sessions race: the      *)
(* constraint of the schema sees to it, not the checks of the repositories.*)
THEOREM NamesStayUnique == Spec => []NamesIdentify
<1>1. CatalogueInv => NamesIdentify
  BY DEF CatalogueInv
<1> QED
  BY <1>1, CatalogueInvariance, PTL

(* No sequence of edits and deletions takes the recipe of a base away.     *)
THEOREM RecipesKept == Spec => []BaseKeepsRecipe
<1>1. CatalogueInv => BaseKeepsRecipe
  BY DEF CatalogueInv
<1> QED
  BY <1>1, CatalogueInvariance, PTL

(* A step that creates a base gives it one item of each kind.              *)
LEMMA OneOfEachStep ==
  ASSUME CatalogueInv, [Next]_vars, NEW e \in alive' \ alive, experiments'[e],
         NEW k \in Kind
  PROVE  Cardinality({x \in edges' : x.from = e /\ x.type = Uses[k]}) = 1
<1>1. PICK r \in Name, c \in Name, m \in Name : CreateBase(r, c, m)
  <2>1. CASE UNCHANGED vars
    BY <2>1 DEF vars
  <2>2. ASSUME NEW s \in Session, Recipes(s) \/ Deletions(s) PROVE FALSE
    BY <2>2 DEF Recipes, Deletions, CheckNewRecipe, CheckRecipeRename, CheckUpsert,
                CreateRecipe, UpdateRecipe, UpsertRecipe, CheckDeletable,
                CheckExperiment, DeleteItem, DeleteExperiment, graphVars
  <2>3. ASSUME NEW name \in Name,
               \/ CreateModel(name) \/ CreateComponent(name)
               \/ \E id \in live : UpdateComponent(id, name)
        PROVE  FALSE
    BY <2>3 DEF CreateModel, CreateComponent, UpdateComponent
  <2>4. ASSUME NEW p \in alive, NEW type \in Chain, CreateDerived(p, type) PROVE FALSE
    BY <2>4 DEF CreateDerived, NewExperiment, CatalogueInv, TypeOK
  <2> QED
    BY <2>1, <2>2, <2>3, <2>4 DEF Next
<1>2. PICK i1, i2, i3 \in live :
        /\ items[i1].kind = "recipe"
        /\ items[i2].kind = "component"
        /\ items[i3].kind = "model"
        /\ NewExperiment(TRUE)
        /\ edges' = edges \cup UsesOf(Len(experiments) + 1, {i1, i2, i3})
  BY <1>1, BaseEdges
<1>3. e = Len(experiments) + 1 /\ e \notin DOMAIN experiments
  BY <1>2 DEF NewExperiment, CatalogueInv, TypeOK
<1>4. \A x \in edges : x.from # e
  BY <1>3 DEF CatalogueInv, EdgeOK
<1>5. UsesOf(e, {i1, i2, i3}) =
        {[type |-> "USES_RECIPE", from |-> e, to |-> i1],
         [type |-> "USES_COMPONENT", from |-> e, to |-> i2],
         [type |-> "USES_MODEL", from |-> e, to |-> i3]}
  BY <1>2 DEF UsesOf, Uses
<1>6. \/ k = "recipe"    /\ Uses[k] = "USES_RECIPE"
      \/ k = "component" /\ Uses[k] = "USES_COMPONENT"
      \/ k = "model"     /\ Uses[k] = "USES_MODEL"
  BY DEF Kind, Uses
<1> DEFINE x1 == [type |-> "USES_RECIPE", from |-> e, to |-> i1]
           x2 == [type |-> "USES_COMPONENT", from |-> e, to |-> i2]
           x3 == [type |-> "USES_MODEL", from |-> e, to |-> i3]
<1>7. /\ edges' = edges \cup {x1, x2, x3}
      /\ x1.from = e /\ x1.type = "USES_RECIPE"
      /\ x2.from = e /\ x2.type = "USES_COMPONENT"
      /\ x3.from = e /\ x3.type = "USES_MODEL"
  BY <1>2, <1>3, <1>5
<1>8. \E x : {y \in edges' : y.from = e /\ y.type = Uses[k]} = {x}
  <2> HIDE DEF x1, x2, x3
  <2> DEFINE found == {y \in edges' : y.from = e /\ y.type = Uses[k]}
  <2>1. found = {x1} \/ found = {x2} \/ found = {x3}
    BY <1>4, <1>6, <1>7
  <2> QED
    BY <2>1
<1> QED
  BY <1>8, FS_Singleton

(* A base is created with one recipe, one component and one model, or not  *)
(* at all, shared names notwithstanding.                                   *)
THEOREM OneOfEach == Spec => CreatedWithOneOfEach
<1>1. CatalogueInv /\ [Next]_vars =>
        [\A e \in alive' \ alive : experiments'[e] =>
           \A k \in Kind :
             Cardinality({x \in edges' : x.from = e /\ x.type = Uses[k]}) = 1]_vars
  BY OneOfEachStep
<1> QED
  BY <1>1, CatalogueInvariance, PTL DEF Spec, CreatedWithOneOfEach

-----------------------------------------------------------------------------
(* The listing *)

(* A model or a component has been deleted; it never comes back.           *)
ItemGone == \E i \in DOMAIN items \ live : items[i].kind # "recipe"

(* What a base uses, or the earlier experiment another was created from.   *)
HasEdges(e) ==
  IF experiments[e]
  THEN \A k \in Kind : \E x \in edges : x.from = e /\ x.type = Uses[k]
  ELSE \E x \in edges : x.from = e /\ x.type \in Chain /\ x.to \in DOMAIN experiments /\ x.to < e

AllHaveEdges == \A e \in DOMAIN experiments : HasEdges(e)

(* Edges are lost only with a model, a component or an experiment.         *)
CompleteInv == ItemGone \/ alive # DOMAIN experiments \/ AllHaveEdges

(* A step that takes away neither item nor experiment nor edge.            *)
LEMMA NothingLost ==
  ASSUME CatalogueInv, CompleteInv, ItemsKept,
         \A i \in live' \ live : i \notin DOMAIN items \/ items[i].kind = "recipe",
         UNCHANGED <<experiments, alive, edges>>
  PROVE  CompleteInv'
<1>1. ItemGone => ItemGone'
  BY DEF ItemGone, ItemsKept
<1>2. AllHaveEdges => AllHaveEdges'
  BY DEF AllHaveEdges, HasEdges
<1> QED
  BY <1>1, <1>2 DEF CompleteInv

LEMMA CompleteAfterDeletion ==
  ASSUME CatalogueInv, CompleteInv, NEW s \in Session, DeleteItem(s) \/ DeleteExperiment(s)
  PROVE  CompleteInv'
<1> DEFINE id == session[s].id
<1>1. CASE DeleteItem(s)
  <2>1. id \in DOMAIN items
    BY <1>1 DEF DeleteItem, CatalogueInv, TaskOK
  <2>2. CASE items[id].kind = "recipe"
    <3>1. edges' = edges /\ live' \subseteq live /\ items' = items
      BY <1>1, <2>2 DEF DeleteItem
    <3> QED
      BY <1>1, <3>1, NothingLost DEF DeleteItem, ItemsKept
  <2>3. CASE items[id].kind # "recipe"
    <3>1. live' = live \ {id} /\ items' = items
      BY <1>1, <2>3 DEF DeleteItem
    <3> QED
      BY <2>1, <2>3, <3>1 DEF CompleteInv, ItemGone
  <2> QED
    BY <2>2, <2>3
<1>2. CASE DeleteExperiment(s)
  <2>1. id \in DOMAIN experiments
    BY <1>2 DEF DeleteExperiment, CatalogueInv, TaskOK
  <2>2. alive' = alive \ {id} /\ experiments' = experiments
    BY <1>2 DEF DeleteExperiment
  <2> QED
    BY <2>1, <2>2 DEF CompleteInv
<1> QED
  BY <1>1, <1>2

(* A new experiment has its edges from the start.                          *)
LEMMA CompleteAfterCreation ==
  ASSUME CatalogueInv, CompleteInv, NEW base \in BOOLEAN, NewExperiment(base),
         edges \subseteq edges', NEW new, new = Len(experiments) + 1, HasEdges(new)'
  PROVE  CompleteInv'
<1>1. /\ DOMAIN experiments' = DOMAIN experiments \cup {new}
      /\ \A e \in DOMAIN experiments : experiments'[e] = experiments[e]
      /\ new \notin DOMAIN experiments
  BY DEF CatalogueInv, TypeOK, NewExperiment
<1>2. ItemGone => ItemGone'
  BY DEF ItemGone, NewExperiment
<1>3. alive # DOMAIN experiments => alive' # DOMAIN experiments'
  BY <1>1 DEF NewExperiment, CatalogueInv, TypeOK
<1>4. ASSUME AllHaveEdges PROVE AllHaveEdges'
  <2>1. ASSUME NEW e \in DOMAIN experiments PROVE HasEdges(e)'
    BY <1>1, <1>4, <2>1 DEF AllHaveEdges, HasEdges
  <2>2. HasEdges(new)'
    OBVIOUS
  <2> QED
    BY <1>1, <2>1, <2>2 DEF AllHaveEdges
<1> QED
  BY <1>2, <1>3, <1>4 DEF CompleteInv

LEMMA CompleteAfterBase ==
  ASSUME CatalogueInv, CompleteInv, NEW n1, NEW n2, NEW n3, CreateBase(n1, n2, n3),
         NEW e, e = Len(experiments) + 1
  PROVE  CompleteInv'
<1>1. PICK r, c, m \in live :
        /\ items[r].kind = "recipe"
        /\ items[c].kind = "component"
        /\ items[m].kind = "model"
        /\ NewExperiment(TRUE)
        /\ edges' = edges \cup UsesOf(Len(experiments) + 1, {r, c, m})
  BY BaseEdges
<1>2. ASSUME NEW i \in {r, c, m}
      PROVE  \E x \in edges' : x.from = e /\ x.type = Uses[items[i].kind]
  <2> DEFINE x == [type |-> Uses[items[i].kind], from |-> e, to |-> i]
  <2>1. x \in edges' /\ x.from = e /\ x.type = Uses[items[i].kind]
    BY <1>1 DEF UsesOf
  <2> QED
    BY <2>1
<1>3. ASSUME NEW k \in Kind PROVE \E x \in edges' : x.from = e /\ x.type = Uses[k]
  <2>1. \E i \in {r, c, m} : items[i].kind = k
    BY <1>1 DEF Kind
  <2> QED
    BY <1>2, <2>1
<1>4. experiments'[e]
  BY <1>1 DEF NewExperiment, CatalogueInv, TypeOK
<1>5. HasEdges(e)'
  BY <1>1, <1>3, <1>4 DEF HasEdges, NewExperiment
<1> QED
  BY <1>1, <1>5, CompleteAfterCreation

LEMMA CompleteAfterDerived ==
  ASSUME CatalogueInv, CompleteInv, NEW p \in alive, NEW type \in Chain,
         CreateDerived(p, type), NEW e, e = Len(experiments) + 1
  PROVE  CompleteInv'
<1> DEFINE x == [type |-> type, from |-> e, to |-> p]
<1>1. p \in DOMAIN experiments /\ p < e /\ p \in DOMAIN experiments' /\ ~experiments'[e]
  BY DEF CreateDerived, NewExperiment, CatalogueInv, TypeOK
<1>2. x \in edges' /\ x.from = e /\ x.type \in Chain /\ x.to = p
  BY DEF CreateDerived
<1> HIDE DEF x
<1>3. HasEdges(e)'
  BY <1>1, <1>2 DEF HasEdges, CreateDerived, NewExperiment
<1> QED
  BY <1>2, <1>3, CompleteAfterCreation DEF CreateDerived

LEMMA CompleteStep == CatalogueInv /\ CompleteInv /\ [Next]_vars => CompleteInv'
<1> SUFFICES ASSUME CatalogueInv, CompleteInv, [Next]_vars PROVE CompleteInv'
  OBVIOUS
<1>1. ASSUME UNCHANGED graphVars PROVE CompleteInv'
  BY <1>1, NothingLost DEF graphVars, ItemsKept
<1>2. ASSUME NEW item, Add(item), UNCHANGED <<experiments, alive, edges>>
      PROVE  CompleteInv'
  <2>1. ItemsKept /\ Len(items) + 1 \notin DOMAIN items
    BY <1>2 DEF Add, ItemsKept, CatalogueInv, TypeOK
  <2> QED
    BY <1>2, <2>1, NothingLost DEF Add
<1>3. ASSUME NEW id \in DOMAIN items, NEW name, items' = [items EXCEPT ![id].name = name],
             live' = live \/ (live' = live \cup {id} /\ items[id].kind = "recipe"),
             UNCHANGED <<experiments, alive, edges>>
      PROVE  CompleteInv'
  <2>1. \A i \in DOMAIN items : items[i] = [kind |-> items[i].kind, name |-> items[i].name]
    <3>1. items \in [DOMAIN items -> Item]
      BY DEF CatalogueInv, TypeOK
    <3> QED
      BY <3>1 DEF Item
  <2>2. DOMAIN items' = DOMAIN items /\ \A i \in DOMAIN items : items'[i].kind = items[i].kind
    BY <1>3, <2>1
  <2> QED
    BY <1>3, <2>2, NothingLost DEF ItemsKept
<1>4. ASSUME NEW s \in Session, Recipes(s) PROVE CompleteInv'
  <2>1. ASSUME session[s].op \in {"rename", "merge"}
        PROVE  session[s].id \in DOMAIN items /\ items[session[s].id].kind = "recipe"
    BY <2>1 DEF CatalogueInv, TaskOK
  <2>2. CASE CreateRecipe(s)
    BY <1>1, <1>2, <2>2 DEF CreateRecipe, graphVars
  <2>3. CASE UpdateRecipe(s)
    BY <1>1, <1>3, <2>1, <2>3 DEF UpdateRecipe, Rename, graphVars
  <2>4. CASE UpsertRecipe(s)
    BY <1>1, <1>3, <2>1, <2>4 DEF UpsertRecipe, graphVars
  <2> QED
    BY <1>1, <1>4, <2>2, <2>3, <2>4
    DEF Recipes, CheckNewRecipe, CheckRecipeRename, CheckUpsert
<1>5. ASSUME NEW s \in Session, Deletions(s) PROVE CompleteInv'
  BY <1>1, <1>5, CompleteAfterDeletion DEF Deletions, CheckDeletable, CheckExperiment
<1>6. ASSUME NEW name \in Name,
             \/ CreateModel(name) \/ CreateComponent(name)
             \/ \E id \in live : UpdateComponent(id, name)
      PROVE  CompleteInv'
  <2>1. CASE CreateModel(name) \/ CreateComponent(name)
    BY <1>2, <2>1 DEF CreateModel, CreateComponent
  <2>2. ASSUME NEW id \in live, UpdateComponent(id, name) PROVE CompleteInv'
    <3>1. id \in DOMAIN items
      BY DEF CatalogueInv, TypeOK
    <3> QED
      BY <1>1, <1>3, <2>2, <3>1 DEF UpdateComponent, Rename, graphVars
  <2> QED
    BY <1>6, <2>1, <2>2
<1>7. ASSUME NEW r, NEW c, NEW m, CreateBase(r, c, m) PROVE CompleteInv'
  BY <1>7, CompleteAfterBase
<1>8. ASSUME NEW p \in alive, NEW type \in Chain, CreateDerived(p, type) PROVE CompleteInv'
  BY <1>8, CompleteAfterDerived
<1>9. CASE UNCHANGED vars
  BY <1>1, <1>9 DEF vars, graphVars
<1> QED
  BY <1>4, <1>5, <1>6, <1>7, <1>8, <1>9 DEF Next

(* What upTo of Lineage is.                                                *)
IsLineage(f, e) ==
  f = [n \in 0..Hops |->
        IF n = 0 THEN {e} ELSE LET near == f[n - 1] IN near \cup Parents(near)]

LEMMA LineageIs ==
  ASSUME CatalogueInv, NEW e \in Nat
  PROVE  \E f : /\ Lineage(e) = f[Hops] /\ f[0] = {e}
                /\ \A n \in 1..Hops : f[n] = f[n - 1] \cup Parents(f[n - 1])
<1> DEFINE V == SUBSET Nat
           step == [x \in (1..Hops) \X V |-> x[2] \cup Parents(x[2])]
           own == {e}
<1>1. Hops \in Nat
  BY CatalogueAssumption
<1>2. \A group : Parents(group) \subseteq Nat
  BY DEF Parents, CatalogueInv, TypeOK, Edge
<1>3. ASSUME NEW x \in (1..Hops) \X V PROVE x[2] \cup Parents(x[2]) \in V
  BY <1>2
<1>4. step \in [(1..Hops) \X V -> V] /\ own \in V
  BY <1>3
<1>5. \A n \in 1..Hops, v \in V : step[<<n, v>>] = v \cup Parents(v)
  OBVIOUS
<1> HIDE DEF V, step, own
<1>6. PICK f \in [0..Hops -> V] : Counts(f, Hops, own, step)
  BY <1>1, <1>4, CountedRecursion
<1>7. ASSUME NEW n \in 0..Hops
      PROVE  f[n] = IF n = 0 THEN own ELSE f[n - 1] \cup Parents(f[n - 1])
  <2>1. CASE n = 0
    BY <1>6, <2>1 DEF Counts
  <2>2. CASE n # 0
    <3>1. n \in 1..Hops /\ n - 1 \in 0..Hops
      BY <1>1, <2>2
    <3>2. f[n - 1] \in V
      BY <1>6, <3>1
    <3> QED
      BY <1>5, <1>6, <2>2, <3>1, <3>2 DEF Counts
  <2> QED
    BY <2>1, <2>2
<1>8. IsLineage(f, e)
  <2> DEFINE body(n) == IF n = 0 THEN {e} ELSE LET near == f[n - 1] IN near \cup Parents(near)
  <2>1. f = [n \in 0..Hops |-> f[n]]
    BY <1>6
  <2>2. \A n \in 0..Hops : f[n] = body(n)
    BY <1>7 DEF own
  <2>3. f = [n \in 0..Hops |-> body(n)]
    <3> HIDE DEF body
    <3> QED
      BY <2>1, <2>2
  <2> QED
    BY <2>3, Zenon DEF IsLineage
<1> DEFINE g == CHOOSE g : IsLineage(g, e)
<1>9. IsLineage(g, e)
  BY <1>8
<1>10. Lineage(e) = g[Hops]
  BY DEF Lineage, IsLineage
<1> HIDE DEF g
<1>11. g[0] = {e}
  BY <1>1, <1>9 DEF IsLineage
<1>12. ASSUME NEW n \in 1..Hops PROVE g[n] = g[n - 1] \cup Parents(g[n - 1])
  <2>1. n \in 0..Hops /\ n # 0
    BY <1>1
  <2> QED
    BY <1>9, <2>1 DEF IsLineage
<1> QED
  BY <1>10, <1>11, <1>12

(* Each hop comes to a base or to an earlier experiment.                   *)
LEMMA LineageHasBase ==
  ASSUME CatalogueInv, AllHaveEdges, Len(experiments) <= Hops,
         NEW e \in DOMAIN experiments
  PROVE  \E b \in Lineage(e) : b \in DOMAIN experiments /\ experiments[b]
<1>1. /\ Hops \in Nat /\ Len(experiments) \in Nat
      /\ DOMAIN experiments = 1..Len(experiments) /\ e \in Nat
  BY CatalogueAssumption DEF CatalogueInv, TypeOK
<1>2. PICK f : /\ Lineage(e) = f[Hops] /\ f[0] = {e}
               /\ \A n \in 1..Hops : f[n] = f[n - 1] \cup Parents(f[n - 1])
  BY <1>1, LineageIs
<1> DEFINE Near(n) == \E b \in f[n] : b \in DOMAIN experiments /\ (experiments[b] \/ b <= e - n)
           T == {n \in 0..Hops : ~Near(n)}
<1>3. Near(0)
  BY <1>1, <1>2
<1>4. ASSUME NEW n \in 1..Hops, Near(n - 1) PROVE Near(n)
  <2>1. PICK b \in f[n - 1] : b \in DOMAIN experiments /\ (experiments[b] \/ b <= e - (n - 1))
    BY <1>4
  <2>2. b \in f[n]
    BY <1>2, <2>1
  <2>3. CASE experiments[b]
    BY <2>1, <2>2, <2>3
  <2>4. CASE ~experiments[b]
    <3>1. PICK x \in edges : x.from = b /\ x.type \in Chain
                             /\ x.to \in DOMAIN experiments /\ x.to < b
      BY <2>1, <2>4 DEF AllHaveEdges, HasEdges
    <3>2. x.to \in Parents(f[n - 1])
      BY <2>1, <3>1 DEF Parents
    <3>3. x.to \in f[n]
      BY <1>2, <3>2
    <3>4. x.to <= e - n
      BY <1>1, <2>1, <2>4, <3>1
    <3> QED
      BY <3>1, <3>3, <3>4
  <2> QED
    BY <2>3, <2>4
<1> HIDE DEF Near
<1>5. Near(Hops)
  <2>1. /\ T \subseteq Nat /\ Hops \in 0..Hops
        /\ \A n \in 0..Hops : n \notin T => Near(n)
    BY <1>1
  <2>2. \A n \in T : n \in 0..Hops /\ ~Near(n)
    OBVIOUS
  <2> HIDE DEF T
  <2>3. SUFFICES ASSUME T # {} PROVE FALSE
    BY <2>1
  <2>4. PICK n \in T : \A m \in T : n <= m
    BY <2>1, <2>3, LeastNumber
  <2>5. n \in 1..Hops
    BY <1>1, <1>3, <2>2
  <2>6. n - 1 \in 0..Hops /\ n - 1 \notin T
    BY <1>1, <2>4, <2>5
  <2> QED
    BY <1>4, <2>1, <2>2, <2>5, <2>6
<1> QED
  BY <1>1, <1>2, <1>5 DEF Near

(* As long as nothing was deleted, the listing shows every experiment      *)
(* whose lineage is within its reach: each leads to a base that has its    *)
(* recipe, its component and its model (experiment_repository.py:525-553). *)
THEOREM ListingComplete == Spec => []ListedWhileComplete
<1>1. Init => CompleteInv
  BY DEF Init, CompleteInv, AllHaveEdges
<1>2. CatalogueInv /\ CompleteInv => ListedWhileComplete
  <2> SUFFICES ASSUME CatalogueInv, CompleteInv, live = DOMAIN items,
                      alive = DOMAIN experiments, Len(experiments) <= Hops,
                      NEW e \in alive
               PROVE  Listed(e)
    BY DEF ListedWhileComplete
  <2>1. AllHaveEdges
    BY DEF CompleteInv, ItemGone
  <2>2. PICK b \in Lineage(e) : b \in DOMAIN experiments /\ experiments[b]
    BY <2>1, LineageHasBase
  <2>3. \A k \in Kind : \E x \in edges : x.from = b /\ x.type = Uses[k]
    BY <2>1, <2>2 DEF AllHaveEdges, HasEdges
  <2> QED
    BY <2>2, <2>3 DEF Listed
<1> QED
  BY <1>1, <1>2, CatalogueInvariance, CompleteStep, PTL DEF Spec

-----------------------------------------------------------------------------
(* The page of components *)

WizardInv ==
  /\ DOMAIN wizard = Author
  /\ \A s \in Author : wizard[s].step = 1 => wizard[s].rows = OfComponents!NoRows

LEMMA WizardMoves ==
  ASSUME WizardInv, NEW s \in Author, NEW step, NEW rows,
         step = 1 => rows = OfComponents!NoRows,
         wizard' = [wizard EXCEPT ![s] = [step |-> step, rows |-> rows]]
  PROVE  WizardInv'
<1> DEFINE new == [step |-> step, rows |-> rows]
<1>1. new.step = 1 => new.rows = OfComponents!NoRows
  OBVIOUS
<1>2. wizard' = [wizard EXCEPT ![s] = new]
  OBVIOUS
<1> HIDE DEF new
<1> QED BY <1>1, <1>2 DEF WizardInv, OfComponents!NoRows

LEMMA WizardClicks ==
  ASSUME WizardInv, NEW s \in Author, NEW step, NEW rows,
         step = 1 => rows = OfComponents!NoRows, OfComponents!Wizard(s, step, rows)
  PROVE  WizardInv'
  BY WizardMoves DEF OfComponents!Wizard

LEMMA WizardStep == WizardInv /\ [OfComponents!Next]_componentVars => WizardInv'
<1> SUFFICES ASSUME WizardInv, [OfComponents!Next]_componentVars PROVE WizardInv'
  OBVIOUS
<1>1. ASSUME NEW s \in Author, OfComponents!Create(s) PROVE WizardInv'
  <2>1. CASE OfComponents!Next1(s)
    BY <2>1, WizardClicks DEF OfComponents!Next1
  <2>2. CASE OfComponents!Back(s)
    BY <2>2, WizardClicks DEF OfComponents!Back
  <2>3. ASSUME NEW k, OfComponents!RemoveWizardRow(s, k) PROVE WizardInv'
    BY <2>3, WizardClicks DEF OfComponents!RemoveWizardRow
  <2>4. ASSUME NEW k, NEW v, OfComponents!WizardRow(s, k, v) PROVE WizardInv'
    BY <2>4, WizardClicks DEF OfComponents!WizardRow
  <2>5. ASSUME NEW c, NEW text, OfComponents!CreateComponent(s, c, text) PROVE WizardInv'
    BY <2>5, WizardMoves DEF OfComponents!CreateComponent
  <2> QED BY <1>1, <2>1, <2>2, <2>3, <2>4, <2>5 DEF OfComponents!Create
<1>2. ASSUME NEW s \in Staff, OfComponents!Edit(s) PROVE WizardInv'
  <2>1. UNCHANGED wizard
    BY <1>2 DEF OfComponents!Edit, OfComponents!Select, OfComponents!Input,
                OfComponents!DeleteComponent, OfComponents!TypeDescription,
                OfComponents!RemoveRow, OfComponents!TypeRow, OfComponents!PressUpdate,
                OfComponents!WriteComponent, OfComponents!UpdateFails
  <2> QED BY <2>1 DEF WizardInv
<1>3. CASE UNCHANGED componentVars
  BY <1>3 DEF componentVars, WizardInv
<1> QED BY <1>1, <1>2, <1>3 DEF OfComponents!Next

(* A wizard at its first step has no custom fields left of a component     *)
(* that was given up (components.py:211-221, 262-291).                     *)
THEOREM WizardClean == UISpec => []WizardStartsClean
<1>1. UIInit => WizardInv
  BY DEF UIInit, OfComponents!Init, WizardInv
<1>2. [UINext]_uiVars => [OfComponents!Next]_componentVars
  BY DEF UINext, uiVars, componentVars
<1>3. WizardInv => WizardStartsClean
  BY DEF WizardInv, WizardStartsClean, OfComponents!WizardStartsClean
<1> QED BY <1>1, <1>2, <1>3, WizardStep, PTL DEF UISpec

-----------------------------------------------------------------------------
(* The page of experiments *)

(* The Edit tab never holds an agentic field: those it reads are left out, *)
(* and those that are typed have other names.                              *)
NestedInv ==
  /\ DOMAIN nodes = Experiment
  /\ \A e \in Experiment : DOMAIN nodes[e] = {"description", "prop", "nested"}
  /\ NestedWithinFlat
  /\ DOMAIN experimentForm = Author
  /\ \A s \in Author :
       /\ DOMAIN experimentForm[s] = {"read", "description", "fields"}
       /\ DOMAIN experimentForm[s].fields \cap Agentic = {}

LEMMA ShownNotAgentic ==
  ASSUME NEW prop
  PROVE  DOMAIN OfExperiments!Shown(prop) \cap Agentic = {}
  BY DEF OfExperiments!Shown

(* A step of the Edit tab that writes nothing: another form of session s.  *)
LEMMA FormMoves ==
  ASSUME NestedInv, NEW s \in Author, NEW new, UNCHANGED nodes,
         experimentForm' = [experimentForm EXCEPT ![s] = new],
         DOMAIN new = {"read", "description", "fields"}, DOMAIN new.fields \cap Agentic = {}
  PROVE  NestedInv'
  BY DEF NestedInv, NestedWithinFlat, OfExperiments!NestedWithinFlat

(* A save of experiment e whose properties keep to the document.           *)
LEMMA NodeMoves ==
  ASSUME NestedInv, NEW e \in Experiment, NEW new, nodes' = [nodes EXCEPT ![e] = new],
         DOMAIN new = {"description", "prop", "nested"},
         \A f \in DOMAIN new.nested \cap Agentic :
           f \in DOMAIN new.prop /\ new.prop[f] = new.nested[f],
         DOMAIN experimentForm' = Author,
         \A s \in Author :
           /\ DOMAIN experimentForm'[s] = {"read", "description", "fields"}
           /\ DOMAIN experimentForm'[s].fields \cap Agentic = {}
  PROVE  NestedInv'
<1>1. DOMAIN nodes' = Experiment /\ nodes'[e] = new
  BY DEF NestedInv
<1>2. \A d \in Experiment \ {e} : nodes'[d] = nodes[d]
  BY DEF NestedInv
<1>3. NestedWithinFlat'
  BY <1>1, <1>2 DEF NestedInv, NestedWithinFlat, OfExperiments!NestedWithinFlat
<1> QED BY <1>1, <1>2, <1>3 DEF NestedInv

LEMMA NestedStep == NestedInv /\ [OfExperiments!Next]_experimentVars => NestedInv'
<1> SUFFICES ASSUME NestedInv, [OfExperiments!Next]_experimentVars PROVE NestedInv'
  OBVIOUS
<1>a. /\ OfExperiments!RunType \notin Agentic /\ OfExperiments!Notes \notin Agentic
      /\ Custom \cap Agentic = {}
  BY UIPagesAssumption DEF OfExperiments!RunType, OfExperiments!Notes
<1>1. ASSUME NEW s \in Author, NEW e \in Experiment, OfExperiments!OpenEdit(s, e)
      PROVE  NestedInv'
  <2> DEFINE new == [read |-> TRUE, fields |-> OfExperiments!Shown(nodes[e].prop),
                     description |-> nodes[e].description]
  <2>1. /\ DOMAIN new = {"read", "description", "fields"}
        /\ DOMAIN new.fields \cap Agentic = {}
    BY ShownNotAgentic
  <2>2. experimentForm' = [experimentForm EXCEPT ![s] = new] /\ UNCHANGED nodes
    BY <1>1 DEF OfExperiments!OpenEdit
  <2> HIDE DEF new
  <2> QED BY <2>1, <2>2, FormMoves
<1>2. ASSUME NEW s \in Author, NEW e \in Experiment, OfExperiments!ResetEdit(s, e)
      PROVE  NestedInv'
  <2> DEFINE new == [experimentForm[s] EXCEPT !.fields = OfExperiments!Shown(nodes[e].prop)]
  <2>1. /\ DOMAIN new = {"read", "description", "fields"}
        /\ DOMAIN new.fields \cap Agentic = {}
    BY ShownNotAgentic DEF NestedInv
  <2>2. experimentForm' = [experimentForm EXCEPT ![s] = new] /\ UNCHANGED nodes
    BY <1>2 DEF OfExperiments!ResetEdit, OfExperiments!Type
  <2> HIDE DEF new
  <2> QED BY <2>1, <2>2, FormMoves
<1>3. ASSUME NEW s \in Author, NEW e \in Experiment, OfExperiments!SaveEdit(s, e)
      PROVE  NestedInv'
  <2> DEFINE fields == experimentForm[s].fields
             prop   == nodes[e].prop
             saved  == OfExperiments!Updated(prop, fields)
             new    == [nodes[e] EXCEPT !.prop = saved,
                                        !.description = experimentForm[s].description]
  <2>1. DOMAIN fields \cap Agentic = {}
    BY DEF NestedInv
  <2>2. \A f \in DOMAIN prop \cap Agentic : f \in DOMAIN saved /\ saved[f] = prop[f]
    BY <2>1, <1>a DEF OfExperiments!Updated, OfExperiments!Merged, OfExperiments!With
  <2>3. \A f \in DOMAIN nodes[e].nested \cap Agentic :
          f \in DOMAIN prop /\ prop[f] = nodes[e].nested[f]
    BY DEF NestedInv, NestedWithinFlat, OfExperiments!NestedWithinFlat
  <2>4. nodes' = [nodes EXCEPT ![e].prop = saved,
                               ![e].description = experimentForm[s].description]
    BY <1>3 DEF OfExperiments!SaveEdit
  <2>5. experimentForm' = experimentForm
          \/ experimentForm' = [experimentForm EXCEPT ![s].fields = OfExperiments!Shown(saved)]
    BY <1>3 DEF OfExperiments!SaveEdit
  <2> HIDE DEF saved
  <2>6. /\ DOMAIN new = {"description", "prop", "nested"}
        /\ new.prop = saved /\ new.nested = nodes[e].nested
    BY DEF NestedInv
  <2>7. nodes' = [nodes EXCEPT ![e] = new]
    BY <2>4 DEF NestedInv
  <2>8. DOMAIN OfExperiments!Shown(saved) \cap Agentic = {}
    BY ShownNotAgentic
  <2> DEFINE shown == OfExperiments!Shown(saved)
  <2> HIDE DEF new, shown
  <2>9. /\ DOMAIN experimentForm' = Author
        /\ \A t \in Author :
             /\ DOMAIN experimentForm'[t] = {"read", "description", "fields"}
             /\ DOMAIN experimentForm'[t].fields \cap Agentic = {}
    BY <2>5, <2>8 DEF NestedInv, shown
  <2> QED BY <2>2, <2>3, <2>6, <2>7, <2>9, NodeMoves
<1>4. ASSUME NEW s \in Author, NEW text, OfExperiments!TypeDescription(s, text)
      PROVE  NestedInv'
  <2> DEFINE new == [experimentForm[s] EXCEPT !.description = text]
  <2>1. /\ DOMAIN new = {"read", "description", "fields"}
        /\ DOMAIN new.fields \cap Agentic = {}
    BY DEF NestedInv
  <2>2. experimentForm' = [experimentForm EXCEPT ![s] = new] /\ UNCHANGED nodes
    BY <1>4 DEF OfExperiments!TypeDescription, OfExperiments!Type
  <2> HIDE DEF new
  <2> QED BY <2>1, <2>2, FormMoves
<1>5. ASSUME NEW s \in Author, NEW f, OfExperiments!RemoveField(s, f) PROVE NestedInv'
  <2> DEFINE rest == OfExperiments!Without(experimentForm[s].fields, f)
             new  == [experimentForm[s] EXCEPT !.fields = rest]
  <2>1. DOMAIN rest \cap Agentic = {}
    BY DEF NestedInv, OfExperiments!Without
  <2>2. experimentForm' = [experimentForm EXCEPT ![s] = new] /\ UNCHANGED nodes
    BY <1>5 DEF OfExperiments!RemoveField, OfExperiments!Type
  <2> HIDE DEF rest
  <2>3. DOMAIN new = {"read", "description", "fields"} /\ new.fields = rest
    BY DEF NestedInv
  <2> HIDE DEF new
  <2> QED BY <2>1, <2>2, <2>3, FormMoves
<1>6. ASSUME NEW s \in Author, NEW f \in Custom, NEW v, OfExperiments!TypeField(s, f, v)
      PROVE  NestedInv'
  <2> DEFINE more == OfExperiments!With(experimentForm[s].fields, f, v)
             new  == [experimentForm[s] EXCEPT !.fields = more]
  <2>1. DOMAIN more \cap Agentic = {}
    BY <1>a DEF NestedInv, OfExperiments!With, OfExperiments!Merged
  <2>2. experimentForm' = [experimentForm EXCEPT ![s] = new] /\ UNCHANGED nodes
    BY <1>6 DEF OfExperiments!TypeField, OfExperiments!Type
  <2> HIDE DEF more
  <2>3. DOMAIN new = {"read", "description", "fields"} /\ new.fields = more
    BY DEF NestedInv
  <2> HIDE DEF new
  <2> QED BY <2>1, <2>2, <2>3, FormMoves
<1>7. ASSUME NEW s \in Author, NEW e \in Experiment, OfExperiments!SaveAgentic(s, e)
      PROVE  NestedInv'
  <2> DEFINE given == draft[s]
             flat  == OfExperiments!Flattened(nodes[e].prop, given)
             new   == [nodes[e] EXCEPT !.nested = given, !.prop = flat]
  <2>1. \A f \in DOMAIN given : f \in DOMAIN flat /\ flat[f] = given[f]
    BY DEF OfExperiments!Flattened, OfExperiments!Merged
  <2>2. nodes' = [nodes EXCEPT ![e].nested = given,
                    ![e].prop = OfExperiments!Flattened(@, given)]
        /\ UNCHANGED experimentForm
    BY <1>7 DEF OfExperiments!SaveAgentic
  <2> HIDE DEF given
  <2>3. nodes' = [nodes EXCEPT ![e] = new]
    BY <2>2 DEF NestedInv
  <2> HIDE DEF flat
  <2>4. /\ DOMAIN new = {"description", "prop", "nested"}
        /\ new.prop = flat /\ new.nested = given
    BY DEF NestedInv
  <2> HIDE DEF new
  <2>5. /\ DOMAIN experimentForm' = Author
        /\ \A t \in Author :
             /\ DOMAIN experimentForm'[t] = {"read", "description", "fields"}
             /\ DOMAIN experimentForm'[t].fields \cap Agentic = {}
    BY <2>2 DEF NestedInv
  <2> QED BY <2>1, <2>3, <2>4, <2>5, NodeMoves
<1>8. CASE UNCHANGED <<nodes, experimentForm>>
  BY <1>8 DEF NestedInv, NestedWithinFlat, OfExperiments!NestedWithinFlat
<1>9. ASSUME NEW s \in Author, OfExperiments!EditTab(s) PROVE NestedInv'
  BY <1>1, <1>2, <1>3, <1>4, <1>5, <1>6, <1>9 DEF OfExperiments!EditTab
<1>10. ASSUME NEW s \in Author, OfExperiments!AgenticTab(s) PROVE NestedInv'
  <2>1. CASE \E e \in Experiment : OfExperiments!SaveAgentic(s, e)
    BY <2>1, <1>7
  <2>2. CASE ~\E e \in Experiment : OfExperiments!SaveAgentic(s, e)
    BY <2>2, <1>8, <1>10 DEF OfExperiments!AgenticTab, OfExperiments!ClearDraft,
          OfExperiments!TypeDraft, OfExperiments!ReloadAgentic
  <2> QED BY <2>1, <2>2
<1> QED BY <1>8, <1>9, <1>10 DEF OfExperiments!Next, experimentVars

(* What the nested document of an experiment says of an agentic field, the *)
(* property says too, whichever forms are saved over it                    *)
(* (experiments.py:701-760).                                               *)
THEOREM NestedAgrees == UISpec => []NestedWithinFlat
<1>1. UIInit => NestedInv
  <2> SUFFICES ASSUME UIInit PROVE NestedInv
    OBVIOUS
  <2>1. OfExperiments!Init
    BY DEF UIInit
  <2>2. DOMAIN OfExperiments!NoFields = {}
    BY DEF OfExperiments!NoFields
  <2>3. /\ DOMAIN nodes = Experiment
        /\ \A e \in Experiment : /\ DOMAIN nodes[e] = {"description", "prop", "nested"}
                                 /\ nodes[e].nested = OfExperiments!NoFields
    BY <2>1 DEF OfExperiments!Init
  <2>4. /\ DOMAIN experimentForm = Author
        /\ \A s \in Author :
             /\ DOMAIN experimentForm[s] = {"read", "description", "fields"}
             /\ experimentForm[s].fields = OfExperiments!NoFields
    BY <2>1 DEF OfExperiments!Init, OfExperiments!Unread
  <2> QED BY <2>2, <2>3, <2>4 DEF NestedInv, NestedWithinFlat, OfExperiments!NestedWithinFlat
<1>2. [UINext]_uiVars => [OfExperiments!Next]_experimentVars
  BY DEF UINext, uiVars, experimentVars
<1>3. NestedInv => NestedWithinFlat
  BY DEF NestedInv
<1> QED BY <1>1, <1>2, <1>3, NestedStep, PTL DEF UISpec

-----------------------------------------------------------------------------
(* The parts in the whole *)

(* A behaviour of the interface is one of each of its parts: what is       *)
(* proved of a part holds of it beside the others.                         *)
LEMMA PartsBehave ==
  UISpec => /\ Spec /\ Managed!Spec /\ OfRecipes!Spec /\ OfComponents!Spec
            /\ OfModels!Spec /\ OfExperiments!Spec /\ OfSetups!Spec
<1>1. UIInit => /\ Init /\ Managed!Init /\ OfRecipes!Init /\ OfComponents!Init
                /\ OfModels!Init /\ OfExperiments!Init /\ OfSetups!Init
  BY DEF UIInit
<1>2. [UINext]_uiVars => [Next]_vars
  BY DEF UINext, uiVars, catalogueVars
<1>3. [UINext]_uiVars => [Managed!Next]_(Managed!vars)
  BY DEF UINext, uiVars, historyVars, Managed!vars
<1>4. [UINext]_uiVars => [OfRecipes!Next]_(OfRecipes!vars)
  BY DEF UINext, uiVars, recipeVars, OfRecipes!vars
<1>5. [UINext]_uiVars => [OfComponents!Next]_(OfComponents!vars)
  BY DEF UINext, uiVars, componentVars, OfComponents!vars
<1>6. [UINext]_uiVars => [OfModels!Next]_(OfModels!vars)
  BY DEF UINext, uiVars, modelVars, OfModels!vars
<1>7. [UINext]_uiVars => [OfExperiments!Next]_(OfExperiments!vars)
  BY DEF UINext, uiVars, experimentVars, OfExperiments!vars
<1>8. [UINext]_uiVars => [OfSetups!Next]_(OfSetups!vars)
  BY DEF UINext, uiVars, setupVars, OfSetups!vars
<1> QED
  BY <1>1, <1>2, <1>3, <1>4, <1>5, <1>6, <1>7, <1>8, PTL
  DEF UISpec, Spec, Managed!Spec, OfRecipes!Spec, OfComponents!Spec, OfModels!Spec,
      OfExperiments!Spec, OfSetups!Spec

(* The theorems about the history, with the names the interface has for    *)
(* its variables.                                                          *)
Proved == INSTANCE HistoryProofs
            WITH Name <- Title, MaxExperiments <- MaxHistory,
                 live <- kept, session <- managing

(* The instance of the history within the interface is the one they are    *)
(* about.                                                                  *)
LEMMA SameHistorySteps ==
  ASSUME Managed!Next
  PROVE  Proved!Next
<1>1. ASSUME NEW s, NEW name, NEW parent, Managed!BeginCreation(s, name, parent)
      PROVE  Proved!BeginCreation(s, name, parent)
  BY <1>1 DEF Managed!BeginCreation, Proved!BeginCreation, Managed!Idle, Proved!Idle,
         Managed!Depth, Proved!Depth, Managed!NextChainId, Proved!NextChainId,
         Managed!Maximum, Proved!Maximum, Managed!Continue, Proved!Continue
<1>2. ASSUME NEW s, Managed!CommitCreation(s) PROVE Proved!CommitCreation(s)
  BY <1>2 DEF Managed!CommitCreation, Proved!CommitCreation, Managed!Idle, Proved!Idle
<1>3. ASSUME NEW s, NEW id, Managed!CheckDeletable(s, id)
      PROVE  Proved!CheckDeletable(s, id)
  BY <1>3 DEF Managed!CheckDeletable, Proved!CheckDeletable, Managed!Idle, Proved!Idle,
         Managed!Parent, Proved!Parent, Managed!Continue, Proved!Continue
<1>4. ASSUME NEW s, Managed!DeleteExperiment(s) PROVE Proved!DeleteExperiment(s)
  BY <1>4 DEF Managed!DeleteExperiment, Proved!DeleteExperiment, Managed!Parent,
         Proved!Parent, Managed!Idle, Proved!Idle
<1>5. ASSUME NEW s, Managed!Abandon(s) PROVE Proved!Abandon(s)
  BY <1>5 DEF Managed!Abandon, Proved!Abandon, Managed!Idle, Proved!Idle, Managed!Continue,
         Proved!Continue
<1> QED
  BY <1>1, <1>2, <1>3, <1>4, <1>5 DEF Managed!Next, Proved!Next

LEMMA SameHistory == Managed!Spec => Proved!Spec
<1>1. Managed!Init => Proved!Init
  BY DEF Managed!Init, Proved!Init, Managed!Idle, Proved!Idle
<1>2. [Managed!Next]_(Managed!vars) => [Proved!Next]_(Proved!vars)
  BY SameHistorySteps DEF Managed!vars, Proved!vars
<1> QED
  BY <1>1, <1>2, PTL DEF Managed!Spec, Proved!Spec

(* Depths, and chain ids of one name, grow along every chain, whatever is  *)
(* deleted (02-triggers.cypher:30-67, experiment_repository.py:439-478).   *)
THEOREM UIChainsOrdered == UISpec => []OrderedAlongChains
<1>1. Proved!OrderedAlongChains => OrderedAlongChains
  BY DEF OrderedAlongChains, Managed!OrderedAlongChains, Proved!OrderedAlongChains,
         Managed!Ancestors, Proved!Ancestors, Managed!Parent, Proved!Parent
<1> QED
  BY <1>1, PartsBehave, SameHistory, Proved!ChainsOrdered, PTL

(* No more experiments of a name share a chain id than sessions create one *)
(* at a time (02-triggers.cypher:30-47).                                   *)
THEOREM UIClashesBounded ==
  ASSUME IsFiniteSet(Session)
  PROVE  UISpec => []ClashBounded
<1>1. Proved!ClashBounded => ClashBounded
  BY DEF ClashBounded, Managed!ClashBounded, Proved!ClashBounded, Managed!Cardinality,
         Proved!Cardinality
<1>2. Proved!Spec => []Proved!ClashBounded
  BY Proved!ClashesBounded DEF IsFiniteSet, Proved!IsFiniteSet
<1> QED
  BY <1>1, <1>2, PartsBehave, SameHistory, PTL

-----------------------------------------------------------------------------
(* What the page of components shows of a description *)

(* What a session keeps of the Edit tab, and of a save.                    *)
EditKeys == {"comp", "shown", "text", "rows"}
SaveKeys == {"on", "seen", "overtaken"}

(* A run that is about to write, and that no one has overtaken, changes    *)
(* the description only if its session had seen the one that is there.     *)
FormOK(f, v, inGraph) ==
  /\ DOMAIN f = EditKeys /\ DOMAIN v = SaveKeys
  /\ v.on /\ ~v.overtaken =>
       /\ f.comp \in DOMAIN inGraph
       /\ f.text # inGraph[f.comp].description => v.seen = inGraph[f.comp].description

FormsInv ==
  /\ DOMAIN componentForm = Staff /\ DOMAIN save = Staff
  /\ \A s \in Staff : FormOK(componentForm[s], save[s], components)

(* What is rendered of a form: a description other than the graph's was    *)
(* typed over the graph's.                                                 *)
LEMMA RenderedForm ==
  ASSUME NEW f, DOMAIN f = EditKeys, NEW inGraph, NEW g \in OfComponents!Rendered(f, inGraph)
  PROVE  /\ DOMAIN g = EditKeys
         /\ g.comp # "none" =>
              /\ g.comp \in DOMAIN inGraph
              /\ g.text # inGraph[g.comp].description
                   => f.shown = inGraph[g.comp].description
<1>1. CASE inGraph = OfComponents!NoRows
  BY <1>1 DEF OfComponents!Rendered, EditKeys
<1>2. CASE inGraph # OfComponents!NoRows
  <2>1. PICK c \in IF f.comp \in DOMAIN inGraph THEN {f.comp} ELSE DOMAIN inGraph :
          g = OfComponents!Filled(
                OfComponents!Refreshed([f EXCEPT !.comp = c], inGraph[c]), inGraph[c])
    BY <1>2 DEF OfComponents!Rendered
  <2> DEFINE first == [f EXCEPT !.comp = c]
             next == OfComponents!Refreshed(first, inGraph[c])
  <2>2. c \in DOMAIN inGraph
    OBVIOUS
  <2>3. /\ DOMAIN first = EditKeys /\ first.comp = c /\ first.shown = f.shown
        /\ first.text = f.text
    BY DEF EditKeys
  <2> HIDE DEF first
  <2>4. /\ DOMAIN next = EditKeys /\ next.comp = c
        /\ next.text # inGraph[c].description => f.shown = inGraph[c].description
    BY <2>3 DEF OfComponents!Refreshed, EditKeys
  <2>5. g = OfComponents!Filled(next, inGraph[c])
    BY <2>1 DEF first
  <2> HIDE DEF next
  <2>6. DOMAIN g = EditKeys /\ g.comp = c /\ g.text = next.text
    BY <2>4, <2>5 DEF OfComponents!Filled, EditKeys
  <2> QED
    BY <2>2, <2>4, <2>6
<1> QED
  BY <1>1, <1>2

LEMMA EditMoves ==
  ASSUME FormsInv, NEW s \in Staff, NEW g, componentForm' = [componentForm EXCEPT ![s] = g],
         DOMAIN save' = Staff, FormOK(g, save'[s], components'),
         \A t \in Staff \ {s} : FormOK(componentForm[t], save'[t], components')
  PROVE  FormsInv'
<1>1. /\ DOMAIN componentForm' = Staff /\ componentForm'[s] = g
      /\ \A t \in Staff \ {s} : componentForm'[t] = componentForm[t]
  BY DEF FormsInv
<1>2. ASSUME NEW t \in Staff PROVE FormOK(componentForm'[t], save'[t], components')
  <2>1. CASE t = s
    BY <1>1, <2>1
  <2>2. CASE t # s
    BY <1>1, <2>2
  <2> QED BY <2>1, <2>2
<1> QED BY <1>1, <1>2 DEF FormsInv

(* The session of a click is at no save.                                   *)
LEMMA ClickOK ==
  ASSUME NEW f, DOMAIN f = EditKeys, NEW inGraph, NEW g \in OfComponents!Rendered(f, inGraph),
         NEW v, DOMAIN v = SaveKeys, ~v.on, NEW nodes2
  PROVE  FormOK(g, v, nodes2)
  BY RenderedForm DEF FormOK

(* What was read of a component that is left as it is stays true.          *)
LEMMA LeftAsItIs ==
  ASSUME NEW f, NEW v, NEW inGraph, FormOK(f, v, inGraph), NEW nodes2,
         \A c \in DOMAIN inGraph : c \in DOMAIN nodes2 /\ nodes2[c] = inGraph[c]
  PROVE  FormOK(f, v, nodes2)
  BY DEF FormOK

LEMMA Overtaken ==
  ASSUME FormsInv, NEW s \in Staff, NEW c, NEW t \in Staff \ {s}, NEW nodes2,
         \A d \in DOMAIN components \ {c} : d \in DOMAIN nodes2 /\ nodes2[d] = components[d]
  PROVE  FormOK(componentForm[t], OfComponents!Overtake(s, c)[t], nodes2)
<1> DEFINE f == componentForm[t]
           v == save[t]
           w == OfComponents!Overtake(s, c)[t]
<1>1. FormOK(f, v, components)
  BY DEF FormsInv
<1>2. w = IF v.on /\ f.comp = c THEN [v EXCEPT !.overtaken = TRUE] ELSE v
  BY DEF OfComponents!Overtake
<1> HIDE DEF f, v, w
<1>3. ASSUME v.on /\ f.comp = c PROVE FormOK(f, w, nodes2)
  <2>1. w = [v EXCEPT !.overtaken = TRUE] /\ DOMAIN v = SaveKeys /\ DOMAIN f = EditKeys
    BY <1>1, <1>2, <1>3 DEF FormOK
  <2>2. DOMAIN w = SaveKeys /\ w.overtaken = TRUE
    BY <2>1 DEF SaveKeys
  <2> QED BY <2>1, <2>2 DEF FormOK
<1>4. ASSUME ~(v.on /\ f.comp = c) PROVE FormOK(f, w, nodes2)
  <2>1. w = v
    BY <1>2, <1>4
  <2> QED BY <1>1, <1>4, <2>1 DEF FormOK
<1> QED BY <1>3, <1>4 DEF f, w

(* A click on a page at no save, when components are left as they are but  *)
(* for new ones.                                                           *)
LEMMA FormClick ==
  ASSUME FormsInv, NEW s \in Staff, NEW f, DOMAIN f = EditKeys, NEW inGraph,
         OfComponents!Click(s, f, inGraph), save' = save,
         \A c \in DOMAIN components : c \in DOMAIN components' /\ components'[c] = components[c]
  PROVE  FormsInv'
<1>1. PICK g \in OfComponents!Rendered(f, inGraph) :
        componentForm' = [componentForm EXCEPT ![s] = g]
  BY DEF OfComponents!Click, OfComponents!Render
<1>2. ~save[s].on /\ DOMAIN save[s] = SaveKeys /\ DOMAIN save = Staff
  BY DEF OfComponents!Click, FormsInv, FormOK
<1> DEFINE nodes2 == components'
           saved == save'
<1>3. FormOK(g, save[s], nodes2)
  BY <1>1, <1>2, ClickOK
<1>4. ASSUME NEW t \in Staff PROVE FormOK(componentForm[t], save[t], nodes2)
  <2>1. FormOK(componentForm[t], save[t], components)
    BY DEF FormsInv
  <2> HIDE DEF nodes2
  <2>2. \A c \in DOMAIN components : c \in DOMAIN nodes2 /\ nodes2[c] = components[c]
    BY DEF nodes2
  <2> QED BY <2>1, <2>2, LeftAsItIs
<1> HIDE DEF nodes2
<1>5. /\ FormOK(g, saved[s], nodes2) /\ DOMAIN saved = Staff
      /\ \A t \in Staff \ {s} : FormOK(componentForm[t], saved[t], nodes2)
  BY <1>2, <1>3, <1>4
<1> QED BY <1>1, <1>5, EditMoves DEF nodes2, saved

LEMMA CreateForms ==
  ASSUME FormsInv, NEW s \in Staff, NEW c, NEW text, OfComponents!CreateComponent(s, c, text)
  PROVE  FormsInv'
<1>1. \A d \in DOMAIN components : d \in DOMAIN components' /\ components'[d] = components[d]
  BY DEF OfComponents!CreateComponent
<1> DEFINE nodes2 == components'
<1>2. /\ OfComponents!Click(s, componentForm[s], nodes2) /\ save' = save
      /\ DOMAIN componentForm[s] = EditKeys
  BY DEF OfComponents!CreateComponent, FormsInv, FormOK
<1> HIDE DEF nodes2
<1> QED BY <1>1, <1>2, FormClick

LEMMA DeleteForms ==
  ASSUME FormsInv, NEW s \in Staff, NEW c, OfComponents!DeleteComponent(s, c)
  PROVE  FormsInv'
<1> DEFINE nodes2 == components'
           saved == save'
<1>1. /\ ~save[s].on /\ DOMAIN componentForm[s] = EditKeys /\ DOMAIN save[s] = SaveKeys
      /\ saved = OfComponents!Overtake(s, c)
      /\ \A d \in DOMAIN components \ {c} : d \in DOMAIN nodes2 /\ nodes2[d] = components[d]
  BY DEF OfComponents!DeleteComponent, OfComponents!Click, FormsInv, FormOK
<1>2. PICK g \in OfComponents!Rendered(componentForm[s], components) :
        componentForm' = [componentForm EXCEPT ![s] = g]
  BY DEF OfComponents!DeleteComponent, OfComponents!Click, OfComponents!Render
<1>3. DOMAIN saved = Staff /\ saved[s] = save[s]
  BY <1>1 DEF OfComponents!Overtake
<1> HIDE DEF nodes2, saved
<1>4. FormOK(g, saved[s], nodes2)
  BY <1>1, <1>2, <1>3, ClickOK
<1>5. \A t \in Staff \ {s} : FormOK(componentForm[t], saved[t], nodes2)
  BY <1>1, Overtaken
<1> QED BY <1>2, <1>3, <1>4, <1>5, EditMoves DEF nodes2, saved

LEMMA PressForms ==
  ASSUME FormsInv, NEW s \in Staff, OfComponents!PressUpdate(s)
  PROVE  FormsInv'
<1>1. PICK g \in OfComponents!Rendered(componentForm[s], components) :
        g.comp # "none" /\ componentForm' = [componentForm EXCEPT ![s] = g]
  BY DEF OfComponents!PressUpdate
<1> DEFINE v == [on |-> TRUE, seen |-> componentForm[s].shown, overtaken |-> FALSE]
<1>2. save' = [save EXCEPT ![s] = v] /\ components' = components
  BY DEF OfComponents!PressUpdate
<1>3. /\ DOMAIN g = EditKeys /\ g.comp \in DOMAIN components
      /\ g.text # components[g.comp].description
           => componentForm[s].shown = components[g.comp].description
  BY <1>1, RenderedForm DEF FormsInv, FormOK
<1>4. DOMAIN v = SaveKeys /\ v.seen = componentForm[s].shown
  BY DEF SaveKeys
<1> HIDE DEF v
<1>5. FormOK(g, v, components)
  BY <1>3, <1>4 DEF FormOK
<1> DEFINE saved == save'
<1>6. /\ DOMAIN saved = Staff /\ saved[s] = v
      /\ \A t \in Staff \ {s} : saved[t] = save[t]
  BY <1>2 DEF FormsInv
<1> HIDE DEF saved
<1>7. \A t \in Staff \ {s} : FormOK(componentForm[t], saved[t], components)
  BY <1>6 DEF FormsInv
<1>8. FormOK(g, saved[s], components)
  BY <1>5, <1>6
<1> QED BY <1>1, <1>2, <1>6, <1>7, <1>8, EditMoves DEF saved

LEMMA WriteForms ==
  ASSUME FormsInv, NEW s \in Staff, OfComponents!WriteComponent(s)
  PROVE  FormsInv'
<1> DEFINE f == componentForm[s]
           nodes2 == components'
           saved == save'
           away == OfComponents!Overtake(s, f.comp)
<1>1. PICK rows : OfComponents!Render(s, [f EXCEPT !.rows = rows], nodes2)
  BY DEF OfComponents!WriteComponent
<1>2. DOMAIN [f EXCEPT !.rows = rows] = EditKeys
  BY DEF FormsInv, FormOK
<1>3. PICK g \in OfComponents!Rendered([f EXCEPT !.rows = rows], nodes2) :
        componentForm' = [componentForm EXCEPT ![s] = g]
  BY <1>1 DEF OfComponents!Render
<1>4. /\ saved = [away EXCEPT ![s] = OfComponents!NoSave]
      /\ \A d \in DOMAIN components \ {f.comp} : d \in DOMAIN nodes2 /\ nodes2[d] = components[d]
  BY DEF OfComponents!WriteComponent
<1>5. DOMAIN away = Staff
  BY DEF OfComponents!Overtake
<1> HIDE DEF away, nodes2, saved
<1>6. /\ DOMAIN saved = Staff /\ saved[s] = OfComponents!NoSave
      /\ \A t \in Staff \ {s} : saved[t] = away[t]
  BY <1>4, <1>5
<1>7. DOMAIN OfComponents!NoSave = SaveKeys /\ ~OfComponents!NoSave.on
  BY DEF OfComponents!NoSave, SaveKeys
<1>8. DOMAIN saved[s] = SaveKeys /\ ~saved[s].on
  BY <1>6, <1>7
<1>9. FormOK(g, saved[s], nodes2)
  BY <1>2, <1>3, <1>8, ClickOK
<1>10. \A t \in Staff \ {s} : FormOK(componentForm[t], saved[t], nodes2)
  BY <1>4, <1>6, Overtaken DEF away
<1> QED BY <1>3, <1>6, <1>9, <1>10, EditMoves DEF nodes2, saved

LEMMA FailForms ==
  ASSUME FormsInv, NEW s \in Staff, OfComponents!UpdateFails(s)
  PROVE  FormsInv'
<1> DEFINE saved == save'
<1>1. /\ saved = [save EXCEPT ![s] = OfComponents!NoSave]
      /\ components' = components /\ componentForm' = componentForm
  BY DEF OfComponents!UpdateFails
<1>2. DOMAIN OfComponents!NoSave = SaveKeys /\ ~OfComponents!NoSave.on
  BY DEF OfComponents!NoSave, SaveKeys
<1>3. /\ DOMAIN saved = Staff /\ saved[s] = OfComponents!NoSave
      /\ \A t \in Staff \ {s} : saved[t] = save[t]
  BY <1>1 DEF FormsInv
<1> HIDE DEF saved
<1>4. ASSUME NEW t \in Staff PROVE FormOK(componentForm[t], saved[t], components)
  <2>1. CASE t = s
    BY <1>2, <1>3, <2>1 DEF FormsInv, FormOK
  <2>2. CASE t # s
    BY <1>3, <2>2 DEF FormsInv
  <2> QED BY <2>1, <2>2
<1>5. DOMAIN componentForm = Staff
  BY DEF FormsInv
<1> QED BY <1>1, <1>3, <1>4, <1>5 DEF FormsInv, saved

LEMMA FormsStep == FormsInv /\ [OfComponents!Next]_(OfComponents!vars) => FormsInv'
<1> SUFFICES ASSUME FormsInv, [OfComponents!Next]_(OfComponents!vars) PROVE FormsInv'
  OBVIOUS
<1>1. ASSUME NEW s \in Author, OfComponents!Create(s) PROVE FormsInv'
  <2>0. s \in Staff /\ DOMAIN componentForm[s] = EditKeys
    BY UIPagesAssumption DEF FormsInv, FormOK
  <2>1. ASSUME NEW step, NEW rows, OfComponents!Wizard(s, step, rows) PROVE FormsInv'
    BY <2>0, <2>1, FormClick DEF OfComponents!Wizard
  <2>2. ASSUME NEW c, NEW text, OfComponents!CreateComponent(s, c, text) PROVE FormsInv'
    BY <2>0, <2>2, CreateForms
  <2> QED
    BY <1>1, <2>1, <2>2
    DEF OfComponents!Create, OfComponents!Next1, OfComponents!Back, OfComponents!WizardRow,
        OfComponents!RemoveWizardRow
<1>2. ASSUME NEW s \in Staff, OfComponents!Edit(s) PROVE FormsInv'
  <2> DEFINE f == componentForm[s]
  <2>0. DOMAIN f = EditKeys
    BY DEF FormsInv, FormOK
  <2>1. ASSUME NEW c, OfComponents!Select(s, c) PROVE FormsInv'
    <3>1. DOMAIN [f EXCEPT !.comp = c] = EditKeys
      BY <2>0
    <3> QED
      BY <2>1, <3>1, FormClick DEF OfComponents!Select, OfComponents!Input
  <2>2. ASSUME NEW text, OfComponents!TypeDescription(s, text) PROVE FormsInv'
    <3>1. DOMAIN [f EXCEPT !.text = text] = EditKeys
      BY <2>0
    <3> QED
      BY <2>2, <3>1, FormClick DEF OfComponents!TypeDescription, OfComponents!Input
  <2>3. ASSUME NEW rows, OfComponents!Input(s, [f EXCEPT !.rows = rows]) PROVE FormsInv'
    <3>1. DOMAIN [f EXCEPT !.rows = rows] = EditKeys
      BY <2>0
    <3> QED
      BY <2>3, <3>1, FormClick DEF OfComponents!Input
  <2>4. ASSUME NEW k, OfComponents!RemoveRow(s, k) PROVE FormsInv'
    BY <2>3, <2>4 DEF OfComponents!RemoveRow
  <2>5. ASSUME NEW k, NEW v, OfComponents!TypeRow(s, k, v) PROVE FormsInv'
    BY <2>3, <2>5 DEF OfComponents!TypeRow
  <2> QED
    BY <1>2, <2>1, <2>2, <2>4, <2>5, DeleteForms, PressForms, WriteForms, FailForms
    DEF OfComponents!Edit
<1>3. CASE UNCHANGED OfComponents!vars
  BY <1>3 DEF OfComponents!vars, FormsInv
<1> QED
  BY <1>1, <1>2, <1>3 DEF OfComponents!Next

(* What a step writes over a description its session saw, or that others   *)
(* wrote since its run read it.                                            *)
LEMMA WritesWhatWasSeen ==
  ASSUME FormsInv, [OfComponents!Next]_(OfComponents!vars),
         NEW c \in DOMAIN components \cap DOMAIN components',
         components'[c].description # components[c].description
  PROVE  \E s \in Staff :
           /\ OfComponents!WriteComponent(s) /\ componentForm[s].comp = c
           /\ save[s].seen = components[c].description \/ save[s].overtaken
<1>1. PICK s \in Staff : OfComponents!WriteComponent(s)
  <2>1. ASSUME NEW s \in Author, OfComponents!Create(s) PROVE FALSE
    BY <2>1
    DEF OfComponents!Create, OfComponents!Next1, OfComponents!Back, OfComponents!WizardRow,
        OfComponents!RemoveWizardRow, OfComponents!Wizard, OfComponents!CreateComponent
  <2>2. ASSUME NEW s \in Staff, OfComponents!Edit(s), ~OfComponents!WriteComponent(s)
        PROVE  FALSE
    BY <2>2
    DEF OfComponents!Edit, OfComponents!Select, OfComponents!Input,
        OfComponents!TypeDescription, OfComponents!RemoveRow, OfComponents!TypeRow,
        OfComponents!DeleteComponent, OfComponents!PressUpdate, OfComponents!UpdateFails
  <2>3. CASE UNCHANGED OfComponents!vars
    BY <2>3 DEF OfComponents!vars
  <2> QED
    BY <2>1, <2>2, <2>3 DEF OfComponents!Next
<1> DEFINE f == componentForm[s]
<1>2. /\ save[s].on /\ f.comp \in DOMAIN components
      /\ components' = [components EXCEPT
                          ![f.comp] = OfComponents!Updated(components[f.comp], f)]
  BY <1>1 DEF OfComponents!WriteComponent
<1>3. FormOK(f, save[s], components)
  BY DEF FormsInv
<1> HIDE DEF f
<1>4. f.comp = c
  BY <1>2
<1>5. components'[c].description = f.text
  BY <1>2, <1>4 DEF OfComponents!Updated
<1>6. save[s].seen = components[c].description \/ save[s].overtaken
  BY <1>2, <1>3, <1>4, <1>5 DEF FormOK
<1> QED
  BY <1>1, <1>4, <1>6 DEF f

(* A description changes only from what the session that changes it was    *)
(* shown when it pressed the button, or within a save that others have     *)
(* overtaken, however many sessions edit the same component                *)
(* (components.py:354-383, component_repository.py:221-256).               *)
THEOREM DescriptionsSeen == UISpec => DescriptionSeen
<1> DEFINE A == \A c \in OfComponents!Kept :
                  components'[c].description # components[c].description =>
                    \E s \in Staff :
                      /\ OfComponents!WriteComponent(s) /\ componentForm[s].comp = c
                      /\ save[s].seen = components[c].description \/ save[s].overtaken
<1>1. OfComponents!Init => FormsInv
  <2> SUFFICES ASSUME OfComponents!Init PROVE FormsInv
    OBVIOUS
  <2>1. /\ componentForm = [s \in Staff |-> OfComponents!Blank]
        /\ save = [s \in Staff |-> OfComponents!NoSave]
    BY DEF OfComponents!Init
  <2>2. FormOK(OfComponents!Blank, OfComponents!NoSave, components)
    BY DEF FormOK, OfComponents!Blank, OfComponents!NoSave, EditKeys, SaveKeys
  <2> QED BY <2>1, <2>2 DEF FormsInv
<1>2. FormsInv /\ [OfComponents!Next]_(OfComponents!vars) => A
  BY WritesWhatWasSeen DEF OfComponents!Kept
<1>3. OfComponents!Spec => [][A]_(OfComponents!vars)
  BY <1>1, <1>2, FormsStep, PTL DEF OfComponents!Spec
<1>4. UISpec => [][A]_(OfComponents!vars)
  BY <1>3, PartsBehave, PTL
<1> QED
  BY <1>4 DEF DescriptionSeen, OfComponents!DescriptionSeen

-----------------------------------------------------------------------------
(* The page of models *)

(* Of an edit state: what it has that was neither typed nor removed is     *)
(* what was read.                                                          *)
ReadState(e) ==
  e.read =>
    /\ DOMAIN e = {"read", "fields", "seen", "touched"}
    /\ \A f \in DOMAIN e.fields \ e.touched :
         f \in DOMAIN e.seen /\ e.fields[f] = e.seen[f]

EditsInv ==
  /\ DOMAIN modelEdit = Session
  /\ \A s \in Session : DOMAIN modelEdit[s] = Model
  /\ \A s \in Session, m \in Model : ReadState(modelEdit[s][m])

LEMMA FreshState ==
  ASSUME NEW fields
  PROVE  ReadState(OfModels!Unread) /\ ReadState(OfModels!Read(fields))
  BY DEF ReadState, OfModels!Unread, OfModels!Read

LEMMA StateMoves ==
  ASSUME EditsInv, NEW s \in Session, NEW m \in Model, NEW e, ReadState(e),
         modelEdit' = [modelEdit EXCEPT ![s][m] = e]
  PROVE  EditsInv'
<1>1. DOMAIN modelEdit' = Session /\ \A t \in Session : DOMAIN modelEdit'[t] = Model
  BY DEF EditsInv
<1>2. modelEdit'[s][m] = e
  BY DEF EditsInv
<1>3. \A t \in Session, n \in Model :
        t # s \/ n # m => modelEdit'[t][n] = modelEdit[t][n]
  BY DEF EditsInv
<1>4. \A t \in Session, n \in Model : ReadState(modelEdit'[t][n])
  BY <1>2, <1>3 DEF EditsInv
<1> QED
  BY <1>1, <1>4 DEF EditsInv

LEMMA AllForget ==
  ASSUME EditsInv, NEW m \in Model, modelEdit' = OfModels!Forget(m)
  PROVE  EditsInv'
<1>1. /\ DOMAIN modelEdit' = Session
      /\ \A s \in Session : modelEdit'[s] = [modelEdit[s] EXCEPT ![m] = OfModels!Unread]
  BY DEF OfModels!Forget
<1>2. \A s \in Session : DOMAIN modelEdit'[s] = Model
  BY <1>1 DEF EditsInv
<1>3. ASSUME NEW s \in Session, NEW n \in Model PROVE ReadState(modelEdit'[s][n])
  <2>1. modelEdit'[s][n] = IF n = m THEN OfModels!Unread ELSE modelEdit[s][n]
    BY <1>1 DEF EditsInv
  <2> QED
    BY <2>1, FreshState DEF EditsInv
<1> QED
  BY <1>1, <1>2, <1>3 DEF EditsInv

(* The names that are typed or removed are touched.                        *)
LEMMA StateTyped ==
  ASSUME EditsInv, NEW s \in Session, selected[s] \in Model, NEW f, NEW fields,
         modelEdit[s][selected[s]].read,
         \A g \in DOMAIN fields \ {f} :
           /\ g \in DOMAIN modelEdit[s][selected[s]].fields
           /\ fields[g] = modelEdit[s][selected[s]].fields[g],
         OfModels!Type(s, f, fields)
  PROVE  EditsInv'
<1> DEFINE m == selected[s]
           e == modelEdit[s][m]
           new == [e EXCEPT !.fields = fields, !.touched = @ \cup {f}]
<1>1. /\ DOMAIN e = {"read", "fields", "seen", "touched"}
      /\ \A g \in DOMAIN e.fields \ e.touched :
           g \in DOMAIN e.seen /\ e.fields[g] = e.seen[g]
  BY DEF EditsInv, ReadState
<1>2. modelEdit' = [modelEdit EXCEPT ![s][m].fields = fields,
                                     ![s][m].touched = @ \cup {f}]
  BY DEF OfModels!Type
<1>3. /\ DOMAIN new = {"read", "fields", "seen", "touched"}
      /\ new.fields = fields /\ new.touched = e.touched \cup {f} /\ new.seen = e.seen
  BY <1>1
<1>4. modelEdit' = [modelEdit EXCEPT ![s][m] = new]
  BY <1>1, <1>2 DEF EditsInv
<1> HIDE DEF new
<1>5. ReadState(new)
  BY <1>1, <1>3 DEF ReadState
<1> QED
  BY <1>4, <1>5, StateMoves

ModelsInv ==
  /\ EditsInv
  /\ DOMAIN models \subseteq Model

LEMMA ModelStep == ModelsInv /\ [OfModels!Next]_(OfModels!vars) => ModelsInv'
<1> SUFFICES ASSUME ModelsInv, [OfModels!Next]_(OfModels!vars) PROVE ModelsInv'
  OBVIOUS
<1>1. DOMAIN models' \subseteq Model
  BY DEF ModelsInv, OfModels!Next, OfModels!vars, OfModels!Create, OfModels!CreateModel,
         OfModels!UpsertModel, OfModels!Put, OfModels!Edit, OfModels!Select,
         OfModels!TypeUri, OfModels!Show, OfModels!RemoveField, OfModels!TypeField,
         OfModels!Type, OfModels!UpdateModel, OfModels!Editing, OfModels!DeleteModel
<1>2. ASSUME OfModels!Create \/ \E m \in Model : OfModels!DeleteModel(m)
      PROVE  EditsInv'
  BY <1>2, AllForget DEF ModelsInv, OfModels!Create, OfModels!CreateModel,
                         OfModels!UpsertModel, OfModels!DeleteModel
<1>3. ASSUME NEW s \in Session, NEW m \in Model, NEW i, OfModels!Show(s, m, i)
      PROVE  EditsInv'
  <2>1. CASE modelEdit' = [modelEdit EXCEPT ![s][m] = OfModels!Read(models[m].extra)]
    BY <2>1, StateMoves, FreshState DEF ModelsInv
  <2>2. CASE UNCHANGED modelEdit
    BY <2>2 DEF ModelsInv, EditsInv
  <2> QED
    BY <1>3, <2>1, <2>2 DEF OfModels!Show

<1>4. ASSUME NEW s \in Session, OfModels!Edit(s) PROVE EditsInv'
  <2>1. ASSUME NEW m \in Model, OfModels!Select(s, m) PROVE EditsInv'
    BY <1>3, <2>1 DEF OfModels!Select
  <2>2. ASSUME NEW uri, OfModels!TypeUri(s, uri) PROVE EditsInv'
    <3>1. CASE selected[s] \in DOMAIN models
      BY <1>3, <2>2, <3>1 DEF OfModels!TypeUri, ModelsInv
    <3>2. CASE selected[s] \notin DOMAIN models
      BY <2>2, <3>2 DEF OfModels!TypeUri, OfModels!Show, ModelsInv, EditsInv
    <3> QED
      BY <3>1, <3>2
  <2>3. ASSUME OfModels!Editing(s)
        PROVE  selected[s] \in Model /\ modelEdit[s][selected[s]].read
    BY <2>3 DEF OfModels!Editing, ModelsInv
  <2>4. ASSUME NEW f, OfModels!RemoveField(s, f) PROVE EditsInv'
    <3> DEFINE fields == modelEdit[s][selected[s]].fields
               rest == [g \in DOMAIN fields \ {f} |-> fields[g]]
    <3>1. OfModels!Type(s, f, rest) /\ OfModels!Editing(s)
      BY <2>4 DEF OfModels!RemoveField
    <3>2. \A g \in DOMAIN rest \ {f} : g \in DOMAIN fields /\ rest[g] = fields[g]
      OBVIOUS
    <3> HIDE DEF rest
    <3> QED
      BY <2>3, <3>1, <3>2, StateTyped DEF ModelsInv
  <2>5. ASSUME NEW f, NEW value, OfModels!TypeField(s, f, value) PROVE EditsInv'
    <3> DEFINE fields == modelEdit[s][selected[s]].fields
               more == OfModels!Merged(fields, [g \in {f} |-> value])
    <3>1. OfModels!Type(s, f, more) /\ OfModels!Editing(s)
      BY <2>5 DEF OfModels!TypeField
    <3>2. \A g \in DOMAIN more \ {f} : g \in DOMAIN fields /\ more[g] = fields[g]
      BY DEF OfModels!Merged
    <3> HIDE DEF more
    <3> QED
      BY <2>3, <3>1, <3>2, StateTyped DEF ModelsInv
  <2>6. ASSUME OfModels!UpdateModel(s) PROVE EditsInv'
    <3>1. OfModels!Editing(s)
          /\ modelEdit' = [modelEdit EXCEPT ![s][selected[s]] =
                             OfModels!Read(OfModels!NoFields)]
      BY <2>6 DEF OfModels!UpdateModel, OfModels!EditStateSaved
    <3> QED
      BY <2>3, <3>1, StateMoves, FreshState DEF ModelsInv
  <2> QED
    BY <1>4, <2>1, <2>2, <2>4, <2>5, <2>6 DEF OfModels!Edit
<1>5. ASSUME UNCHANGED OfModels!vars PROVE EditsInv'
  BY <1>5 DEF OfModels!vars, ModelsInv, EditsInv
<1>6. EditsInv'
  BY <1>2, <1>4, <1>5 DEF OfModels!Next
<1> QED
  BY <1>1, <1>6 DEF ModelsInv

(* Of a model's custom fields a save changes those that were typed since   *)
(* they were read, or takes them back to what they then were; after one    *)
(* save a session changes only what it types (models.py:315-318, 353, 376, *)
(* model_repository.py:201-222).                                           *)
THEOREM SavesWereRead == UISpec => SavesWhatWasRead
<1>1. OfModels!Init => ModelsInv
  BY FreshState DEF OfModels!Init, ModelsInv, EditsInv
<1>2. ASSUME ModelsInv, NEW s \in Session, OfModels!UpdateModel(s),
             NEW m, m = selected[s], NEW f \in DOMAIN models'[m].extra
      PROVE  \/ f \in modelEdit[s][m].touched
             \/ f \in DOMAIN models[m].extra /\ models'[m].extra[f] = models[m].extra[f]
             \/ f \in DOMAIN modelEdit[s][m].seen
                /\ models'[m].extra[f] = modelEdit[s][m].seen[f]
  <2> DEFINE e == modelEdit[s][m]
             extra == OfModels!Merged(models[m].extra, e.fields)
  <2>1. m \in DOMAIN models /\ m \in Model /\ e.read
    BY <1>2 DEF OfModels!UpdateModel, OfModels!Editing, ModelsInv
  <2>2. models'[m].extra = extra
    BY <1>2, <2>1 DEF OfModels!UpdateModel, OfModels!Put
  <2>3. \A g \in DOMAIN e.fields \ e.touched : g \in DOMAIN e.seen /\ e.fields[g] = e.seen[g]
    BY <2>1, <1>2 DEF ModelsInv, EditsInv, ReadState
  <2>4. f \in DOMAIN extra /\ extra[f] = IF f \in DOMAIN e.fields THEN e.fields[f]
                                         ELSE models[m].extra[f]
    BY <1>2, <2>2 DEF OfModels!Merged
  <2>5. f \in DOMAIN e.fields \/ f \in DOMAIN models[m].extra
    BY <2>4 DEF OfModels!Merged
  <2> HIDE DEF extra, e
  <2>6. \/ f \in e.touched
        \/ f \in DOMAIN models[m].extra /\ extra[f] = models[m].extra[f]
        \/ f \in DOMAIN e.seen /\ extra[f] = e.seen[f]
    BY <2>3, <2>4, <2>5
  <2> QED
    BY <2>2, <2>6 DEF e
<1> DEFINE A == \A s \in Session : OfModels!UpdateModel(s) =>
                  LET m == selected[s]
                      e == modelEdit[s][m]
                  IN  \A f \in DOMAIN models'[m].extra :
                        \/ f \in e.touched
                        \/ f \in DOMAIN models[m].extra
                             /\ models'[m].extra[f] = models[m].extra[f]
                        \/ f \in DOMAIN e.seen /\ models'[m].extra[f] = e.seen[f]
<1>3. ModelsInv /\ [OfModels!Next]_(OfModels!vars) => A
  BY <1>2
<1>4. OfModels!Spec => [][A]_(OfModels!vars)
  BY <1>1, <1>3, ModelStep, PTL DEF OfModels!Spec
<1>5. UISpec => [][A]_(OfModels!vars)
  BY <1>4, PartsBehave, PTL
<1> QED
  BY <1>5 DEF SavesWhatWasRead, OfModels!SavesWhatWasRead

-----------------------------------------------------------------------------
(* The page of recipes *)

(* Of an open form: what was not typed into is what the recipe was, as far *)
(* as the boxes of the form offer it.                                      *)
OpenForm(e) ==
  e.open =>
    /\ DOMAIN e = {"open", "state", "seen", "typed"}
    /\ e.state \in OfRecipes!Content /\ e.seen \in OfRecipes!Content
    /\ \A f \in Field \ e.typed :
         e.state.field[f] = IF e.seen.field[f] \in OfRecipes!Offered(f)
                            THEN e.seen.field[f] ELSE NoText
    /\ OfRecipes!Tasks \notin e.typed => e.state.tasks = e.seen.tasks \cap TaskEnum
    /\ OfRecipes!Whole \notin e.typed =>
         OfRecipes!Uris(e.state.entries) = OfRecipes!Uris(e.seen.entries)

(* The run of a save is that of an open form, and has read custom fields.  *)
SavingRun(s) ==
  saving[s].on =>
    /\ saving[s].recipe \in Recipe /\ saving[s].own \in [Own -> OfRecipes!MaybeText]
    /\ recipeEdit[s][saving[s].recipe].open

RecipesInv ==
  /\ \A r \in DOMAIN recipes : recipes[r] \in OfRecipes!Content
  /\ DOMAIN recipeEdit = Author
  /\ \A s \in Author : DOMAIN recipeEdit[s] = Recipe
  /\ \A s \in Author, r \in Recipe : OpenForm(recipeEdit[s][r])
  /\ DOMAIN saving = Author
  /\ \A s \in Author : SavingRun(s)

LEMMA ContentParts ==
  /\ \A node \in OfRecipes!Content :
       /\ DOMAIN node = {"field", "tasks", "entries"}
       /\ node.field \in [Field -> OfRecipes!MaybeText]
       /\ node.tasks \in SUBSET Topic /\ node.entries \in OfRecipes!Entries
  /\ \A field \in [Field -> OfRecipes!MaybeText], tasks \in SUBSET Topic,
        entries \in OfRecipes!Entries :
       [field |-> field, tasks |-> tasks, entries |-> entries] \in OfRecipes!Content
  BY DEF OfRecipes!Content

(* The sets of the recipes' form, from the assumption on the constants.    *)
LEMMA RecipeConstants ==
  /\ Own \subseteq Field /\ "scope" \notin Own
  /\ ScopeEnum \subseteq Text /\ NoText \notin Text /\ TaskEnum \subseteq Topic
  BY Zenon, UIPagesAssumption

(* What a box offers is text.                                              *)
LEMMA OfferedText == \A f : OfRecipes!Offered(f) \subseteq Text
  BY RecipeConstants DEF OfRecipes!Offered

(* A form is filled with the recipe: what a box offers of its fields and   *)
(* tasks, and the uris of its entries.                                     *)
LEMMA FilledForm ==
  ASSUME NEW node \in OfRecipes!Content
  PROVE  /\ OfRecipes!Filled(node) \in OfRecipes!Content
         /\ \A f \in Field : OfRecipes!Filled(node).field[f]
              = IF node.field[f] \in OfRecipes!Offered(f) THEN node.field[f] ELSE NoText
         /\ OfRecipes!Filled(node).tasks = node.tasks \cap TaskEnum
         /\ OfRecipes!Uris(OfRecipes!Filled(node).entries) = OfRecipes!Uris(node.entries)
<1> DEFINE old == node.entries
           new == [i \in DOMAIN old |->
                     [old[i] EXCEPT !.note = OfRecipes!CustomFields(old[i])]]
           field == [f \in Field |-> IF node.field[f] \in OfRecipes!Offered(f)
                                     THEN node.field[f] ELSE NoText]
           tasks == node.tasks \cap TaskEnum
<1>1. PICK n \in 0..MaxEntries : old \in [1..n -> OfRecipes!Entry]
  BY ContentParts DEF OfRecipes!Entries
<1>2. ASSUME NEW i \in 1..n PROVE new[i] \in OfRecipes!Entry /\ new[i].uri = old[i].uri
  <2>1. old[i] \in OfRecipes!Entry
    BY <1>1
  <2>2. OfRecipes!CustomFields(old[i]) \in OfRecipes!MaybeText
    BY DEF OfRecipes!CustomFields, OfRecipes!MaybeText
  <2>3. new[i] = [old[i] EXCEPT !.note = OfRecipes!CustomFields(old[i])]
    BY <1>1
  <2> HIDE DEF new
  <2> QED
    BY <2>1, <2>2, <2>3 DEF OfRecipes!Entry
<1>3. DOMAIN new = 1..n /\ DOMAIN old = 1..n
  BY <1>1
<1>4. OfRecipes!Filled(node) = [field |-> field, tasks |-> tasks, entries |-> new]
  BY DEF OfRecipes!Filled
<1>5. new = [i \in 1..n |-> new[i]]
  BY <1>3
<1>6. field \in [Field -> OfRecipes!MaybeText]
  BY ContentParts DEF OfRecipes!MaybeText
<1>7. tasks \in SUBSET Topic
  BY ContentParts
<1>8. \A f \in Field : field[f] = IF node.field[f] \in OfRecipes!Offered(f)
                                  THEN node.field[f] ELSE NoText
  OBVIOUS
<1> HIDE DEF new, field
<1>9. new \in [1..n -> OfRecipes!Entry]
  BY <1>2, <1>5
<1>10. new \in OfRecipes!Entries
  BY <1>9 DEF OfRecipes!Entries
<1>11. OfRecipes!Uris(new) = OfRecipes!Uris(old)
  BY <1>2, <1>3 DEF OfRecipes!Uris
<1>12. /\ OfRecipes!Filled(node).field = field /\ OfRecipes!Filled(node).tasks = tasks
       /\ OfRecipes!Filled(node).entries = new
  BY <1>4
<1>13. OfRecipes!Filled(node) \in OfRecipes!Content
  BY <1>4, <1>6, <1>7, <1>10, ContentParts
<1> HIDE DEF tasks
<1> QED
  BY <1>8, <1>11, <1>12, <1>13 DEF tasks

(* SET +=: each field is the one given or the one that was there.          *)
LEMMA MergedContent ==
  ASSUME NEW node \in OfRecipes!Content, NEW given \in OfRecipes!Content
  PROVE  /\ OfRecipes!Merged(node, given) \in OfRecipes!Content
         /\ OfRecipes!Merged(node, given).tasks = given.tasks
         /\ OfRecipes!Merged(node, given).entries = given.entries
         /\ \A f \in Field : OfRecipes!Merged(node, given).field[f]
              = IF given.field[f] = NoText THEN node.field[f] ELSE given.field[f]
<1> DEFINE field == [f \in Field |-> IF given.field[f] = NoText THEN node.field[f]
                                     ELSE given.field[f]]
<1>1. field \in [Field -> OfRecipes!MaybeText]
  BY ContentParts
<1>2. \A f \in Field : field[f] = IF given.field[f] = NoText THEN node.field[f]
                                  ELSE given.field[f]
  OBVIOUS
<1>3. OfRecipes!Merged(node, given)
        = [field |-> field, tasks |-> given.tasks, entries |-> given.entries]
  BY DEF OfRecipes!Merged
<1> HIDE DEF field
<1>4. given.tasks \in SUBSET Topic /\ given.entries \in OfRecipes!Entries
  BY ContentParts
<1>5. OfRecipes!Merged(node, given) \in OfRecipes!Content
  BY <1>1, <1>3, <1>4, ContentParts
<1> QED
  BY <1>2, <1>3, <1>5

(* The copy of a recipe that a save writes: of a custom field that the     *)
(* form has not, what the run read.                                        *)
LEMMA CopiedContent ==
  ASSUME NEW node \in OfRecipes!Content, NEW form \in OfRecipes!Content,
         NEW own \in [Own -> OfRecipes!MaybeText]
  PROVE  /\ OfRecipes!Copied(node, own, form) \in OfRecipes!Content
         /\ OfRecipes!Copied(node, own, form).tasks
              = IF form.tasks = {} THEN node.tasks ELSE form.tasks
         /\ OfRecipes!Copied(node, own, form).entries = form.entries
         /\ \A f \in Field : OfRecipes!Copied(node, own, form).field[f]
              = IF f \in Own /\ form.field[f] = NoText THEN own[f] ELSE form.field[f]
<1> DEFINE field == [f \in Field |-> IF f \in Own /\ form.field[f] = NoText THEN own[f]
                                     ELSE form.field[f]]
           tasks == IF form.tasks = {} THEN node.tasks ELSE form.tasks
<1>1. field \in [Field -> OfRecipes!MaybeText]
  BY ContentParts
<1>2. \A f \in Field : field[f] = IF f \in Own /\ form.field[f] = NoText THEN own[f]
                                  ELSE form.field[f]
  OBVIOUS
<1>3. OfRecipes!Copied(node, own, form)
        = [field |-> field, tasks |-> tasks, entries |-> form.entries]
  BY DEF OfRecipes!Copied
<1>4. tasks \in SUBSET Topic /\ form.entries \in OfRecipes!Entries
  BY ContentParts
<1> HIDE DEF field, tasks
<1>5. OfRecipes!Copied(node, own, form) \in OfRecipes!Content
  BY <1>1, <1>3, <1>4, ContentParts
<1>6. OfRecipes!Copied(node, own, form).tasks = tasks
  BY <1>3
<1> QED
  BY <1>2, <1>3, <1>5, <1>6 DEF tasks

(* A form of a session that is not being saved, or no more, changes.       *)
LEMMA FormChanges ==
  ASSUME RecipesInv, NEW s \in Author, NEW r \in Recipe, NEW e, OpenForm(e),
         recipeEdit' = [recipeEdit EXCEPT ![s][r] = e],
         \A q \in DOMAIN recipes' : recipes'[q] \in OfRecipes!Content,
         DOMAIN saving' = Author, ~saving'[s].on,
         \A t \in Author \ {s} : saving'[t] = saving[t]
  PROVE  RecipesInv'
<1>1. DOMAIN recipeEdit' = Author /\ \A t \in Author : DOMAIN recipeEdit'[t] = Recipe
  BY DEF RecipesInv
<1>2. \A t \in Author, q \in Recipe :
        recipeEdit'[t][q] = IF t = s /\ q = r THEN e ELSE recipeEdit[t][q]
  BY DEF RecipesInv
<1>3. \A t \in Author, q \in Recipe : OpenForm(recipeEdit'[t][q])
  BY <1>2 DEF RecipesInv
<1>4. ASSUME NEW t \in Author PROVE SavingRun(t)'
  <2>1. CASE t = s
    BY <2>1 DEF SavingRun
  <2>2. CASE t # s
    <3>1. SavingRun(t) /\ saving'[t] = saving[t]
      BY <2>2 DEF RecipesInv
    <3>2. saving[t].on => recipeEdit'[t][saving[t].recipe] = recipeEdit[t][saving[t].recipe]
      BY <1>2, <2>2, <3>1 DEF SavingRun
    <3> QED
      BY <3>1, <3>2 DEF SavingRun
  <2> QED
    BY <2>1, <2>2
<1> QED
  BY <1>1, <1>3, <1>4 DEF RecipesInv

LEMMA RecipePut ==
  ASSUME RecipesInv, NEW r, NEW content \in OfRecipes!Content, OfRecipes!Put(r, content)
  PROVE  \A q \in DOMAIN recipes' : recipes'[q] \in OfRecipes!Content
  BY DEF RecipesInv, OfRecipes!Put

(* A save ends.                                                            *)
LEMMA SavingEnds ==
  ASSUME RecipesInv, NEW s \in Author, saving' = [saving EXCEPT ![s] = OfRecipes!NoRun]
  PROVE  /\ DOMAIN saving' = Author /\ ~saving'[s].on
         /\ \A t \in Author \ {s} : saving'[t] = saving[t]
  BY DEF RecipesInv, OfRecipes!NoRun

(* A part is typed into, and the others stay.                              *)
LEMMA FormTyped ==
  ASSUME RecipesInv, NEW s \in Author, NEW r \in Recipe, NEW what,
         NEW state \in OfRecipes!Content,
         \A f \in Field \ {what} : state.field[f] = recipeEdit[s][r].state.field[f],
         what # OfRecipes!Tasks => state.tasks = recipeEdit[s][r].state.tasks,
         what # OfRecipes!Whole => state.entries = recipeEdit[s][r].state.entries,
         OfRecipes!Typed(s, r, what, state), ~saving[s].on
  PROVE  RecipesInv'
<1> DEFINE e == recipeEdit[s][r]
           new == [e EXCEPT !.state = state, !.typed = @ \cup {what}]
<1>1. e.open /\ OpenForm(e)
  BY DEF OfRecipes!Typed, OfRecipes!Editing, RecipesInv
<1>2. DOMAIN e = {"open", "state", "seen", "typed"}
  BY <1>1 DEF OpenForm
<1>3. recipeEdit' = [recipeEdit EXCEPT ![s][r].state = state,
                                       ![s][r].typed = @ \cup {what}]
      /\ recipes' = recipes /\ UNCHANGED saving
  BY DEF OfRecipes!Typed
<1>4. recipeEdit' = [recipeEdit EXCEPT ![s][r] = new]
  BY <1>2, <1>3 DEF RecipesInv
<1>5. /\ DOMAIN new = DOMAIN e /\ new.state = state /\ new.seen = e.seen
      /\ new.typed = e.typed \cup {what}
  BY <1>2
<1> HIDE DEF new
<1>6. OpenForm(new)
  BY <1>1, <1>5 DEF OpenForm
<1>7. \A q \in DOMAIN recipes' : recipes'[q] \in OfRecipes!Content
  BY <1>3 DEF RecipesInv
<1>8. DOMAIN saving' = Author /\ ~saving'[s].on
      /\ \A t \in Author \ {s} : saving'[t] = saving[t]
  BY <1>3 DEF RecipesInv
<1> QED
  BY <1>4, <1>6, <1>7, <1>8, FormChanges

(* What the write of a save stands on.                                     *)
LEMMA FormWritten ==
  ASSUME RecipesInv, NEW s \in Author, OfRecipes!WriteEdit(s)
  PROVE  /\ saving[s].recipe \in Recipe
         /\ saving[s].own \in [Own -> OfRecipes!MaybeText]
         /\ recipes[saving[s].recipe] \in OfRecipes!Content
         /\ recipeEdit[s][saving[s].recipe].open
  BY DEF OfRecipes!WriteEdit, OfRecipes!Exists, RecipesInv, SavingRun

LEMMA RecipeSaveStep ==
  ASSUME RecipesInv, NEW s \in Author, OfRecipes!WriteEdit(s)
  PROVE  RecipesInv'
<1> DEFINE r == saving[s].recipe
           form == recipeEdit[s][r]
           copied == OfRecipes!Copied(recipes[r], saving[s].own, form.state)
           content == OfRecipes!Merged(recipes[r], copied)
<1>1. r \in Recipe /\ saving[s].own \in [Own -> OfRecipes!MaybeText]
      /\ recipes[r] \in OfRecipes!Content
  BY FormWritten
<1>2. form.state \in OfRecipes!Content
  <2>1. form.open /\ OpenForm(form)
    BY <1>1, FormWritten DEF RecipesInv
  <2> HIDE DEF form
  <2> QED
    BY <2>1 DEF OpenForm
<1>3. copied \in OfRecipes!Content
  BY <1>1, <1>2, CopiedContent
<1>4. content \in OfRecipes!Content
  BY <1>1, <1>3, MergedContent
<1>5. /\ OfRecipes!Put(r, content)
      /\ recipeEdit' = [recipeEdit EXCEPT ![s][r] = OfRecipes!Closed]
      /\ saving' = [saving EXCEPT ![s] = OfRecipes!NoRun]
  BY DEF OfRecipes!WriteEdit
<1>6. OpenForm(OfRecipes!Closed)
  BY DEF OpenForm, OfRecipes!Closed
<1>7. DOMAIN saving' = Author /\ ~saving'[s].on
      /\ \A t \in Author \ {s} : saving'[t] = saving[t]
  BY <1>5, SavingEnds
<1> HIDE DEF r, content
<1>8. \A q \in DOMAIN recipes' : recipes'[q] \in OfRecipes!Content
  BY <1>4, <1>5, RecipePut
<1> QED
  BY <1>1, <1>5, <1>6, <1>7, <1>8, FormChanges

LEMMA RecipeEditStep ==
  ASSUME RecipesInv, NEW s \in Author, OfRecipes!Edit(s)
  PROVE  RecipesInv'
<1>0. /\ ~saving[s].on
      /\ UNCHANGED saving =>
           /\ DOMAIN saving' = Author /\ ~saving'[s].on
           /\ \A t \in Author \ {s} : saving'[t] = saving[t]
  BY DEF OfRecipes!Edit, OfRecipes!Idle, RecipesInv
<1>1. OpenForm(OfRecipes!Closed)
  BY DEF OpenForm, OfRecipes!Closed
<1>2. ASSUME NEW r \in Recipe, OfRecipes!OpenEdit(s, r) PROVE RecipesInv'
  <2> DEFINE new == [open |-> TRUE, state |-> OfRecipes!Filled(recipes[r]),
                     seen |-> recipes[r], typed |-> {}]
  <2>1. recipes[r] \in OfRecipes!Content
    BY <1>2 DEF OfRecipes!OpenEdit, OfRecipes!Exists, RecipesInv
  <2>2. /\ recipeEdit' = [recipeEdit EXCEPT ![s][r] = new]
        /\ recipes' = recipes /\ UNCHANGED saving
    BY <1>2 DEF OfRecipes!OpenEdit
  <2>3. OpenForm(new)
    BY <2>1, FilledForm DEF OpenForm
  <2> HIDE DEF new
  <2>4. \A q \in DOMAIN recipes' : recipes'[q] \in OfRecipes!Content
    BY <2>2 DEF RecipesInv
  <2> QED
    BY <1>0, <2>2, <2>3, <2>4, FormChanges
<1>3. ASSUME NEW r \in Recipe, OfRecipes!Editing(s, r)
      PROVE  /\ recipes[r] \in OfRecipes!Content
             /\ recipeEdit[s][r].state \in OfRecipes!Content
  BY <1>3 DEF OfRecipes!Editing, OfRecipes!Exists, RecipesInv, OpenForm
<1>4. ASSUME NEW r \in Recipe, OfRecipes!PressSave(s, r) PROVE RecipesInv'
  <2> DEFINE own == [f \in Own |-> recipes[r].field[f]]
             run == [on |-> TRUE, recipe |-> r, own |-> own]
  <2>1. own \in [Own -> OfRecipes!MaybeText]
    BY <1>3, <1>4, ContentParts, RecipeConstants DEF OfRecipes!PressSave
  <2>2. recipeEdit[s][r].open
    BY <1>4 DEF OfRecipes!PressSave, OfRecipes!Editing
  <2>3. saving' = [saving EXCEPT ![s] = run] /\ UNCHANGED <<recipes, recipeEdit>>
    BY <1>4 DEF OfRecipes!PressSave
  <2>4. DOMAIN saving' = Author
        /\ \A t \in Author : saving'[t] = IF t = s THEN run ELSE saving[t]
    BY <2>3 DEF RecipesInv
  <2>5. run.recipe = r /\ run.own = own
    OBVIOUS
  <2> HIDE DEF run, own
  <2>6. ASSUME NEW t \in Author PROVE SavingRun(t)'
    <3>1. CASE t = s
      BY <2>1, <2>2, <2>3, <2>4, <2>5, <3>1 DEF SavingRun
    <3>2. CASE t # s
      BY <2>3, <2>4, <3>2 DEF RecipesInv, SavingRun
    <3> QED
      BY <3>1, <3>2
  <2> QED
    BY <2>3, <2>4, <2>6 DEF RecipesInv
<1>5. ASSUME NEW r \in Recipe, OfRecipes!CancelEdit(s, r) PROVE RecipesInv'
  <2>1. /\ recipeEdit' = [recipeEdit EXCEPT ![s][r] = OfRecipes!Closed]
        /\ recipes' = recipes /\ UNCHANGED saving
    BY <1>5 DEF OfRecipes!CancelEdit
  <2>2. \A q \in DOMAIN recipes' : recipes'[q] \in OfRecipes!Content
    BY <2>1 DEF RecipesInv
  <2> QED
    BY <1>0, <1>1, <2>1, <2>2, FormChanges
<1>6. ASSUME NEW r \in Recipe, NEW f \in Field, NEW text \in OfRecipes!Offered(f) \cup {NoText},
             OfRecipes!TypeField(s, r, f, text)
      PROVE  RecipesInv'
  <2> DEFINE old == recipeEdit[s][r].state
             state == [old EXCEPT !.field[f] = text]
  <2>1. old \in OfRecipes!Content
    BY <1>3, <1>6 DEF OfRecipes!TypeField, OfRecipes!Typed
  <2>2. state = [field |-> [old.field EXCEPT ![f] = text], tasks |-> old.tasks,
                 entries |-> old.entries]
    BY <2>1, ContentParts
  <2>3. [old.field EXCEPT ![f] = text] \in [Field -> OfRecipes!MaybeText]
    BY <2>1, ContentParts, OfferedText DEF OfRecipes!MaybeText
  <2>4. state \in OfRecipes!Content
    BY <2>1, <2>2, <2>3, ContentParts
  <2>5. /\ \A g \in Field \ {f} : state.field[g] = old.field[g]
        /\ state.tasks = old.tasks /\ state.entries = old.entries
    BY <2>1, <2>2, ContentParts
  <2>6. OfRecipes!Typed(s, r, f, state)
    BY <1>6 DEF OfRecipes!TypeField
  <2> HIDE DEF state
  <2> QED
    BY <1>0, <2>4, <2>5, <2>6, FormTyped
<1>7. ASSUME NEW r \in Recipe, NEW tasks \in SUBSET TaskEnum, OfRecipes!PickTasks(s, r, tasks)
      PROVE  RecipesInv'
  <2> DEFINE old == recipeEdit[s][r].state
             state == [old EXCEPT !.tasks = tasks]
  <2>1. old \in OfRecipes!Content
    BY <1>3, <1>7 DEF OfRecipes!PickTasks, OfRecipes!Typed
  <2>2. state = [field |-> old.field, tasks |-> tasks, entries |-> old.entries]
    BY <2>1, ContentParts
  <2>3. tasks \in SUBSET Topic
    BY RecipeConstants
  <2>4. state \in OfRecipes!Content
    BY <2>1, <2>2, <2>3, ContentParts
  <2>5. state.field = old.field /\ state.entries = old.entries
    BY <2>2
  <2>6. OfRecipes!Typed(s, r, OfRecipes!Tasks, state)
    BY <1>7 DEF OfRecipes!PickTasks
  <2> HIDE DEF state
  <2> QED
    BY <1>0, <2>4, <2>5, <2>6, FormTyped
<1>8. ASSUME NEW r \in Recipe, NEW entries \in OfRecipes!Entries,
             OfRecipes!TypeEntries(s, r, entries)
      PROVE  RecipesInv'
  <2> DEFINE old == recipeEdit[s][r].state
             state == [old EXCEPT !.entries = entries]
  <2>1. old \in OfRecipes!Content
    BY <1>3, <1>8 DEF OfRecipes!TypeEntries, OfRecipes!Typed
  <2>2. state = [field |-> old.field, tasks |-> old.tasks, entries |-> entries]
    BY <2>1, ContentParts
  <2>3. state \in OfRecipes!Content
    BY <2>1, <2>2, ContentParts
  <2>4. state.field = old.field /\ state.tasks = old.tasks
    BY <2>2
  <2>5. OfRecipes!Typed(s, r, OfRecipes!Whole, state)
    BY <1>8 DEF OfRecipes!TypeEntries
  <2> HIDE DEF state
  <2> QED
    BY <1>0, <2>3, <2>4, <2>5, FormTyped
<1> QED
  BY <1>2, <1>4, <1>5, <1>6, <1>7, <1>8 DEF OfRecipes!Edit

LEMMA RecipeStep == RecipesInv /\ [OfRecipes!Next]_(OfRecipes!vars) => RecipesInv'
<1> SUFFICES ASSUME RecipesInv, [OfRecipes!Next]_(OfRecipes!vars) PROVE RecipesInv'
  OBVIOUS
<1>1. ASSUME \A q \in DOMAIN recipes' : recipes'[q] \in OfRecipes!Content,
             UNCHANGED <<recipeEdit, saving>>
      PROVE  RecipesInv'
  BY <1>1 DEF RecipesInv, SavingRun
<1>2. ASSUME NEW s \in Staff, OfRecipes!Upload(s) PROVE RecipesInv'
  <2>1. ASSUME NEW r, OfRecipes!ConfirmOverwrite(s, r) PROVE RecipesInv'
    BY <1>1, <2>1 DEF OfRecipes!ConfirmOverwrite, RecipesInv
  <2>2. ASSUME NEW r, NEW file \in OfRecipes!Yaml, OfRecipes!SaveUpload(s, r, file)
        PROVE  RecipesInv'
    <3> DEFINE content == IF OfRecipes!Exists(r) THEN OfRecipes!Merged(recipes[r], file)
                          ELSE file
    <3>1. file \in OfRecipes!Content
      BY DEF OfRecipes!Yaml
    <3>2. content \in OfRecipes!Content
      BY <3>1, MergedContent DEF OfRecipes!Exists, RecipesInv
    <3>3. OfRecipes!Put(r, content) /\ UNCHANGED <<recipeEdit, saving>>
      BY <2>2 DEF OfRecipes!SaveUpload
    <3> HIDE DEF content
    <3> QED
      BY <1>1, <3>2, <3>3, RecipePut
  <2> QED
    BY <1>2, <2>1, <2>2 DEF OfRecipes!Upload
<1>3. ASSUME NEW r, OfRecipes!DeleteRecipe(r) PROVE RecipesInv'
  BY <1>1, <1>3 DEF OfRecipes!DeleteRecipe, RecipesInv
<1>4. ASSUME NEW r, NEW content \in OfRecipes!Drafts, OfRecipes!CreateRecipe(r, content)
      PROVE  RecipesInv'
  <2> DEFINE fields == content.field
             tasks == content.tasks
             entries == content.entries
  <2>1. /\ content = [field |-> fields, tasks |-> tasks, entries |-> entries]
        /\ fields \in OfRecipes!Fields /\ tasks \in SUBSET TaskEnum
        /\ entries \in OfRecipes!Entries
    BY <1>4 DEF OfRecipes!Drafts
  <2>2. tasks \in SUBSET Topic
    BY <2>1, RecipeConstants
  <2>3. fields \in [Field -> OfRecipes!MaybeText]
    BY <2>1 DEF OfRecipes!Fields
  <2> HIDE DEF fields, tasks, entries
  <2>4. content \in OfRecipes!Content
    BY <2>1, <2>2, <2>3, ContentParts
  <2> QED
    BY <1>1, <1>4, <2>4, RecipePut DEF OfRecipes!CreateRecipe
<1>5. ASSUME NEW s \in Author, OfRecipes!SaveFails(s) PROVE RecipesInv'
  <2>1. saving' = [saving EXCEPT ![s] = OfRecipes!NoRun] /\ UNCHANGED <<recipes, recipeEdit>>
    BY <1>5 DEF OfRecipes!SaveFails
  <2>2. DOMAIN saving' = Author /\ ~saving'[s].on
        /\ \A t \in Author \ {s} : saving'[t] = saving[t]
    BY <2>1, SavingEnds
  <2>3. ASSUME NEW t \in Author PROVE SavingRun(t)'
    BY <2>1, <2>2 DEF RecipesInv, SavingRun
  <2> QED
    BY <2>1, <2>2, <2>3 DEF RecipesInv
<1>6. CASE UNCHANGED OfRecipes!vars
  BY <1>1, <1>6 DEF OfRecipes!vars, RecipesInv
<1> QED
  BY <1>2, <1>3, <1>4, <1>5, <1>6, RecipeEditStep, RecipeSaveStep DEF OfRecipes!Next

(* What is merged of a form's copy changes only what was typed.            *)
LEMMA WrittenForm ==
  ASSUME NEW before \in OfRecipes!Content, NEW form, form.open, OpenForm(form),
         NEW own \in [Own -> OfRecipes!MaybeText]
  PROVE  OfRecipes!SavedOnlyForm(before,
           OfRecipes!Merged(before, OfRecipes!Copied(before, own, form.state)), form, own)
<1> DEFINE state == form.state
           copied == OfRecipes!Copied(before, own, state)
           after == OfRecipes!Merged(before, copied)
<1>1. state \in OfRecipes!Content /\ form.seen \in OfRecipes!Content
  BY DEF OpenForm
<1>2. \A f \in Field \ form.typed : state.field[f]
        = IF form.seen.field[f] \in OfRecipes!Offered(f) THEN form.seen.field[f] ELSE NoText
  BY DEF OpenForm
<1>3. OfRecipes!Tasks \notin form.typed => state.tasks = form.seen.tasks \cap TaskEnum
  BY DEF OpenForm
<1>4. OfRecipes!Whole \notin form.typed =>
        OfRecipes!Uris(state.entries) = OfRecipes!Uris(form.seen.entries)
  BY DEF OpenForm
<1> HIDE DEF state
<1>5. copied \in OfRecipes!Content
  BY <1>1, CopiedContent
<1>6. copied.tasks = IF state.tasks = {} THEN before.tasks ELSE state.tasks
  BY <1>1, CopiedContent
<1>7. copied.entries = state.entries
  BY <1>1, CopiedContent
<1>8. \A f \in Field : copied.field[f]
        = IF f \in Own /\ state.field[f] = NoText THEN own[f] ELSE state.field[f]
  BY <1>1, CopiedContent
<1> HIDE DEF copied
<1>9. after.tasks = copied.tasks /\ after.entries = copied.entries
  BY <1>5, MergedContent
<1>10. \A f \in Field : after.field[f]
         = IF copied.field[f] = NoText THEN before.field[f] ELSE copied.field[f]
  BY <1>5, MergedContent
<1> HIDE DEF after
<1>11. ASSUME NEW f \in Field \ form.typed
       PROVE  \/ after.field[f] = before.field[f]
              \/ form.seen.field[f] \in Text /\ after.field[f] = form.seen.field[f]
              \/ f \in Own /\ form.seen.field[f] = NoText /\ after.field[f] = own[f]
  <2>1. form.seen.field[f] \in Text \cup {NoText} /\ NoText \notin Text
    BY <1>1, ContentParts, RecipeConstants DEF OfRecipes!MaybeText
  <2>2. f \in Own => OfRecipes!Offered(f) = Text
    BY RecipeConstants DEF OfRecipes!Offered
  <2>3. OfRecipes!Offered(f) \subseteq Text
    BY OfferedText
  <2> QED
    BY <1>2, <1>8, <1>10, <2>1, <2>2, <2>3
<1>12. OfRecipes!Tasks \notin form.typed =>
         after.tasks \in {before.tasks, form.seen.tasks \cap TaskEnum}
  BY <1>3, <1>6, <1>9
<1>13. OfRecipes!Whole \notin form.typed =>
         OfRecipes!Uris(after.entries) = OfRecipes!Uris(form.seen.entries)
  BY <1>4, <1>7, <1>9
<1>14. OfRecipes!SavedOnlyForm(before, after, form, own)
  BY <1>11, <1>12, <1>13 DEF OfRecipes!SavedOnlyForm
<1> QED
  BY <1>14 DEF after, copied, state

(* A save through the form of a recipe changes what was typed since it was *)
(* opened; what others changed meanwhile it takes back to what it was      *)
(* then, or as far as the form has none of it to what the saving run read, *)
(* never to anything older (recipes.py:571-654, 868-928).                  *)
THEOREM SavesOfOwnForm == UISpec => SavesOwnForm
<1>1. OfRecipes!Init => RecipesInv
  BY DEF OfRecipes!Init, RecipesInv, OpenForm, OfRecipes!Closed, SavingRun, OfRecipes!NoRun
<1> DEFINE A == \A s \in Author : OfRecipes!WriteEdit(s) =>
                  LET r == saving[s].recipe
                  IN  OfRecipes!SavedOnlyForm(recipes[r], recipes'[r], recipeEdit[s][r],
                                              saving[s].own)
<1>2. RecipesInv /\ [OfRecipes!Next]_(OfRecipes!vars) => A
  <2>1. ASSUME RecipesInv, NEW s \in Author, OfRecipes!WriteEdit(s),
               NEW r, r = saving[s].recipe
        PROVE  OfRecipes!SavedOnlyForm(recipes[r], recipes'[r], recipeEdit[s][r], saving[s].own)
    <3> DEFINE form == recipeEdit[s][r]
               own == saving[s].own
               after == OfRecipes!Merged(recipes[r],
                          OfRecipes!Copied(recipes[r], own, form.state))
    <3>1. form.open /\ OpenForm(form)
      BY <2>1, FormWritten DEF RecipesInv
    <3>2. recipes[r] \in OfRecipes!Content /\ own \in [Own -> OfRecipes!MaybeText]
      BY <2>1, FormWritten
    <3>3. OfRecipes!Put(r, after)
      BY <2>1 DEF OfRecipes!WriteEdit
    <3> HIDE DEF form, own
    <3>4. OfRecipes!SavedOnlyForm(recipes[r], after, form, own)
      BY <3>1, <3>2, WrittenForm
    <3> HIDE DEF after
    <3>5. recipes'[r] = after
      BY <3>3 DEF OfRecipes!Put
    <3> QED
      BY <3>4, <3>5 DEF form, own
  <2> QED
    BY <2>1
<1>3. OfRecipes!Spec => [][A]_(OfRecipes!vars)
  BY <1>1, <1>2, RecipeStep, PTL DEF OfRecipes!Spec
<1>4. UISpec => [][A]_(OfRecipes!vars)
  BY <1>3, PartsBehave, PTL
<1> QED
  BY <1>4 DEF SavesOwnForm, OfRecipes!SavesOwnForm

-----------------------------------------------------------------------------
(* The page of setups *)

FormKeys == {"type", "component", "model", "recipe", "manual", "typed", "picked"}

(* The box of models is not drawn, or holds one of its options: the one    *)
(* that was last picked, or the first.                                     *)
ModelBox(form) ==
  \/ form.model = OfSetups!NoBox
  \/ /\ DOMAIN form.model = {"options", "choice"}
     /\ \E i \in DOMAIN form.model.options : form.model.choice = form.model.options[i]
     /\ form.model.choice \in {form.picked, form.model.options[1]}

FormInv(form) ==
  form # OfSetups!NoForm => DOMAIN form = FormKeys /\ ModelBox(form)

SetupInv ==
  /\ DOMAIN listing = {"models", "components", "recipes"}
  /\ listing.models \in Seq(ModelRow)
  /\ DOMAIN page = Author
  /\ \A s \in Author : /\ DOMAIN page[s] = {"form", "asked", "scaffold"}
                       /\ FormInv(page[s].form)

(* A form, drawn: what there is in the box of models is listed now.        *)
LEMMA DrawnForm ==
  ASSUME listing.models \in Seq(ModelRow), NEW form,
         DOMAIN form = FormKeys, ModelBox(form)
  PROVE  LET drawn == OfSetups!Drawn(form)
         IN  /\ DOMAIN drawn = FormKeys /\ ModelBox(drawn)
             /\ drawn.picked = form.picked
             /\ drawn.model # OfSetups!NoBox =>
                  drawn.model.options = OfSetups!Names(listing.models)
<1> DEFINE rows == listing.models
           typing == form.manual \/ rows = <<>>
           component == OfSetups!Box(form.component, OfSetups!Names(listing.components))
           model == IF typing THEN OfSetups!NoBox
                    ELSE OfSetups!Box(form.model, OfSetups!Names(rows))
           typed == IF typing THEN form.typed ELSE OfSetups!NoModel
           recipe == IF form.type = "merging" THEN OfSetups!NoBox
                     ELSE OfSetups!Box(form.recipe, OfSetups!RecipeOptions)
           drawn == [form EXCEPT !.component = component, !.model = model,
                                 !.typed = typed, !.recipe = recipe]
<1>1. OfSetups!Drawn(form) = drawn
  BY DEF OfSetups!Drawn, FormKeys
<1>2. \/ model = OfSetups!NoBox
      \/ /\ DOMAIN model = {"options", "choice"}
         /\ model.options = OfSetups!Names(rows)
         /\ \E i \in DOMAIN model.options : model.choice = model.options[i]
         /\ model.choice \in {form.picked, model.options[1]}
  <2>1. CASE typing
    BY <2>1
  <2>2. CASE ~typing
    <3> DEFINE names == OfSetups!Names(rows)
    <3>1. 1 \in DOMAIN names /\ names # <<>>
      BY <2>2 DEF OfSetups!Names
    <3> HIDE DEF names
    <3>2. model = OfSetups!Box(form.model, names)
      BY <2>2 DEF names
    <3>3. CASE names = form.model.options
      <4>1. model = form.model
        BY <3>2, <3>3 DEF OfSetups!Box
      <4>2. form.model # OfSetups!NoBox
        BY <3>1, <3>3 DEF OfSetups!NoBox
      <4> QED
        BY <3>3, <4>1, <4>2 DEF ModelBox, names
    <3>4. CASE names # form.model.options
      <4>1. model = [options |-> names, choice |-> names[1]]
        BY <3>1, <3>2, <3>4 DEF OfSetups!Box
      <4> HIDE DEF model
      <4>2. DOMAIN model = {"options", "choice"} /\ model.options = names
            /\ model.choice = names[1]
        BY <4>1
      <4> QED
        BY <3>1, <4>2 DEF names
    <3> QED
      BY <3>3, <3>4
  <2> QED
    BY <2>1, <2>2
<1> HIDE DEF component, model, typed, recipe
<1>3. DOMAIN drawn = FormKeys /\ drawn.model = model /\ drawn.picked = form.picked
  BY DEF FormKeys
<1> HIDE DEF drawn
<1>4. ModelBox(drawn)
  BY <1>2, <1>3 DEF ModelBox
<1> QED
  BY <1>1, <1>2, <1>3, <1>4

LEMMA PageMoves ==
  ASSUME SetupInv, NEW s \in Author, NEW form, FormInv(form), NEW asked, NEW scaffold,
         page' = [page EXCEPT ![s] =
                    [form |-> form, asked |-> asked, scaffold |-> scaffold]],
         UNCHANGED listing
  PROVE  SetupInv'
<1> DEFINE new == [form |-> form, asked |-> asked, scaffold |-> scaffold]
<1>1. DOMAIN new = {"form", "asked", "scaffold"} /\ new.form = form
  OBVIOUS
<1>2. page' = [page EXCEPT ![s] = new]
  OBVIOUS
<1> HIDE DEF new
<1> QED
  BY <1>1, <1>2 DEF SetupInv

(* An interaction with a form, and how it is drawn then.                   *)
LEMMA FormShown ==
  ASSUME SetupInv, NEW s \in Author, NEW form, FormInv(form), OfSetups!Shows(s, form),
         UNCHANGED listing
  PROVE  SetupInv'
<1>1. [OfSetups!Idle EXCEPT !.form = form]
        = [form |-> form, asked |-> OfSetups!NoForm, scaffold |-> OfSetups!NoScaffold]
  BY DEF OfSetups!Idle
<1>2. page' = [page EXCEPT ![s] = [OfSetups!Idle EXCEPT !.form = form]]
  BY DEF OfSetups!Shows
<1>3. page' = [page EXCEPT ![s] = [form |-> form, asked |-> OfSetups!NoForm,
                                   scaffold |-> OfSetups!NoScaffold]]
  BY <1>1, <1>2
<1> QED
  BY <1>3, PageMoves

LEMMA Interaction ==
  ASSUME SetupInv, NEW s \in Author, NEW form, DOMAIN form = FormKeys, ModelBox(form),
         OfSetups!Interacts(s, form)
  PROVE  SetupInv'
<1> DEFINE drawn == OfSetups!Drawn(form)
<1>1. FormInv(drawn)
  BY DrawnForm DEF SetupInv, FormInv
<1>2. OfSetups!Shows(s, drawn) /\ UNCHANGED listing
  BY DEF OfSetups!Interacts
<1> HIDE DEF drawn
<1> QED
  BY <1>1, <1>2, FormShown

LEMMA ListingMoves ==
  ASSUME SetupInv, OfSetups!Others
  PROVE  SetupInv'
<1>1. PICK what, rows :
        /\ what \in DOMAIN listing /\ OfSetups!Changed(what, rows)
        /\ \/ \E row \in OfSetups!Row(what) : rows = <<row>> \o listing[what]
           \/ \E i \in DOMAIN listing[what] : rows = OfSetups!RemoveAt(listing[what], i)
           \/ \E i \in DOMAIN listing[what], row \in OfSetups!Row(what) :
                rows = [listing[what] EXCEPT ![i] = row]
  BY DEF OfSetups!Others
<1>a. \/ \E row \in OfSetups!Row(what) : rows = <<row>> \o listing[what]
      \/ \E i \in DOMAIN listing[what] : rows = OfSetups!RemoveAt(listing[what], i)
      \/ \E i \in DOMAIN listing[what], row \in OfSetups!Row(what) :
           rows = [listing[what] EXCEPT ![i] = row]
  BY <1>1
<1>2. what = "models" => rows \in Seq(ModelRow)
  <2> SUFFICES ASSUME what = "models" PROVE rows \in Seq(ModelRow)
    OBVIOUS
  <2>1. listing[what] \in Seq(ModelRow) /\ OfSetups!Row(what) = ModelRow
    BY DEF SetupInv, OfSetups!Row
  <2> DEFINE old == listing[what]
  <2>2. ASSUME NEW row \in ModelRow PROVE <<row>> \o old \in Seq(ModelRow)
    BY <2>1, ConcatProperties
  <2>3. ASSUME NEW i \in DOMAIN old PROVE OfSetups!RemoveAt(old, i) \in Seq(ModelRow)
    BY <2>1 DEF OfSetups!RemoveAt
  <2>4. ASSUME NEW i \in DOMAIN old, NEW row \in ModelRow
        PROVE  [old EXCEPT ![i] = row] \in Seq(ModelRow)
    BY <2>1
  <2>5. CASE \E row \in OfSetups!Row(what) : rows = <<row>> \o old
    BY <2>1, <2>2, <2>5
  <2>6. CASE \E i \in DOMAIN old : rows = OfSetups!RemoveAt(old, i)
    BY <2>3, <2>6
  <2>7. CASE \E i \in DOMAIN old, row \in OfSetups!Row(what) : rows = [old EXCEPT ![i] = row]
    BY <2>1, <2>4, <2>7
  <2> HIDE DEF old
  <2> QED
    BY <1>a, <2>5, <2>6, <2>7 DEF old
<1>3. listing' = [listing EXCEPT ![what] = rows] /\ page' = page
  BY <1>1 DEF OfSetups!Changed
<1>4. DOMAIN listing' = DOMAIN listing /\ listing'.models \in Seq(ModelRow)
  BY <1>2, <1>3 DEF SetupInv
<1> QED
  BY <1>3, <1>4 DEF SetupInv

LEMMA ClickMoves ==
  ASSUME SetupInv, NEW s \in Author, NEW type, OfSetups!Click(s, type)
  PROVE  SetupInv'
<1> DEFINE form == OfSetups!Drawn(page[s].form)
<1>1. FormInv(form)
  BY DrawnForm DEF OfSetups!Click, SetupInv, FormInv
<1>2. PICK asked :
        page' = [page EXCEPT ![s] = [form |-> form, scaffold |-> OfSetups!NoScaffold,
                                     asked |-> asked]]
  BY DEF OfSetups!Click
<1>3. page' = [page EXCEPT ![s] = [form |-> form, asked |-> asked,
                                   scaffold |-> OfSetups!NoScaffold]]
  BY <1>2
<1>4. UNCHANGED listing
  BY DEF OfSetups!Click
<1> HIDE DEF form
<1> QED
  BY <1>1, <1>3, <1>4, PageMoves

LEMMA SetupStep == SetupInv /\ [OfSetups!Next]_(OfSetups!vars) => SetupInv'
<1> SUFFICES ASSUME SetupInv, [OfSetups!Next]_(OfSetups!vars) PROVE SetupInv'
  OBVIOUS
<1>1. ASSUME NEW s \in Author, page[s].form # OfSetups!NoForm
      PROVE  DOMAIN page[s].form = FormKeys /\ ModelBox(page[s].form)
  BY <1>1 DEF SetupInv, FormInv
<1>2. ASSUME NEW s \in Author, NEW type, OfSetups!ChooseType(s, type) PROVE SetupInv'
  <2> DEFINE fresh == OfSetups!Fresh(type)
             drawn == OfSetups!Drawn(fresh)
  <2>1. DOMAIN fresh = FormKeys /\ ModelBox(fresh)
    BY DEF OfSetups!Fresh, FormKeys, ModelBox
  <2> HIDE DEF fresh
  <2>2. FormInv(drawn)
    BY <2>1, DrawnForm DEF SetupInv, FormInv
  <2>3. OfSetups!Shows(s, drawn) /\ UNCHANGED listing
    BY <1>2 DEF OfSetups!ChooseType, fresh
  <2> HIDE DEF drawn
  <2> QED
    BY <2>2, <2>3, FormShown
<1>3. ASSUME NEW s \in Author, OfSetups!ChangeType(s) PROVE SetupInv'
  BY <1>3, FormShown DEF OfSetups!ChangeType, FormInv
<1>4. ASSUME NEW s \in Author, OfSetups!Choose(s) PROVE SetupInv'
  <2> DEFINE form == page[s].form
  <2>1. DOMAIN form = FormKeys /\ ModelBox(form)
    BY <1>1, <1>4 DEF OfSetups!Choose
  <2>2. ASSUME NEW choice, OfSetups!Interacts(s, [form EXCEPT !.component.choice = choice])
        PROVE  SetupInv'
    <3> DEFINE new == [form EXCEPT !.component.choice = choice]
    <3>1. DOMAIN new = FormKeys /\ new.model = form.model /\ new.picked = form.picked
      BY <2>1 DEF FormKeys
    <3>2. OfSetups!Interacts(s, new)
      BY <2>2
    <3> HIDE DEF new
    <3>3. ModelBox(new)
      BY <2>1, <3>1 DEF ModelBox
    <3> QED
      BY <3>1, <3>2, <3>3, Interaction
  <2>3. ASSUME NEW choice, OfSetups!Interacts(s, [form EXCEPT !.recipe.choice = choice])
        PROVE  SetupInv'
    <3> DEFINE new == [form EXCEPT !.recipe.choice = choice]
    <3>1. DOMAIN new = FormKeys /\ new.model = form.model /\ new.picked = form.picked
      BY <2>1 DEF FormKeys
    <3>2. OfSetups!Interacts(s, new)
      BY <2>3
    <3> HIDE DEF new
    <3>3. ModelBox(new)
      BY <2>1, <3>1 DEF ModelBox
    <3> QED
      BY <3>1, <3>2, <3>3, Interaction
  <2>4. ASSUME NEW i \in DOMAIN form.model.options,
               OfSetups!Interacts(s, [form EXCEPT !.model.choice = form.model.options[i],
                                                  !.picked = form.model.options[i]])
        PROVE  SetupInv'
    <3> DEFINE choice == form.model.options[i]
               box == [form.model EXCEPT !.choice = choice]
               new == [form EXCEPT !.model = box, !.picked = choice]
    <3>1. form.model # OfSetups!NoBox
      <4>1. ASSUME form.model = OfSetups!NoBox PROVE FALSE
        <5>1. i \in DOMAIN <<>>
          BY <4>1 DEF OfSetups!NoBox
        <5> QED
          BY <5>1
      <4> QED
        BY <4>1
    <3>2. DOMAIN form.model = {"options", "choice"}
      BY <2>1, <3>1 DEF ModelBox
    <3>3. /\ DOMAIN box = {"options", "choice"} /\ box.options = form.model.options
          /\ box.choice = choice
      BY <3>2
    <3>4. new = [form EXCEPT !.model.choice = choice, !.picked = choice]
      BY <2>1 DEF FormKeys
    <3> HIDE DEF box
    <3>5. DOMAIN new = FormKeys /\ new.model = box /\ new.picked = choice
      BY <2>1 DEF FormKeys
    <3>6. OfSetups!Interacts(s, new)
      BY <2>4, <3>4
    <3> HIDE DEF new
    <3>7. ModelBox(new)
      BY <3>3, <3>5 DEF ModelBox
    <3> QED
      BY <3>5, <3>6, <3>7, Interaction
  <2> QED
    BY <1>4, <2>2, <2>3, <2>4 DEF OfSetups!Choose
<1>5. ASSUME NEW s \in Author, OfSetups!TypeModel(s) PROVE SetupInv'
  <2>1. PICK row : /\ page[s].form # OfSetups!NoForm
                   /\ OfSetups!Interacts(s, [page[s].form EXCEPT !.typed = row])
    BY <1>5 DEF OfSetups!TypeModel
  <2> DEFINE form == page[s].form
             new == [form EXCEPT !.typed = row]
  <2>2. DOMAIN new = FormKeys /\ new.model = form.model /\ new.picked = form.picked
    BY <1>1, <2>1 DEF FormKeys
  <2>3. OfSetups!Interacts(s, new)
    BY <2>1
  <2> HIDE DEF new
  <2>4. ModelBox(new)
    BY <1>1, <2>1, <2>2 DEF ModelBox
  <2> QED
    BY <2>2, <2>3, <2>4, Interaction
<1>6. ASSUME NEW s \in Author, OfSetups!ModelSource(s) PROVE SetupInv'
  <2> DEFINE form == page[s].form
             new == [form EXCEPT !.manual = ~@]
  <2>1. form # OfSetups!NoForm /\ OfSetups!Interacts(s, new)
    BY <1>6 DEF OfSetups!ModelSource
  <2>2. DOMAIN new = FormKeys /\ new.model = form.model /\ new.picked = form.picked
    BY <1>1, <2>1 DEF FormKeys
  <2> HIDE DEF new
  <2>3. ModelBox(new)
    BY <1>1, <2>1, <2>2 DEF ModelBox
  <2> QED
    BY <2>1, <2>2, <2>3, Interaction
<1>7. ASSUME NEW s \in Author, NEW gpu, NEW merging, OfSetups!Generate(s, gpu, merging)
      PROVE  SetupInv'
  <2> DEFINE scaffold == OfSetups!Built(page[s].asked, page[s].form.type, gpu, merging)
             new == [form |-> page[s].form, asked |-> OfSetups!NoForm, scaffold |-> scaffold]
             set == [page[s] EXCEPT !.asked = OfSetups!NoForm, !.scaffold = scaffold]
  <2>1. page' = [page EXCEPT ![s].asked = OfSetups!NoForm, ![s].scaffold = scaffold]
    BY <1>7 DEF OfSetups!Generate
  <2> HIDE DEF scaffold
  <2>2. set = new
    <3> DEFINE keys == {"form", "asked", "scaffold"}
    <3>1. DOMAIN page[s] = keys
      BY DEF SetupInv
    <3>2. DOMAIN set = keys /\ DOMAIN new = keys
      BY <3>1
    <3>3. \A k \in keys : set[k] = new[k]
      <4>1. /\ set.form = page[s].form /\ set.asked = OfSetups!NoForm
            /\ set.scaffold = scaffold
        BY <3>1
      <4>2. /\ new.form = page[s].form /\ new.asked = OfSetups!NoForm
            /\ new.scaffold = scaffold
        OBVIOUS
      <4> HIDE DEF set, new
      <4> QED
        BY <4>1, <4>2
    <3>4. set = [k \in keys |-> set[k]] /\ new = [k \in keys |-> new[k]]
      BY <3>2
    <3> HIDE DEF set, new
    <3> QED
      BY <3>3, <3>4
  <2>3. page' = [page EXCEPT ![s] = new]
    BY <2>1, <2>2 DEF SetupInv
  <2>4. FormInv(page[s].form) /\ UNCHANGED listing
    BY <1>7 DEF SetupInv, OfSetups!Generate
  <2> QED
    BY <2>3, <2>4, PageMoves
<1>8. CASE UNCHANGED OfSetups!vars
  BY <1>8 DEF OfSetups!vars, SetupInv
<1> QED
  BY <1>2, <1>3, <1>4, <1>5, <1>6, <1>7, <1>8, ListingMoves, ClickMoves
  DEF OfSetups!Next, OfSetups!ClickTraining, OfSetups!ClickEvaluation,
      OfSetups!ClickInference, OfSetups!ClickMerging

(* Of the rows of a name there is a first one.                             *)
LEMMA RowFound ==
  ASSUME NEW S, NEW rows \in Seq(S), NEW i \in DOMAIN rows
  PROVE  LET row == OfSetups!RowNamed(rows, rows[i].name)
         IN  row.name = rows[i].name /\ \E j \in DOMAIN rows : rows[j] = row
<1> DEFINE name == rows[i].name
           places == {j \in DOMAIN rows : rows[j].name = name}
<1>1. places \subseteq Nat /\ places # {}
  OBVIOUS
<1>2. PICK j \in places : \A k \in places : j <= k
  BY <1>1, LeastNumber
<1> DEFINE First(k) == /\ rows[k].name = name
                       /\ \A l \in DOMAIN rows : rows[l].name = name => k <= l
           c == CHOOSE k \in DOMAIN rows : First(k)
<1>3. \E k \in DOMAIN rows : First(k)
  BY <1>2
<1>4. OfSetups!RowNamed(rows, name) = rows[c]
  BY DEF OfSetups!RowNamed
<1> HIDE DEF First
<1>5. c \in DOMAIN rows /\ First(c)
  BY <1>3
<1> HIDE DEF c
<1> QED
  BY <1>4, <1>5 DEF First

(* A scaffold is for the model that was last picked by hand, or for the    *)
(* newest once the names in the listing have changed, and with its uri of  *)
(* now; or for the one that was typed (setups.py:458-491, 589-590).        *)
THEOREM ScaffoldOfPicked == UISpec => PickedOrNewest
<1>1. OfSetups!Init => SetupInv
  BY DEF OfSetups!Init, SetupInv, FormInv, OfSetups!Idle
<1>2. ASSUME SetupInv, NEW s \in Author, NEW type, OfSetups!Click(s, type)
      PROVE  LET model == page'[s].asked.model
                 rows  == {listing.models[i] : i \in DOMAIN listing.models}
             IN  \/ /\ model \in rows
                    /\ model.name \in {page[s].form.picked, listing.models[1].name}
                 \/ model = page'[s].form.typed
  <2> DEFINE form == OfSetups!Drawn(page[s].form)
             rows == listing.models
  <2>1. /\ rows \in Seq(ModelRow)
        /\ DOMAIN page[s].form = FormKeys /\ ModelBox(page[s].form)
    BY <1>2 DEF OfSetups!Click, SetupInv, FormInv
  <2>2. /\ ModelBox(form) /\ form.picked = page[s].form.picked
        /\ form.model # OfSetups!NoBox => form.model.options = OfSetups!Names(rows)
    BY <2>1, DrawnForm
  <2>3. page'[s].form = form /\ page'[s].asked.model = OfSetups!ChosenModel(form)
    BY <1>2 DEF OfSetups!Click, SetupInv
  <2> HIDE DEF form
  <2>4. CASE form.model = OfSetups!NoBox
    BY <2>3, <2>4 DEF OfSetups!ChosenModel
  <2>5. CASE form.model # OfSetups!NoBox
    <3> DEFINE model == OfSetups!RowNamed(rows, form.model.choice)
    <3>1. OfSetups!ChosenModel(form) = model
      BY <2>5 DEF OfSetups!ChosenModel
    <3>2. PICK i \in DOMAIN rows : form.model.choice = rows[i].name
      BY <2>2, <2>5 DEF ModelBox, OfSetups!Names
    <3>3. form.model.choice \in {page[s].form.picked, rows[1].name}
      <4>1. 1 \in DOMAIN rows
        BY <2>1, <3>2
      <4>2. OfSetups!Names(rows)[1] = rows[1].name
        BY <4>1 DEF OfSetups!Names
      <4> QED
        BY <2>2, <2>5, <4>2 DEF ModelBox
    <3>4. model.name = form.model.choice /\ \E j \in DOMAIN rows : rows[j] = model
      BY <2>1, <3>2, RowFound
    <3> HIDE DEF model
    <3> QED
      BY <2>3, <3>1, <3>3, <3>4
  <2> QED
    BY <2>4, <2>5
<1> DEFINE A == \A s \in Author :
                  page[s].asked = OfSetups!NoForm /\ page'[s].asked # OfSetups!NoForm =>
                    LET model == page'[s].asked.model
                        rows  == {listing.models[i] : i \in DOMAIN listing.models}
                    IN  \/ model \in rows
                             /\ model.name \in {page[s].form.picked, listing.models[1].name}
                        \/ model = page'[s].form.typed
<1>3. SetupInv /\ [OfSetups!Next]_(OfSetups!vars) => A
  <2> SUFFICES ASSUME SetupInv, [OfSetups!Next]_(OfSetups!vars), NEW s \in Author,
                      page[s].asked = OfSetups!NoForm, page'[s].asked # OfSetups!NoForm
               PROVE  \E type : OfSetups!Click(s, type)
    BY <1>2
  <2>1. ASSUME NEW t \in Author, NEW form, OfSetups!Shows(t, form) PROVE FALSE
    BY <2>1 DEF SetupInv, OfSetups!Shows, OfSetups!Idle
  <2>2. ASSUME OfSetups!Others PROVE FALSE
    BY <2>2 DEF OfSetups!Others, OfSetups!Changed
  <2>3. ASSUME NEW t \in Author, NEW gpu, NEW merging, OfSetups!Generate(t, gpu, merging)
        PROVE  FALSE
    BY <2>3 DEF SetupInv, OfSetups!Generate
  <2>4. ASSUME NEW t \in Author, NEW type, OfSetups!Click(t, type)
        PROVE  \E u : OfSetups!Click(s, u)
    <3>1. t = s
      BY <2>4 DEF SetupInv, OfSetups!Click
    <3> QED
      BY <2>4, <3>1
  <2>5. CASE UNCHANGED OfSetups!vars
    BY <2>5 DEF OfSetups!vars
  <2> QED
    BY <2>1, <2>2, <2>3, <2>4, <2>5
    DEF OfSetups!Next, OfSetups!ChooseType, OfSetups!ChangeType, OfSetups!Choose,
        OfSetups!TypeModel, OfSetups!ModelSource, OfSetups!Interacts,
        OfSetups!ClickTraining, OfSetups!ClickEvaluation, OfSetups!ClickInference,
        OfSetups!ClickMerging
<1>4. OfSetups!Spec => [][A]_(OfSetups!vars)
  BY <1>1, <1>3, SetupStep, PTL DEF OfSetups!Spec
<1>5. UISpec => [][A]_(OfSetups!vars)
  BY <1>4, PartsBehave, PTL
<1> QED
  BY <1>5 DEF PickedOrNewest, OfSetups!PickedOrNewest
=============================================================================
