# FineTuning-Lineage in TLA+

A verification development for FineTuning-Lineage: the system that records, in
a Neo4j graph, which fine-tuning experiment was derived from which other one.
Paths below are relative to `src/`; `setups/`, `server/`, ... stand for
`graph_lineage/setups/`, `graph_lineage/server/`, ...

## 1. The system

### Components

| component | state it keeps | operations | interacts with |
|---|---|---|---|
| **Client SDK** (`setups/_base/modules/lineage/`): the decorator `lineage_tracker` (tracker.py), `LineageClient` (http/client.py), `HttpConnector` | the process: its phase, its `ExperimentContext`, the attempt it is at; the project's `.lineage/experiment.yml` | `pre_execution`, `post_execution`, `_retry`, `emit_node`, load and save of experiment.yml | HTTP calls to the server; the yml file, shared by all processes of one project directory |
| **Lineage server** (`server/app.py`, `dispatch/`, `handlers/`, `schemas.py`) | the handlers at work in its one event loop | `POST /api/v1/pre`, `POST /api/v1/post`, `POST /graph/nodes`, start-up | answers the client; queries the graph through `TrainingRepository` |
| **Graph store** (`server/lineage_repository/`, `neo4j_client/`) | Experiment, Model, Checkpoint, Recipe, Component nodes and their edges | creation of base and derived experiments, status update, promotion of a checkpoint, reads; the chain_id trigger; schema initialisation | called by the server and by the UI |
| **Codebase capture and diff** (`setups/_base/modules/lineage/utils/`, `case_state_provider/`, `diff_util/`) | none | capture, comparison, unified diff, reconstruction | used by client (capture) and server (comparison, diff, reconstruction) |
| **Streamlit UI, repositories** (`streamlit_ui/db/repository/`) | none | create, update, upsert, delete and list models, components, recipes and experiments | the same graph, one transaction per query |
| **Streamlit UI, pages** (`streamlit_ui/ui_pages/`) | per session: widgets, flags of the clicks, copies of what was read | forms and wizards over the repositories; the setup generator | every interaction runs the whole page again over what the graph then holds; scaffolds are what the client runs in |
| **System manager** (`system_manager/`) | none | rollback with preview, squash, visibility, navigation | the same graph; on what the rest of the program stores none of its writes comes about (section 6) |
| **Data preparation** (`setups/_base/modules/{filters,loader,shuffle,system_prompt,templates}`, `setups/training/*/prepare.py`, `train.py`) | the cache directory, appended logs of discarded rows | choice of hard negatives, prompts, filtering, split, shuffle, save; load | files only; the cache directory is shared by runs of one experiment name |
| **Callbacks, plots, training and merging scripts, launch scripts** | files | third-party trainers | run as the decorated function |

### How a run goes

A training process enters the decorated function. The client reads
`.lineage/experiment.yml` (merged under config.yml, whose `experiment` block,
if it has one, wins), captures the codebase and sends PRE with the id, the
previous id and the base id it finds there. The server finds out what kind of
experiment this is (NEW, RESUME, RETRY, BRANCH), creates the node with its edge
and answers with the ids the client is to save. The function runs under that id
and, when it returns or raises, the client sends POST with COMPLETED or FAILED;
the server sets the status of the node; the client, once acknowledged, writes
the status to experiment.yml.

### What is hard about it

- **Retries without a request id.** `_retry` sends the same PRE again after a
  timeout; the server cannot know it and creates another node.
- **Late requests.** A handler the client no longer waits for goes on; a POST
  may be executed late, twice, or after a later run has started.
- **Nested handlers.** `_run_sync` calls `run_until_complete` inside the
  running loop (nest_asyncio). Requests that arrive while a handler waits for
  a query run *inside* it, and it goes on only after them.
- **Several queries per request**, each a transaction: what is read in one may
  be old in the next; one may fail after an earlier one was committed.
- **An unlocked file.** experiment.yml is read, changed and written back by
  every process of the project.
- **Check, then write.** The UI's repositories look at the graph in one
  transaction and write in another, in sessions that know nothing of each other
  or of the server.
- **A long sequence of legal runs**: some of what the server computes is right
  for two runs in a row and wrong from the third on.
- **Numbers given by triggers.** `chain_id` is what a trigger counts before its
  transaction is committed; what others have not committed it does not see.
- **Widgets that outlive what they show.** A form keeps what it read and what
  was typed over reruns, over other selections and over other sessions' writes.
- **A directory that is replaced in place.** prepare.py removes the cache and
  writes two splits; it may be killed in between, or another run may do the same.

### What makes each component correct

- Client: PRE always ends; a blocking project trains nothing untracked; what
  experiment.yml says of the lineage agrees with the graph; a status in it was
  acknowledged.
- Server: every handler finishes; a RETRY really is one; a refused model switch
  leaves no node; a status goes to the node of the run that reported it.
- Graph: a status once reported is never changed; every derived node hangs off
  a node that exists; the diff stored of it starts from what that node stores.
- Events: what the client logs as emitted is stored and linked; duplicates and
  nodes without an edge have a cause; `lineage_emit` always returns.
- Catalogue: a name identifies a recipe and a model; what an experiment uses
  is not deleted under it; a base experiment gets one item of each kind.
- History: depth and number grow along chains, whatever was created or deleted
  meanwhile; few experiments share a number.
- Capture and diff: what is rebuilt is what ran; RETRY means the same files,
  but for the two that are ignored.
- Pages: a save changes what was typed and goes back to nothing older than what
  the form, or the run that saves it, read; a scaffold is for what was picked and
  has its own recipe, model and manifests.
- Data: a training starts from the two splits of one preparation, without what
  was discarded, with an answer rejected that is fit to be.
- Whole: the system is a ledger of runs (module `RunLedger`).

Each hazard, at its line, with the properties aimed at it, is in PROJECT.json.

## 2. The modules

| module | models | source |
|---|---|---|
| `LineageData` | constants of a deployment and their assumptions; identity block, call ids, Experiment nodes | data classes, experiment.yml |
| `ExperimentGraph` | the nodes and the Model catalogue; one operator per Cypher query | `training_repository.py`, `training_run_case_handler.py` |
| `LineageWire` | the calls under way, as both sides see them | `schemas.py`, `http_connector.py` |
| `LineageServer` | dispatch, strategy detection, creation, status, the stack of nested handlers, database failures, crash | `app.py`, `domain_dispatcher.py`, `training_run_case_handler.py` |
| `LineageClient` | processes, retries, experiment.yml | `client.py`, `tracker.py` |
| `LineageSystem` | the composition, its properties, fairness, the refinement mapping | |
| `RunLedger` | the abstract specification | |
| `LineageInvariants` | the inductive invariant `IInv` | |
| `EventEmission` | one event reported by the training function: attempts, the two transactions, deletion of the experiment meanwhile | `client.py` (`emit_node`), `app.py`, `generic_event_repository.py`, `experiment_repository.py` |
| `Catalogue` | sessions of the UI that edit recipes, components and models while experiments are created, listed and deleted | `streamlit_ui/db/repository/`, `01-schema.cypher`, `training_repository.py` |
| `ExperimentHistory` | creations under the triggers, and deletions, query by query | `02-triggers.cypher`, `training_repository.py`, `experiment_repository.py` |
| `RecipePage`, `ComponentPage`, `ModelPage`, `ExperimentPage` | the forms of the UI, with what their widgets keep | `ui_pages/*.py`, and the repositories' updates |
| `SetupPage` | the wizard over a changing listing; the scaffold from a template | `ui_pages/setups.py` |
| `UIPages` | the catalogue, the history and the pages as parts of one UI | |
| `CodebaseDiff` | capture, comparison, diff per file and reconstruction, line by line | `utils/snapshot.py`, `diff_util/`, `case_state_provider/` |
| `HardNegative` | calibration and choice of the rejected answer, as pure operators | `filters/hard_negative_filtering.py` |
| `DataPreparation` | the phases of prepare.py and the start of train.py over a shared cache | `setups/training/dpo-setup-trl/`, `setups/_base/modules/` |
| `ProjectDirectory` | captures and preparations as uses of one directory | |
| `MCLineageSystem`, `MCCatalogue`, `MCUIPages`, `MCProjectDirectory` | instances for TLC | |
| `ChainRecursion` | lemmas on functions defined along parents, and on counts | |
| `LineageSystemProofs`, `LineageLedgerProofs`, `LineageRefusalProofs` | theorems about the core | |
| `EventEmissionProofs` | theorems about events | |
| `HistoryProofs` | theorems about the history | |
| `UIProofs` | theorems about the catalogue, the pages and the UI as a whole | |
| `ProjectProofs` | theorems about capture, diff and preparation | |

### State and actions against the code

*Data.* A snapshot (what `capture_codebase` returns) is one value. It contains
config.yml, so it determines the model name and uri the run asks for
(`ModelOf`, `UriOf`). A diff is represented by the codebase it starts from
(`from`): it can be applied to that text and to no other. Where the code reads
a stored diff as if it were a `{file: content}` dict, the result is `Garbled`,
which equals no snapshot. Experiment ids count up; 0 is None.

*Calls.* A call is one HTTP request, named by runner, run, kind and attempt.
`phase` says which query its handler is at, `issued` whether the query has been
given to the database, `open` whether the client still waits.

*Queries as steps.* The handlers are synchronous between queries, so a step of
the server is: the database executes the current query of a handler and the
handler runs up to its next one. Reading a node's status after creating it
(`training_run_case_handler.py:110`) is part of `CreateExperiment`; its failure
after the commit is `CreationUnconfirmed`.

*Nesting.* `nest` is the stack of handlers. A new request goes on top
(`Accept`). Only the top handler gets to issue a query (`Proceed` sets `issued`
to `OnTop`); one below may have its already issued query executed, and then
waits until it is on top again (`Resumed`).

*The end of a connection.* When the client stops waiting, a request nobody read
may vanish or still be read, a handler at work goes on for nobody, an answer is
lost (`HungUp`). Which errors are retried and which are not is
`ConnectionErrors` against `OtherErrors`, following `http_connector.py:81-96`.

*Faults* are switched on per run: `timeout`, `refused` (retried), `broken`
(other transport errors, not retried), `killed` (the client process), `database`
(the driver raises before or after the effect), `crash` (the server process;
it implies `broken`, because its clients must be able to see it).

*History variables.* `by` in a node and `fate` are not in the code. They record
which attempt created a node and what the run that adopted it reports, so that
properties can say "its own".

*Simplified, and why.* Recipe and Component nodes always exist, so a creation
fails for want of a Model or a parent only; what follows the failure is the
same 500. The model covers projects whose experiment.yml was completed by its
user: in a fresh scaffold it has no `job_title`, the request model rejects it
before anything is sent, and every run is untracked or exits with code 4
(`LaunchUnsent` is what such a run does). The MERGE branch is unreachable, no
client sends `merging: true`. The `blocking` argument of the decorator is read
by nobody: it is server.yml that counts, and the model takes it from there.

*Events* (`EventEmission`, on its own). An attempt of an event is a request,
and names the node and the edge made for it, since the server gives every
request a fresh node id. `handler` says how far the server is with it, `seen`
how it ended for the client. Which end is retried follows urllib: a refused
connection, a 500 and a 404 are `URLError`s and are retried; a connection reset
while the answer is awaited is a `ConnectionError` and is retried; a timeout at
that point is neither, so `emit_node` returns (`TimeOut`). Handlers of this
endpoint read nothing another one writes, except the experiment itself, so the
order nesting would impose on them is left free. The deletion of an experiment
is an operation of the repository (and of `docs/modules/streamlit_ui.md`) that
no page calls at present. It is not composed with `LineageSystem`, whose
experiments are never deleted.

*The catalogue* (`Catalogue`, on its own). A node keeps its id for ever; `live`
and `alive` say which are in the graph. What a session has checked and not yet
written is in `session`; operations that are one query (creation of models and
components, updates of components, creations by the server) are one step. The
constraints are those of `01-schema.cypher`: recipe and model names are unique
(`NamedUniquely`), component names are not, since the schema constrains their
codes. A plain DELETE of a node with relationships is refused by the store, a
DETACH DELETE is not. A page edits a model under the name it has, so no action
renames one; `ModelRepository.update`, which would, is called by nobody and can
only fail (it builds a model with an empty name, which the class rejects). An
upsert by name changes the id of a model and the kind of a recipe. The listing
of experiments follows a lineage 50 hops (`Hops`), so `Listed` is false of an
experiment whose way to its base is longer or broken.

*The history* (`ExperimentHistory`). Every step is one query but a creation,
whose triggers fire before the commit and see committed nodes only; the commit
is a step of its own (`CommitCreation`). A node that is deleted while a creation
holds it as a parent is deleted after that commit: the store locks it. Whether
an experiment has checkpoints is left open, so that the guard of its deletion
may refuse it or not; it does refuse one that has a parent, since the guard
follows the relationships that leave the experiment.

*The pages*. A click is one step: the script runs from top to bottom over the
graph as it is and writes at most once. Two saves are two steps, because what
the run has read early decides what it writes late: that of a component
(`PressUpdate`, then `WriteComponent`, in between other sessions write) and that
of a recipe (`PressSave`, `WriteEdit`), whose custom fields come from the recipe
that was read. Between clicks a session keeps the widgets that have a key, and
the flags and copies in `st.session_state`; a widget without a key is told by
its parameters and starts over when they change (Streamlit 1.57). `typed`,
`seen`, `touched` and `overtaken` record what was typed, read and written by
others meanwhile, so that properties can speak of it. The recipe form is filled
with what it can show (`Filled`): a scope and tasks that its boxes offer, and of
an entry its declared fields. Only what a widget keeps is modelled: the lists
and details that show the graph are not.

*The scaffold* (`SetupPage`). A configuration is a function from paths of keys
to what is there, so that merging, `setdefault` and replacing a section are what
they are in the code (`DeepMerge`, `Pruned`, `Enforced`). Files are known by who
wrote them, `"page"` or the template.

*Capture and diff* (`CodebaseDiff`). Texts are sequences of lines of which the
last may lack its newline; what difflib and the external `patch` do is said of
the result: which lines a patched file has, and where an unterminated line goes
wrong. `UnifiedDiff` keeps the lines both texts begin with and those both end
with (`Upto` counts them) and replaces what is between. Of the two manifests in
`.lineage`, both captured, the experiment is rewritten by every run and neither
is compared (`Ignored`).

*Data* (`DataPreparation`, `HardNegative`). A row is its candidates, and of a
candidate the model has what the code measures of its text, in whole numbers;
thresholds are percentiles in hundredths. Pairs carry where they come from, so
that `discarded`, the two splits and the shuffle can be compared. `by` names the
attempt that wrote a split, `overlapped` whether a run has replaced the cache
while another replaced or loaded it; `unfiltered` the attempts whose filter gave
up half-way. A training loads one split after the other (`LoadTrain`,
`LoadTest`). With `hard_negative_enabled: false` the answer rejected is the
first of the temperature asked for, or the first of all (`FirstAtTemperature`).

*One behaviour, one part.* The parts of `UIPages` share no variable, and those
of `ProjectDirectory` neither, because the code keeps them apart: session keys
and properties of nodes differ from page to page, and the capture reads no file
the preparation writes. A behaviour picks its part at the start, which keeps
the state space a sum where a product would show nothing more.

### Bounds

`MaxRuns` (launches per runner) and `MaxNest` (handlers in the stack) are the
only bounds of the core that are not parameters of the deployment. Ids,
attempts and the graph are bounded through them and `Retries`. Three runs in a
row are needed, and enough, for everything the strategy detection looks at: the
node, the one it derives from and the one before that. Two nested handlers show
every order of two handlers' queries; a third nests in the same way. One retry
gives two attempts alive at a time, which is what a late first attempt needs.

`EventEmission` is bounded by `MaxEvents` and `Retries`: two retries put a
duplicate before and after any other end of an attempt. One event is enough for
TLC, since the handler of one reads nothing of another's; the theorems speak of
any number. `Catalogue` is bounded by `MaxItems` (nodes ever created: the three
of the seed and one more, so that a name may be taken, freed and taken again)
and `MaxExperiments` (a base and a derived one). `Hops` is 3 in the run; with
two experiments no lineage is longer, so a listing that misses one does so for a
broken lineage. `MaxHistory` is 4 experiments, the least for a chain of three
beside one that takes a number of its name meanwhile, and their names are two,
so that a chain may have both. `MaxEntries` is 1 entry of a recipe: a second is
edited in the same way. Of the recipe the run has a custom field and two tasks,
of which the form offers one; a field that is not custom, and the scope, which
its box may not offer, are left to the theorem, since they multiply the states
of a part that is large already. `MaxListed` gives the listing of the setups two
models, so that names can change places, and one row of the other kinds.

The pages have as many sessions as their hazards need: two where one session's
form is stale for another's write, one where a page is stale for itself (the
experiment page shows one experiment's widgets over another's; the setup page's
listing is changed by the environment). `SYMMETRY` is used over `Session`
alone, whose members no property tells apart.

`CodebaseDiff` takes texts of up to two lines of two kinds, with and without the
last newline, a script, a file in a hidden directory and the two manifests, and
two runs. `DataPreparation` has a run of two entries (with replicas, prompts,
rows too long, malformed, and candidates of every kind the selection tells
apart) that is not killed, and a run of one entry that may be killed once at any
step and chooses by temperature alone: what a kill leaves behind does not depend
on how many orders the shuffle has.

## 3. What TLC checks

| run | instance | states | shows |
|---|---|---|---|
| `retries` | one runner, two runs, one retry, timeouts, refused connections, kills | 1 381 000 | duplicates of a retry stay RUNNING; a status never changes; experiment.yml never claims a status the graph does not have; the refinement of `RunLedger` |
| `chain` | one runner, three runs, three codebases, two models, lost answers, crashes | 1 146 000 | RETRY only for unchanged code, the model is kept two generations apart, what is stored of an experiment is the diff from what its parent stores |
| `ranks` | two processes in one directory, two runs each | 309 000 | the shared file stays consistent with the graph, contexts stay apart |
| `faults` | a blocking project and one of an unregistered domain; database failures and crashes | 263 000 | blocking is strict under partial failure |
| `fair` | one run, one retry, every fault, fairness | 7 100 | PRE ends, handlers finish |
| `events` | one event tried up to three times, every fault, fairness | 80 000 | acknowledged events are stored, duplicates and strays have their cause, `lineage_emit` returns |
| `ui` | the seven parts of `UIPages`, one per behaviour | 1 266 000 | the properties of catalogue, history and pages below |
| `project` | two runs over edited files, or two preparations of one cache | 390 000 | the properties of capture and data below |
| `rerun`, `model_switch`, `catalogue_unused`, `eval_zero` | no fault | | the disagreements below |

The properties of `ui`, by part. *Catalogue*: `NamesIdentify`,
`BaseKeepsRecipe`, `CreatedWithOneOfEach`, and `ListedWhileComplete`: an
experiment is missing from the listing only after something was deleted.
*History*: `OrderedAlongChains`, `ClashBounded` (as many experiments share a
chain_id as can be created at a time, and no more). *Forms*: `SavesOwnForm`
(recipes: what a save may change beside what was typed, to what, and that it is
nothing older), `DescriptionSeen` (a description is written over only by who was
shown it, or was overtaken between reading and writing) and `WizardStartsClean`
(components), `SavesWhatWasRead` (models), `NestedWithinFlat` (experiments).
*Setups*: `PickedOrNewest`, `ScaffoldIsOwn`.

Those of `project`. *Capture*: `RetryIffSame`, and `RebuiltButLooseEnds`: a
rebuilt file is wrong only where a last line without newline was touched.
*Data*: `LoadedIsOnePrepare`, `DiscardedNotTrained`, `RejectedIsFit` (where the
filter is on, of several candidates none is rejected that was quarantined and
not rescued, and one too close to the chosen answer only by the fallback),
`ShuffledByBlocks`.

CHECK_DEADLOCK is off: the system stops once every runner has made its
`MaxRuns` launches, `EventEmission` when its processes have ended, a part of
the UI when its bounds are reached or everything was deleted, a directory when
its runs are used up.

**Fairness** (`FairSpec`). Weak fairness of each handler's steps: the event
loop runs what is ready and the driver answers or raises. Weak fairness of the
end of an attempt and of the write after an acknowledgement: httpx has a
timeout, the rest is straight-line code. No fairness of launches, of the end of
a training function, of faults. With it, `PreEnds` and `HandlersFinish` hold
although retries, nested handlers and crashes postpone them. `EventEmission`
has the same two kinds: weak fairness of the attempts and their ends, and of
each handler; none of emitting, deleting, stopping or faults. The UI has none:
nobody has to click. A preparation has none: it runs if somebody starts it.

### Where the documentation and the code disagree

1. `README.md:262`: RETRY is "Same config+code, re-run". The third run of
   unchanged code is a BRANCH: both creation queries drop the `base` property,
   every node is read back with the default `base=True`, and the second run's
   stored diff is compared as if it were its codebase (run `rerun`).
2. `docs/modules/lineage.md:43`: a model changed from the parent's raises
   `ModelIdMismatchError`. The check reads `previous_experiment_id`, which in
   the request is not the experiment the new one derives from but the one
   before: nothing is compared in the second run (run `model_switch`). What the
   check does give is `ModelKeptTwoApart`, which run `chain` checks and
   `ModelKept` proves.
3. `component_repository.py:317` (and `model_repository.py:374`,
   `entity_constraints.py:23`): deletable means "no related experiments". The
   guards count `USED_FOR`, `SELECTED_FOR`, `BASED_ON`; the server creates
   `USES_COMPONENT`, `USES_MODEL`, `USES_RECIPE` (run `catalogue_unused`). What
   holds, thanks to the plain DELETE, is `BaseKeepsRecipe`.
4. `setups/_base/modules/docs/README.md:429`: with `eval_size: 0` the training
   script "receives the full dataset". The loader then returns one data set and
   train.py:93 unpacks two (run `eval_zero`).

More follow from the models and have no run of their own:

- `docs/LINEAGE_SYSTEM_ARCHITECTURE.md:339` rebuilds the state at any point by
  applying the diffs from the base. After the cause of 1 the third generation's
  diff is computed from a diff, and the server, asked for the codebase of an
  experiment, takes what it stores for the whole of it
  (`training_run_case_handler.py:71-94` stops at the first node, whose `base`
  reads True). What holds is `DiffFromParent`: each diff is from what the parent
  stores.
- `docs/modules/diff.md:83` claims exact reconstruction. A last line without a
  newline is lost or joined to the next (reconstructor.py:13, differ.py:22-32),
  a deleted file is rebuilt as an empty one, and experiment.yml, which every run
  rewrites, is in every diff: hence `RebuiltButLooseEnds`.
- `server/app.py:148` says an event is linked to an existing run; if the run's
  node is gone, the edge query creates nothing and the event is acknowledged all
  the same, which is why `AcknowledgedIsStored` has its exception.
- `experiment_repository.py:447-448`: an experiment with checkpoints, or with
  derived ones, is not deleted. The first checkpoint may come between check and
  deletion, which are two transactions; and the chain relationships are
  followed away from the experiment (lines 464-466), its children point at it:
  a base with children is deletable, and a derived experiment never is. No page
  offers the deletion. What it leaves of the chains is `OrderedAlongChains`.
- The page of the history offers rollbacks and squashes
  (`docs/modules/history.md:46-50`); the manager completes neither (section 6).
- `components.py:369`: rows typed for one component are saved into another that
  is selected before the click. `models.py`: the select box of the kind has one
  key for all models. `experiments.py:845`: the page
  takes `run_type` for a custom field; class Experiment declares it.
- `recipe_repository.py:24-29, 55`: custom fields are always kept. The repository
  does keep them, the edit form does not: `RecipeEntry.custom_fields`
  (`recipe.py:26-35`) looks in `__dict__`, where pydantic does not put extra
  fields, so a save of an untouched recipe drops those of its entries. It drops
  the tasks, too, that are not in `TaskEnum` (`recipes.py:646`), unless none is
  left, when it leaves them all; and a scope that is not in `ScopeEnum` is not
  shown, but kept. A field that is emptied in the form is not given
  (`exclude_none`), and so keeps what it said.
- `setups.py:171-174`: the docstring lets a template override the generated
  defaults; it is the other way round (a template's `save_steps: 500` becomes
  1500). The merge methods offered at 1176 are more than merge.py:60 takes.
  `accelerators` are merged with the template's, and unticking merging keeps the
  template's section. A form button acts on what is shown when the page is drawn
  again, although older values had enabled it.
- `setups.py:255, 336-340`: of the template's config.yml any block that the page
  does not generate itself survives the merge, an `experiment` block with the
  identity of a run of the template too, which the client then prefers to
  experiment.yml; and its other files are copied. `ScaffoldIsOwn` speaks of the
  recipe, the model and the manifests only.
- `setups/_base/modules/docs/README.md:375-377`: "If a degenerate candidate is
  found, it is immediately selected as the rejected". The code does the opposite
  and says so (`hard_negative_filtering.py:34`): it quarantines the candidate.
  `RejectedIsFit` is about the code.
- `hard_negative_filtering.py:34`: a degenerate answer is never returned. A lone
  candidate is returned unchecked, and the fallback by temperature may return
  the chosen answer itself: hence the conditions of `RejectedIsFit`. The
  `rescue_*` thresholds are never passed on (prepare.py:74-83).
- Discarded rows and hallucinations are appended to their files again by every
  restart. A run that replaces the shared cache while another replaces or loads it
  may mix their splits, which is the exception of `LoadedIsOnePrepare`. Where
  the tokenizer fails half-way, what was written down as discarded until then is
  trained on: the exception of `DiscardedNotTrained`.

## 4. What is proved

The theorems about the core are proved from `DeploymentAssumption`
(LineageData) alone: for any number of runners, projects, snapshots, retries,
runs and nested handlers, and with every fault. The others rest on
`EmissionAssumption`, `CatalogueAssumption`, `UIPagesAssumption`,
`CodebaseAssumption` and `DataAssumption`: any number of runs, events, retries,
sessions, names, fields, experiments, files, texts and candidates. The
assumptions type the constants, and say no more than that. `UIClashesBounded`
has finitely many sessions for a hypothesis, since it counts them.

| theorem | statement |
|---|---|
| `Invariance` | `Spec => []IInv` |
| `TypeCorrect` | `Spec => []TypeOK` |
| `StatusOwned` | `Spec => []StatusIsOwnReport` |
| `ContextOwned` | `Spec => []ContextIsOwn` |
| `RetriesUnchanged` | `Spec => []RetryIsUnchanged` |
| `StatusSettled` | `Spec => StatusSettles`, an action property |
| `LedgerImplemented` | `Spec => ImplementsLedger`, the refinement |
| `StatusBacked` | `Spec => []LocalStatusBacked` |
| `StrictlyBlocked` | `Spec => []BlockingIsStrict` |
| `ModelKept` | `Spec => []ModelKeptTwoApart` |
| `DiffsFromParents` | `Spec => []DiffFromParent` |
| `IdentityConsistent` | `Spec => []LocalIdentityConsistent` |
| `AcknowledgedStored`, `RepeatedUnanswered`, `StraysExplained` | the three safety properties of `EventEmission` |
| `NamesStayUnique`, `RecipesKept`, `OneOfEach`, `ListingComplete` | `NamesIdentify`, `BaseKeepsRecipe`, the action property `CreatedWithOneOfEach` and `ListedWhileComplete` of `Catalogue` |
| `UIChainsOrdered`, `UIClashesBounded` | `OrderedAlongChains`, `ClashBounded`, of `UISpec` |
| `WizardClean`, `NestedAgrees` | `WizardStartsClean`, `NestedWithinFlat`, of `UISpec` |
| `DescriptionsSeen`, `SavesWereRead`, `SavesOfOwnForm`, `ScaffoldOfPicked` | the action properties `DescriptionSeen`, `SavesWhatWasRead`, `SavesOwnForm`, `PickedOrNewest`, of `UISpec` |
| `CodebaseTyped`, `RetryExact`, `RunsRebuilt` | types, `RetryIffSame` and `RebuiltButLooseEnds`, of `CodebaseDiff` |
| `OnePrepareLoaded`, `DiscardedStayOut`, `RejectedFit` | `LoadedIsOnePrepare`, `DiscardedNotTrained`, `RejectedIsFit`, of `DataPreparation` |

**The core.** None of the properties is inductive. A status is right
because the POST that set it carried the right report, which is so because its
run took it from a context, which is the run's own because the answer it
adopted was to its own attempt. `IInv` says each of these links:

- `CallOK`: a POST not yet dealt with carries the final report of the
  experiment it names (`ReportOK`); a successful answer names the node that
  very attempt created (`AnswerOK`); a RETRY about to be created was compared
  with the node it will hang off (`StrategyOK`);
- `ProcOK`: a training process has a context of its own, whose history says
  RUNNING exactly while it trains;
- `FateOK`: an adopted node belongs to a run past its PRE, so no answer still
  to be read can name it: this is what makes a node adopted once;
- `RetriesOK`, `StatusIsOwnReport`: what the properties say of the graph.

`CallOK`, `ProcOK` and their parts take the graph and the history as
parameters, so that "stays true when the graph grows" (`GraphKeeps`) and "when
the history grows" (`FateKeeps`) is one lemma each. The proof of `NextIInv` has
one lemma per action, all over four frames: `CallStep` (only calls and stack
change), `CreationStep`, `OneProcess` (only one process changes) and
`ClientFrame` (the history grows). `StatusSettled` and `LedgerImplemented` use
`IInv` and `GraphStep`, which says that only creations and updates touch the
graph. In the refinement a creation registers a run, `Adopt` takes it,
`FinishTraining` reports, `SetStatus` closes it or repeats itself, and the end
of a process releases it.

*The file.* `BackedInv` follows a report from the POST to `experiment.yml`.
`BackedCalls`: a POST of the run its process is at names the process's
experiment, and once the server has told so, to whichever retry, the graph has
what was reported. `BackedProcs`: in a directory of its own a run finds its
experiment in the file until its last write, and it comes to that write only
when the graph has its status. `BackedFiles` is the property. Servers can only
help (`Settles`): a status that is what the history says stays so.

*Refusals.* `StrictInv` adds that no call of a blocking project is on its way to
a RESUME. For the model, `KeptInv` follows what was compared to where it is
used. `KeptIdents`: in every identity, of a file, of a process or of what it
holds, `prev` is the parent of `id`, if it has one. `KeptCalls`: a request has
such an identity, that of the process if its run is still at its PRE, and once
it has passed the check its model is that of `prev`. `KeptNodes`: while a run is
at its PRE, what it created hangs off the experiment its identity names, which
is what `Adopt` needs to save `prev` truly. `KeptModels` is the property with
the parents known to be there. The case that needs the process's own copy of the
identity is a directory two processes share.

*Along chains.* `RootOf`, the listing and the ancestors of an experiment are
recursive functions. TLA+ defines such a function as a choice among the
solutions of its equation; `ChainRecursion` shows once that over a forest,
where every parent has a lower number (`Forest`), a solution exists, is the
only one, and what every node takes over from its parent all nodes have
(`ForestRecursion`, `ForestInduction`). The induction theorems of the library
take a predicate, which the provers cannot instantiate; here the predicate is
the set of numbers it holds of, and the least number outside it, by `WFMin`,
does the rest. A module then has one operator for a solution of its equation
(`AreRoots`, `IsLineage`, ...) and one lemma that unfolds it.

*Places.* `PlacedInv` says of each identity, in a file, a process, a request or
an answer, that its base is the root of its node's chain (`PlaceOK`); that
`prev` is the parent was `KeptIdents`. The root of a node does not change when
the graph grows (`RootsStay`), so a stale identity is still right about its own
node, whatever was created since. `Linked` is the forest; what a derived run
stores was computed from what its parent stores (`PlacedNodes`), which no step
changes, and that is all `DiffFromParent` needs.

*Events.* `EmissionInv` links the three accounts of an attempt. `HandlerOK`:
how far its handler is says what of its node and edge is in the graph, and who
is to blame for what is missing. `SeenOK`: what the client saw is what became
of it. `AttemptOK` and `OrderOK`: attempts still to come have not begun, and
one begins only after those before it ended in a way that is retried. The last
is what `RepeatedOnlyWhenUnanswered` needs: a refused attempt has no edge, so a
duplicate edge can only come of a reset or of a 500 after a commit.

*Catalogue.* `CatalogueInv` adds to the two properties that the sessions' tasks
name nodes of the right kind and that relationships point at live nodes, so
that a recipe about to be deleted without relationships really has none.
`CompleteInv`, for the listing: either an item or an experiment is gone, or
every base has one relationship of each kind and every other experiment has one
that leads to an earlier one. A recipe is no exception to be made, because a
plain DELETE takes no relationship with it.

*History.* The property of the experiments is not inductive: `GraphOK` adds that
what a chain leads to is still in the graph, and `TaskOK` that an experiment
under creation, whose depth and number were fixed before its commit, is above
all of its parent's chain, which no deletion takes away while the creation holds
the parent. A number is above those committed only, so one under creation need
not be above another one of its name: it need only be above those of its own
chain. The hard step is the deletion, which changes the ancestors of everything
below: `GraphCut` shows that a chain only loses what is beyond the cut.
`ClashBounded` is not inductive either: `FewHold` counts with the experiments of
a number the sessions that are about to commit one.

*The whole UI.* A behaviour of `UISpec` is projected to each part
(`PartsBehave`). `HistoryProofs` is proved of the module on its own; `UIProofs`
instantiates it with the names of the interface (`Proved`), and `SameHistory`
says that it speaks of the same operators as the instance `UIPages` uses.
*Pages:* `WizardInv` is `WizardStartsClean` with the domains; `NestedInv` adds
that the custom fields a form of the Edit tab shows, and later saves, are never
agentic ones, however old the form is. `OpenForm` (recipes) and `ReadState`
(models): what a form holds and was not typed is what was seen when it was
opened, or, of a recipe, what the form could show of that; `SavingRun` types
what a run about to save has read. With components it is the rendering that
gives the property (`RenderedForm`): a text that differs from the graph's was
typed over the graph's. `ModelBox` (setups): what the box of models holds was
picked, or is the first of the options the page last drew.

*Codebase.* The invariant is `CodebaseDiff!TypeOK`: texts are texts, of tracked
files, and the identity is always there. `RetryIffSame` follows because the two
sides capture the same set of files and hashes are taken to be injective.
For `RebuiltButLooseEnds`, `DiffInv` says that what is stored is the diff to
what was captured, and the rest is about sequences: a diff is four runs of
lines (`DiffParts`), its two sides are the texts it was made of
(`SidesOfDiff`), unless a last line without its newline was touched it can be
read back (`ReadableUnlessLoose`), and then applying it gives the other text
(`AppliedGives`).

*Data.* `DataInv`. `OneReplaces`: but for `overlapped`, at most one run is
between the removal of the cache and its last write. `SavedSoFar`: what a run
in that stretch has written so far is what is there, and by it. `OneAttempt`:
two splits that are both there are by one attempt. `PairsInv` adds what the
pairs are wherever they are, in a run, in a split of it, in the cache or in
what was loaded (`SplitOK`): each has a rejected answer that is fit (`IsFit`),
and none was written down as too long by the attempt named, if its filter came
to the end (`Unwritten`). That the choice is fit is shown of `Select` itself,
condition by condition, for any candidates and thresholds.

**Only model-checked.**

- Liveness, out of the prover's reach: `PreEnds`, `HandlersFinish`,
  `EmitReturns`.
- `ScaffoldIsOwn`: configurations are built with `@@` and `:>` of the module
  TLC, which the provers do not unfold.
- `ShuffledByBlocks`: what the shuffle does to a sequence is said with
  permutations, concatenations and counts at once. Within reach along the lines
  of `RunsRebuilt`, and left for later.

`SelectSeq` of the standard module cannot be unfolded either, nor what a module
takes twice, by two ways, from the community modules; where a proof needs to,
the models say it with a function of their own (`Picked`, `Side`, `Upto`).

## 5. Plan

Done: the core, `LineageData` to `RunLedger`; `EventEmission`; `Catalogue`; the
history, the pages and the setups (`UIPages`); capture, diff and preparation
(`ProjectDirectory`); each with a first set of proofs.

Next, in this order:

1. The proof of `ShuffledByBlocks`, and of `ScaffoldIsOwn` over maps of the
   project's own.
2. The deletion of experiments and catalogue nodes composed with
   `LineageSystem`: a PRE whose parent or model goes away between two queries.
3. Start-up: the wait for the database and the seeding of the schema.

## 6. Not modelled

- *Start-up.* `init_db` waits for the database up to 120 s and `_verify_schema`
  calls a procedure Neo4j 5 no longer has; the UI's own initialisation
  (`streamlit_ui/app.py:50-58`) splits the schema at ";" and skips chunks that
  begin with a comment; `01-schema.cypher` gives two constraints one name. What
  the schema ends up with differs from start to start; the models take the
  constraints of `01-schema.cypher` to be there.
- *Pages that only read*: the graph view, and the pages of checkpoints and of
  the history, which cannot be shown as they are (the one calls `.get` on
  objects, the other imports a repository that does not exist). Checkpoints are
  looked up by `exp_id`, which no writer sets.
- *The system manager* (`system_manager/repository.py`): rollback, squash and
  visibility. Nothing that it writes comes about on what the rest of the program
  stores. The page imports `ExperimentRepository` from it, which it does not
  define (`history.py:8`). It matches experiments by `exp_id`, while they have an
  `id`; no writer sets the other. With that mended, a preview still raises:
  `config_hash` is never written, the query returns it as null, and
  `ExperimentSummary` wants a string (`models.py:26`, `repository.py:40, 107,
  113`). And a squash raises before its first write, at `repository.py:228`:
  `codebase` is stored as a JSON string (`code_run.py:106-119`,
  `training_repository.py:130`), of which `reconstructor.py:105` makes no `dict`.
- `_parse_hunks` and other code nobody calls.
- *Chat templates* other than the one of dpo, formats of data files, the
  texts' measures: what they are is abstract in `HardNegative`.
- *Trainers, merging, callbacks, plots, launch scripts.* Third-party code and
  file output of one process, with no state the lineage depends on; to the model
  they are the function that returns or raises.
