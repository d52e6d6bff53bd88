\* One part of the UI at a time: two sessions over a catalogue of one name per kind and two
\* experiments; two sessions and up to four experiments in chains;
\* two sessions and a recipe; two sessions and two components; two sessions and a model;
\* one session and two experiments; one session at the setups and two models.
\* A part may stop: its bounds are reached, all is deleted, or no experiment is readable.
SPECIFICATION UISpec
CONSTANTS
  n1 = n1
  Session = {s1, s2}
  Staff = {a1, a2}
  Author = {a1}
  Name = {n1, n2}
  Title = {n1, n2}
  Seed <- MCSeed
  MaxItems = 4
  MaxExperiments = 2
  Hops = 3
  MaxHistory = 4
  Recipe = {q1}
  Field = {"owner"}
  Own = {"owner"}
  ScopeEnum = {}
  Topic = {rag, other}
  TaskEnum = {rag}
  Uri = {u}
  MaxEntries = 1
  Component = {c1, c2}
  Key = {k1}
  Model = {m1}
  Experiment = {e1, e2}
  Agentic = {hypothesis}
  Custom = {owner}
  Value = {x, y}
  Text = {t}
  NoText = NoText
  m1 = m1
  m2 = m2
  u1 = u1
  u2 = u2
  r1 = r1
  t1 = t1
  ModelRow <- MCModels
  ComponentRow <- MCComponents
  RecipeRow <- MCRecipes
  Disk <- MCDisk
  MaxListed <- MCMaxListed
SYMMETRY SessionSymmetry
INVARIANTS NamesIdentify BaseKeepsRecipe ListedWhileComplete
  OrderedAlongChains ClashBounded WizardStartsClean NestedWithinFlat
PROPERTIES CreatedWithOneOfEach SavesOwnForm DescriptionSeen SavesWhatWasRead PickedOrNewest ScaffoldIsOwn
CHECK_DEADLOCK FALSE
