------------------------------ MODULE MCUIPages ------------------------------
(* Instances of UIPages for TLC. *)
EXTENDS UIPages, TLC

CONSTANTS n1, m1, m2, u1, u2, r1, t1

(* One item of each kind, all of the same name.                            *)
MCSeed == <<[kind |-> "recipe", name |-> n1],
            [kind |-> "component", name |-> n1],
            [kind |-> "model", name |-> n1]>>

(* Two models, one of which may get another uri; a component with a uri or *)
(* without; a recipe.                                                      *)
MCModels == {[name |-> m1, uri |-> u1], [name |-> m1, uri |-> u2],
             [name |-> m2, uri |-> u1]}
MCComponents == {[name |-> t1, uri |-> "used"], [name |-> t1, uri |-> ""]}
MCRecipes == {[name |-> r1, fields |-> [scope |-> "x", tasks |-> "y"]]}
MCMaxListed == [models |-> 2, components |-> 1, recipes |-> 1]

(* A template that is the directory of a project that has run.             *)
MCConfig ==
  (<<"model">> :> "{}") @@ (<<"model", "model_uri">> :> "template") @@
  (<<"model", "training">> :> "{}") @@ (<<"model", "training", "save_steps">> :> "template") @@
  (<<"recipe">> :> "{}") @@ (<<"recipe", "tags">> :> "template") @@
  (<<"hardware">> :> "{}") @@ (<<"hardware", "accelerators">> :> "{}") @@
  (<<"hardware", "accelerators", "A100">> :> "template") @@
  (<<"model_merging">> :> "{}") @@ (<<"model_merging", "method">> :> "template")

MCDisk ==
  <<"/", "used">> :>
    [files |-> {"train.py", "config.yml", ".lineage/experiment.yml", "modules"},
     config |-> MCConfig]

SessionSymmetry == Permutations(Session)
=============================================================================
