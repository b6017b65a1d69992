------------------------------ MODULE MCErrand ------------------------------
(***************************************************************************)
(* Instances of the errand controller for TLC.                             *)
(***************************************************************************)
EXTENDS ErrandProperties

ConfigMap(base) == [kind |-> "configMap", base |-> base, version |-> 0]
Secret(base, version) == [kind |-> "secret", base |-> base, version |-> version]

cm == ConfigMap("cm")

MCHasPrefix == {<<"cm", "cm">>, <<"foo", "foo">>}

Spec(strategy, update, refs) ==
  [strategy |-> strategy, update |-> update, refs |-> refs]

\* How often each kind of disturbance happens, in the order of Kinds.
Budgets(edit, config, touch, fault, crash, miss, clash) ==
  [edit |-> edit, config |-> config, touch |-> touch, fault |-> fault, crash |-> crash,
   miss |-> miss, clash |-> clash]

-----------------------------------------------------------------------------
(* errand_safety: one QuarksJob, deleted and created again while a worker  *)
(* is busy with it; faults, a crash, a missing reference, a taken name.    *)

SafetyConfigs == {cm}
SafetySpecs == {Spec("now", FALSE, {}), Spec("once", TRUE, {cm})}
SafetyBudget == Budgets(3, 0, 0, 1, 1, 1, 1)

-----------------------------------------------------------------------------
(* errand_live: undisturbed but for lag, missing references and the writes *)
(* of others, triggers one at a time.                                      *)

LiveSpecs == {Spec("manual", FALSE, {cm}), Spec("now", FALSE, {cm}),
              Spec("once", TRUE, {cm})}
LiveBudget == Budgets(3, 2, 1, 0, 0, 1, 0)

\* errand_pair: two QuarksJobs that follow a ConfigMap and a secret, of which a
\* new version may appear, share one worker.
foo1 == Secret("foo", 1)
foo2 == Secret("foo", 2)
PairConfigs == {cm, foo1, foo2}
PairSpecs == {Spec("done", TRUE, {cm, foo1})}
PairBudget == Budgets(2, 1, 1, 0, 0, 0, 0)

-----------------------------------------------------------------------------
(* The code does not do what its comments say.                             *)

\* errand_overlap: a ConfigMap changes about when the errand that follows it is created.
OverlapSpecs == {Spec("once", TRUE, {cm})}
OverlapBudget == Budgets(1, 1, 0, 0, 0, 0, 0)
=============================================================================
