-------------------------------- MODULE MCJob --------------------------------
(***************************************************************************)
(* Instances of the job controller for TLC: one QuarksJob without          *)
(* configuration, and its Job.                                             *)
(***************************************************************************)
EXTENDS JobController

NoConfigs == {}
NoPrefixes == {}

JobSpecs == {[strategy |-> "once", update |-> FALSE, refs |-> {}]}

\* How often each kind of disturbance happens.
JobBudgets(edit, config, touch, fault, crash, miss) ==
  [edit |-> edit, config |-> config, touch |-> touch, fault |-> fault, crash |-> crash,
   miss |-> miss, clash |-> 0]

MCOwnerOf == [j \in Jobs |-> CHOOSE q \in QJobs : TRUE]

\* job: the QuarksJob is deleted and created again while a worker is busy with
\* the Job of the old one; one of every other disturbance.
JobBudget == JobBudgets(3, 1, 1, 1, 1, 1)

\* job_namesake: the same, undisturbed.
NamesakeBudget == JobBudgets(3, 1, 0, 0, 0, 0)
=============================================================================
