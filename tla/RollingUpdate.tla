---------------------------- MODULE RollingUpdate ----------------------------
(***************************************************************************)
(* Start-up of the operator, and the update of its deployment.             *)
(*                                                                         *)
(* The command applies the CRD, waits for it, builds the manager with both *)
(* controllers and starts it; an error ends the process, which Kubernetes  *)
(* starts again.  The deployment asks for one replica and leader election  *)
(* is off, so that during an update the old operator and the new one work  *)
(* on the same QuarksJobs: each is an instance of the errand controller    *)
(* with an informer, a queue and workers of its own.  The API server, the  *)
(* Jobs and the clock they share.  The errands have no configuration.      *)
(***************************************************************************)
EXTENDS Integers, Sequences

CONSTANTS QJobs, Nil, Specs, Budget, MaxLag,  \* as in QuarksJobAPI
          Workers, SkipDuration, Backoffs     \* as in ErrandController

VARIABLES qjobs, rev, left, now, jobs, runs, lastRun, owed,  \* shared
          oldCache, oldWatch, oldNotices, oldDirty, oldTimer, oldPc, oldKey, oldObj,
          newCache, newWatch, newNotices, newDirty, newTimer, newPc, newKey, newObj,
          crd,      \* the CustomResourceDefinition
          stage,    \* how far each operator is
          cleared,  \* history: stamps that have been cleared
          hasty     \* history: an operator ended while it had something to do

\* Each operator, with what is proved about it.
Old == INSTANCE ErrandProofs WITH
         Configs <- {}, HasPrefix <- {}, RetryDelay <- 0, Overlap <- TRUE,
         configs <- {}, events <- {}, outdated <- {},
         cache <- oldCache, watch <- oldWatch, notices <- oldNotices, dirty <- oldDirty,
         timer <- oldTimer, pc <- oldPc, key <- oldKey, obj <- oldObj

New == INSTANCE ErrandProofs WITH
         Configs <- {}, HasPrefix <- {}, RetryDelay <- 0, Overlap <- TRUE,
         configs <- {}, events <- {}, outdated <- {},
         cache <- newCache, watch <- newWatch, notices <- newNotices, dirty <- newDirty,
         timer <- newTimer, pc <- newPc, key <- newKey, obj <- newObj

ASSUME RollingAssumption ==
  /\ Nil \notin Nat /\ Nil \notin QJobs
  /\ Nil \notin Old!QJob /\ Nil \notin Old!Run
  /\ Specs \subseteq Old!SpecType
  /\ Budget \in [Old!Kinds -> Nat]
  /\ MaxLag \in Nat \ {0}
  /\ SkipDuration \in Nat \ {0}
  /\ Backoffs \subseteq Nat /\ Backoffs # {}

sharedVars == <<qjobs, rev, left, now, jobs, runs, lastRun, owed>>
oldVars == <<oldCache, oldNotices, oldDirty, oldTimer, oldPc, oldKey, oldObj>>
newVars == <<newCache, newNotices, newDirty, newTimer, newPc, newKey, newObj>>
deployVars == <<crd, stage>>
rollingVars == <<sharedVars, oldVars, oldWatch, newVars, newWatch, deployVars, cleared, hasty>>

Operators == {"old", "new"}

\* Not deployed yet, the two steps of the command, working, terminated for good.
Stages == {"none", "apply", "start", "up", "gone"}

RollingTypeOK ==
  /\ Old!ErrandTypeOK /\ New!ErrandTypeOK
  /\ crd \in {"none", "applied", "ready"}
  /\ stage \in [Operators -> Stages]
  /\ cleared \in [QJobs -> Nat]
  /\ hasty \in BOOLEAN

RollingInit ==
  /\ Old!ErrandInit /\ New!ErrandInit
  /\ crd = "none"
  /\ stage = [old |-> "apply", new |-> "none"]
  /\ cleared = [q \in QJobs |-> 0]
  /\ hasty = FALSE

-----------------------------------------------------------------------------
(* Steps of the two operators.                                             *)

NoObjects == [q \in QJobs |-> Nil]

\* A watch with the versions written in this step, if its informer runs.
Relay(op, watch) ==
  [q \in QJobs |-> IF stage[op] = "up" /\ rev'[q] # rev[q]
                   THEN Append(watch[q], qjobs'[q]) ELSE watch[q]]

Clears(q) == /\ qjobs[q] # Nil /\ qjobs'[q] # Nil
             /\ qjobs[q].stamp # Nil /\ qjobs'[q].stamp = Nil

CountClears == cleared' = [q \in QJobs |-> cleared[q] + IF Clears(q) THEN 1 ELSE 0]

\* A step of the old operator's instance that the other one sees through its
\* watch alone.
OfOld(step) ==
  /\ step
  /\ newWatch' = Relay("new", newWatch)
  /\ \A q \in QJobs : Len(newWatch'[q]) <= MaxLag
  /\ CountClears
  /\ UNCHANGED <<newVars, deployVars, hasty>>

OfNew(step) ==
  /\ step
  /\ oldWatch' = Relay("old", oldWatch)
  /\ \A q \in QJobs : Len(oldWatch'[q]) <= MaxLag
  /\ CountClears
  /\ UNCHANGED <<oldVars, deployVars, hasty>>

OldWorks(q) ==
  /\ stage["old"] = "up"
  /\ OfOld(\/ Old!Informer(q) \/ Old!TimerFires(q) \/ Old!CompleteQJob(q)
           \/ \E w \in Workers : Old!StartPass(w, q) \/ (oldKey[w] = q /\ Old!Step(w)))

NewWorks(q) ==
  /\ stage["new"] = "up"
  /\ OfNew(\/ New!Informer(q) \/ New!TimerFires(q) \/ New!CompleteQJob(q)
           \/ \E w \in Workers : New!StartPass(w, q) \/ (newKey[w] = q /\ New!Step(w)))

\* Users need the CRD, and no operator.
UsersAct(q) ==
  /\ crd = "ready"
  /\ IF stage["old"] = "up" THEN OfOld(Old!Users(q)) ELSE OfNew(New!Users(q))

\* An operator that does not run has no informer: what the watch would have
\* brought is lost, and users go on.
Unheard ==
  /\ stage["new"] # "up" /\ \E q \in QJobs : newWatch[q] # <<>>
  /\ New!Begin(NoObjects)
  /\ UNCHANGED <<sharedVars, oldVars, oldWatch, deployVars, cleared, hasty>>

Clock ==
  /\ \E d \in Old!Deadlines \cup New!Deadlines : now < d
  /\ now' = now + 1
  /\ UNCHANGED <<qjobs, rev, left, jobs, runs, lastRun, owed, oldVars, oldWatch,
                 newVars, newWatch, deployVars, cleared, hasty>>

-----------------------------------------------------------------------------
(* Start-up and termination.                                               *)

\* The CRD is created; once it is established the manager is built.
ApplyCRDs(op) ==
  /\ stage[op] = "apply"
  /\ \/ crd = "none" /\ crd' = "applied" /\ UNCHANGED stage
     \/ crd = "ready" /\ stage' = [stage EXCEPT ![op] = "start"] /\ UNCHANGED crd
  /\ UNCHANGED <<sharedVars, oldVars, oldWatch, newVars, newWatch, cleared, hasty>>

Establish ==
  /\ crd = "applied"
  /\ crd' = "ready"
  /\ UNCHANGED <<sharedVars, oldVars, oldWatch, newVars, newWatch, stage, cleared, hasty>>

\* An error before the manager works ends the process; it is started again.
StartFails(op) ==
  /\ stage[op] \in {"apply", "start"}
  /\ Old!Spend("crash")
  /\ stage' = [stage EXCEPT ![op] = "apply"]
  /\ UNCHANGED <<qjobs, rev, now, jobs, runs, lastRun, owed, oldVars, oldWatch,
                 newVars, newWatch, crd, cleared, hasty>>

\* NewManager, AddToManager and Start: the informers list what there is.
StartOld ==
  /\ stage["old"] = "start"
  /\ Old!Begin(qjobs)
  /\ stage' = [stage EXCEPT !["old"] = "up"]
  /\ UNCHANGED <<sharedVars, newVars, newWatch, crd, cleared, hasty>>

StartNew ==
  /\ stage["new"] = "start"
  /\ New!Begin(qjobs)
  /\ stage' = [stage EXCEPT !["new"] = "up"]
  /\ UNCHANGED <<sharedVars, oldVars, oldWatch, crd, cleared, hasty>>

\* The deployment starts a pod with the new version.
Deploy ==
  /\ stage["old"] = "up" /\ stage["new"] = "none"
  /\ stage' = [stage EXCEPT !["new"] = "apply"]
  /\ UNCHANGED <<sharedVars, oldVars, oldWatch, newVars, newWatch, crd, cleared, hasty>>

\* Does an errand wait for something only the memory of an operator holds?
InProgress == \E q \in QJobs : \/ qjobs[q] # Nil /\ qjobs[q].stamp # Nil
                               \/ \E w \in Workers : oldKey[w] = q \/ newKey[w] = q

\* The pod of the new operator has no readiness probe, so it counts as ready
\* when it runs, whatever its stage.
TerminateOld ==
  /\ stage["old"] = "up" /\ stage["new"] # "none"
  /\ Old!Begin(NoObjects)
  /\ stage' = [stage EXCEPT !["old"] = "gone"]
  /\ hasty' = (hasty \/ InProgress)
  /\ UNCHANGED <<sharedVars, newVars, newWatch, crd, cleared>>

\* The new operator dies and is started again.
NewDies ==
  /\ stage["new"] = "up"
  /\ New!Spend("crash")
  /\ New!Begin(NoObjects)
  /\ stage' = [stage EXCEPT !["new"] = "apply"]
  /\ hasty' = (hasty \/ InProgress)
  /\ UNCHANGED <<qjobs, rev, now, jobs, runs, lastRun, owed, oldVars, oldWatch, crd, cleared>>

-----------------------------------------------------------------------------
(* Specification.                                                          *)

RollingNext ==
  \/ \E q \in QJobs : OldWorks(q) \/ NewWorks(q) \/ UsersAct(q)
  \/ \E op \in Operators : ApplyCRDs(op) \/ StartFails(op)
  \/ Establish \/ StartOld \/ StartNew \/ Deploy \/ TerminateOld \/ NewDies
  \/ Unheard \/ Clock

RollingSafety == RollingInit /\ [][RollingNext]_rollingVars

\* Steps the scheduler owes an operator, as long as it runs.
OldDoes(step) == stage["old"] = "up" /\ OfOld(step)
NewDoes(step) == stage["new"] = "up" /\ OfNew(step)

\* Each operator works as a single one does while it runs, start-up goes on and
\* the API server establishes the CRD.  Nothing makes an update happen.
RollingFairness ==
  /\ \A q \in QJobs :
       /\ WF_rollingVars(OldDoes(Old!CacheUpdate(q)))
       /\ WF_rollingVars(NewDoes(New!CacheUpdate(q)))
       /\ WF_rollingVars(OldDoes(Old!HandleEvent(q)))
       /\ WF_rollingVars(NewDoes(New!HandleEvent(q)))
       /\ WF_rollingVars(OldDoes(Old!TimerFires(q)))
       /\ WF_rollingVars(NewDoes(New!TimerFires(q)))
       /\ SF_rollingVars(OldDoes(\E w \in Workers : Old!StartPass(w, q)))
       /\ SF_rollingVars(NewDoes(\E w \in Workers : New!StartPass(w, q)))
  /\ \A w \in Workers : /\ WF_rollingVars(OldDoes(Old!Step(w)))
                        /\ WF_rollingVars(NewDoes(New!Step(w)))
  /\ \A op \in Operators : WF_rollingVars(ApplyCRDs(op))
  /\ WF_rollingVars(Establish) /\ WF_rollingVars(StartOld) /\ WF_rollingVars(StartNew)
  /\ WF_rollingVars(Clock)

RollingSpec == RollingSafety /\ RollingFairness

-----------------------------------------------------------------------------
(* The inductive invariant.                                                *)

\* Jobs created, and those the workers of either operator may still create,
\* without clearing another stamp.
Charged(q) == runs[q] + (IF Old!HasArmed(q) THEN 1 ELSE 0) + (IF New!HasArmed(q) THEN 1 ELSE 0)

\* Every copy in either operator is a version of its QuarksJob, each key is
\* processed by one worker of an operator, what a worker concluded from its
\* copy holds unless the server will refuse its next call, and whoever may
\* create a Job has cleared a stamp for it (errand_reconciler.go:57-132,
\* root.go:64-83).
RollingInv ==
  /\ Old!CopiesAreVersions /\ New!CopiesAreVersions
  /\ Old!WorkersApart /\ New!WorkersApart
  /\ Old!CopiesInv /\ New!CopiesInv
  /\ \A q \in QJobs : Charged(q) <= cleared[q]

-----------------------------------------------------------------------------
(* Properties.                                                             *)

\* Every Job uses up a window of its own: however the two operators and their
\* caches interleave, no two of their workers clear one stamp, and none
\* creates a Job without (errand_reconciler.go:94-118, root.go:69-72).
JobPerWindow == \A q \in QJobs : runs[q] <= cleared[q]

\* No worker of either operator undoes what the other one, a user or the job
\* controller has written since it read its copy
\* (errand_reconciler.go:80, 96, 104, 125, root.go:71).
NothingLost ==
  [][\A w \in Workers, q \in QJobs :
       \/ oldKey[w] = q /\ oldPc'[w] # oldPc[w]
       \/ newKey[w] = q /\ newPc'[w] # newPc[w]
       => (qjobs'[q] = qjobs[q] \/ Old!KeepsEdits(qjobs[q], qjobs'[q]))]_rollingVars

HasRun(q) == qjobs[q] # Nil => lastRun[q] # Nil /\ lastRun[q].uid = qjobs[q].uid

\* A once errand gets its Job ("TriggerOnce jobs run only once, when created,
\* then switches to TriggerDone", types.go:67).
OnceErrandsRun ==
  \A q \in QJobs : (qjobs[q] # Nil /\ qjobs[q].strategy = "once") ~> HasRun(q)

\* It does if no request fails and no operator ends while a window is open or a
\* pass under way: then it makes no difference when the operators come and go,
\* and which one serves the errand (errand_controller.go:50-63,
\* errand_reconciler.go:76-131, root.go:64-83).
GracefulUpdatesServe == [](~hasty /\ left["fault"] = Budget["fault"]) => OnceErrandsRun
=============================================================================
