# A verification model of quarks-job

quarks-job is a Kubernetes operator. A QuarksJob is a pod template with a
trigger; when the trigger fires the operator creates a Kubernetes Job from the
template, and a container it adds to the Job's pod, `output-persist`, turns the
files the other containers write into Secrets. This directory holds TLA+
specifications of the operator and of that container, configurations that
model-check them with TLC, and proofs checked by TLAPS.

All paths are relative to the repository; `errand_reconciler.go` and the like
are in `pkg/kube/controllers/quarksjob/`, `reconciles.go` is in
`pkg/kube/util/reference/`, `types.go` and `register.go` are in
`pkg/kube/apis/quarksjob/v1alpha1/`.

## The system

| Component | State | Operations | Talks to |
| --- | --- | --- | --- |
| QuarksJob API (`types.go`, `register.go`) | the stored QuarksJobs: strategy, `updateOnConfigChange`, template, `status.lastReconcile`, `status.completed` | create, edit, delete; status and spec are written separately; optimistic locking | users and all controllers |
| Errand controller (`errand_controller.go`, `reconciles.go`) | none of its own; informer caches and the work queue of the library | predicates on QuarksJob, ConfigMap and Secret events; mapping of a configuration to the QuarksJobs that follow it (`GetReconciles`, `SkipReconciles`) | fills the errand queue |
| Errand reconciler (`errand_reconciler.go`) | none between passes: everything is in the QuarksJob | `Reconcile`: open the meltdown window, end it, revert `now` to `manual`, create the Job, turn `once` into `done` | API server, job creator, queue |
| Job creator (`job_creator.go`, `service_account.go`) | none | look up service account and references, create the Job | API server |
| Job controller and reconciler (`job_controller.go`, `job_reconciler.go`) | a queue of its own | delete a succeeded Job (and its pod), set `status.completed` | API server |
| Output persistor (`output_persistor.go`, `cmd/internal/persist_output.go`) | goroutines, a channel, a directory watch per container | read pod and QuarksJob, wait for files, wait for the container's end, store Secrets | the pod's other containers, API server |
| Namespace predicate (`namespace_predicate.go`) | none | drop events of namespaces that are not monitored | errand and job controllers |
| Generated deep copies (`zz_generated.deepcopy.go`) | none | copy what the informer's cache hands out | every reader of the cache |
| Start-up (`cmd/internal/root.go`, `operator.go`, `controllers.go`) | flags | create the CRD, build and start the manager | everything |

Listers, fakes, tests, the Helm chart and the examples are not part of the
models; the examples were read for the specs users write, the chart for how the
operator is deployed.

How they interact. An event of a QuarksJob that passes the predicate, or a
change of a ConfigMap or Secret that an auto errand follows, puts the
QuarksJob's key into the errand queue. A worker takes the key and runs
`Reconcile`, which reads the object from the cache. The first pass stamps
`status.lastReconcile` and returns with a requeue after ten seconds; passes
inside the window are dropped; the first pass after it clears the stamp and
creates the Job. The Job's pod runs the containers and `output-persist`; the
Secrets this one writes are configuration that other QuarksJobs may follow. The
job controller deletes the Job when it has succeeded and sets
`status.completed`, in the same status that holds the stamp.

What is hard:

- *Stale reads.* Every decision of `Reconcile` is taken on a cache that lags
  behind the controller's own writes. Only the server's refusal of old resource
  versions stands between a stale read and a second window or a second Job.
- *Several writes per pass.* A pass makes up to four writes and a creation;
  each may be refused, fail, or take effect with its reply lost, users and the
  job controller write in between, and the operator may die after any of them.
- *One delayed entry per key.* The trigger that waits for its window exists only
  as a delayed entry of the queue, and the queue keeps the earliest one.
- *Events as the only trigger.* Nothing is recomputed from state: a dropped
  event, or one reported twice, is a Job lost or repeated. A restart reports
  everything as created.
- *Goroutines and a channel.* `Persist` counts messages, goroutines send more
  than one, and the containers write files at any time.
- *Three requests that are not retried.* The job controller deletes the Job, then
  its pod, then writes the status; what fails is logged. It finds the parent by
  name, in a cache, while the garbage collector and users are at work.
- *Two operators.* Leader election is off and a rolling update runs the old and
  the new operator side by side, each with a cache and a queue of its own.
- *Shared memory.* What a worker changes in its copy of an object must not show in
  the cache, nor what the job creator adds to the pod template in the object the
  worker writes back.

What makes each component correct: Jobs of a QuarksJob are a window apart; one
trigger gives one Job, and every trigger gives one; the controller undoes nobody
else's write; `done` is only set for a Job that was created; a change of
configuration reaches all that follow it and nothing else is taken for one;
`Persist` returns, and with success only if everything is stored; nothing is
stored that was not written in full; a Job that succeeded is deleted and
completes its QuarksJob, and a failed one stays; two operators do not run a Job
per window each; a copy shares nothing with its original.

## The modules

`ConfigRefs`: the configuration a pod template names, and how the controller
compares two sets of such names (`hasConfigsChanged`, `isLowerVersion`) and
finds a configuration in them (`GetReconciles`). A name is a record; string
prefixes are the constant relation `HasPrefix`.

`QuarksJobAPI`: the stored QuarksJobs (`qjobs`, `rev`), the operator's informer
cache (`cache`) and the versions on their way to it (`watch`). `Replace` is a
PUT request with all its outcomes: stored, refused because the copy is old or
the object is gone, failed without effect, stored with the reply lost.
`StatusUpdate` and `Update` are the two kinds of PUT the code makes; each keeps
the half of the object it does not write. Users create, edit and delete.

`ErrandController`: the errand controller on top of that API.

| In the model | In the code |
| --- | --- |
| `CacheUpdate`, `Triggers` | the informer stores the next version, then the predicate sees old and new (`errand_controller.go:49-93`) |
| `notices`, `HandleEvent` | events that passed the predicate and are not enqueued yet |
| `configs`, `events`, `outdated`, `HandleConfigEvent` | configuration in the informers' caches, its events, those a newer version has made stale; the mapping functions (`errand_controller.go:98-177`) with `IsStale` for `SkipReconciles` and `Reconciles` for `GetReconciles` |
| `dirty`, `timer`, `AddAfter`, `TimerFires` | the work queue and its delayed entries, one per key, the earliest wins |
| `StartPass` | a worker takes a key nobody else has, reads the cache and decides (`errand_reconciler.go:57-94`) |
| `Stamp`, `Clear`, `Revert`, `MarkDone` | the four writes of `Reconcile` |
| `Validate`, `CreateJob` | the job creator's lookups, and its creation of the Job |
| `pc`, `key`, `obj` | per worker: the call it makes next, its key, its copy of the QuarksJob |
| `Tick`, `Crash` | the clock; the operator dies and starts again |
| `CreateQJob`, `EditQJob`, `DeleteQJob`, `SetConfig`, `RemoveConfig`, `TouchConfig` | users; a deleted QuarksJob takes its Jobs along |
| `CompleteQJob` | what the job controller does to a QuarksJob (`job_reconciler.go:55-126`) |

Every call to the API server is a step of its own, so that anything can happen
between two calls of one pass. `runs`, `lastRun` and `owed` are history: they
appear in no guard but that of `AtRest` (below), and record the Jobs created for
a key and whether a trigger still waits for one.

`MeltdownWindow`: what the meltdown promises, without caches, queues and
workers: a QuarksJob is idle, in an open window, past its end, or armed, and a
Job consumes a window that was open for its full length.

`ErrandProperties`: the properties, the inductive invariant and the refinement
mapping to `MeltdownWindow`. `MCErrand`: instances.

`JobController`: the job controller, on the same API. `job`, `jobCache` and
`jobWatch` are the stored Jobs, the informer's and those on their way, `pods` the
pods of each Job.

| In the model | In the code |
| --- | --- |
| `JobEvent`, `Passes`, `InNamespace` | the watch, its predicate and the namespace predicate (`job_controller.go:40-70`, `namespace_predicate.go`) |
| `Resync` | the informer's periodic updates, which the predicate passes again |
| `StartJobPass`, `IsDue`, `NoParent` | Job and parent are read from caches (`job_reconciler.go:55-95`) |
| `DeleteJob`, `FindPod`, `DeletePodOf`, `SetCompleted` | the requests of `Reconcile`, each with its failures (`job_reconciler.go:95-160`) |
| `StartPod`, `EndJob`, `RemoveJob`, `CollectJob` | Kubernetes: pods start, Jobs end, orphaned and owned objects are collected |
| `OpenWindow`, `StartJob`, `UsersOf` | the other writers of the QuarksJob, as far as this controller sees them |
| `LabelNamespace`, `JobCrash` | labels that come and go; a restart |

`OutputPersistor`: the container that persists the output.

| In the model | In the code |
| --- | --- |
| `AuthenticateInCluster`, `FetchPod`, `Begin` | clients, the pod, its QuarksJob, and the goroutines (`persist_output.go:29-98`, `output_persistor.go:48-92`) |
| `CheckFile`, `Checked`, `AddWatch`, `Notice`, `WatchError` | look at the directory, watch it, wait (`output_persistor.go:204-305`) |
| `Poll` | wait for the container's end (`output_persistor.go:122-127, 189-202`) |
| `ReadFile`, `UnmarshalNothing` | read a file and parse it, with the errors of each, and keep the data there is (`output_persistor.go:130-146`) |
| `UnmarshalValue`, `StoreSecret`, `Finish` | parse the value of a key to fan out; create or update a Secret; the last message (`output_persistor.go:148-186, 322-380`) |
| `Receive`, `Return`, `End` | `Persist` counts messages; the process ends (`output_persistor.go:94-102`) |
| `CreateFile`, `WriteFile`, `ExitContainer` | the pod's other containers |

`out[c]` is the message a goroutine is blocked on: the channel has no buffer. A
goroutine that has sent an error goes on, as in the code. A piece of output is a
file or, fanned out, a key of a file, and `SecretOf` gives the sanitized name of
its Secret, which two pieces may share. `data[c]` is what `json.Unmarshal` has left
of each piece that is not stored yet: the whole piece; what remains without the
values that are no strings (`Incomplete`); an object without data (`Empty`).
`hand[c]` is the key whose value is parsed and not stored yet, so that an error is
sent, and blocks the goroutine, before what it is about is stored.
`MCPersistor`: instances.

`RollingUpdate`: start-up and the update of the deployment. It composes two
instances of the errand controller, `Old` and `New`: API server, Jobs and clock
are shared, cache, watch, queue and workers are not, and what one stores is
appended to the other's watch (`Relay`); a write that no operator hears of, because
none runs, is forgotten (`Unheard`), and the next one to start lists what there is.
`ApplyCRDs`, `StartOld`, `StartNew`,
`StartFails` are the command (`root.go:31-84`, `operator.go`), `Deploy`,
`TerminateOld` and `NewDies` the deployment. The instances are of `ErrandProofs`, so
that its lemmas hold of each operator. `MCRolling`: instances.

`DeepCopies`: the generated copy functions on a heap. The address of a cell is
who made it and which part of the QuarksJob it holds; a copy has, for every cell
of the original, one of its own. Two workers take copies from the cache, set the
stamp, let the job creator add to a copy of the template (`BuildTemplate`,
`job_creator.go:59-120`) and write the QuarksJob back. It checks itself, without
an MC module.

`APIProofs`, `ErrandProofs`, `WindowProofs`, `TriggerProofs`, `JobProofs`,
`PersistorProofs`, `RollingProofs`, `DeepCopiesProofs`: theorems (below).

Abstractions, beyond those the modules name:

- Time has the unit of the API's timestamps, a second, to which a stamp is cut
  when it is stored. The clock does not go backwards.
- Namespaces carry the labels that make them monitored all the time, but for
  `JobController`, where labels come and go. A lookup of a namespace may fail.
- One operator runs at a time, but for `RollingUpdate`.
- A write of configuration reaches the informer's cache at once; its event
  does not reach the mapping function at once. At most one event per
  configuration is pending, because an older one would be skipped as stale.
- The three lookups of the job creator are one step. They have no effects.
- A conflict in the name of a Job needs an existing Job (names are random).
- In `ErrandController` the job controller is one step, `CompleteQJob`: the
  deletion of the Job, which succeeds, and the status write, before or after any
  write of the errand controller, from a copy as old as the cache.
  `JobController` has its four requests one by one.
- In `JobController` the errand controller is `OpenWindow` and `StartJob`: a stamp
  that comes and goes. A name of a Job is used once.
- In `RollingUpdate` errands have no configuration.
- In `DeepCopies` a map of strings is the set of those who have written to it, and
  the pod template but for its labels is one cell.
- The pod's containers end once (`restartPolicy: Never`, as in all examples).
- The store of versioned Secrets is the latest value under a name.

Bounds: `Budget` limits each kind of disturbance, `MaxLag` the versions the
cache can be behind (a write waits when the watch is full), `Mishaps` the faults
of an `OutputPersistor` run, `MaxPods` the pods a Job starts before it ends. The
clock stops when nothing waits for it.

## The runs

Runs that pass:

| Run | Question | Size |
| --- | --- | --- |
| `errand_safety` | one QuarksJob, one worker, triggers at any time, 3 edits (create, delete, create again), 1 each of fault, crash, missing reference, taken name; window of 2: types, the inductive invariant, `RunsSpaced`, `NoLostUpdate`, `DoneAfterRun`, the refinement `ImplementsWindow` | 1 110 000 states |
| `errand_live` | triggers one at a time, 2 configuration changes and a change of metadata, a missing reference: the inductive invariant `OwedInv`, `TriggersLeadToJobs`, `RunsAreOwed` | 82 000 states |
| `errand_pair` | two QuarksJobs that follow a ConfigMap and a secret of two versions, a change of data or a new version and a change of metadata, one worker: `ChangesReachFollowers` | 25 000 states |
| `job` | one Job, its QuarksJob deleted and created again, `delete=pod`, up to 2 pods, 1 each of fault, crash, missed pods, label change: `CompletedWasEarned`, `StampSurvives`, `FailedJobsStay`, `SucceededJobsGo`, `PodsGo`, `SuccessCompletes` | 277 000 states |
| `output_safety` | two containers, three files, one of them fanned out into two Secrets, two pieces of output with one name, `WriteOnFailure`, one mishap: `SuccessMeansStored`, `StoredAfterExit` | 436 000 states |
| `output_live` | a container with two files, one of them fanned out, and one with an entry but no file, one mishap: `FilesEndWait`, `PersistReturns` | 94 000 states |
| `rolling` | two operators, an errand that runs once, 1 fault, 1 failed start or crash, window of 1: types, the inductive invariant `RollingInv`, `JobPerWindow`, `NothingLost`, `GracefulUpdatesServe` | 235 000 states |
| `copies` | two workers, a QuarksJob of each of 512 shapes: the inductive invariant `MemoryInv`, `CopyEqualsOriginal`, `TemplateIsTheUsers`, `OnlyAnnotationsShared` | 33 000 states |

Why the bounds are enough: a window of 2 has an inside, an end and a moment
before the end; three edits are a creation, a deletion and the creation of
another object of that name; with one QuarksJob the workers of a key are one at a
time (`WorkersApart`, proved for any number), so a second worker adds nothing but
steps. One fault, one crash and one missing reference each meet every step of a
pass, because nothing orders them. Two pods are a failed one and its successor.
Two containers are the least for one's message to be taken for the other's, and
two files the least for one to be found by the look and the other by an event. In
`rolling` a lag of 1 still lets each operator act on what the other has already
replaced, and a window of 1 has an inside and an end. The theorems do not depend
on the bounds.

`CHECK_DEADLOCK FALSE` everywhere: the system stops when nobody has anything
left to do, and `Persist` really may.

`Overlap = FALSE` in the liveness runs means that a trigger arrives only when
nothing of an earlier one is left (`AtRest`). With overlapping triggers the
property fails, which is the finding of `errand_overlap`.

Premises of the liveness properties say what the code cannot promise.
`SucceededJobsGo` needs a namespace that is monitored in the end; `PodsGo` and
`SuccessCompletes` need that nothing fails, because nothing is retried, and
`SuccessCompletes` that nobody writes to the QuarksJob while the pass is under
way, because a refused write is dropped. `FilesEndWait` and `PersistReturns` name
the file that appears between the look and the watch (`missed`), for which the
wait never ends. `GracefulUpdatesServe` needs that no operator ends with work
that only it knows of.

Runs that find a violation of what a comment or the documentation says; each is
one finding of `PROJECT.json`:

| Run | What happens |
| --- | --- |
| `errand_overlap` | A ConfigMap changes about when an errand that follows it is created, so that two triggers are processed one after the other. The second pass reads a cache without the stamp of the first, its write is refused, the rate-limited requeue replaces the pending attempt in the queue because it is earlier, that pass falls into the window and is dropped. No Job is ever created. |
| `output_unmapped` | `Persist` waits for a message of a container that has no goroutine. |
| `job_namesake` | A QuarksJob is deleted and created again under its name while a worker has a succeeded Job of the first: the second is completed by it. |
| `rolling_lost` | The old operator stamps an errand, the new one lists it inside the window and drops the pass, the old one is terminated with the delayed requeue in its memory: the errand never runs. |

Behaviours of the same kind that have no run of their own:

- A crash between the reset to `manual` and the creation of the Job loses the
  trigger (`errand_reconciler.go:102-118`); so does a stamp whose reply is lost,
  when the requeue falls into the window.
- A crash between the creation of the Job and the write of `done` leaves a `once`
  errand that runs again on a restart; a `once` errand may also run twice under
  two operators, and `RunsSpaced` does not survive them: windows are kept apart by
  `JobPerWindow` only.
- A restart takes every versioned secret past the first version for a new one:
  errands that are done run again (`errand_controller.go:138-147`).
- A change of a label right after a change of the data makes the event of the data
  stale, and has none itself: no Job runs (`reconciles.go:120`);
  `ChangesReachFollowers` excludes it by name.
- A ConfigMap that changes during a restart is reported as created, which the
  predicate drops (`errand_controller.go:101`); a Job that succeeds while the
  operator is down waits for the informer's next resync (`job_controller.go:40`).
- A QuarksJob created before its namespace is labelled waits for the operator's
  next start, since no event of it follows (`namespace_predicate.go:21`).
- A file that is no JSON object, or has values that are no strings, is reported and
  then stored without data, or without those values (`output_persistor.go:141-180`);
  `StoredAfterExit` allows it once the error has been received, that is in a run
  that fails.
- A secret `foobar-v9` in the template hides the step from `foo-v1` to `foo-v2`,
  because `isLowerVersion` compares names by the prefix of their base
  (`errand_controller.go:208-221`): the errand does not run. No run has such names.
- Two pieces of output whose names become equal when sanitized share a Secret
  (`output_persistor.go:152`); `SuccessMeansStored` promises one of them.
- Annotations of output Secrets are shared by all deep copies
  (`zz_generated.deepcopy.go:216`).

## Fairness

`ErrandFairness`: the informers deliver, handlers run, delayed entries fire, the
clock ticks while something waits for it, a worker makes its next call; these
are weak fairness of goroutines that are always ready to go on. Taking a key is
strongly fair: the queue is first in, first out, so a key that is in it is taken
even if all workers are busy again and again. Users, crashes, faults and the job
controller have no fairness. `JobFairness` is the same for the job controller,
and weak fairness of the informer's resync (every ten hours), of the garbage
collector and of the removal of a Job whose pods are orphaned; pods need not
start nor Jobs end. `RollingFairness` has both operators' fairness, each as
long as the operator is up (`OldDoes`, `NewDoes`), start-up's and the API server's,
which establishes the CRD; the update itself need not happen. `DeepCopies` has none. `PersistorFairness`: every goroutine that is not
blocked runs, every container gets on with what it can do, and `Persist` takes
messages and returns. That a container writes all of its files is not assumed;
`PersistReturns` says so in its premise.

## The proofs

`ErrandProofs` proves, for any number of QuarksJobs, workers and
configurations, any lag, any budget and any durations that satisfy the
assumptions of `ConfigRefs`, `QuarksJobAPI` and `ErrandController`:

- `TypeCorrect`: the type invariant;
- `InvCorrect`: the inductive invariant `ErrandInv`;
- `RunsSpacedCorrect`: two Jobs of a QuarksJob are a window apart;
- `NoLostUpdateCorrect`: no write of a worker undoes another writer's change;
- `DoneAfterRunCorrect`: `done` is set only for an object that had its Job.

The argument. `RunsSpaced` alone is not inductive: that the last Job is a window
ago must be known when the worker starts the creation, and it got there through
two writes made from an old copy. `ErrandInv` says what makes that safe. Every
copy anybody has (in the cache, on the watch, in a worker) has a resource
version not above the last one written, and equals the stored object if the
resource versions agree (`CopiesAreVersions`): a write that is not refused is
made from what is stored. A key is processed by one worker (`WorkersApart`). A
stored stamp is not before the last Job and not in the future
(`StampsFollowRuns`). And for each place a worker can be, what it has concluded
from its copy holds of the stored object as long as that object has not changed
(`WorkersInv`): the window it clears is over, and once it has cleared it there is
no stamp, and the last Job is a window ago, until it creates the next. No other
actor can disturb this: users and the job controller never write a stamp of
their own (`Harmless`), and other workers are at other keys (`OthersHarmless`).
`JobsAreOfStored` is needed for a name that is taken: the Job that has it is of
the object the worker has a copy of.

Each of the two invariants has its initial-state lemma, a lemma per worker
action, one for everybody else, and a theorem that puts them together; the
action properties follow from the invariants and one step.

`WindowProofs` proves `ImplementsWindowCorrect`, the refinement: under `Phase`, every
step of the controller is one of `MeltdownWindow`'s, or none. A key is armed only by
a worker that clears its stamp and goes on (`ArmingClears`), and `ErrandInv` says
that this stamp was the stored one and its window over (`ClearArms`); a stamp is
stored only where there was none (`StampOpens`); while a worker is armed there is
no stamp, so that a Job, a failure or a crash leaves the key idle (`JobRuns`,
`PhaseShrinks`); time moves open windows, and nothing else (`TickExpires`).

`APIProofs` holds what both controllers' proofs need of the API: requests keep the
types, and keep every copy a version of its object.

`JobProofs` proves, for any number of QuarksJobs, Jobs and workers, any owner
names, stale caches, faults and restarts:

- `JobTypeCorrect`: the type invariant;
- `CompletedWasEarnedCorrect`: what is completed had a Job that succeeded;
- `StampSurvivesCorrect`: the status write sets `completed` and nothing else;
- `FailedJobsStayCorrect`: only the loss of its QuarksJob removes a failed Job.

The argument. A worker acts on a Job it has read from a cache, so what the cache
says must stay true: `Truthful` says that a version of a Job that shows success
means success for good (`Done`), since a name is used once and a Job ends once,
and that only such a Job is ever being deleted. This holds of the stored Jobs, of
the cache and of every version on its way, hence of what a busy worker works on
(`WorkersAreRight`), which makes the status write earned and the deletion
harmless to failed Jobs. That the write keeps a stamp needs the parent to be a
version of the QuarksJob, as in `ErrandProofs`. Every step is first reduced to
what it does to the QuarksJobs (`APISteps`), the Jobs (`JobSteps`) and the workers
(`WorkerSteps`). `JobCoreType` leaves out pods and victims, which the
argument does not need; `JobTypeCorrect` adds them (`PodTypes`). The pod that
`jobPod` chooses is a maximum of the pods' numbers, and exists because the order of
the naturals is well-founded (`LatestIsNewest`).

`PersistorProofs` proves, for any containers, files, output map and number of
mishaps, `PersistorTypeCorrect`, `StoredAfterExitCorrect` and `SuccessCorrect`.
The second rests on `StoringInv`: a goroutine that stores has seen its container end as
required, and what it has read is whole and from good files (`Sound`), unless it is
blocked with an error, or `Persist` has received one. It is the order of the steps
that keeps this: the error is sent before what it is about is stored, and a goroutine
goes on when it has been received, which makes `Persist` fail.
For the last one there are two invariants: as long as no error has been received, `received`
is the number of goroutines that have ended and whose message is out of their hands
(`CountInv`), and as long as no error has been sent, a goroutine past a stage has
done all the work of that stage (`WorkInv`). When `Persist` returns success it has
received as many messages as there are containers; the goroutines that are gone
are among the mapped containers, which are among all containers, so by their
cardinalities all three are the same set: every container was mapped, and each
goroutine has stored its output. An error cannot stand in for a result, because
`Persist` returns at the first one.

`RollingProofs` proves, for two operators with any number of workers, QuarksJobs
without configuration, any lag of either cache, any disturbances and
any start, failure and termination of the two:

- `RollingTypeCorrect`: the type invariant;
- `RollingInvCorrect`: the inductive invariant `RollingInv`;
- `JobPerWindowCorrect`: Jobs never outnumber the stamps that were cleared;
- `NothingLostCorrect`: no worker of either operator undoes another's write,
  the stamp apart, which is what `JobPerWindow` is about. The run has no edits by
  users; the theorem has.

The argument. `ErrandInv` does not hold of an operator that is not alone: the
other one creates Jobs and stores stamps too, so neither a window that is over nor
the time of the last Job is known for long. What survives is in `CopiesInv`: a copy
that is still the stored version differs from it by the stamp at most; a worker
about to clear has a copy without a stamp of an object that has one; one that has
cleared works on a version without one. Two facts carry it across the other
operator's steps. Whatever anybody writes gets a new resource version, so that
copies made before are not current any more (`StepWrites`, `ObservedCopies`); and
the other operator's step, seen from this one, is a write by somebody else
(`Observes`). `Charged(q)` counts the Jobs of `q` and the workers, of either
operator, that may create one without clearing another stamp; it is at most the
number of stamps cleared, because only a write that the server accepts arms a
worker (`Charges`), and the second of two such writes from one version is refused.
An operator that starts or ends has no worker that is armed (`Begins`, `Rests`).
The lemmas about one operator are proved once, in `ErrandProofs`, and cited for
each through `Old` and `New`; they rest on `RollingAssumption`, the assumptions of
`QuarksJobAPI` and `ErrandController` for the constants of this module.

`DeepCopiesProofs` proves, for any number of workers and a QuarksJob that has or
lacks each optional part:

- `MemoryInvCorrect`: the inductive invariant `MemoryInv`;
- `CopyEqualsOriginalCorrect`: a copy has the value of the original;
- `TemplateIsTheUsersCorrect`: what the job creator adds reaches neither a QuarksJob
  nor the server;
- `OnlyAnnotationsSharedCorrect`: objects share annotations and nothing else.

The argument. The properties speak of what pointers lead to, which is not enough to
say what a write leaves alone. `MemoryInv` says who owns the cells: an address is an
owner and a part (`AddressesOK`); the cached object leads to its own cells
(`CachedOK`); the cells of a worker's copy are copies of those, cell by cell
(`CellsCopied`). A step writes only to cells of one worker and its Job
(`StepKeepsMemory`), hence to none of the cache's (`CacheKept`) and to none of
another copy's (`CopyKept`); a new stamp has a cell of its own. The values follow
from the cells (`FilesCopied`, `MapCopied`, `OutputValueCopied`), and so do the
addresses (`CopyAddresses`): a copy leads to its owner's cells, but for the
annotations, which `CopyOptions` leaves as they are. `MemoryAssumption` says that
nil is no address.

`TriggerProofs` proves where a trigger is, for any number of QuarksJobs, workers and
configurations, any lag, conflicts, edits, missing references and taken names:

- `OwedInvCorrect`: the inductive invariant `OwedInv`;
- `RunsAreOwedCorrect`: a Job is created only for a trigger, and one trigger gives
  one Job.

The argument. `OwedInv` says where a trigger is: a version on the watch that will
pass the predicate, a notice, an entry of the queue, a delayed entry, or a worker
that is not past the creation. It is at one of these places at most, and while it
is anywhere it is owed a Job. A step moves it to the next place
(`NoticeTaken`, `QueueOwed`, `StartOwed`, `StepMoves`) or ends it with the Job. That
no second one appears needs that nothing the controllers write passes the
predicate (`StepIsQuiet`): a status leaves strategy and references alone, and a new
strategy is written only over the version the worker has read, by `ErrandInv`, so
that the references are not changed with it. The informer will have seen the
stored version in the end (`Newest`), which is why an edit's event compares what
the edit has replaced (`PutSent`). A change of configuration is the only trigger
while its event is on its way, and finds no version of an object that is gone
(`ConfigInv`).

The premise `Undisturbed` is what the code needs for this; without any one of its
parts the property fails. With `Overlap` a trigger that arrives while a Job
is being created is not the one this Job is for, and one Boolean does not tell
the two apart. With a fault the reply of a creation may be
lost, and the pass is repeated (`CreateJob`, its last disjunct). After a crash
every `now` and `once` errand is reported as created, the one whose Job exists and
that is not yet `done` too. For the same reason the theorems start from
`events = {}`: a versioned secret past its first version that exists when the
operator starts is reported as new. `errand_live` has all these premises.

All liveness is only model-checked: ENABLED and fairness are out of the
installed provers' reach. Every safety property of the runs that pass is proved.

## Not modelled

Flags and wiring of the command; labels, annotations and version numbers of the
output's Secrets; names, mounts and environment of what the job creator adds to
the pod template; logging and Kubernetes events. Listers, the fake clientset, and
the typed client's List, Watch, Patch and DeleteCollection: the program does not
call them. Tests, test environment, fakes, the Helm chart and the examples are
not part of the program.

## Plan

Done: the errand controller with its window and proofs; the job controller;
the output persistor with its proofs; start-up and rolling updates, and deep copies, with theirs.
Next, in this order:

1. Configuration with lag: a cache of ConfigMaps and Secrets that follows the API
   server late, and namespaces that become monitored. Today a write of
   configuration is in the cache at once, and only `JobController` has labels that
   come and go.
2. The composition of the output persistor and the errand controller: the versioned
   Secrets one QuarksJob writes trigger another that follows them.
3. `JobController` without the assumption that the name of a Job is used once.
