---------------------------- MODULE JobController ----------------------------
(***************************************************************************)
(* The job controller: from a Kubernetes Job that has ended to the         *)
(* QuarksJob that is completed.                                            *)
(*                                                                         *)
(* The controller's predicate passes updates of Jobs that have ended.  A   *)
(* pass reads the Job and its parent from caches, deletes the Job if it    *)
(* has succeeded, deletes its pod if the pod template asks for it, and     *)
(* sets status.completed: three requests after which nothing is retried.   *)
(* The parent is looked up by its name.  A Job deleted by the controller   *)
(* leaves its pods behind; a Job whose QuarksJob is deleted is garbage     *)
(* collected with its pods, after a while.                                 *)
(*                                                                         *)
(* The errand controller appears as the writer of the stamp and creator of *)
(* the Jobs, the Job's containers as what makes it end.                    *)
(***************************************************************************)
EXTENDS QuarksJobAPI, FiniteSetsExt

CONSTANTS Jobs,        \* names of Jobs; a name is used once
          OwnerOf,     \* the QuarksJob that the name of a Job is made from
          JobWorkers,  \* MaxConcurrentReconciles goroutines
          DeletePod,   \* Jobs whose pod template has the label delete=pod
          MaxPods      \* bound: pods a Job starts before it ends

\* A Job: the uid of its controlling owner, how it ended, and whether it has a
\* deletion timestamp.
Job == [uid : Nat, phase : {"active", "succeeded", "failed"}, deleting : BOOLEAN]

ASSUME JobAssumption ==
  /\ Nil \notin Job /\ Nil \notin Jobs
  /\ OwnerOf \in [Jobs -> QJobs]
  /\ DeletePod \subseteq Jobs
  /\ MaxPods \in Nat \ {0}

VARIABLES job,        \* the stored Jobs, Nil where there is none
          used,       \* names that have been used
          jobCache,   \* the informer's Jobs
          jobWatch,   \* versions of them on their way, oldest first
          pods,       \* pods of each Job that exist, numbered by age
          started,    \* how many it has started
          labelled,   \* has the namespace both of the labels?
          todo,       \* keys in the work queue
          jpc,        \* the request each worker makes next
          jkey,       \* the Job it processes
          parent,     \* its copy of the QuarksJob
          victim,     \* the pod it is about to delete
          earned      \* history: key and uid of QuarksJobs of which a Job succeeded

clusterVars == <<job, used, jobCache, jobWatch, pods, started, labelled, earned>>
jobWorkerVars == <<jpc, jkey, parent, victim>>
jobVars == <<apiVars, clusterVars, todo, jobWorkerVars>>

JobPCs == {"idle", "delete", "pods", "deletePod", "status"}

JobTypeOK ==
  /\ APITypeOK
  /\ job \in [Jobs -> Job \cup {Nil}]
  /\ used \subseteq Jobs
  /\ jobCache \in [Jobs -> Job \cup {Nil}]
  /\ jobWatch \in [Jobs -> Seq(Job \cup {Nil})]
  /\ pods \in [Jobs -> SUBSET (1 .. MaxPods)]
  /\ started \in [Jobs -> 0 .. MaxPods]
  /\ labelled \in BOOLEAN
  /\ todo \subseteq Jobs
  /\ jpc \in [JobWorkers -> JobPCs]
  /\ jkey \in [JobWorkers -> Jobs \cup {Nil}]
  /\ \A w \in JobWorkers : jpc[w] # "idle" => jkey[w] # Nil /\ parent[w] # Nil
  /\ parent \in [JobWorkers -> QJob \cup {Nil}]
  /\ victim \in [JobWorkers -> 0 .. MaxPods]
  /\ earned \subseteq QJobs \X Nat

JobInit ==
  /\ APIInit
  /\ job = [j \in Jobs |-> Nil]
  /\ used = {}
  /\ jobCache = [j \in Jobs |-> Nil]
  /\ jobWatch = [j \in Jobs |-> <<>>]
  /\ pods = [j \in Jobs |-> {}]
  /\ started = [j \in Jobs |-> 0]
  /\ labelled \in BOOLEAN
  /\ todo = {}
  /\ jpc = [w \in JobWorkers |-> "idle"]
  /\ jkey = [w \in JobWorkers |-> Nil]
  /\ parent = [w \in JobWorkers |-> Nil]
  /\ victim = [w \in JobWorkers |-> 0]
  /\ earned = {}

IsStored(uid, q) == qjobs[q] # Nil /\ qjobs[q].uid = uid

\* Store version v of Job j, Nil if it is removed, and send it down the watch.
PutJob(j, v) == /\ job' = [job EXCEPT ![j] = v]
                /\ jobWatch' = [jobWatch EXCEPT ![j] = Append(@, v)]

-----------------------------------------------------------------------------
(* Events and the work queue.                                              *)

\* Succeeded, or failed more often than the backoff limit allows.
HasEnded(v) == v # Nil /\ v.phase \in {"succeeded", "failed"}

\* Has it the label of the service account, and this operator's id in the other?
IsMonitoredNamespace == labelled

\* The namespace predicate.  If the namespace cannot be looked up the event is
\* dropped.
InNamespace(passes) ==
  \/ (passes <=> IsMonitoredNamespace) /\ UNCHANGED left
  \/ ~passes /\ IsMonitoredNamespace /\ Spend("fault")

\* The predicate of the watch, on the new version of a Job.
Passes(v) == HasEnded(v) /\ ~v.deleting

\* The informer stores the next version of a Job; updates go to the predicates.
JobEvent(j) ==
  /\ jobWatch[j] # <<>>
  /\ jobCache' = [jobCache EXCEPT ![j] = Head(jobWatch[j])]
  /\ jobWatch' = [jobWatch EXCEPT ![j] = Tail(@)]
  /\ \/ /\ jobCache[j] # Nil /\ Passes(Head(jobWatch[j]))
        /\ \E passes \in BOOLEAN : /\ InNamespace(passes)
                                   /\ todo' = IF passes THEN todo \cup {j} ELSE todo
     \/ /\ ~(jobCache[j] # Nil /\ Passes(Head(jobWatch[j])))
        /\ UNCHANGED <<todo, left>>
  /\ UNCHANGED <<qjobs, rev, cache, watch, job, used, pods, started, labelled, earned,
                 jobWorkerVars>>

\* Mutant of Resync: only a change of a Job is worth a pass.
ResyncIgnored(j) == FALSE /\ UNCHANGED jobVars

\* Now and then the informer reports what it has as updated.
Resync(j) ==
  /\ IsMonitoredNamespace /\ Passes(jobCache[j])
  /\ todo' = todo \cup {j}
  /\ UNCHANGED <<apiVars, clusterVars, jobWorkerVars>>

\* The informer of QuarksJobs.
ParentEvent(q) ==
  /\ watch[q] # <<>>
  /\ cache' = [cache EXCEPT ![q] = Head(watch[q])]
  /\ watch' = [watch EXCEPT ![q] = Tail(@)]
  /\ UNCHANGED <<qjobs, rev, left, clusterVars, todo, jobWorkerVars>>

-----------------------------------------------------------------------------
(* Reconcile.                                                              *)

JobGoto(w, next) == jpc' = [jpc EXCEPT ![w] = next]

JobRelease(w) == /\ JobGoto(w, "idle")
                 /\ jkey' = [jkey EXCEPT ![w] = Nil]
                 /\ parent' = [parent EXCEPT ![w] = Nil]
                 /\ victim' = [victim EXCEPT ![w] = 0]

\* Mutant of IsDue: however the Job has ended.
IsDueEnded(j) == HasEnded(jobCache[j])

\* Is there anything to do about the Job in the cache?
IsDue(j) == jobCache[j] # Nil /\ jobCache[j].phase = "succeeded"

\* Mutant of NoParent: the error of the read is ignored.
NoParentIgnored(j) == FALSE

\* Is there a Job without the QuarksJob that it is controlled by?
NoParent(j) == jobCache[j] # Nil /\ cache[OwnerOf[j]] = Nil

\* A worker takes a key and reads Job and parent, which is the QuarksJob that
\* has the owner's name now.  Without a parent the pass fails and is repeated.
StartJobPass(w, j) ==
  /\ jpc[w] = "idle" /\ j \in todo
  /\ \A v \in JobWorkers : jkey[v] # j
  /\ \/ /\ ~NoParent(j) /\ IsDue(j)
        /\ todo' = todo \ {j}
        /\ JobGoto(w, "delete")
        /\ jkey' = [jkey EXCEPT ![w] = j]
        /\ parent' = [parent EXCEPT ![w] = cache[OwnerOf[j]]]
        /\ UNCHANGED <<victim, left>>
     \/ /\ ~NoParent(j) /\ ~IsDue(j)
        /\ todo' = todo \ {j}
        /\ UNCHANGED <<jobWorkerVars, left>>
     \/ NoParent(j) /\ UNCHANGED <<todo, jobWorkerVars, left>>
     \/ Spend("fault") /\ UNCHANGED <<todo, jobWorkerVars>>
  /\ UNCHANGED <<qjobs, rev, cache, watch, clusterVars>>

\* The Job gets a deletion timestamp; its pods will be orphaned.  A failure is
\* logged.
DeleteJob(w) ==
  LET j == jkey[w] IN
  /\ jpc[w] = "delete"
  /\ \/ /\ job[j] # Nil /\ ~job[j].deleting
        /\ PutJob(j, [job[j] EXCEPT !.deleting = TRUE])
        /\ UNCHANGED left
     \/ /\ job[j] # Nil => job[j].deleting
        /\ UNCHANGED <<job, jobWatch, left>>
     \/ Spend("fault") /\ UNCHANGED <<job, jobWatch>>
  /\ JobGoto(w, IF j \in DeletePod THEN "pods" ELSE "status")
  /\ UNCHANGED <<qjobs, rev, cache, watch, used, jobCache, pods, started, labelled, earned,
                 todo, jkey, parent, victim>>

\* Mutant of Latest: the pod that comes first.
Earliest(list) == Min(list)

\* jobPod: the pod created last.
Latest(list) == Max(list)

\* The informer shows a Job's pods as they are or misses the later ones.
\* Without a pod the pass is over, without an error.
FindPod(w) ==
  /\ jpc[w] = "pods"
  /\ \E missed \in 0 .. started[jkey[w]] :
       LET list == {n \in pods[jkey[w]] : n <= started[jkey[w]] - missed} IN
       /\ IF missed > 0 THEN Spend("miss") ELSE UNCHANGED left
       /\ IF list = {} THEN JobRelease(w)
          ELSE /\ victim' = [victim EXCEPT ![w] = Latest(list)]
               /\ JobGoto(w, "deletePod")
               /\ UNCHANGED <<jkey, parent>>
  /\ UNCHANGED <<qjobs, rev, cache, watch, clusterVars, todo>>

DeletePodOf(w) ==
  /\ jpc[w] = "deletePod"
  /\ \/ /\ pods' = [pods EXCEPT ![jkey[w]] = @ \ {victim[w]}]
        /\ UNCHANGED left
     \/ Spend("fault") /\ UNCHANGED pods
  /\ JobGoto(w, "status")
  /\ UNCHANGED <<qjobs, rev, cache, watch, job, used, jobCache, jobWatch, started, labelled,
                 earned, todo, jkey, parent, victim>>

\* A refused write is logged, not requeued.  A write that would change nothing
\* makes no version.
SetCompleted(w) ==
  /\ jpc[w] = "status"
  /\ \/ parent[w].completed /\ UNCHANGED <<qjobs, rev, watch, left>>
     \/ /\ ~parent[w].completed
        /\ \E ok \in BOOLEAN :
             StatusUpdate(OwnerOf[jkey[w]], [parent[w] EXCEPT !.completed = TRUE], ok)
  /\ JobRelease(w)
  /\ UNCHANGED <<cache, clusterVars, todo>>

-----------------------------------------------------------------------------
(* The errand controller, the Job's pods, the garbage collector, users.    *)

\* The errand controller opens a window, for a change of configuration say.
OpenWindow(q) ==
  /\ qjobs[q] # Nil /\ qjobs[q].stamp = Nil
  /\ Spend("config")
  /\ Put(q, [qjobs[q] EXCEPT !.rv = rev[q] + 1, !.stamp = 0])
  /\ UNCHANGED <<cache, clusterVars, todo, jobWorkerVars>>

\* It clears the stamp and creates the Job.
StartJob(j) ==
  LET q == OwnerOf[j] IN
  /\ j \notin used
  /\ qjobs[q] # Nil /\ qjobs[q].stamp # Nil
  /\ Put(q, [qjobs[q] EXCEPT !.rv = rev[q] + 1, !.stamp = Nil])
  /\ used' = used \cup {j}
  /\ PutJob(j, [uid |-> qjobs[q].uid, phase |-> "active", deleting |-> FALSE])
  /\ UNCHANGED <<cache, left, jobCache, pods, started, labelled, earned, todo, jobWorkerVars>>

IsActive(j) == job[j] # Nil /\ job[j].phase = "active" /\ ~job[j].deleting

StartPod(j) ==
  /\ IsActive(j)
  /\ started[j] < MaxPods
  /\ started' = [started EXCEPT ![j] = @ + 1]
  /\ pods' = [pods EXCEPT ![j] = @ \cup {started[j] + 1}]
  /\ UNCHANGED <<apiVars, job, used, jobCache, jobWatch, labelled, earned, todo,
                 jobWorkerVars>>

EndJob(j, phase) ==
  /\ IsActive(j)
  /\ pods[j] # {}
  /\ PutJob(j, [job[j] EXCEPT !.phase = phase])
  /\ earned' = IF phase = "succeeded" THEN earned \cup {<<OwnerOf[j], job[j].uid>>} ELSE earned
  /\ UNCHANGED <<apiVars, used, jobCache, pods, started, labelled, todo, jobWorkerVars>>

\* A deleted Job is removed once its pods are orphaned.
RemoveJob(j) ==
  /\ job[j] # Nil /\ job[j].deleting
  /\ PutJob(j, Nil)
  /\ UNCHANGED <<apiVars, used, jobCache, pods, started, labelled, earned, todo, jobWorkerVars>>

\* The garbage collector removes what has no owner.
CollectJob(j) ==
  /\ job[j] # Nil /\ ~job[j].deleting
  /\ ~IsStored(job[j].uid, OwnerOf[j])
  /\ PutJob(j, Nil)
  /\ pods' = [pods EXCEPT ![j] = {}]
  /\ UNCHANGED <<apiVars, used, jobCache, started, labelled, earned, todo, jobWorkerVars>>

\* The labels of the namespace are set or removed.
LabelNamespace ==
  /\ Spend("touch")
  /\ labelled' = ~labelled
  /\ UNCHANGED <<qjobs, rev, cache, watch, job, used, jobCache, jobWatch, pods, started,
                 earned, todo, jobWorkerVars>>

UsersOf(q) ==
  /\ UserDelete(q) \/ \E spec \in Specs : UserCreate(q, spec) \/ UserEdit(q, spec)
  /\ UNCHANGED <<clusterVars, todo, jobWorkerVars>>

\* The operator starts again.  Its informers report everything as created,
\* which the predicate drops.
JobCrash ==
  /\ Spend("crash")
  /\ cache' = qjobs
  /\ watch' = [q \in QJobs |-> <<>>]
  /\ jobCache' = job
  /\ jobWatch' = [j \in Jobs |-> <<>>]
  /\ todo' = {}
  /\ jpc' = [w \in JobWorkers |-> "idle"]
  /\ jkey' = [w \in JobWorkers |-> Nil]
  /\ parent' = [w \in JobWorkers |-> Nil]
  /\ victim' = [w \in JobWorkers |-> 0]
  /\ UNCHANGED <<qjobs, rev, job, used, pods, started, labelled, earned>>

-----------------------------------------------------------------------------
(* Specification.                                                          *)

JobStep(w) == DeleteJob(w) \/ FindPod(w) \/ DeletePodOf(w) \/ SetCompleted(w)

JobNext ==
  \/ \E j \in Jobs : \/ JobEvent(j) \/ Resync(j)
                     \/ StartJob(j) \/ StartPod(j) \/ RemoveJob(j) \/ CollectJob(j)
                     \/ \E phase \in {"succeeded", "failed"} : EndJob(j, phase)
                     \/ \E w \in JobWorkers : StartJobPass(w, j)
  \/ \E w \in JobWorkers : JobStep(w)
  \/ \E q \in QJobs : ParentEvent(q) \/ OpenWindow(q) \/ UsersOf(q)
  \/ LabelNamespace
  \/ JobCrash

JobSafety == JobInit /\ [][JobNext]_jobVars

\* Informers deliver, and every ten hours report all they have; the queue is
\* first in, first out; workers go on; the garbage collector does its work.
JobFairness ==
  /\ \A q \in QJobs : WF_jobVars(ParentEvent(q))
  /\ \A j \in Jobs : /\ WF_jobVars(JobEvent(j)) /\ WF_jobVars(Resync(j))
                     /\ WF_jobVars(RemoveJob(j)) /\ WF_jobVars(CollectJob(j))
                     /\ SF_jobVars(\E w \in JobWorkers : StartJobPass(w, j))
  /\ \A w \in JobWorkers : WF_jobVars(JobStep(w))

JobSpec == JobSafety /\ JobFairness

-----------------------------------------------------------------------------
(* Properties.                                                             *)

\* The status write of the job controller sets completed and nothing else: a
\* stamp the errand controller has stored or cleared since the parent was
\* read, an edit, or another object of that name stay as they are
\* (job_reconciler.go:88-89, 118-122).
StampSurvives ==
  [][\A w \in JobWorkers, q \in QJobs :
       (jpc[w] # "idle" /\ jpc'[w] # jpc[w] /\ qjobs'[q] # qjobs[q]) =>
         /\ qjobs[q] # Nil
         /\ qjobs'[q] = [qjobs[q] EXCEPT !.rv = rev'[q], !.completed = TRUE]]_jobVars

\* A QuarksJob is completed only if a Job made for its name has succeeded
\* (job_reconciler.go:95, 118).
CompletedWasEarned ==
  \A q \in QJobs : (qjobs[q] # Nil /\ qjobs[q].completed) => \E e \in earned : e[1] = q

\* The Job that succeeded was one of this very object ("Get the job's quarks
\* job parent", job_reconciler.go:75-89).
CompletedByOwnJob ==
  \A q \in QJobs : (qjobs[q] # Nil /\ qjobs[q].completed) => <<q, qjobs[q].uid>> \in earned

\* A failed Job stays until its QuarksJob is deleted
\* (job_reconciler.go:94-126).
FailedJobsStay ==
  [][\A j \in Jobs : (job[j] # Nil /\ job[j].phase = "failed" /\ job'[j] # job[j])
                        => ~IsStored(job[j].uid, OwnerOf[j])]_jobVars

\* A Job that has succeeded is deleted in the end, whatever failed or crashed
\* on the way, if the namespace is labelled for good ("is deleted
\* automatically after it succeeds", README.md:15; job_controller.go:47-69,
\* job_reconciler.go:88-99).
SucceededJobsGo ==
  \A j \in Jobs : <>[]IsMonitoredNamespace =>
    ((job[j] # Nil /\ job[j].phase = "succeeded") ~> (job[j] = Nil))

\* Nothing fails, nothing is missed, the operator does not restart.
Undisturbed == \A kind \in {"fault", "miss", "crash"} : left[kind] = Budget[kind]

HasSucceeded(j) == job[j] # Nil /\ job[j].phase = "succeeded" /\ ~job[j].deleting

\* Undisturbed, the pod that made a Job succeed is deleted with it if the
\* template asks for it (job_reconciler.go:101-115, 130-160).
PodsGo ==
  \A j \in DeletePod : ([]Undisturbed /\ <>[]IsMonitoredNamespace) =>
    \A n \in 1 .. MaxPods :
      (HasSucceeded(j) /\ n = Cardinality(pods[j])) ~> (n \notin pods[j])

\* The copies of the parent that workers hold are the stored version.
ParentsAreCurrent ==
  \A w \in JobWorkers : parent[w] # Nil => IsCurrent(OwnerOf[jkey[w]], parent[w])

\* Undisturbed, and if nobody writes to the QuarksJob between the version the
\* pass has read and its end, the success of its Job completes it
\* (job_reconciler.go:87-122).
SuccessCompletes ==
  \A j \in Jobs : ([]Undisturbed /\ []ParentsAreCurrent /\ <>[]IsMonitoredNamespace) =>
    ((HasSucceeded(j) /\ IsStored(job[j].uid, OwnerOf[j]))
       ~> (qjobs[OwnerOf[j]] = Nil \/ qjobs[OwnerOf[j]].completed))
=============================================================================
