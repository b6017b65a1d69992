-------------------------- MODULE ErrandController --------------------------
(***************************************************************************)
(* The errand controller: from a trigger of a QuarksJob to the Kubernetes  *)
(* Job that runs it.                                                       *)
(*                                                                         *)
(* Predicates on the informer's events put keys into the work queue;       *)
(* workers take a key and run Reconcile.  A trigger costs two passes: the  *)
(* first stamps status.lastReconcile and comes back when the meltdown      *)
(* window is over, the second clears the stamp and creates the Job.  A     *)
(* pass in between is dropped, so that consecutive triggers become one     *)
(* Job.  Every call to the API server is a step of its own: between any    *)
(* two of them users, the cache, the clock, the other workers and a crash  *)
(* of the operator get their turn.                                         *)
(***************************************************************************)
EXTENDS QuarksJobAPI

CONSTANTS Workers,       \* MaxConcurrentReconciles goroutines
          SkipDuration,  \* ReconcileSkipDuration
          RetryDelay,    \* delay of the next attempt when a reference is missing
          Backoffs,      \* delays the queue's rate limiter gives after an error
          Overlap        \* may a trigger arrive while an earlier one waits for its Job?

\* A Job that was created: when, and for which QuarksJob.
Run == [at : Nat, uid : Nat]

ASSUME ErrandAssumption ==
  /\ SkipDuration \in Nat \ {0}
  /\ RetryDelay \in Nat
  /\ Backoffs \subseteq Nat /\ Backoffs # {}
  /\ Overlap \in BOOLEAN
  /\ Nil \notin Run

VARIABLES configs,  \* the ConfigMaps and Secrets that exist
          events,   \* events of theirs on the way to the mapping function
          outdated, \* those of which the cache holds a newer version than their event
          notices,  \* events of QuarksJobs that passed the predicate, not yet enqueued
          dirty,    \* keys in the work queue, ready for a worker
          timer,    \* the queue's delayed additions: when the key becomes ready
          now,      \* the clock, in units of the API's timestamps
          jobs,     \* Jobs that exist and are owned by the stored QuarksJob
          pc,       \* the call each worker makes next
          key,      \* the key each worker processes
          obj,      \* each worker's copy of the QuarksJob
          runs,     \* history: Jobs created for the key
          lastRun,  \* history: when, and for which uid, the last one was created
          owed      \* history: a trigger waits for a Job

configVars == <<configs, events, outdated>>
queueVars == <<dirty, timer>>
workerVars == <<pc, key, obj>>
historyVars == <<runs, lastRun, owed>>
errandVars == <<apiVars, configVars, notices, queueVars, now, jobs,
                workerVars, historyVars>>

\* A worker is idle or about to: write the stamp, clear the stamp, reset the
\* strategy to manual, look at the references, create the Job, set the
\* strategy to done.
Armed == {"revert", "validate", "create"}
PCs == {"idle", "stamp", "clear", "markDone"} \cup Armed

ErrandTypeOK ==
  /\ APITypeOK
  /\ configs \subseteq Configs
  /\ events \subseteq Configs \X BOOLEAN
  /\ outdated \subseteq Configs
  /\ notices \in [QJobs -> Nat]
  /\ dirty \subseteq QJobs
  /\ timer \in [QJobs -> Nat \cup {Nil}]
  /\ now \in Nat
  /\ jobs \in [QJobs -> Nat]
  /\ pc \in [Workers -> PCs]
  /\ key \in [Workers -> QJobs \cup {Nil}]
  /\ obj \in [Workers -> QJob \cup {Nil}]
  /\ runs \in [QJobs -> Nat]
  /\ lastRun \in [QJobs -> Run \cup {Nil}]
  /\ owed \in [QJobs -> BOOLEAN]

\* The secret watch passes creations of versioned secrets other than the
\* first version; no creation of a ConfigMap passes.  An informer reports
\* what exists when it starts as created.  The second component, which the
\* program does not have, says whether the configuration has changed.
PassesOnCreate(c) == IsVersioned(c) /\ ~IsInitialVersion(c)

Listed(existing) == {<<c, FALSE>> : c \in {d \in existing : PassesOnCreate(d)}}

ErrandInit ==
  /\ APIInit
  /\ configs \in SUBSET Configs
  /\ events = Listed(configs)
  /\ outdated = {}
  /\ notices = [q \in QJobs |-> 0]
  /\ dirty = {}
  /\ timer = [q \in QJobs |-> Nil]
  /\ now = 0
  /\ jobs = [q \in QJobs |-> 0]
  /\ pc = [w \in Workers |-> "idle"]
  /\ key = [w \in Workers |-> Nil]
  /\ obj = [w \in Workers |-> Nil]
  /\ runs = [q \in QJobs |-> 0]
  /\ lastRun = [q \in QJobs |-> Nil]
  /\ owed = [q \in QJobs |-> FALSE]

-----------------------------------------------------------------------------
(* Events and the work queue.                                              *)

PassesCreate(n) == n.strategy \in {"now", "once"}

\* Mutant of PassesUpdate: the old strategy is not looked at.
PassesUpdateOfNow(o, n) ==
  \/ n.strategy = "now"
  \/ IsAutoErrand(n) /\ n.update /\ HasConfigsChanged(o.refs, n.refs)

PassesUpdate(o, n) ==
  \/ n.strategy = "now" /\ o.strategy = "manual"
  \/ IsAutoErrand(n) /\ n.update /\ HasConfigsChanged(o.refs, n.refs)

\* The event of a change from o to n passes the controller's predicate.
Triggers(o, n) ==
  \/ o = Nil /\ n # Nil /\ PassesCreate(n)
  \/ o # Nil /\ n # Nil /\ PassesUpdate(o, n)

\* The informer stores the next version and only then calls the handlers.  An
\* event whose namespace cannot be looked up is dropped.
CacheUpdate(q) ==
  /\ watch[q] # <<>>
  /\ cache' = [cache EXCEPT ![q] = Head(watch[q])]
  /\ watch' = [watch EXCEPT ![q] = Tail(@)]
  /\ \/ /\ notices' = [notices EXCEPT
                          ![q] = IF Triggers(cache[q], Head(watch[q])) THEN @ + 1 ELSE @]
        /\ UNCHANGED left
     \/ Triggers(cache[q], Head(watch[q])) /\ Spend("fault") /\ UNCHANGED notices
  /\ UNCHANGED <<qjobs, rev, configVars, queueVars, now, jobs, workerVars, historyVars>>

\* Mutant of HandleEvent: an event is handled twice.
HandleEventTwice(q) ==
  /\ notices' = [notices EXCEPT ![q] = @ - 1]
  /\ dirty' = dirty \cup {q}
  /\ UNCHANGED <<apiVars, configVars, timer, now, jobs, workerVars, historyVars>>

HandleEvent(q) ==
  /\ notices[q] > 0
  /\ notices' = [notices EXCEPT ![q] = @ - 1]
  /\ dirty' = dirty \cup {q}
  /\ UNCHANGED <<apiVars, configVars, timer, now, jobs, workerVars, historyVars>>

\* An auto errand that follows its configuration and references c.
Follows(o, c) == o # Nil /\ o.update /\ IsAutoErrand(o) /\ IsReferencedBy(c, o.refs)

IsStored(uid, q) == qjobs[q] # Nil /\ qjobs[q].uid = uid

\* Mutant of Reconciles: the first match is taken for all of them.
ReconcilesFirst(c) ==
  LET matching == {q \in QJobs : Follows(cache[q], c)}
  IN  IF matching = {} THEN {} ELSE {CHOOSE q \in matching : TRUE}

\* GetReconciles, on the cached QuarksJobs.
Reconciles(c) == {q \in QJobs : Follows(cache[q], c)}

\* SkipReconciles: the configuration is gone, or the cache holds another
\* version of it than the event.
IsStale(c) == c \notin configs \/ c \in outdated

\* The watch enqueues the QuarksJobs that follow c, or drops the event: it is
\* stale, or a lookup failed.  A change is a trigger if the QuarksJob in the
\* cache has not been deleted.
HandleConfigEvent(c, fresh) ==
  /\ <<c, fresh>> \in events
  /\ events' = events \ {<<c, fresh>>}
  /\ outdated' = outdated \ {c}
  /\ \/ /\ ~IsStale(c)
        /\ dirty' = dirty \cup Reconciles(c)
        /\ owed' = [q \in QJobs |->
                      owed[q] \/ (fresh /\ q \in Reconciles(c) /\ IsStored(cache[q].uid, q))]
        /\ UNCHANGED left
     \/ IsStale(c) /\ UNCHANGED <<dirty, owed, left>>
     \/ Spend("fault") /\ UNCHANGED <<dirty, owed>>
  /\ UNCHANGED <<qjobs, rev, cache, watch, configs, notices, timer, now, jobs,
                 workerVars, runs, lastRun>>

\* The delaying queue keeps one entry per key, the one that is ready first.
AddAfter(q, delay) ==
  timer' = [timer EXCEPT ![q] = IF @ # Nil /\ @ <= now + delay THEN @ ELSE now + delay]

Requeue(q) == \E d \in Backoffs : AddAfter(q, d)

TimerFires(q) ==
  /\ timer[q] # Nil /\ timer[q] <= now
  /\ timer' = [timer EXCEPT ![q] = Nil]
  /\ dirty' = dirty \cup {q}
  /\ UNCHANGED <<apiVars, configVars, notices, now, jobs, workerVars, historyVars>>

-----------------------------------------------------------------------------
(* Reconcile, one action per call to the API server.                       *)

\* Mutant of InWindow: off by one.
InWindowShort(stamp) == stamp <= now /\ now < stamp + SkipDuration - 1

InWindow(stamp) == stamp <= now /\ now < stamp + SkipDuration

Goto(w, next) == pc' = [pc EXCEPT ![w] = next]

Release(w) == /\ Goto(w, "idle")
              /\ key' = [key EXCEPT ![w] = Nil]
              /\ obj' = [obj EXCEPT ![w] = Nil]

\* Reconcile returns an error.
Fail(w) == Release(w) /\ Requeue(key[w])

Take(w, q, next, o) == /\ Goto(w, next)
                       /\ key' = [key EXCEPT ![w] = q]
                       /\ obj' = [obj EXCEPT ![w] = o]

\* A worker takes a key nobody else processes and reads the cache.  Without a
\* QuarksJob, and inside the window, the pass ends there.
StartPass(w, q) ==
  /\ pc[w] = "idle"
  /\ q \in dirty
  /\ \A v \in Workers : key[v] # q
  /\ dirty' = dirty \ {q}
  /\ \/ /\ cache[q] # Nil => (cache[q].stamp # Nil /\ InWindow(cache[q].stamp))
        /\ UNCHANGED <<workerVars, timer, left>>
     \/ /\ cache[q] # Nil /\ cache[q].stamp = Nil
        /\ Take(w, q, "stamp", [cache[q] EXCEPT !.stamp = now])
        /\ UNCHANGED <<timer, left>>
     \/ /\ cache[q] # Nil /\ cache[q].stamp # Nil /\ ~InWindow(cache[q].stamp)
        /\ Take(w, q, "clear", [cache[q] EXCEPT !.stamp = Nil])
        /\ UNCHANGED <<timer, left>>
     \/ /\ Spend("fault")
        /\ Requeue(q)
        /\ UNCHANGED workerVars
  /\ UNCHANGED <<qjobs, rev, cache, watch, configVars, notices, now, jobs, historyVars>>

\* Mutant of Stamp: the pass does not come back.
StampOnly(w) ==
  /\ pc[w] = "stamp"
  /\ \/ StatusUpdate(key[w], obj[w], TRUE) /\ UNCHANGED timer
     \/ StatusUpdate(key[w], obj[w], FALSE) /\ Requeue(key[w])
  /\ Release(w)
  /\ UNCHANGED <<cache, configVars, notices, dirty, now, jobs, historyVars>>

\* Meltdown starts.
Stamp(w) ==
  /\ pc[w] = "stamp"
  /\ \/ StatusUpdate(key[w], obj[w], TRUE) /\ AddAfter(key[w], SkipDuration)
     \/ StatusUpdate(key[w], obj[w], FALSE) /\ Requeue(key[w])
  /\ Release(w)
  /\ UNCHANGED <<cache, configVars, notices, dirty, now, jobs, historyVars>>

\* Mutant of Clear: the pass goes on although the write failed.
ClearRegardless(w) ==
  /\ pc[w] = "clear"
  /\ \/ /\ StatusUpdate(key[w], obj[w], TRUE)
        /\ obj' = [obj EXCEPT ![w] = WithStatusOf(key[w], @)]
     \/ StatusUpdate(key[w], obj[w], FALSE) /\ UNCHANGED obj
  /\ Goto(w, IF obj'[w].strategy = "now" THEN "revert" ELSE "validate")
  /\ UNCHANGED <<key, timer>>
  /\ UNCHANGED <<cache, configVars, notices, dirty, now, jobs, historyVars>>

\* Meltdown has ended.  From here on Reconcile works on the version the
\* server returned.
Clear(w) ==
  /\ pc[w] = "clear"
  /\ \/ /\ StatusUpdate(key[w], obj[w], TRUE)
        /\ obj' = [obj EXCEPT ![w] = WithStatusOf(key[w], @)]
        /\ Goto(w, IF obj'[w].strategy = "now" THEN "revert" ELSE "validate")
        /\ UNCHANGED <<key, timer>>
     \/ StatusUpdate(key[w], obj[w], FALSE) /\ Fail(w)
  /\ UNCHANGED <<cache, configVars, notices, dirty, now, jobs, historyVars>>

\* The strategy goes back to manual before the Job exists.
Revert(w) ==
  /\ pc[w] = "revert"
  /\ LET manual == [obj[w] EXCEPT !.strategy = "manual"] IN
     \/ /\ Update(key[w], manual, TRUE)
        /\ obj' = [obj EXCEPT ![w] = WithSpecOf(key[w], manual)]
        /\ Goto(w, "validate")
        /\ UNCHANGED <<key, timer>>
     \/ Update(key[w], manual, FALSE) /\ Fail(w)
  /\ UNCHANGED <<cache, configVars, notices, dirty, now, jobs, historyVars>>

\* validateReferences: the ConfigMaps and Secrets named in the pod template exist.
HasReferences(o) == o.refs \subseteq configs

\* No service account: the namespace has no label for it, it or its secret is
\* missing, or a lookup fails.
LookupFails == Spend("fault")

\* The lookups before the Job: service account, versions of secrets, then the
\* references of the QuarksJob.  A missing reference is worth another attempt
\* after a while, anything else is an error.
Validate(w) ==
  /\ pc[w] = "validate"
  /\ \/ /\ HasReferences(obj[w])
        /\ Goto(w, "create")
        /\ UNCHANGED <<key, obj, timer, left>>
     \/ /\ ~HasReferences(obj[w])
        /\ Spend("miss")
        /\ Release(w)
        /\ AddAfter(key[w], RetryDelay)
     \/ LookupFails /\ Fail(w)
  /\ UNCHANGED <<qjobs, rev, cache, watch, configVars, notices, dirty, now, jobs, historyVars>>

\* What follows when Create reports that the Job is there.
Created(w) == /\ UNCHANGED timer
              /\ IF obj[w].strategy = "once"
                 THEN Goto(w, "markDone") /\ UNCHANGED <<key, obj>>
                 ELSE Release(w)

\* A Job owned by a QuarksJob that is gone is garbage collected.
StoreJob(q, uid) ==
  /\ jobs' = [jobs EXCEPT ![q] = IF IsStored(uid, q) THEN @ + 1 ELSE @]
  /\ runs' = [runs EXCEPT ![q] = @ + 1]
  /\ lastRun' = [lastRun EXCEPT ![q] = [at |-> now, uid |-> uid]]
  /\ owed' = [owed EXCEPT ![q] = FALSE]

\* Mutant of CreateJob: the error of Create is dropped.
CreateJobUnchecked(w) ==
  /\ pc[w] = "create"
  /\ \/ StoreJob(key[w], obj[w].uid) /\ UNCHANGED left
     \/ Spend("fault") /\ UNCHANGED <<jobs, historyVars>>
  /\ Created(w)
  /\ UNCHANGED <<qjobs, rev, cache, watch, configVars, notices, dirty, now>>

\* The name is fresh or, taken by a Job that is already running, Create is
\* content.  An error may leave a Job behind.
CreateJob(w) ==
  /\ pc[w] = "create"
  /\ \/ StoreJob(key[w], obj[w].uid) /\ Created(w) /\ UNCHANGED left
     \/ /\ jobs[key[w]] > 0 /\ Spend("clash")
        /\ owed' = [owed EXCEPT ![key[w]] = FALSE]
        /\ Created(w)
        /\ UNCHANGED <<jobs, runs, lastRun>>
     \/ Spend("fault") /\ Fail(w) /\ UNCHANGED <<jobs, historyVars>>
     \/ Spend("fault") /\ Fail(w) /\ StoreJob(key[w], obj[w].uid)
  /\ UNCHANGED <<qjobs, rev, cache, watch, configVars, notices, dirty, now>>

\* Mutant of MarkDone: a failure is requeued.
MarkDoneOrRetry(w) ==
  /\ pc[w] = "markDone"
  /\ LET done == [obj[w] EXCEPT !.strategy = "done"] IN
     \/ Update(key[w], done, TRUE) /\ Release(w) /\ UNCHANGED timer
     \/ Update(key[w], done, FALSE) /\ Fail(w)
  /\ UNCHANGED <<cache, configVars, notices, dirty, now, jobs, historyVars>>

\* The final state of a once errand.  A failure is logged, not requeued.
MarkDone(w) ==
  /\ pc[w] = "markDone"
  /\ \E ok \in BOOLEAN : Update(key[w], [obj[w] EXCEPT !.strategy = "done"], ok)
  /\ Release(w)
  /\ UNCHANGED <<cache, configVars, notices, queueVars, now, jobs, historyVars>>

-----------------------------------------------------------------------------
(* Time, crashes, and everybody else.                                      *)

Deadlines ==
  {timer[q] : q \in {p \in QJobs : timer[p] # Nil}} \cup
  {qjobs[q].stamp + SkipDuration : q \in {p \in QJobs : qjobs[p] # Nil /\ qjobs[p].stamp # Nil}}

\* The clock moves only while something waits for it.
Tick ==
  /\ \E d \in Deadlines : now < d
  /\ now' = now + 1
  /\ UNCHANGED <<apiVars, configVars, notices, queueVars, jobs, workerVars, historyVars>>

\* The operator starts with an empty queue and idle workers.  Its informers
\* list what is there and report it as created.
Begin(stored) ==
  /\ cache' = stored
  /\ watch' = [q \in QJobs |-> <<>>]
  /\ notices' = [q \in QJobs |-> IF Triggers(Nil, stored[q]) THEN 1 ELSE 0]
  /\ events' = Listed(configs)
  /\ outdated' = {}
  /\ dirty' = {}
  /\ timer' = [q \in QJobs |-> Nil]
  /\ pc' = [w \in Workers |-> "idle"]
  /\ key' = [w \in Workers |-> Nil]
  /\ obj' = [w \in Workers |-> Nil]

\* The operator dies and starts again.
Crash ==
  /\ Spend("crash")
  /\ Begin(qjobs)
  /\ UNCHANGED <<qjobs, rev, configs, now, jobs, historyVars>>

\* Has the controller nothing to learn and nothing to do about q?
AtRest(q) ==
  /\ ~owed[q] /\ events = {} /\ watch[q] = <<>> /\ notices[q] = 0
  /\ q \notin dirty /\ timer[q] = Nil
  /\ \A w \in Workers : key[w] # q

\* Without Overlap triggers arrive one at a time.
Calm(q) == Overlap \/ AtRest(q)

Owe(q, o, n) == owed' = [owed EXCEPT ![q] = @ \/ Triggers(o, n)]

CreateQJob(q, spec) ==
  /\ Calm(q)
  /\ UserCreate(q, spec)
  /\ Owe(q, Nil, NewQJob(q, spec))
  /\ UNCHANGED <<configVars, notices, queueVars, now, jobs, workerVars, runs, lastRun>>

EditQJob(q, spec) ==
  /\ UserEdit(q, spec)
  /\ Triggers(qjobs[q], WithSpecOf(q, spec)) => Calm(q)
  /\ Owe(q, qjobs[q], WithSpecOf(q, spec))
  /\ UNCHANGED <<configVars, notices, queueVars, now, jobs, workerVars, runs, lastRun>>

\* The Jobs of a deleted QuarksJob are garbage collected.
DeleteQJob(q) ==
  /\ Calm(q)
  /\ UserDelete(q)
  /\ jobs' = [jobs EXCEPT ![q] = 0]
  /\ owed' = [owed EXCEPT ![q] = FALSE]
  /\ UNCHANGED <<configVars, notices, queueVars, now, workerVars, runs, lastRun>>

\* The job controller deletes a succeeded Job, then sets status.completed in
\* its own copy of the QuarksJob and stores the status, the stamp included.
CompleteQJob(q) ==
  /\ jobs[q] > 0 /\ cache[q] # Nil
  /\ jobs' = [jobs EXCEPT ![q] = @ - 1]
  /\ \E ok \in BOOLEAN : StatusUpdate(q, [cache[q] EXCEPT !.completed = TRUE], ok)
  /\ UNCHANGED <<cache, configVars, notices, queueVars, now, workerVars, historyVars>>

Pending(c) == \E fresh \in BOOLEAN : <<c, fresh>> \in events

OfOthers(c) == {e \in events : e[1] # c}

\* A ConfigMap or Secret is created or its data is changed.  The event, if
\* the predicates pass it, replaces an older one that would be skipped.
SetConfig(c) ==
  /\ \A q \in QJobs : Calm(q)
  /\ Spend("config")
  /\ configs' = configs \cup {c}
  /\ IF c \in configs \/ PassesOnCreate(c)
     THEN /\ events' = OfOthers(c) \cup {<<c, TRUE>>}
          /\ outdated' = outdated \ {c}
     ELSE /\ outdated' = IF Pending(c) THEN outdated \cup {c} ELSE outdated
          /\ UNCHANGED events
  /\ UNCHANGED <<qjobs, rev, cache, watch, notices, queueVars, now, jobs, workerVars, historyVars>>

RemoveConfig(c) ==
  /\ c \in configs
  /\ Spend("config")
  /\ configs' = configs \ {c}
  /\ UNCHANGED <<qjobs, rev, cache, watch, events, outdated, notices, queueVars, now, jobs,
                 workerVars, historyVars>>

\* Something other than the data is changed, a label say: no predicate passes
\* it.  That matters only while an event is on its way.
TouchConfig(c) ==
  /\ c \in configs /\ Pending(c)
  /\ Spend("touch")
  /\ outdated' = outdated \cup {c}
  /\ UNCHANGED <<qjobs, rev, cache, watch, configs, events, notices, queueVars, now, jobs,
                 workerVars, historyVars>>

-----------------------------------------------------------------------------
(* Specification.                                                          *)

Informer(q) == CacheUpdate(q) \/ HandleEvent(q)

ConfigHandler == \E c \in Configs, fresh \in BOOLEAN : HandleConfigEvent(c, fresh)

Step(w) == Stamp(w) \/ Clear(w) \/ Revert(w) \/ Validate(w) \/ CreateJob(w) \/ MarkDone(w)

Users(q) == \/ \E spec \in Specs : CreateQJob(q, spec) \/ EditQJob(q, spec)
            \/ DeleteQJob(q)

ErrandNext ==
  \/ \E q \in QJobs : \/ Informer(q) \/ TimerFires(q) \/ Users(q) \/ CompleteQJob(q)
                      \/ \E w \in Workers : StartPass(w, q)
  \/ \E w \in Workers : Step(w)
  \/ \E c \in Configs : SetConfig(c) \/ RemoveConfig(c) \/ TouchConfig(c)
  \/ ConfigHandler
  \/ Tick
  \/ Crash

ErrandSafety == ErrandInit /\ [][ErrandNext]_errandVars

\* The informers, the queue and the workers keep going and the clock ticks;
\* the queue is first in, first out, so a key that keeps coming back is taken
\* even if every worker is busy now and then.  Nobody else need ever act.
ErrandFairness ==
  /\ \A q \in QJobs : /\ WF_errandVars(CacheUpdate(q))
                      /\ WF_errandVars(HandleEvent(q))
                      /\ WF_errandVars(TimerFires(q))
                      /\ SF_errandVars(\E w \in Workers : StartPass(w, q))
  /\ \A w \in Workers : WF_errandVars(Step(w))
  /\ WF_errandVars(ConfigHandler)
  /\ WF_errandVars(Tick)

ErrandSpec == ErrandSafety /\ ErrandFairness
=============================================================================
