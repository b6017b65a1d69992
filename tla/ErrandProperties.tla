-------------------------- MODULE ErrandProperties --------------------------
(***************************************************************************)
(* What the errand controller guarantees: the properties TLC checks, and   *)
(* the inductive invariant the proofs rest on.                             *)
(***************************************************************************)
EXTENDS ErrandController

-----------------------------------------------------------------------------
(* The inductive invariant.                                                *)

WorkersApart ==
  /\ \A w \in Workers : /\ (pc[w] = "idle") <=> (key[w] = Nil)
                        /\ (pc[w] # "idle") => (obj[w] # Nil)
  /\ \A v, w \in Workers : key[v] = key[w] /\ key[v] # Nil => (v = w)

\* Has q had no Job for the length of a window?
Elapsed(q) == lastRun[q] # Nil => lastRun[q].at + SkipDuration <= now

NotBefore(q, t) == /\ t <= now
                   /\ lastRun[q] # Nil => lastRun[q].at <= t

\* The last Job is not in the future, and a stored stamp lies between it and now.
StampsFollowRuns ==
  \A q \in QJobs :
    /\ lastRun[q] # Nil => lastRun[q].at <= now
    /\ (qjobs[q] # Nil /\ qjobs[q].stamp # Nil) => NotBefore(q, qjobs[q].stamp)

\* What a worker knows when it is about to make its next call, provided that
\* its copy is still the stored version.
StampInv(w) ==
  /\ obj[w].rv <= rev[key[w]]
  /\ obj[w].stamp # Nil /\ NotBefore(key[w], obj[w].stamp)
  /\ IsCurrent(key[w], obj[w]) =>
       /\ qjobs[key[w]].stamp = Nil
       /\ obj[w] = [qjobs[key[w]] EXCEPT !.stamp = obj[w].stamp]

ClearInv(w) ==
  /\ obj[w].rv <= rev[key[w]]
  /\ obj[w].stamp = Nil
  /\ IsCurrent(key[w], obj[w]) =>
       /\ qjobs[key[w]].stamp # Nil
       /\ qjobs[key[w]].stamp + SkipDuration <= now
       /\ obj[w] = [qjobs[key[w]] EXCEPT !.stamp = Nil]

ArmedInv(w) ==
  /\ Known(key[w], obj[w])
  /\ qjobs[key[w]] # Nil => qjobs[key[w]].stamp = Nil
  /\ jobs[key[w]] > 0 => IsStored(obj[w].uid, key[w])
  /\ Elapsed(key[w])

MarkDoneInv(w) ==
  /\ Known(key[w], obj[w])
  /\ qjobs[key[w]] # Nil => qjobs[key[w]].stamp = Nil
  /\ obj[w].strategy = "once"
  /\ lastRun[key[w]] # Nil /\ lastRun[key[w]].uid = obj[w].uid

WorkersInv ==
  \A w \in Workers : /\ pc[w] = "stamp" => StampInv(w)
                     /\ pc[w] = "clear" => ClearInv(w)
                     /\ pc[w] \in Armed => ArmedInv(w)
                     /\ pc[w] = "revert" => obj[w].strategy = "now"
                     /\ pc[w] = "markDone" => MarkDoneInv(w)

\* What remains of this when a second operator creates Jobs too: a copy that is
\* still the stored version differs from it by the stamp at most, and a worker
\* that has cleared the stamp works on a version without one.
CopyInv(w) ==
  LET q == key[w]
      o == obj[w] IN
  /\ pc[w] \in {"stamp", "clear"} =>
       /\ o.rv <= rev[q]
       /\ IsCurrent(q, o) => o = [qjobs[q] EXCEPT !.stamp = o.stamp]
  /\ pc[w] = "clear" =>
       /\ o.stamp = Nil
       /\ IsCurrent(q, o) => qjobs[q].stamp # Nil
  /\ pc[w] \in Armed \cup {"markDone"} =>
       /\ Known(q, o)
       /\ IsCurrent(q, o) => qjobs[q].stamp = Nil
  /\ pc[w] = "revert" => o.strategy = "now"
  /\ pc[w] = "markDone" => o.strategy = "once"

CopiesInv == \A w \in Workers : CopyInv(w)

\* A Job that exists is of the stored object, and the last one created.
JobsAreOfStored ==
  \A q \in QJobs : jobs[q] > 0 => /\ qjobs[q] # Nil /\ lastRun[q] # Nil
                                  /\ lastRun[q].uid = qjobs[q].uid

\* Every copy of a QuarksJob is a version of it, a key is processed by one
\* worker, and what a worker concluded from its copy still holds when it
\* makes its next call, unless the server will refuse that call
\* (errand_reconciler.go:57-132).
ErrandInv ==
  /\ CopiesAreVersions
  /\ WorkersApart
  /\ StampsFollowRuns
  /\ WorkersInv
  /\ JobsAreOfStored

-----------------------------------------------------------------------------
(* The inductive invariant of triggers that arrive one at a time.          *)

\* The version of q the predicate compares the i-th one on the watch with.
Before(q, i) == IF i = 1 THEN cache[q] ELSE watch[q][i - 1]

\* The versions on the watch that will pass the predicate.
Sent(q) == {i \in DOMAIN watch[q] : Triggers(Before(q, i), watch[q][i])}

\* The last version the informer will have of q.
Newest(q) == IF watch[q] = <<>> THEN cache[q] ELSE watch[q][Len(watch[q])]

\* Is a worker on its way to a Job for q?
Serving(q) == \E w \in Workers : key[w] = q /\ pc[w] # "markDone"

Places == {"nowhere", "watch", "notice", "queue", "timer", "worker"}

\* The trigger that waits for a Job is at this one place, and owes one.
TriggerAt(q, place) ==
  /\ Sent(q) # {} => place = "watch"
  /\ \A i, j \in Sent(q) : i = j
  /\ notices[q] > 0 => place = "notice"
  /\ notices[q] <= 1
  /\ q \in dirty => place = "queue"
  /\ timer[q] # Nil => place = "timer"
  /\ Serving(q) => place = "worker"
  /\ place # "nowhere" => owed[q]

\* No version of q that a reader may meet is of an object that is gone.
OneObject(q) ==
  /\ cache[q] # Nil => IsStored(cache[q].uid, q)
  /\ \A i \in DOMAIN watch[q] : watch[q][i] # Nil => IsStored(watch[q][i].uid, q)

\* A change of configuration on its way is the only trigger there is.
ConfigInv ==
  \A q \in QJobs : /\ \E c \in Configs : events = {<<c, TRUE>>}
                  /\ TriggerAt(q, "nowhere") /\ OneObject(q)

\* A trigger is on the watch, a notice, in the queue, delayed, or with a
\* worker, never at two of these places, until its Job is created
\* (errand_controller.go:49-93, errand_reconciler.go:76-118).
OwedInv ==
  /\ left["fault"] = 0 /\ left["crash"] = 0
  /\ \A q \in QJobs : /\ Newest(q) = qjobs[q]
                      /\ \E place \in Places : TriggerAt(q, place)
  /\ events # {} => ConfigInv

-----------------------------------------------------------------------------
(* Safety.                                                                 *)

\* Two Jobs of one QuarksJob are created at least ReconcileSkipDuration apart,
\* though caches are stale, requests fail, the operator restarts and triggers
\* come at any time (errand_reconciler.go:24-26, 89-99).
RunsSpaced == [][\A q \in QJobs : runs'[q] # runs[q] => Elapsed(q)]_errandVars

\* What a worker may change in a QuarksJob it stores: the stamp, or now to
\* manual, or once to done.
KeepsEdits(old, new) ==
  /\ new.uid = old.uid /\ new.update = old.update /\ new.refs = old.refs
  /\ new.completed = old.completed
  /\ \/ new.strategy = old.strategy
     \/ old.strategy = "now" /\ new.strategy = "manual" /\ new.stamp = Nil
     \/ old.strategy = "once" /\ new.strategy = "done" /\ new.stamp = Nil

\* A worker undoes nothing: an edit by a user, or the completed flag of the job
\* controller, made since the worker read its copy stays
\* (errand_reconciler.go:80, 96, 104, 125).
NoLostUpdate ==
  [][\A w \in Workers, q \in QJobs :
       (key[w] = q /\ pc'[w] # pc[w]) =>
         (qjobs'[q] = qjobs[q] \/ KeepsEdits(qjobs[q], qjobs'[q]))]_errandVars

\* A once errand is declared done by the controller only if the last Job of
\* its key was created for this very object, not for one of the same name
\* that was deleted since (errand_reconciler.go:109-128).
DoneAfterRun ==
  [][\A w \in Workers, q \in QJobs :
       (key[w] = q /\ pc'[w] # pc[w] /\ qjobs'[q] # qjobs[q] /\ qjobs'[q].strategy = "done") =>
         \/ qjobs[q].strategy = "done"
         \/ lastRun[q] # Nil /\ lastRun[q].uid = qjobs[q].uid]_errandVars

\* Is a worker about to create a Job for q?
HasArmed(q) == \E w \in Workers : key[w] = q /\ pc[w] \in Armed

\* The phase of the meltdown window, from the stored stamp and the workers.
Phase(q) ==
  IF HasArmed(q) THEN "armed"
  ELSE IF qjobs[q] = Nil THEN "idle"
  ELSE IF qjobs[q].stamp = Nil THEN "idle"
  ELSE IF InWindow(qjobs[q].stamp) THEN "open" ELSE "over"

Window == INSTANCE MeltdownWindow WITH phase <- [q \in QJobs |-> Phase(q)]

\* The controller implements the meltdown window: every Job consumes a window
\* that was stored, ran its full length and was cleared
\* (errand_reconciler.go:76-118).
ImplementsWindow == Window!WindowSpec

\* A Job is created only for a trigger: one trigger, one Job
\* (errand_controller.go:50-90, errand_reconciler.go:109-131).
RunsAreOwed == [][\A q \in QJobs : runs'[q] # runs[q] => owed[q]]_errandVars

\* The circumstances in which a trigger is one place at a time: the next one
\* waits for it, a creation whose reply is lost does not leave a Job behind, and
\* no restart reports an errand again that has its Job.
Undisturbed == ~Overlap /\ Budget["fault"] = 0 /\ Budget["crash"] = 0

RefsMissing(q) == qjobs[q] # Nil /\ ~HasReferences(qjobs[q])

\* Every trigger gets its Job, in the end, unless a reference of the QuarksJob
\* stays away (errand_reconciler.go:24, 89-118).
TriggersLeadToJobs ==
  \A q \in QJobs : <>[]~RefsMissing(q) => (owed[q] ~> ~owed[q])

\* A change of configuration gives every QuarksJob that follows it a Job of
\* its own, unless a newer version of the configuration has made the event
\* stale (errand_controller.go:112-129, reconciles.go:71-87, 120-123).
ChangesReachFollowers ==
  \A q \in QJobs, c \in Configs, n \in 0..1 :
    <>[]~RefsMissing(q) =>
      ((<<c, TRUE>> \in events /\ Follows(cache[q], c) /\ runs[q] = n)
         ~> (runs[q] > n \/ IsStale(c)))
=============================================================================
