---------------------------- MODULE ErrandProofs ----------------------------
(***************************************************************************)
(* Proofs about the errand controller, for any number of QuarksJobs and    *)
(* workers, any lag of the cache, any durations and any disturbances.      *)
(***************************************************************************)
EXTENDS ErrandProperties, APIProofs, TLAPS

-----------------------------------------------------------------------------
(* Types.                                                                  *)

\* A delayed addition keeps the type of the timers.
LEMMA AddAfterType ==
  ASSUME timer \in [QJobs -> Nat \cup {Nil}], now \in Nat,
         NEW q \in QJobs, NEW delay \in Nat, AddAfter(q, delay)
  PROVE  timer' \in [QJobs -> Nat \cup {Nil}]
  BY DEF AddAfter

LEMMA RequeueType ==
  ASSUME timer \in [QJobs -> Nat \cup {Nil}], now \in Nat,
         NEW q \in QJobs, Requeue(q)
  PROVE  timer' \in [QJobs -> Nat \cup {Nil}]
  BY AddAfterType, ErrandAssumption DEF Requeue

LEMMA ReleaseType ==
  ASSUME ErrandTypeOK, NEW w \in Workers, Release(w)
  PROVE  /\ pc' \in [Workers -> PCs]
         /\ key' \in [Workers -> QJobs \cup {Nil}]
         /\ obj' \in [Workers -> QJob \cup {Nil}]
  BY DEF ErrandTypeOK, Release, Goto, PCs

LEMMA StoreJobType ==
  ASSUME ErrandTypeOK, NEW q \in QJobs, NEW uid \in Nat, StoreJob(q, uid)
  PROVE  /\ jobs' \in [QJobs -> Nat]
         /\ runs' \in [QJobs -> Nat]
         /\ lastRun' \in [QJobs -> Run \cup {Nil}]
         /\ owed' \in [QJobs -> BOOLEAN]
<1>1. [at |-> now, uid |-> uid] \in Run
  BY DEF Run, ErrandTypeOK
<1> QED
  BY <1>1 DEF ErrandTypeOK, StoreJob

\* A busy worker has a key and a copy of a QuarksJob.
Busy(w) == key[w] \in QJobs /\ obj[w] \in QJob

LEMMA BusyWorker ==
  ASSUME ErrandTypeOK, WorkersApart, NEW w \in Workers, pc[w] # "idle"
  PROVE  Busy(w)
<1>1. key[w] \in QJobs \cup {Nil} /\ obj[w] \in QJob \cup {Nil}
  BY DEF ErrandTypeOK
<1>2. key[w] # Nil /\ obj[w] # Nil
  BY DEF WorkersApart
<1> QED
  BY <1>1, <1>2 DEF Busy

LEMMA ListedType ==
  ASSUME NEW existing \in SUBSET Configs
  PROVE  Listed(existing) \subseteq Configs \X BOOLEAN
<1>1. \A c \in existing : <<c, FALSE>> \in Configs \X BOOLEAN
  OBVIOUS
<1> QED
  BY <1>1 DEF Listed

LEMMA InitType == ErrandInit => ErrandTypeOK /\ WorkersApart
<1> SUFFICES ASSUME ErrandInit PROVE ErrandTypeOK /\ WorkersApart
  OBVIOUS
<1>1. APITypeOK
  BY APIAssumption DEF ErrandInit, APIInit, APITypeOK
<1>2. events \subseteq Configs \X BOOLEAN
  BY ListedType DEF ErrandInit
<1>3. ErrandTypeOK
  BY <1>1, <1>2 DEF ErrandInit, ErrandTypeOK, PCs
<1>4. WorkersApart
  BY DEF ErrandInit, WorkersApart
<1> QED
  BY <1>3, <1>4

\* Every action keeps the types.
LEMMA StepType ==
  ASSUME ErrandTypeOK, WorkersApart, [ErrandNext]_errandVars
  PROVE  ErrandTypeOK'
<1> USE DEF ErrandTypeOK, configVars
<1>1. ASSUME NEW q \in QJobs, CacheUpdate(q)
      PROVE  ErrandTypeOK'
  <2>1. Head(watch[q]) \in QJob \cup {Nil} /\ Tail(watch[q]) \in Seq(QJob \cup {Nil})
    BY <1>1 DEF CacheUpdate, APITypeOK
  <2>2. APITypeOK'
    BY <1>1, <2>1, SpendType DEF CacheUpdate, APITypeOK, Kinds
  <2>3. notices' \in [QJobs -> Nat]
    BY <1>1 DEF CacheUpdate
  <2> QED
    BY <1>1, <2>2, <2>3 DEF CacheUpdate, queueVars, workerVars, historyVars
<1>2. ASSUME NEW q \in QJobs, HandleEvent(q)
      PROVE  ErrandTypeOK'
  BY <1>2 DEF HandleEvent, APITypeOK, apiVars, workerVars, historyVars
<1>3. ASSUME NEW c \in Configs, NEW fresh \in BOOLEAN, HandleConfigEvent(c, fresh)
      PROVE  ErrandTypeOK'
  <2>1. APITypeOK'
    BY <1>3, SpendType DEF HandleConfigEvent, APITypeOK, Kinds
  <2>2. dirty' \subseteq QJobs /\ owed' \in [QJobs -> BOOLEAN]
    BY <1>3 DEF HandleConfigEvent, Reconciles
  <2> QED
    BY <1>3, <2>1, <2>2 DEF HandleConfigEvent, workerVars
<1>4. ASSUME NEW q \in QJobs, TimerFires(q)
      PROVE  ErrandTypeOK'
  BY <1>4 DEF TimerFires, APITypeOK, apiVars, workerVars, historyVars
<1>5. ASSUME NEW w \in Workers, NEW q \in QJobs, StartPass(w, q)
      PROVE  ErrandTypeOK'
  <2> USE <1>5 DEF StartPass, APITypeOK
  <2>1. CASE UNCHANGED workerVars
    BY <2>1, RequeueType, SpendType DEF workerVars, historyVars, Kinds
  <2>2. ASSUME NEW next \in {"stamp", "clear"}, NEW t \in Nat \cup {Nil},
               cache[q] # Nil, Take(w, q, next, [cache[q] EXCEPT !.stamp = t]),
               UNCHANGED <<timer, left>>
        PROVE  ErrandTypeOK'
    <3>1. [cache[q] EXCEPT !.stamp = t] \in QJob
      BY <2>2, CopyType
    <3> QED
      BY <2>2, <3>1 DEF Take, Goto, PCs, historyVars
  <2> QED
    BY <2>1, <2>2
<1>6. ASSUME NEW w \in Workers, Stamp(w)
      PROVE  ErrandTypeOK'
  <2>1. Busy(w)
    BY <1>6, BusyWorker DEF Stamp
  <2>2. PICK ok \in BOOLEAN : StatusUpdate(key[w], obj[w], ok)
    BY <1>6 DEF Stamp
  <2>3. IsCurrent(key[w], obj[w]) => WithStatusOf(key[w], obj[w]) \in QJob
    BY <2>1, VersionTypes DEF IsCurrent, Busy
  <2>4. timer' \in [QJobs -> Nat \cup {Nil}]
    BY <1>6, <2>1, AddAfterType, RequeueType, ErrandAssumption DEF Stamp, Busy
  <2> QED
    BY <1>6, <2>1, <2>2, <2>3, <2>4, ReplaceType, ReleaseType
    DEF Stamp, StatusUpdate, Busy, APITypeOK, historyVars
<1>7. ASSUME NEW w \in Workers, Clear(w)
      PROVE  ErrandTypeOK'
  <2>1. Busy(w)
    BY <1>7, BusyWorker DEF Clear
  <2>2. PICK ok \in BOOLEAN : StatusUpdate(key[w], obj[w], ok)
    BY <1>7 DEF Clear
  <2>3. IsCurrent(key[w], obj[w]) => WithStatusOf(key[w], obj[w]) \in QJob
    BY <2>1, VersionTypes DEF IsCurrent, Busy
  <2>4. APITypeOK'
    BY <1>7, <2>1, <2>2, <2>3, ReplaceType DEF Clear, StatusUpdate, Busy, APITypeOK
  <2>5. CASE Fail(w)
    BY <1>7, <2>1, <2>4, <2>5, ReleaseType, RequeueType DEF Clear, Fail, Busy, historyVars
  <2>6. CASE /\ StatusUpdate(key[w], obj[w], TRUE)
             /\ obj' = [obj EXCEPT ![w] = WithStatusOf(key[w], @)]
             /\ Goto(w, IF obj'[w].strategy = "now" THEN "revert" ELSE "validate")
             /\ UNCHANGED <<key, timer>>
    <3>1. WithStatusOf(key[w], obj[w]) \in QJob
      BY <2>3, <2>6 DEF StatusUpdate, Replace
    <3>2. pc' \in [Workers -> PCs]
      BY <2>6 DEF Goto, PCs, Armed
    <3> QED
      BY <1>7, <2>4, <2>6, <3>1, <3>2 DEF Clear, historyVars
  <2> QED
    BY <1>7, <2>5, <2>6 DEF Clear
<1>8. ASSUME NEW w \in Workers, Revert(w)
      PROVE  ErrandTypeOK'
  <2> DEFINE manual == [obj[w] EXCEPT !.strategy = "manual"]
  <2>1. Busy(w)
    BY <1>8, BusyWorker DEF Revert
  <2>2. PICK ok \in BOOLEAN : Update(key[w], manual, ok)
    BY <1>8 DEF Revert
  <2>3. manual \in QJob
    BY <2>1 DEF Busy, QJob, Strategies
  <2> HIDE DEF manual
  <2>4. IsCurrent(key[w], manual) => WithSpecOf(key[w], manual) \in QJob
    BY <2>1, <2>3, VersionTypes DEF IsCurrent, Busy
  <2>5. APITypeOK'
    BY <1>8, <2>1, <2>2, <2>4, ReplaceType DEF Revert, Update, Busy, APITypeOK
  <2>6. CASE Fail(w)
    BY <1>8, <2>1, <2>5, <2>6, ReleaseType, RequeueType DEF Revert, Fail, Busy, historyVars
  <2>7. CASE /\ Update(key[w], manual, TRUE)
             /\ obj' = [obj EXCEPT ![w] = WithSpecOf(key[w], manual)]
             /\ Goto(w, "validate")
             /\ UNCHANGED <<key, timer>>
    <3>1. WithSpecOf(key[w], manual) \in QJob
      BY <2>4, <2>7 DEF Update, Replace
    <3> QED
      BY <1>8, <2>5, <2>7, <3>1 DEF Revert, Goto, PCs, Armed, historyVars
  <2> QED
    BY <1>8, <2>6, <2>7 DEF Revert, manual
<1>9. ASSUME NEW w \in Workers, Validate(w)
      PROVE  ErrandTypeOK'
  <2>1. Busy(w)
    BY <1>9, BusyWorker DEF Validate, LookupFails
  <2>2. APITypeOK'
    BY <1>9, SpendType DEF Validate, LookupFails, APITypeOK, Kinds
  <2>3. CASE Goto(w, "create") /\ UNCHANGED <<key, obj, timer, left>>
    BY <1>9, <2>2, <2>3 DEF Validate, LookupFails, Goto, PCs, Armed, historyVars
  <2>4. CASE Release(w) /\ (AddAfter(key[w], RetryDelay) \/ Requeue(key[w]))
    BY <1>9, <2>1, <2>2, <2>4, ReleaseType, AddAfterType, RequeueType, ErrandAssumption
    DEF Validate, LookupFails, Busy, historyVars
  <2> QED
    BY <1>9, <2>3, <2>4 DEF Validate, LookupFails, Fail
<1>10. ASSUME NEW w \in Workers, CreateJob(w)
       PROVE  ErrandTypeOK'
  <2>1. Busy(w)
    BY <1>10, BusyWorker DEF CreateJob
  <2>2. APITypeOK'
    BY <1>10, SpendType DEF CreateJob, APITypeOK, Kinds
  <2>3. obj[w].uid \in Nat
    BY <2>1 DEF Busy, QJob
  <2>4. /\ jobs' \in [QJobs -> Nat] /\ runs' \in [QJobs -> Nat]
        /\ lastRun' \in [QJobs -> Run \cup {Nil}] /\ owed' \in [QJobs -> BOOLEAN]
    BY <1>10, <2>1, <2>3, StoreJobType DEF CreateJob, Busy, historyVars
  <2>5. CASE Created(w)
    BY <1>10, <2>2, <2>4, <2>5, ReleaseType DEF CreateJob, Created, Goto, PCs
  <2>6. CASE Fail(w)
    BY <1>10, <2>1, <2>2, <2>4, <2>6, ReleaseType, RequeueType DEF CreateJob, Fail, Busy
  <2> QED
    BY <1>10, <2>5, <2>6 DEF CreateJob
<1>11. ASSUME NEW w \in Workers, MarkDone(w)
       PROVE  ErrandTypeOK'
  <2> DEFINE done == [obj[w] EXCEPT !.strategy = "done"]
  <2>1. Busy(w)
    BY <1>11, BusyWorker DEF MarkDone
  <2>2. PICK ok \in BOOLEAN : Update(key[w], done, ok)
    BY <1>11 DEF MarkDone
  <2>3. done \in QJob
    BY <2>1 DEF Busy, QJob, Strategies
  <2> HIDE DEF done
  <2>4. IsCurrent(key[w], done) => WithSpecOf(key[w], done) \in QJob
    BY <2>1, <2>3, VersionTypes DEF IsCurrent, Busy
  <2>5. APITypeOK'
    BY <1>11, <2>1, <2>2, <2>4, ReplaceType DEF MarkDone, Update, Busy, APITypeOK
  <2> QED
    BY <1>11, <2>5, ReleaseType DEF MarkDone, queueVars, historyVars
<1>12. CASE Tick
  BY <1>12 DEF Tick, APITypeOK, apiVars, queueVars, workerVars, historyVars
<1>13. CASE Crash
  <2>1. APITypeOK'
    <3>1. left' \in [Kinds -> Nat]
      BY <1>13, SpendType DEF Crash, Kinds
    <3>2. /\ cache' = qjobs /\ qjobs' = qjobs /\ rev' = rev
          /\ watch' = [q \in QJobs |-> <<>>]
      BY <1>13 DEF Crash, Begin
    <3>3. watch' \in [QJobs -> Seq(QJob \cup {Nil})]
      BY <3>2
    <3> QED
      BY <3>1, <3>2, <3>3 DEF APITypeOK
  <2>2. events' \subseteq Configs \X BOOLEAN
    BY <1>13, ListedType DEF Crash, Begin
  <2>3. notices' \in [QJobs -> Nat]
    BY <1>13 DEF Crash, Begin
  <2> QED
    BY <1>13, <2>1, <2>2, <2>3 DEF Crash, Begin, PCs, historyVars
<1>14. ASSUME NEW q \in QJobs, Users(q) \/ CompleteQJob(q)
       PROVE  ErrandTypeOK'
  <2>1. ASSUME NEW v \in QJob \cup {Nil}, Put(q, v), UNCHANGED cache,
               Spend("edit") \/ UNCHANGED left
        PROVE  APITypeOK'
    BY <2>1, PutType, SpendType DEF APITypeOK, Kinds
  <2>2. ASSUME NEW spec \in Specs, CreateQJob(q, spec)
        PROVE  ErrandTypeOK'
    <3>1. NewQJob(q, spec) \in QJob
      BY APIAssumption DEF NewQJob, QJob, SpecType, APITypeOK
    <3>2. APITypeOK'
      BY <2>1, <2>2, <3>1 DEF CreateQJob, UserCreate
    <3> QED
      BY <2>2, <3>2 DEF CreateQJob, Owe, queueVars, workerVars
  <2>3. ASSUME NEW spec \in Specs, EditQJob(q, spec)
        PROVE  ErrandTypeOK'
    <3>1. qjobs[q] \in QJob /\ rev[q] + 1 \in Nat /\ spec \in SpecType
      BY <2>3, APIAssumption DEF EditQJob, UserEdit, APITypeOK
    <3>2. WithSpecOf(q, spec) \in QJob
      BY <3>1 DEF WithSpecOf, QJob, SpecType
    <3>3. APITypeOK'
      BY <2>1, <2>3, <3>2 DEF EditQJob, UserEdit
    <3> QED
      BY <2>3, <3>3 DEF EditQJob, Owe, queueVars, workerVars
  <2>4. CASE DeleteQJob(q)
    <3>1. APITypeOK'
      BY <2>1, <2>4 DEF DeleteQJob, UserDelete
    <3> QED
      BY <2>4, <3>1 DEF DeleteQJob, queueVars, workerVars
  <2>5. CASE CompleteQJob(q)
    <3>1. PICK o, v, ok : /\ o = [cache[q] EXCEPT !.completed = TRUE]
                          /\ v = WithStatusOf(q, o) /\ Replace(q, o, v, ok)
      BY <2>5 DEF CompleteQJob, StatusUpdate
    <3>2. o \in QJob
      BY <2>5, <3>1, CompletedType DEF CompleteQJob
    <3>3. APITypeOK'
      BY <2>5, <3>1, <3>2, VersionTypes, ReplaceType DEF CompleteQJob, IsCurrent, APITypeOK
    <3> QED
      BY <2>5, <3>3 DEF CompleteQJob, queueVars, workerVars, historyVars
  <2> QED
    BY <1>14, <2>2, <2>3, <2>4, <2>5 DEF Users
<1>15. ASSUME NEW c \in Configs, SetConfig(c) \/ RemoveConfig(c) \/ TouchConfig(c)
       PROVE  ErrandTypeOK'
  <2>1. APITypeOK'
    BY <1>15, SpendType DEF SetConfig, RemoveConfig, TouchConfig, APITypeOK, Kinds
  <2>2. <<c, TRUE>> \in Configs \X BOOLEAN
    OBVIOUS
  <2>3. configs' \subseteq Configs /\ outdated' \subseteq Configs
    BY <1>15 DEF SetConfig, RemoveConfig, TouchConfig
  <2>4. events' \subseteq Configs \X BOOLEAN
    <3>1. events \subseteq Configs \X BOOLEAN /\ OfOthers(c) \subseteq events
      BY DEF OfOthers
    <3>2. events' \in {events, OfOthers(c) \cup {<<c, TRUE>>}}
      BY <1>15 DEF SetConfig, RemoveConfig, TouchConfig
    <3> QED
      BY <2>2, <3>1, <3>2, Zenon
  <2> QED
    BY <1>15, <2>1, <2>3, <2>4 DEF SetConfig, RemoveConfig, TouchConfig, queueVars, workerVars, historyVars
<1>16. CASE UNCHANGED errandVars
  BY <1>16 DEF errandVars, APITypeOK, apiVars, queueVars, workerVars, historyVars
<1> QED
  BY <1>1, <1>2, <1>3, <1>4, <1>5, <1>6, <1>7, <1>8, <1>9, <1>10, <1>11, <1>12,
     <1>13, <1>14, <1>15, <1>16 DEF ErrandNext, Informer, ConfigHandler, Step

-----------------------------------------------------------------------------
(* A key is processed by one worker.                                       *)

LEMMA ReleaseApart ==
  ASSUME ErrandTypeOK, WorkersApart, NEW w \in Workers, Release(w)
  PROVE  WorkersApart'
  BY DEF ErrandTypeOK, WorkersApart, Release, Goto

LEMMA GotoApart ==
  ASSUME ErrandTypeOK, WorkersApart, NEW w \in Workers, pc[w] # "idle",
         NEW next \in PCs \ {"idle"}, Goto(w, next), UNCHANGED key,
         UNCHANGED obj \/ \E o \in QJob : obj' = [obj EXCEPT ![w] = o]
  PROVE  WorkersApart'
  BY APIAssumption DEF ErrandTypeOK, WorkersApart, Goto

LEMMA TakeApart ==
  ASSUME ErrandTypeOK, WorkersApart, NEW w \in Workers, NEW q \in QJobs,
         \A v \in Workers : key[v] # q, q # Nil,
         NEW next \in PCs \ {"idle"}, NEW o \in QJob, Take(w, q, next, o)
  PROVE  WorkersApart'
  BY APIAssumption DEF ErrandTypeOK, WorkersApart, Take, Goto

\* The exclusion of the work queue: a key in the hands of a worker is not
\* handed to another.
LEMMA StepApart ==
  ASSUME ErrandTypeOK, WorkersApart, [ErrandNext]_errandVars
  PROVE  WorkersApart'
<1>1. CASE UNCHANGED workerVars
  BY <1>1 DEF WorkersApart, workerVars
<1>2. ASSUME NEW w \in Workers, NEW q \in QJobs, StartPass(w, q)
      PROVE  WorkersApart'
  <2>1. ASSUME NEW next \in {"stamp", "clear"}, NEW t \in Nat \cup {Nil},
               cache[q] # Nil, Take(w, q, next, [cache[q] EXCEPT !.stamp = t])
        PROVE  WorkersApart'
    <3>1. [cache[q] EXCEPT !.stamp = t] \in QJob
      BY <2>1, CopyType DEF ErrandTypeOK
    <3> QED
      BY <1>2, <2>1, <3>1, TakeApart, APIAssumption DEF StartPass, PCs
  <2>2. now \in Nat
    BY DEF ErrandTypeOK
  <2> QED
    BY <1>1, <1>2, <2>1, <2>2 DEF StartPass
<1>3. ASSUME NEW w \in Workers, Clear(w)
      PROVE  WorkersApart'
  <2>1. Busy(w)
    BY <1>3, BusyWorker DEF Clear
  <2>2. IsCurrent(key[w], obj[w]) => WithStatusOf(key[w], obj[w]) \in QJob
    BY <2>1, VersionTypes DEF IsCurrent, Busy, ErrandTypeOK
  <2> QED
    BY <1>3, <2>2, ReleaseApart, GotoApart
    DEF Clear, Fail, StatusUpdate, Replace, PCs, Armed
<1>4. ASSUME NEW w \in Workers, Revert(w)
      PROVE  WorkersApart'
  <2> DEFINE manual == [obj[w] EXCEPT !.strategy = "manual"]
  <2>1. Busy(w)
    BY <1>4, BusyWorker DEF Revert
  <2>2. manual \in QJob
    BY <2>1 DEF Busy, QJob, Strategies
  <2> HIDE DEF manual
  <2>3. IsCurrent(key[w], manual) => WithSpecOf(key[w], manual) \in QJob
    BY <2>1, <2>2, VersionTypes DEF IsCurrent, Busy, ErrandTypeOK
  <2>4. CASE Fail(w)
    BY <2>4, ReleaseApart DEF Fail
  <2>5. CASE /\ Update(key[w], manual, TRUE)
             /\ obj' = [obj EXCEPT ![w] = WithSpecOf(key[w], manual)]
             /\ Goto(w, "validate")
             /\ UNCHANGED <<key, timer>>
    BY <1>4, <2>3, <2>5, GotoApart DEF Revert, Update, Replace, PCs, Armed
  <2> QED
    BY <1>4, <2>4, <2>5 DEF Revert, manual
<1>5. ASSUME NEW w \in Workers, Stamp(w) \/ Validate(w) \/ CreateJob(w) \/ MarkDone(w)
      PROVE  WorkersApart'
  <2>1. CASE Release(w)
    BY <2>1, ReleaseApart
  <2>2. ASSUME NEW next \in {"create", "markDone"}, pc[w] # "idle", Goto(w, next),
               UNCHANGED <<key, obj>>
        PROVE  WorkersApart'
    BY <2>2, GotoApart DEF PCs, Armed
  <2> QED
    BY <1>5, <2>1, <2>2 DEF Stamp, Validate, LookupFails, CreateJob, Created, MarkDone, Fail
<1>6. CASE Crash
  BY <1>6 DEF Crash, Begin, WorkersApart
<1>7. CASE ~ \/ \E w \in Workers, q \in QJobs : StartPass(w, q)
             \/ \E w \in Workers : Step(w)
             \/ Crash
  BY <1>1, <1>7 DEF ErrandNext, Informer, CacheUpdate, HandleEvent, TimerFires, Users,
     CreateQJob, EditQJob, DeleteQJob, CompleteQJob, SetConfig, RemoveConfig, TouchConfig,
     ConfigHandler, HandleConfigEvent, Tick, errandVars
<1> QED
  BY <1>2, <1>3, <1>4, <1>5, <1>6, <1>7 DEF Step

-----------------------------------------------------------------------------
(* The inductive invariant.                                                *)

\* What a step may do about q without disturbing what a worker that does not
\* move knows about it: the clock moves on, the object is stored anew without
\* a new stamp, or deleted, or created, and no Job is created.
Harmless(q) ==
  /\ now <= now'
  /\ lastRun'[q] = lastRun[q]
  /\ \/ qjobs'[q] = qjobs[q] /\ rev'[q] = rev[q]
     \/ /\ rev'[q] = rev[q] + 1
        /\ qjobs'[q] # Nil =>
             /\ qjobs'[q].rv = rev[q] + 1
             /\ qjobs'[q].stamp # Nil =>
                  (qjobs[q] # Nil /\ qjobs[q].stamp = qjobs'[q].stamp)
  /\ jobs'[q] > 0 =>
       /\ jobs[q] > 0
       /\ qjobs[q] # Nil => (qjobs'[q] # Nil /\ qjobs'[q].uid = qjobs[q].uid)

\* What is known about a key: the parts of the invariant that do not mention
\* the workers.
KeyInv(q) ==
  /\ lastRun[q] # Nil => lastRun[q].at <= now
  /\ (qjobs[q] # Nil /\ qjobs[q].stamp # Nil) => NotBefore(q, qjobs[q].stamp)
  /\ jobs[q] > 0 => /\ qjobs[q] # Nil /\ lastRun[q] # Nil
                    /\ lastRun[q].uid = qjobs[q].uid

WorkerInv(w) ==
  /\ pc[w] = "stamp" => StampInv(w)
  /\ pc[w] = "clear" => ClearInv(w)
  /\ pc[w] \in Armed => ArmedInv(w)
  /\ pc[w] = "revert" => obj[w].strategy = "now"
  /\ pc[w] = "markDone" => MarkDoneInv(w)

LEMMA InvParts ==
  ErrandInv <=> /\ CopiesAreVersions /\ WorkersApart
                /\ \A q \in QJobs : KeyInv(q)
                /\ \A w \in Workers : WorkerInv(w)
  BY DEF ErrandInv, KeyInv, WorkerInv, StampsFollowRuns, JobsAreOfStored, WorkersInv

\* What a step needs to know about the numbers of a key.
LEMMA KeyTypes ==
  ASSUME ErrandTypeOK, NEW q \in QJobs
  PROVE  /\ now \in Nat /\ rev[q] \in Nat /\ jobs[q] \in Nat
         /\ qjobs[q] # Nil => (qjobs[q] \in QJob /\ qjobs[q].rv \in Nat)
         /\ qjobs[q] # Nil => (qjobs[q].stamp # Nil => qjobs[q].stamp \in Nat)
         /\ lastRun[q] # Nil => lastRun[q].at \in Nat
  BY DEF ErrandTypeOK, APITypeOK, QJob, Run

LEMMA HarmlessForKey ==
  ASSUME ErrandTypeOK, ErrandTypeOK', NEW q \in QJobs, KeyInv(q), Harmless(q)
  PROVE  KeyInv(q)'
<1>1. /\ now \in Nat /\ now' \in Nat
      /\ qjobs[q] # Nil => (qjobs[q].stamp # Nil => qjobs[q].stamp \in Nat)
  BY KeyTypes DEF ErrandTypeOK
<1>2. jobs[q] \in Nat /\ jobs'[q] \in Nat
  BY DEF ErrandTypeOK
<1>3. lastRun[q] # Nil => lastRun[q].at \in Nat
  BY KeyTypes
<1> QED
  BY <1>1, <1>2, <1>3 DEF KeyInv, Harmless, NotBefore

\* A worker that does not move keeps what it knows.
LEMMA HarmlessForWorker ==
  ASSUME ErrandTypeOK, ErrandTypeOK', WorkersApart, NEW w \in Workers,
         pc'[w] = pc[w], key'[w] = key[w], obj'[w] = obj[w],
         WorkerInv(w), pc[w] # "idle" => Harmless(key[w])
  PROVE  WorkerInv(w)'
<1>1. CASE pc[w] = "idle"
  BY <1>1 DEF WorkerInv, Armed
<1>2. CASE pc[w] # "idle"
  <2>1. PICK q \in QJobs, o \in QJob : key[w] = q /\ obj[w] = o /\ Harmless(q)
    BY <1>2, BusyWorker DEF Busy
  <2>2. /\ now \in Nat /\ now' \in Nat /\ rev[q] \in Nat /\ o.rv \in Nat
        /\ jobs[q] \in Nat /\ jobs'[q] \in Nat
        /\ lastRun[q] # Nil => lastRun[q].at \in Nat
        /\ o.stamp # Nil => o.stamp \in Nat
        /\ qjobs[q] # Nil => (qjobs[q].stamp # Nil => qjobs[q].stamp \in Nat)
    BY <2>1, KeyTypes DEF ErrandTypeOK, QJob
  <2>3. ASSUME o.rv <= rev[q]
        PROVE  /\ o.rv <= rev'[q]
               /\ IsCurrent(q, o)' => (IsCurrent(q, o) /\ qjobs'[q] = qjobs[q])
    BY <2>1, <2>2, <2>3 DEF Harmless, IsCurrent
  <2>4. pc'[w] = pc[w] /\ key'[w] = q /\ obj'[w] = o /\ key[w] = q /\ obj[w] = o
    BY <2>1
  <2>5. CASE pc[w] = "stamp"
    <3>1. StampInv(w)'
      BY <2>1, <2>2, <2>3, <2>4, <2>5 DEF WorkerInv, StampInv, NotBefore, IsCurrent, Harmless
    <3> QED
      BY <2>4, <2>5, <3>1 DEF WorkerInv, Armed
  <2>6. CASE pc[w] = "clear"
    <3>1. ClearInv(w)'
      BY <2>1, <2>2, <2>3, <2>4, <2>6, ErrandAssumption
      DEF WorkerInv, ClearInv, IsCurrent, Harmless
    <3> QED
      BY <2>4, <2>6, <3>1 DEF WorkerInv, Armed
  <2>7. CASE pc[w] \in Armed
    <3>1. ArmedInv(w)
      BY <2>7 DEF WorkerInv
    <3>2. Known(q, o)'
      BY <2>1, <2>3, <2>4, <3>1, APIAssumption DEF ArmedInv, Known
    <3>3. qjobs'[q] # Nil => qjobs'[q].stamp = Nil
      BY <2>1, <2>4, <3>1 DEF ArmedInv, Harmless
    <3>4. jobs'[q] > 0 => IsStored(o.uid, q)'
      BY <2>1, <2>4, <3>1 DEF ArmedInv, Harmless, IsStored
    <3>5. Elapsed(q)'
      BY <2>1, <2>2, <2>4, <3>1, ErrandAssumption DEF ArmedInv, Harmless, Elapsed
    <3>6. ArmedInv(w)'
      BY <2>4, <3>2, <3>3, <3>4, <3>5 DEF ArmedInv, Known, Elapsed, IsCurrent, IsStored
    <3> QED
      BY <2>4, <2>7, <3>6 DEF WorkerInv, Armed
  <2>8. CASE pc[w] = "markDone"
    <3>1. MarkDoneInv(w)
      BY <2>8 DEF WorkerInv
    <3>2. Known(q, o)'
      BY <2>1, <2>3, <2>4, <3>1, APIAssumption DEF MarkDoneInv, Known
    <3>3. MarkDoneInv(w)'
      BY <2>1, <2>4, <3>1, <3>2 DEF MarkDoneInv, Harmless, Known, IsCurrent
    <3> QED
      BY <2>4, <2>8, <3>3 DEF WorkerInv, Armed
  <2>9. pc[w] \in PCs
    BY DEF ErrandTypeOK
  <2> QED
    BY <1>2, <2>5, <2>6, <2>7, <2>8, <2>9 DEF PCs
<1> QED
  BY <1>1, <1>2

\* Storing a version that follows the stored one is harmless.
LEMMA ReplaceHarmless ==
  ASSUME ErrandTypeOK, NEW q \in QJobs, NEW o, NEW v, NEW ok, Replace(q, o, v, ok),
         IsCurrent(q, o) => /\ v # Nil /\ v.rv = rev[q] + 1 /\ v.uid = qjobs[q].uid
                            /\ v.stamp # Nil => v.stamp = qjobs[q].stamp,
         UNCHANGED <<now, lastRun>>, \A p \in QJobs : jobs'[p] > 0 => jobs[p] > 0
  PROVE  \A p \in QJobs : Harmless(p)
<1>1. \A p \in QJobs : now \in Nat /\ rev[p] \in Nat /\ jobs[p] \in Nat
  BY KeyTypes
<1>2. CASE UNCHANGED <<qjobs, rev>>
  BY <1>1, <1>2 DEF Harmless
<1>3. CASE IsCurrent(q, o) /\ Put(q, v)
  <2>1. /\ qjobs'[q] = v /\ rev'[q] = rev[q] + 1
        /\ \A p \in QJobs \ {q} : qjobs'[p] = qjobs[p] /\ rev'[p] = rev[p]
    BY <1>3 DEF Put, ErrandTypeOK, APITypeOK
  <2>2. \A p \in QJobs \ {q} : Harmless(p)
    BY <1>1, <2>1 DEF Harmless
  <2> QED
    BY <1>1, <1>3, <2>1, <2>2 DEF IsCurrent, Harmless
<1> QED
  BY <1>2, <1>3 DEF Replace

-----------------------------------------------------------------------------
(* Copies.                                                                 *)

\* What the server's versions of an object take from it.
LEMMA VersionFields ==
  ASSUME ErrandTypeOK, NEW q \in QJobs, qjobs[q] # Nil, NEW o \in QJob
  PROVE  /\ WithStatusOf(q, o) # Nil /\ WithSpecOf(q, o) # Nil
         /\ WithStatusOf(q, o).rv = rev[q] + 1 /\ WithSpecOf(q, o).rv = rev[q] + 1
         /\ WithStatusOf(q, o).uid = qjobs[q].uid /\ WithSpecOf(q, o).uid = qjobs[q].uid
         /\ WithStatusOf(q, o).stamp = o.stamp
         /\ WithSpecOf(q, o).stamp = qjobs[q].stamp
         /\ WithStatusOf(q, o).strategy = qjobs[q].strategy
         /\ WithSpecOf(q, o).strategy = o.strategy
<1>1. qjobs[q] \in QJob
  BY DEF ErrandTypeOK, APITypeOK
<1>2. WithStatusOf(q, o) \in QJob /\ WithSpecOf(q, o) \in QJob
  BY VersionTypes DEF ErrandTypeOK
<1> QED
  BY <1>1, <1>2, APIAssumption DEF WithStatusOf, WithSpecOf, QJob

\* What a worker writes, and that it writes nothing but a status or a spec.
LEMMA WorkerWrites ==
  ASSUME ErrandTypeOK, WorkersApart, NEW w \in Workers, Step(w)
  PROVE  /\ Busy(w) /\ UNCHANGED <<cache, now>>
         /\ \/ UNCHANGED <<qjobs, rev, watch>>
            \/ \E o \in QJob, ok \in BOOLEAN :
                 /\ StatusUpdate(key[w], o, ok) \/ Update(key[w], o, ok)
                 /\ o.stamp = obj[w].stamp
                 /\ UNCHANGED <<jobs, lastRun, runs>>
<1>1. Busy(w)
  BY BusyWorker DEF Step, Stamp, Clear, Revert, Validate, LookupFails, CreateJob, MarkDone
<1>2. \A s \in Strategies : /\ [obj[w] EXCEPT !.strategy = s] \in QJob
                            /\ [obj[w] EXCEPT !.strategy = s].stamp = obj[w].stamp
  BY <1>1 DEF Busy, QJob
<1>3. CASE Stamp(w) \/ Clear(w)
  BY <1>1, <1>3 DEF Stamp, Clear, Busy, historyVars
<1>4. CASE Revert(w)
  BY <1>1, <1>2, <1>4 DEF Revert, Strategies, historyVars
<1>5. CASE MarkDone(w)
  BY <1>1, <1>2, <1>5 DEF MarkDone, Strategies, historyVars
<1>6. CASE Validate(w) \/ CreateJob(w)
  BY <1>1, <1>6 DEF Validate, LookupFails, CreateJob
<1> QED
  BY <1>3, <1>4, <1>5, <1>6 DEF Step

\* Whatever the workers write, a copy that is out of date is recognised.
LEMMA StepCopies ==
  ASSUME ErrandTypeOK, WorkersApart, CopiesAreVersions, [ErrandNext]_errandVars
  PROVE  CopiesAreVersions'
<1>1. CASE UNCHANGED <<qjobs, rev, cache, watch>>
  BY <1>1 DEF CopiesAreVersions, Known, IsCurrent
<1>2. ASSUME NEW w \in Workers, Step(w)
      PROVE  CopiesAreVersions'
  <2>1. key[w] \in QJobs /\ UNCHANGED cache
    BY <1>2, WorkerWrites DEF Busy
  <2>2. ASSUME NEW o \in QJob, NEW ok \in BOOLEAN,
               StatusUpdate(key[w], o, ok) \/ Update(key[w], o, ok)
        PROVE  CopiesAreVersions'
    <3>1. PICK v : /\ IsCurrent(key[w], o) => (v \in QJob /\ v.rv = rev[key[w]] + 1)
                   /\ Replace(key[w], o, v, ok)
      BY <2>1, <2>2, VersionTypes, VersionFields
      DEF StatusUpdate, Update, IsCurrent, ErrandTypeOK
    <3> QED
      BY <2>1, <3>1, ReplaceKnown DEF ErrandTypeOK
  <2> QED
    BY <1>1, <1>2, <2>1, <2>2, WorkerWrites
<1>3. ASSUME NEW q \in QJobs, CacheUpdate(q)
      PROVE  CopiesAreVersions'
  BY <1>3, InformerKnown DEF CacheUpdate, ErrandTypeOK
<1>4. CASE Crash
  BY <1>4 DEF Crash, Begin, CopiesAreVersions, Known, IsCurrent
<1>5. ASSUME NEW q \in QJobs, Users(q) \/ CompleteQJob(q)
      PROVE  CopiesAreVersions'
  <2>1. ASSUME NEW spec \in Specs, CreateQJob(q, spec) \/ EditQJob(q, spec)
        PROVE  CopiesAreVersions'
    <3>1. spec \in SpecType
      BY APIAssumption
    <3>2. CASE CreateQJob(q, spec)
      <4>1. NewQJob(q, spec) \in QJob /\ NewQJob(q, spec).rv = rev[q] + 1
        BY <3>1 DEF NewQJob, QJob, SpecType, ErrandTypeOK, APITypeOK
      <4> QED
        BY <3>2, <4>1, PutKnown DEF CreateQJob, UserCreate, ErrandTypeOK
    <3>3. CASE EditQJob(q, spec)
      <4>1. qjobs[q] \in QJob /\ rev[q] + 1 \in Nat
        BY <3>3 DEF EditQJob, UserEdit, ErrandTypeOK, APITypeOK
      <4>2. WithSpecOf(q, spec) \in QJob /\ WithSpecOf(q, spec).rv = rev[q] + 1
        BY <3>1, <4>1 DEF WithSpecOf, QJob, SpecType
      <4> QED
        BY <3>3, <4>2, PutKnown DEF EditQJob, UserEdit, ErrandTypeOK
    <3> QED
      BY <2>1, <3>2, <3>3
  <2>2. CASE DeleteQJob(q)
    BY <2>2, PutKnown DEF DeleteQJob, UserDelete, ErrandTypeOK
  <2>3. CASE CompleteQJob(q)
    <3>1. PICK o, v, ok : /\ o = [cache[q] EXCEPT !.completed = TRUE]
                          /\ v = WithStatusOf(q, o) /\ Replace(q, o, v, ok)
      BY <2>3 DEF CompleteQJob, StatusUpdate
    <3>2. o \in QJob
      BY <2>3, <3>1, CompletedType DEF CompleteQJob, ErrandTypeOK
    <3>3. IsCurrent(q, o) => (v \in QJob /\ v.rv = rev[q] + 1)
      BY <3>1, <3>2, VersionTypes, VersionFields DEF IsCurrent, ErrandTypeOK
    <3> QED
      BY <2>3, <3>1, <3>3, ReplaceKnown DEF CompleteQJob, ErrandTypeOK
  <2> QED
    BY <1>5, <2>1, <2>2, <2>3 DEF Users
<1>6. CASE ~ \/ \E w \in Workers : Step(w)
             \/ \E q \in QJobs : CacheUpdate(q) \/ Users(q) \/ CompleteQJob(q)
             \/ Crash
  BY <1>1, <1>6 DEF ErrandNext, Informer, HandleEvent, TimerFires, StartPass, SetConfig,
     RemoveConfig, TouchConfig, ConfigHandler, HandleConfigEvent, Tick, errandVars, apiVars
<1> QED
  BY <1>2, <1>3, <1>4, <1>5, <1>6

-----------------------------------------------------------------------------
(* What each step does to the keys.                                        *)

\* Users, the job controller, the informers, the queue, the clock and a crash
\* do nothing a worker could be misled by.
LEMMA OthersHarmless ==
  ASSUME ErrandTypeOK, CopiesAreVersions, [ErrandNext]_errandVars, ~ \E w \in Workers : Step(w),
         NEW p \in QJobs
  PROVE  Harmless(p)
<1>1. /\ now \in Nat /\ rev[p] \in Nat /\ jobs[p] \in Nat
  BY KeyTypes
<1>2. CASE /\ qjobs'[p] = qjobs[p] /\ rev'[p] = rev[p] /\ jobs'[p] = jobs[p]
           /\ lastRun'[p] = lastRun[p] /\ now' \in {now, now + 1}
  BY <1>1, <1>2 DEF Harmless
<1>3. ASSUME NEW q \in QJobs, Users(q)
      PROVE  Harmless(p)
  <2>1. CASE p # q
    <3>1. qjobs'[p] = qjobs[p] /\ rev'[p] = rev[p] /\ jobs'[p] = jobs[p]
      BY <1>3, <2>1 DEF Users, CreateQJob, UserCreate, EditQJob, UserEdit, DeleteQJob,
         UserDelete, Put, ErrandTypeOK, APITypeOK
    <3> QED
      BY <1>2, <1>3, <3>1 DEF Users, CreateQJob, EditQJob, DeleteQJob, historyVars
  <2>2. CASE p = q
    <3>1. PICK v : Put(p, v) /\ v = qjobs'[p]
      BY <1>3, <2>2 DEF Users, CreateQJob, UserCreate, EditQJob, UserEdit, DeleteQJob,
         UserDelete, Put, ErrandTypeOK, APITypeOK
    <3>2. rev'[p] = rev[p] + 1
      BY <3>1 DEF Put, ErrandTypeOK, APITypeOK
    <3>3. now' = now /\ lastRun'[p] = lastRun[p]
      BY <1>3, <2>2 DEF Users, CreateQJob, EditQJob, DeleteQJob, historyVars
    <3>4. CASE \E spec \in Specs : CreateQJob(q, spec)
      <4>1. PICK spec \in Specs : CreateQJob(q, spec)
        BY <3>4
      <4>2. qjobs[p] = Nil /\ qjobs'[p] = NewQJob(p, spec) /\ jobs' = jobs
        BY <2>2, <4>1 DEF CreateQJob, UserCreate, Put, ErrandTypeOK, APITypeOK
      <4> QED
        BY <1>1, <3>2, <3>3, <4>2 DEF Harmless, NewQJob
    <3>5. CASE \E spec \in Specs : EditQJob(q, spec)
      <4>1. PICK spec \in Specs : EditQJob(q, spec)
        BY <3>5
      <4>2. qjobs[p] # Nil /\ qjobs'[p] = WithSpecOf(p, spec) /\ jobs' = jobs
        BY <2>2, <4>1 DEF EditQJob, UserEdit, Put, ErrandTypeOK, APITypeOK
      <4>3. qjobs[p] \in QJob /\ spec \in SpecType
        BY <4>2, APIAssumption DEF ErrandTypeOK, APITypeOK
      <4>4. rev[p] + 1 \in Nat
        BY <1>1
      <4>5. WithSpecOf(p, spec) \in QJob /\ WithSpecOf(p, spec).rv = rev[p] + 1
        BY <4>3, <4>4 DEF WithSpecOf, QJob, SpecType
      <4>6. /\ WithSpecOf(p, spec).uid = qjobs[p].uid
            /\ WithSpecOf(p, spec).stamp = qjobs[p].stamp
        BY <4>3, <4>4 DEF WithSpecOf, QJob, SpecType
      <4> QED
        BY <1>1, <3>2, <3>3, <4>2, <4>5, <4>6, APIAssumption DEF Harmless
    <3>6. CASE DeleteQJob(q)
      <4>1. qjobs'[p] = Nil /\ jobs'[p] = 0
        BY <2>2, <3>6 DEF DeleteQJob, UserDelete, Put, ErrandTypeOK, APITypeOK
      <4> QED
        BY <3>2, <3>3, <4>1, <1>1 DEF Harmless
    <3> QED
      BY <1>3, <3>4, <3>5, <3>6 DEF Users
  <2> QED
    BY <2>1, <2>2
<1>4. CASE ~ \E q \in QJobs : Users(q) \/ CompleteQJob(q)
  BY <1>2, <1>4 DEF ErrandNext, Informer, CacheUpdate, HandleEvent, TimerFires, StartPass,
     SetConfig, RemoveConfig, TouchConfig, ConfigHandler, HandleConfigEvent, Tick, Crash, Begin, errandVars,
     apiVars, historyVars
<1>5. ASSUME NEW q \in QJobs, CompleteQJob(q)
      PROVE  Harmless(p)
  <2>1. PICK o, v, ok : /\ o = [cache[q] EXCEPT !.completed = TRUE]
                        /\ v = WithStatusOf(q, o) /\ Replace(q, o, v, ok)
    BY <1>5 DEF CompleteQJob, StatusUpdate
  <2>2. o \in QJob /\ o.rv = cache[q].rv /\ o.stamp = cache[q].stamp
    BY <1>5, <2>1, CompletedType DEF CompleteQJob, ErrandTypeOK
  <2>3. IsCurrent(q, o) => cache[q] = qjobs[q]
    BY <1>5, <2>2 DEF CopiesAreVersions, Known, IsCurrent, CompleteQJob
  <2>4. IsCurrent(q, o) => /\ v # Nil /\ v.rv = rev[q] + 1 /\ v.uid = qjobs[q].uid
                           /\ v.stamp = qjobs[q].stamp
    BY <2>1, <2>2, <2>3, VersionFields DEF IsCurrent
  <2>5. UNCHANGED <<now, lastRun>> /\ \A r \in QJobs : jobs'[r] > 0 => jobs[r] > 0
    BY <1>5 DEF CompleteQJob, historyVars, ErrandTypeOK
  <2> QED
    BY <2>1, <2>4, <2>5, ReplaceHarmless
<1> QED
  BY <1>3, <1>4, <1>5

\* A worker's step disturbs no key but its own.
LEMMA StepHarmless ==
  ASSUME ErrandTypeOK, WorkersApart, NEW w \in Workers, Step(w), NEW p \in QJobs,
         p # key[w]
  PROVE  Harmless(p)
<1>1. /\ now \in Nat /\ rev[p] \in Nat /\ jobs[p] \in Nat
  BY KeyTypes
<1>2. Busy(w) /\ now' = now
  BY WorkerWrites
<1>3. qjobs'[p] = qjobs[p] /\ rev'[p] = rev[p]
  <2>1. CASE UNCHANGED <<qjobs, rev, watch>>
    BY <2>1
  <2>2. ASSUME NEW v, Put(key[w], v)
        PROVE  qjobs'[p] = qjobs[p] /\ rev'[p] = rev[p]
    BY <1>2, <2>2 DEF Busy, Put, ErrandTypeOK, APITypeOK
  <2>3. ASSUME NEW o \in QJob, NEW ok \in BOOLEAN,
               StatusUpdate(key[w], o, ok) \/ Update(key[w], o, ok)
        PROVE  qjobs'[p] = qjobs[p] /\ rev'[p] = rev[p]
    BY <2>1, <2>2, <2>3 DEF StatusUpdate, Update, Replace
  <2> QED
    BY <2>1, <2>3, WorkerWrites
<1>4. jobs'[p] = jobs[p] /\ lastRun'[p] = lastRun[p]
  BY <1>2 DEF Busy, Step, Stamp, Clear, Revert, Validate, LookupFails, CreateJob, MarkDone, StoreJob,
     historyVars, ErrandTypeOK
<1> QED
  BY <1>1, <1>2, <1>3, <1>4 DEF Harmless

\* Of the worker's steps only the stamp and the Job disturb its key.
LEMMA OwnHarmless ==
  ASSUME ErrandTypeOK, WorkersApart, NEW w \in Workers, WorkerInv(w),
         Clear(w) \/ Revert(w) \/ Validate(w) \/ MarkDone(w)
  PROVE  Harmless(key[w])
<1>1. Busy(w)
  BY BusyWorker DEF Clear, Revert, Validate, LookupFails, MarkDone
<1>2. UNCHANGED <<now, jobs, lastRun>>
  BY DEF Clear, Revert, Validate, LookupFails, MarkDone, historyVars
<1>3. \A s \in Strategies : [obj[w] EXCEPT !.strategy = s] \in QJob
  BY <1>1 DEF Busy, QJob, Strategies
<1>4. ASSUME NEW o \in QJob, NEW ok, Update(key[w], o, ok)
      PROVE  Harmless(key[w])
  <2>1. PICK v : /\ v = WithSpecOf(key[w], o)
                 /\ Replace(key[w], o, v, ok)
    BY <1>4 DEF Update
  <2>2. IsCurrent(key[w], o) => /\ v # Nil /\ v.rv = rev[key[w]] + 1
                                /\ v.uid = qjobs[key[w]].uid
                                /\ v.stamp = qjobs[key[w]].stamp
    BY <1>1, <2>1, VersionFields DEF IsCurrent, Busy
  <2> QED
    BY <1>1, <1>2, <2>1, <2>2, ReplaceHarmless DEF Busy
<1>5. CASE Clear(w)
  <2>1. PICK ok, v : /\ v = WithStatusOf(key[w], obj[w])
                     /\ Replace(key[w], obj[w], v, ok)
    BY <1>5 DEF Clear, StatusUpdate
  <2>2. obj[w].stamp = Nil
    BY <1>5 DEF Clear, WorkerInv, ClearInv
  <2>3. IsCurrent(key[w], obj[w]) => /\ v # Nil /\ v.rv = rev[key[w]] + 1
                                     /\ v.uid = qjobs[key[w]].uid
                                     /\ v.stamp = Nil
    BY <1>1, <2>1, <2>2, VersionFields DEF IsCurrent, Busy
  <2> QED
    BY <1>1, <1>2, <2>1, <2>3, ReplaceHarmless DEF Busy
<1>6. CASE Revert(w)
  BY <1>3, <1>4, <1>6 DEF Revert, Strategies
<1>7. CASE MarkDone(w)
  BY <1>3, <1>4, <1>7 DEF MarkDone, Strategies
<1>8. CASE Validate(w)
  <2>1. key[w] \in QJobs
    BY <1>1 DEF Busy
  <2> QED
    BY <1>2, <1>8, <2>1, KeyTypes DEF Validate, LookupFails, Harmless
<1> QED
  BY <1>5, <1>6, <1>7, <1>8

-----------------------------------------------------------------------------
(* The invariant is inductive.                                             *)

LEMMA StepKeys ==
  ASSUME ErrandTypeOK, ErrandTypeOK', CopiesAreVersions, WorkersApart, [ErrandNext]_errandVars,
         NEW p \in QJobs, KeyInv(p), \A w \in Workers : WorkerInv(w)
  PROVE  KeyInv(p)'
<1>1. CASE Harmless(p)
  BY <1>1, HarmlessForKey
<1>2. /\ now \in Nat /\ rev[p] \in Nat /\ jobs[p] \in Nat
      /\ lastRun[p] # Nil => lastRun[p].at \in Nat
  BY KeyTypes
<1>3. ASSUME NEW w \in Workers, p = key[w], Stamp(w)
      PROVE  KeyInv(p)'
  <2>1. Busy(w) /\ StampInv(w)
    BY <1>3, BusyWorker DEF Stamp, WorkerInv
  <2>2. UNCHANGED <<now, jobs, lastRun>>
    BY <1>3 DEF Stamp, historyVars
  <2>3. CASE UNCHANGED <<qjobs, rev>>
    BY <1>1, <1>2, <2>2, <2>3 DEF Harmless
  <2>4. CASE IsCurrent(p, obj[w]) /\ Put(p, WithStatusOf(p, obj[w]))
    <3>1. qjobs'[p] = WithStatusOf(p, obj[w])
      BY <2>4 DEF Put, ErrandTypeOK, APITypeOK
    <3>2. /\ qjobs[p] # Nil /\ qjobs'[p].stamp = obj[w].stamp
          /\ qjobs'[p].uid = qjobs[p].uid /\ qjobs'[p] # Nil
      BY <2>1, <2>4, <3>1, VersionFields DEF IsCurrent, Busy
    <3> QED
      BY <1>3, <2>1, <2>2, <3>2 DEF KeyInv, StampInv, NotBefore
  <2> QED
    BY <1>3, <2>3, <2>4 DEF Stamp, StatusUpdate, Replace
<1>4. ASSUME NEW w \in Workers, p = key[w], CreateJob(w)
      PROVE  KeyInv(p)'
  <2>1. ArmedInv(w)
    BY <1>4 DEF CreateJob, WorkerInv, Armed
  <2>2. UNCHANGED <<now, qjobs, rev>>
    BY <1>4 DEF CreateJob
  <2>3. CASE UNCHANGED <<jobs, lastRun>>
    BY <1>1, <1>2, <2>2, <2>3 DEF Harmless
  <2>4. CASE StoreJob(p, obj[w].uid)
    <3>1. /\ jobs'[p] = IF IsStored(obj[w].uid, p) THEN jobs[p] + 1 ELSE jobs[p]
          /\ lastRun'[p] = [at |-> now, uid |-> obj[w].uid]
      BY <2>4 DEF StoreJob, ErrandTypeOK
    <3>2. jobs'[p] > 0 => IsStored(obj[w].uid, p)
      BY <1>4, <2>1, <3>1 DEF ArmedInv
    <3>3. lastRun'[p] \in Run
      BY <1>2, <1>4, <3>1, BusyWorker DEF CreateJob, Busy, QJob, Run
    <3>4. lastRun'[p].at = now /\ lastRun'[p].uid = obj[w].uid
      BY <3>1
    <3>5. jobs'[p] > 0 => /\ qjobs'[p] # Nil /\ lastRun'[p] # Nil
                          /\ lastRun'[p].uid = qjobs'[p].uid
      <4>1. lastRun'[p] # Nil
        BY <3>3, ErrandAssumption
      <4> QED
        BY <2>2, <3>2, <3>4, <4>1 DEF IsStored
    <3> QED
      BY <1>2, <1>4, <2>1, <2>2, <3>4, <3>5 DEF KeyInv, ArmedInv
  <2> QED
    BY <1>4, <2>3, <2>4 DEF CreateJob, historyVars
<1>5. ASSUME NEW w \in Workers, Step(w)
      PROVE  KeyInv(p)'
  BY <1>1, <1>3, <1>4, <1>5, StepHarmless, OwnHarmless DEF Step
<1> QED
  BY <1>1, <1>5, OthersHarmless

\* A worker that starts a pass knows the version it read.
LEMMA StartWorker ==
  ASSUME ErrandTypeOK, CopiesAreVersions, NEW w \in Workers, NEW q \in QJobs,
         KeyInv(q), StartPass(w, q), ~ UNCHANGED workerVars
  PROVE  WorkerInv(w)'
<1>1. cache[q] \in QJob /\ cache[q] # Nil
  BY DEF StartPass, ErrandTypeOK, APITypeOK
<1>2. Known(q, cache[q])
  BY DEF CopiesAreVersions
<1>3. UNCHANGED <<qjobs, rev, now, lastRun>>
  BY DEF StartPass, historyVars
<1>4. ASSUME NEW next, NEW o, Take(w, q, next, o)
      PROVE  pc'[w] = next /\ key'[w] = q /\ obj'[w] = o
  BY <1>4 DEF Take, Goto, ErrandTypeOK
<1>5. /\ now \in Nat /\ now # Nil
      /\ qjobs[q] # Nil => (qjobs[q].stamp # Nil => qjobs[q].stamp \in Nat)
  BY KeyTypes, APIAssumption
<1>6. \A t \in Nat \cup {Nil} : /\ [cache[q] EXCEPT !.stamp = t].rv = cache[q].rv
                                /\ [cache[q] EXCEPT !.stamp = t].stamp = t
  BY <1>1 DEF QJob
<1>7. CASE cache[q].stamp = Nil /\ Take(w, q, "stamp", [cache[q] EXCEPT !.stamp = now])
  <2>1. PICK o : o = [cache[q] EXCEPT !.stamp = now]
    OBVIOUS
  <2>2. pc'[w] = "stamp" /\ key'[w] = q /\ obj'[w] = o
    BY <1>4, <1>7, <2>1
  <2>3. o.rv = cache[q].rv /\ o.stamp = now
    BY <1>5, <1>6, <2>1
  <2>4. NotBefore(q, now)
    BY <1>5 DEF NotBefore, KeyInv
  <2>5. IsCurrent(q, o) => /\ cache[q] = qjobs[q] /\ qjobs[q].stamp = Nil
                           /\ o = [qjobs[q] EXCEPT !.stamp = o.stamp]
    BY <1>1, <1>2, <1>7, <2>1, <2>3 DEF Known, IsCurrent
  <2>6. StampInv(w)'
    BY <1>1, <1>2, <1>3, <1>5, <2>2, <2>3, <2>4, <2>5
    DEF StampInv, Known, NotBefore, IsCurrent
  <2> QED
    BY <2>2, <2>6 DEF WorkerInv, Armed
<1>8. CASE /\ cache[q].stamp # Nil /\ ~InWindow(cache[q].stamp)
           /\ Take(w, q, "clear", [cache[q] EXCEPT !.stamp = Nil])
  <2>1. PICK o : o = [cache[q] EXCEPT !.stamp = Nil]
    OBVIOUS
  <2>2. pc'[w] = "clear" /\ key'[w] = q /\ obj'[w] = o
    BY <1>4, <1>8, <2>1
  <2>3. o.rv = cache[q].rv /\ o.stamp = Nil
    BY <1>6, <2>1
  <2>4. IsCurrent(q, o) => cache[q] = qjobs[q]
    BY <1>1, <1>2, <2>3 DEF Known, IsCurrent
  <2>5. IsCurrent(q, o) => /\ qjobs[q].stamp # Nil
                           /\ qjobs[q].stamp + SkipDuration <= now
    BY <1>5, <1>8, <2>4, ErrandAssumption DEF InWindow, KeyInv, NotBefore, IsCurrent
  <2>6. ClearInv(w)'
    BY <1>1, <1>2, <1>3, <2>1, <2>2, <2>3, <2>4, <2>5 DEF ClearInv, Known, IsCurrent
  <2> QED
    BY <2>2, <2>6 DEF WorkerInv, Armed
<1> QED
  BY <1>1, <1>7, <1>8 DEF StartPass

\* A worker that makes a call knows what the reply tells.
LEMMA StepWorker ==
  ASSUME ErrandTypeOK, ErrandTypeOK', WorkersApart, NEW w \in Workers, WorkerInv(w),
         KeyInv(key[w]), Step(w)
  PROVE  WorkerInv(w)'
<1>1. PICK q \in QJobs, o \in QJob : key[w] = q /\ obj[w] = o
  BY WorkerWrites DEF Busy
<1>2. CASE Release(w)
  BY <1>2 DEF Release, Goto, ErrandTypeOK, WorkerInv, Armed
<1>3. /\ now \in Nat /\ rev[q] \in Nat
      /\ lastRun[q] # Nil => lastRun[q].at \in Nat
      /\ qjobs[q] # Nil => (qjobs[q].stamp # Nil => qjobs[q].stamp \in Nat)
  BY KeyTypes
<1>4. CASE Clear(w) /\ ~Release(w)
  <2>1. ClearInv(w)
    BY <1>4 DEF Clear, WorkerInv
  <2>2. PICK v : v = WithStatusOf(q, o)
    OBVIOUS
  <2>3. IsCurrent(q, o) /\ Put(q, v) /\ obj'[w] = v /\ key'[w] = q
    BY <1>1, <1>4, <2>2 DEF Clear, Fail, StatusUpdate, Replace, ErrandTypeOK
  <2>4. pc'[w] \in {"revert", "validate"} /\ (pc'[w] = "revert" => obj'[w].strategy = "now")
    BY <1>4 DEF Clear, Fail, Goto, ErrandTypeOK
  <2>5. qjobs'[q] = v /\ rev'[q] = rev[q] + 1
    BY <2>3 DEF Put, ErrandTypeOK, APITypeOK
  <2>6. v # Nil /\ v.rv = rev[q] + 1 /\ v.stamp = Nil
    BY <1>1, <2>1, <2>2, <2>3, VersionFields DEF ClearInv, IsCurrent
  <2>7. UNCHANGED <<now, jobs, lastRun>>
    BY <1>4 DEF Clear, historyVars
  <2>8. Elapsed(q)
    BY <1>1, <1>3, <2>1, <2>3, ErrandAssumption
    DEF ClearInv, KeyInv, NotBefore, Elapsed, IsCurrent
  <2>9. ArmedInv(w)'
    BY <1>3, <2>3, <2>5, <2>6, <2>7, <2>8
    DEF ArmedInv, Known, IsCurrent, IsStored, Elapsed
  <2> QED
    BY <2>4, <2>9 DEF WorkerInv, Armed
<1>5. CASE Revert(w) /\ ~Release(w)
  <2>1. ArmedInv(w)
    BY <1>5 DEF Revert, WorkerInv, Armed
  <2>2. PICK m, v : m = [o EXCEPT !.strategy = "manual"] /\ v = WithSpecOf(q, m)
    OBVIOUS
  <2>3. m \in QJob /\ m.rv = o.rv
    BY <2>2 DEF QJob, Strategies
  <2>4. /\ IsCurrent(q, m) /\ Put(q, v) /\ obj'[w] = v /\ key'[w] = q
        /\ pc'[w] = "validate"
    BY <1>1, <1>5, <2>2 DEF Revert, Fail, Update, Replace, Goto, ErrandTypeOK
  <2>5. qjobs'[q] = v /\ rev'[q] = rev[q] + 1
    BY <2>4 DEF Put, ErrandTypeOK, APITypeOK
  <2>6. v # Nil /\ v.rv = rev[q] + 1 /\ v.stamp = Nil
    BY <1>1, <2>1, <2>2, <2>3, <2>4, VersionFields DEF ArmedInv, IsCurrent
  <2>7. UNCHANGED <<now, jobs, lastRun>>
    BY <1>5 DEF Revert, historyVars
  <2>8. ArmedInv(w)'
    BY <1>1, <1>3, <2>1, <2>4, <2>5, <2>6, <2>7
    DEF ArmedInv, Known, IsCurrent, IsStored, Elapsed
  <2> QED
    BY <2>4, <2>8 DEF WorkerInv, Armed
<1>6. CASE Validate(w) /\ ~Release(w)
  <2>1. ArmedInv(w)
    BY <1>6 DEF Validate, LookupFails, WorkerInv, Armed
  <2>2. UNCHANGED <<qjobs, rev, now, jobs, lastRun, key, obj>> /\ pc'[w] = "create"
    BY <1>6 DEF Validate, LookupFails, Fail, historyVars, Goto, ErrandTypeOK
  <2>3. ArmedInv(w)'
    BY <2>1, <2>2 DEF ArmedInv, Known, IsCurrent, IsStored, Elapsed
  <2> QED
    BY <2>2, <2>3 DEF WorkerInv, Armed
<1>7. CASE CreateJob(w) /\ ~Release(w)
  <2>1. ArmedInv(w)
    BY <1>7 DEF CreateJob, WorkerInv, Armed
  <2>2. /\ UNCHANGED <<qjobs, rev, now, key, obj>>
        /\ pc'[w] = "markDone" /\ o.strategy = "once"
    BY <1>1, <1>7 DEF CreateJob, Created, Fail, Goto, ErrandTypeOK
  <2>3. lastRun'[q] # Nil /\ lastRun'[q].uid = o.uid
    <3>1. CASE StoreJob(q, o.uid)
      <4>1. lastRun'[q] = [at |-> now, uid |-> o.uid]
        BY <3>1 DEF StoreJob, ErrandTypeOK
      <4>2. lastRun'[q] \in Run
        BY <1>3, <4>1 DEF Run, QJob
      <4> QED
        BY <4>1, <4>2, ErrandAssumption
    <3>2. CASE jobs[q] > 0 /\ UNCHANGED lastRun
      BY <1>1, <2>1, <3>2 DEF ArmedInv, KeyInv, IsStored
    <3> QED
      BY <1>1, <1>7, <3>1, <3>2 DEF CreateJob, Fail
  <2>4. MarkDoneInv(w)'
    BY <1>1, <2>1, <2>2, <2>3 DEF ArmedInv, MarkDoneInv, Known, IsCurrent
  <2> QED
    BY <2>2, <2>4 DEF WorkerInv, Armed
<1> QED
  BY <1>2, <1>4, <1>5, <1>6, <1>7 DEF Step, Stamp, MarkDone

LEMMA StepWorkers ==
  ASSUME ErrandTypeOK, ErrandTypeOK', ErrandInv, [ErrandNext]_errandVars,
         NEW w \in Workers
  PROVE  WorkerInv(w)'
<1>1. /\ CopiesAreVersions /\ WorkersApart /\ WorkerInv(w)
      /\ \A q \in QJobs : KeyInv(q)
  BY InvParts
<1>2. ASSUME pc'[w] = pc[w], key'[w] = key[w], obj'[w] = obj[w],
             pc[w] # "idle" => Harmless(key[w])
      PROVE  WorkerInv(w)'
  BY <1>1, <1>2, HarmlessForWorker
<1>3. pc[w] # "idle" => Busy(w)
  BY <1>1, BusyWorker
<1>4. CASE ~ \E v \in Workers : Step(v)
  <2>1. \A p \in QJobs : Harmless(p)
    BY <1>1, <1>4, OthersHarmless
  <2>2. ASSUME NEW v \in Workers, NEW q \in QJobs, StartPass(v, q), ~ UNCHANGED workerVars
        PROVE  WorkerInv(w)'
    <3>1. CASE v = w
      BY <1>1, <2>2, <3>1, StartWorker
    <3>2. CASE v # w
      <4>1. pc'[w] = pc[w] /\ key'[w] = key[w] /\ obj'[w] = obj[w]
        BY <2>2, <3>2 DEF StartPass, Take, Goto, ErrandTypeOK
      <4> QED
        BY <1>2, <1>3, <2>1, <4>1 DEF Busy
    <3> QED
      BY <3>1, <3>2
  <2>3. CASE UNCHANGED workerVars
    BY <1>2, <1>3, <2>1, <2>3 DEF Busy, workerVars
  <2>4. CASE Crash
    BY <2>4 DEF Crash, Begin, WorkerInv, Armed
  <2> QED
    BY <1>4, <2>2, <2>3, <2>4 DEF ErrandNext, Informer, CacheUpdate, HandleEvent, TimerFires,
       Users, CreateQJob, EditQJob, DeleteQJob, CompleteQJob, SetConfig, RemoveConfig, TouchConfig,
       ConfigHandler, HandleConfigEvent, Tick, errandVars
<1>5. ASSUME NEW v \in Workers, Step(v)
      PROVE  WorkerInv(w)'
  <2>1. CASE v = w
    BY <1>1, <1>5, <2>1, StepWorker, WorkerWrites DEF Busy
  <2>2. CASE v # w
    <3>1. pc'[w] = pc[w] /\ key'[w] = key[w] /\ obj'[w] = obj[w]
      BY <1>5, <2>2 DEF Step, Stamp, Clear, Revert, Validate, LookupFails, CreateJob, MarkDone, Created,
         Fail, Release, Goto, ErrandTypeOK
    <3>2. pc[w] # "idle" => key[w] # key[v]
      <4>1. Busy(v)
        BY <1>1, <1>5, WorkerWrites
      <4> QED
        BY <1>1, <1>3, <2>2, <4>1, APIAssumption DEF WorkersApart, Busy
    <3> QED
      BY <1>1, <1>2, <1>3, <1>5, <3>1, <3>2, StepHarmless DEF Busy
  <2> QED
    BY <2>1, <2>2
<1> QED
  BY <1>4, <1>5

LEMMA InitInv ==
  ASSUME ErrandInit
  PROVE  ErrandInv
<1>1. /\ qjobs = [q \in QJobs |-> Nil] /\ cache = [q \in QJobs |-> Nil]
      /\ watch = [q \in QJobs |-> <<>>] /\ jobs = [q \in QJobs |-> 0]
      /\ lastRun = [q \in QJobs |-> Nil]
      /\ pc = [w \in Workers |-> "idle"] /\ key = [w \in Workers |-> Nil]
  BY DEF ErrandInit, APIInit
<1>2. CopiesAreVersions
  BY <1>1 DEF CopiesAreVersions, Known
<1>3. WorkersApart /\ WorkersInv
  BY <1>1 DEF WorkersApart, WorkersInv, Armed
<1>4. StampsFollowRuns /\ JobsAreOfStored
  BY <1>1 DEF StampsFollowRuns, JobsAreOfStored
<1> QED
  BY <1>2, <1>3, <1>4 DEF ErrandInv

LEMMA StepInv ==
  ASSUME ErrandTypeOK, ErrandTypeOK', ErrandInv, [ErrandNext]_errandVars
  PROVE  ErrandInv'
<1>1. CopiesAreVersions' /\ WorkersApart'
  BY InvParts, StepCopies, StepApart
<1>2. ASSUME NEW p \in QJobs PROVE KeyInv(p)'
  BY InvParts, StepKeys
<1>3. ASSUME NEW w \in Workers PROVE WorkerInv(w)'
  BY StepWorkers
<1>4. StampsFollowRuns' /\ JobsAreOfStored'
  BY <1>2 DEF KeyInv, StampsFollowRuns, JobsAreOfStored
<1>5. WorkersInv'
  BY <1>3 DEF WorkerInv, WorkersInv
<1> QED
  BY <1>1, <1>4, <1>5 DEF ErrandInv

-----------------------------------------------------------------------------
(* What holds when another operator writes too.                            *)

\* A step stores the object anew or leaves it, whoever makes it.
Written(q) ==
  \/ qjobs'[q] = qjobs[q] /\ rev'[q] = rev[q]
  \/ rev'[q] = rev[q] + 1 /\ (qjobs'[q] # Nil => qjobs'[q].rv = rev[q] + 1)

LEMMA StepWrites ==
  ASSUME ErrandTypeOK, WorkersApart, CopiesAreVersions, [ErrandNext]_errandVars, NEW q \in QJobs
  PROVE  Written(q)
<1>1. CASE Harmless(q)
  BY <1>1 DEF Harmless, Written
<1>2. ASSUME NEW w \in Workers, Step(w), q = key[w]
      PROVE  Written(q)
  <2>1. ASSUME NEW o \in QJob, NEW ok \in BOOLEAN,
               StatusUpdate(q, o, ok) \/ Update(q, o, ok)
        PROVE  Written(q)
    <3>1. PICK v : /\ v \in {WithStatusOf(q, o), WithSpecOf(q, o)}
                   /\ Replace(q, o, v, ok)
      BY <2>1 DEF StatusUpdate, Update
    <3>2. CASE UNCHANGED <<qjobs, rev>>
      BY <3>2 DEF Written
    <3>3. CASE IsCurrent(q, o) /\ Put(q, v)
      <4>1. qjobs'[q] = v /\ rev'[q] = rev[q] + 1
        BY <3>3 DEF Put, ErrandTypeOK, APITypeOK
      <4>2. v.rv = rev[q] + 1
        BY <3>1, <3>3, VersionFields DEF IsCurrent
      <4> QED
        BY <4>1, <4>2 DEF Written
    <3> QED
      BY <3>1, <3>2, <3>3 DEF Replace
  <2>2. CASE UNCHANGED <<qjobs, rev, watch>>
    BY <2>2 DEF Written
  <2> QED
    BY <1>2, <2>1, <2>2, WorkerWrites
<1> QED
  BY <1>1, <1>2, StepHarmless, OthersHarmless

\* The watch of an operator that does not make the step: it may get the
\* versions written.
Observed(q) == watch'[q] = watch[q] \/ watch'[q] = Append(watch[q], qjobs'[q])

LEMMA ObservedCopies ==
  ASSUME APITypeOK, CopiesAreVersions, UNCHANGED cache,
         qjobs' \in [QJobs -> QJob \cup {Nil}], rev' \in [QJobs -> Nat],
         watch' \in [QJobs -> Seq(QJob \cup {Nil})],
         \A q \in QJobs : Written(q) /\ Observed(q)
  PROVE  CopiesAreVersions'
<1>1. ASSUME NEW q \in QJobs, NEW o \in QJob \cup {Nil}, Known(q, o)
      PROVE  Known(q, o)'
  <2>1. rev[q] \in Nat /\ (o # Nil => o.rv \in Nat)
    BY DEF APITypeOK, QJob
  <2> QED
    BY <1>1, <2>1 DEF Written, Known, IsCurrent
<1>2. ASSUME NEW q \in QJobs
      PROVE  Known(q, qjobs[q])' /\ Known(q, cache[q])'
  <2>1. rev[q] \in Nat /\ qjobs[q] \in QJob \cup {Nil} /\ cache[q] \in QJob \cup {Nil}
    BY DEF APITypeOK
  <2>2. Known(q, qjobs[q]) /\ Known(q, cache[q])
    BY DEF CopiesAreVersions
  <2>3. Known(q, cache[q])'
    BY <1>1, <2>1, <2>2 DEF Known, IsCurrent
  <2>4. Known(q, qjobs[q])'
    BY <2>1, <2>2 DEF Written, Known, IsCurrent
  <2> QED
    BY <2>3, <2>4
<1>3. ASSUME NEW q \in QJobs, NEW i \in DOMAIN watch'[q]
      PROVE  Known(q, watch[q][i])'
  <2>1. PICK s \in Seq(QJob \cup {Nil}), n \in QJob \cup {Nil} :
          s = watch[q] /\ n = qjobs'[q] /\ watch'[q] \in {s, Append(s, n)}
    BY DEF APITypeOK, Observed
  <2>2. CASE i \in DOMAIN s /\ watch'[q][i] = s[i]
    <3>1. s[i] \in QJob \cup {Nil} /\ Known(q, s[i])
      BY <2>1, <2>2 DEF CopiesAreVersions
    <3> QED
      BY <1>1, <2>2, <3>1 DEF Known, IsCurrent
  <2>3. CASE watch'[q][i] = n
    BY <1>2, <2>1, <2>3 DEF Known, IsCurrent
  <2>4. \/ i \in DOMAIN s /\ watch'[q][i] = s[i]
        \/ watch'[q][i] = n
    <3>1. CASE watch'[q] = s
      BY <3>1
    <3>2. CASE watch'[q] = Append(s, n)
      <4>1. i \in 1 .. Len(s) + 1 /\ DOMAIN s = 1 .. Len(s) /\ Len(s) \in Nat
        BY <3>2
      <4>2. i <= Len(s) => watch'[q][i] = s[i]
        BY <3>2, <4>1
      <4>3. i = Len(s) + 1 => watch'[q][i] = n
        BY <3>2, <4>1
      <4> QED
        BY <4>1, <4>2, <4>3
    <3> QED
      BY <2>1, <3>1, <3>2
  <2> QED
    BY <2>2, <2>3, <2>4
<1> QED
  BY <1>2, <1>3 DEF CopiesAreVersions

\* A worker that does not move keeps what it knows about its copy.
LEMMA WrittenForCopy ==
  ASSUME ErrandTypeOK, WorkersApart, NEW w \in Workers, CopyInv(w),
         pc'[w] = pc[w], key'[w] = key[w], obj'[w] = obj[w],
         pc[w] # "idle" => Written(key[w])
  PROVE  CopyInv(w)'
<1>1. CASE pc[w] = "idle"
  BY <1>1 DEF CopyInv, Armed
<1>2. CASE pc[w] # "idle"
  <2>1. PICK q \in QJobs, o \in QJob : key[w] = q /\ obj[w] = o /\ Written(q)
    BY <1>2, BusyWorker DEF Busy
  <2>2. rev[q] \in Nat /\ o.rv \in Nat /\ o # Nil
    BY <2>1, APIAssumption DEF ErrandTypeOK, APITypeOK, QJob
  <2>3. ASSUME o.rv <= rev[q]
        PROVE  /\ o.rv <= rev'[q]
               /\ IsCurrent(q, o)' => (IsCurrent(q, o) /\ qjobs'[q] = qjobs[q])
    BY <2>1, <2>2, <2>3 DEF Written, IsCurrent
  <2>4. pc'[w] = pc[w] /\ key'[w] = q /\ obj'[w] = o /\ key[w] = q /\ obj[w] = o
    BY <2>1
  <2>5. CASE pc[w] \in {"stamp", "clear"}
    BY <2>3, <2>4, <2>5 DEF CopyInv, IsCurrent, Armed
  <2>6. CASE pc[w] \in Armed \cup {"markDone"}
    BY <2>2, <2>3, <2>4, <2>6 DEF CopyInv, Known, IsCurrent, Armed
  <2>7. pc[w] \in PCs
    BY DEF ErrandTypeOK
  <2> QED
    BY <1>2, <2>5, <2>6, <2>7 DEF PCs
<1> QED
  BY <1>1, <1>2

\* A worker that starts a pass has the version it read.
LEMMA StartCopy ==
  ASSUME ErrandTypeOK, CopiesAreVersions, NEW w \in Workers, NEW q \in QJobs,
         StartPass(w, q), ~ UNCHANGED workerVars
  PROVE  CopyInv(w)'
<1>1. cache[q] \in QJob /\ Known(q, cache[q])
  BY DEF StartPass, ErrandTypeOK, APITypeOK, CopiesAreVersions
<1>2. UNCHANGED <<qjobs, rev>>
  BY DEF StartPass
<1>3. ASSUME NEW next \in {"stamp", "clear"}, NEW t \in Nat \cup {Nil},
             next = "clear" => (t = Nil /\ cache[q].stamp # Nil), cache[q] # Nil,
             Take(w, q, next, [cache[q] EXCEPT !.stamp = t])
      PROVE  CopyInv(w)'
  <2>1. PICK c, o : c \in QJob /\ c = cache[q] /\ o = [c EXCEPT !.stamp = t]
    BY <1>1
  <2>2. o.rv = c.rv /\ o.stamp = t
    BY <2>1 DEF QJob
  <2>3. pc'[w] = next /\ key'[w] = q /\ obj'[w] = o
    BY <1>3, <2>1 DEF Take, Goto, ErrandTypeOK
  <2>4. o.rv <= rev[q] /\ (IsCurrent(q, o) => c = qjobs[q])
    BY <1>1, <1>3, <2>1, <2>2 DEF Known, IsCurrent
  <2> QED
    BY <1>2, <1>3, <2>1, <2>2, <2>3, <2>4 DEF CopyInv, IsCurrent, Armed
<1>4. now \in Nat /\ cache[q].stamp \in Nat \cup {Nil}
  BY <1>1 DEF ErrandTypeOK, QJob
<1> QED
  BY <1>3, <1>4 DEF StartPass

\* A worker that makes a call has the version the reply returned, if any.
LEMMA StepCopy ==
  ASSUME ErrandTypeOK, WorkersApart, NEW w \in Workers, CopyInv(w), Step(w)
  PROVE  CopyInv(w)'
<1>1. PICK q \in QJobs, o \in QJob : key[w] = q /\ obj[w] = o
  BY WorkerWrites DEF Busy
<1>2. CASE Release(w)
  BY <1>2 DEF Release, Goto, ErrandTypeOK, CopyInv, Armed
<1>3. rev[q] \in Nat
  BY DEF ErrandTypeOK, APITypeOK
<1>4. ASSUME NEW v, NEW next \in Armed, next = "revert" => v.strategy = "now",
             IsCurrent(q, o) => v # Nil /\ v.rv = rev[q] + 1 /\ v.stamp = Nil,
             IsCurrent(q, o), Put(q, v), obj'[w] = v, key'[w] = q, pc'[w] = next
      PROVE  CopyInv(w)'
  <2>1. qjobs'[q] = v /\ rev'[q] = rev[q] + 1
    BY <1>4 DEF Put, ErrandTypeOK, APITypeOK
  <2> QED
    BY <1>3, <1>4, <2>1 DEF CopyInv, Known, IsCurrent, Armed
<1>5. CASE Clear(w) /\ ~Release(w)
  <2>1. o.stamp = Nil
    BY <1>1, <1>5 DEF Clear, CopyInv
  <2>2. PICK v : v = WithStatusOf(q, o)
    OBVIOUS
  <2>3. IsCurrent(q, o) /\ Put(q, v) /\ obj'[w] = v /\ key'[w] = q
    BY <1>1, <1>5, <2>2 DEF Clear, Fail, StatusUpdate, Replace, ErrandTypeOK
  <2>4. pc'[w] \in {"revert", "validate"} /\ (pc'[w] = "revert" => v.strategy = "now")
    BY <1>5, <2>3 DEF Clear, Fail, Goto, ErrandTypeOK
  <2>5. v # Nil /\ v.rv = rev[q] + 1 /\ v.stamp = Nil
    BY <2>1, <2>2, <2>3, VersionFields DEF IsCurrent
  <2> QED
    BY <1>4, <2>3, <2>4, <2>5 DEF Armed
<1>6. CASE Revert(w) /\ ~Release(w)
  <2>1. IsCurrent(q, o) => qjobs[q].stamp = Nil
    BY <1>1, <1>6 DEF Revert, CopyInv, Armed
  <2>2. PICK m, v : m = [o EXCEPT !.strategy = "manual"] /\ v = WithSpecOf(q, m)
    OBVIOUS
  <2>3. m \in QJob /\ m.rv = o.rv
    BY <2>2 DEF QJob, Strategies
  <2>4. /\ IsCurrent(q, o) /\ Put(q, v) /\ obj'[w] = v /\ key'[w] = q
        /\ pc'[w] = "validate"
    BY <1>1, <1>6, <2>2, <2>3 DEF Revert, Fail, Update, Replace, Goto, IsCurrent, ErrandTypeOK
  <2>5. v # Nil /\ v.rv = rev[q] + 1 /\ v.stamp = Nil
    BY <2>1, <2>2, <2>3, <2>4, VersionFields DEF IsCurrent
  <2> QED
    BY <1>4, <2>4, <2>5 DEF Armed
<1>7. CASE Validate(w) /\ ~Release(w)
  <2>1. UNCHANGED <<qjobs, rev, key, obj>> /\ pc[w] \in Armed /\ pc'[w] = "create"
    BY <1>7 DEF Validate, LookupFails, Fail, Goto, Armed, ErrandTypeOK
  <2> QED
    BY <2>1 DEF CopyInv, Known, IsCurrent, Armed
<1>8. CASE CreateJob(w) /\ ~Release(w)
  <2>1. /\ UNCHANGED <<qjobs, rev, key, obj>> /\ pc[w] \in Armed
        /\ pc'[w] = "markDone" /\ obj[w].strategy = "once"
    BY <1>8 DEF CreateJob, Created, Fail, Goto, Armed, ErrandTypeOK
  <2> QED
    BY <2>1 DEF CopyInv, Known, IsCurrent, Armed
<1> QED
  BY <1>2, <1>5, <1>6, <1>7, <1>8 DEF Step, Stamp, MarkDone

LEMMA StepCopiesInv ==
  ASSUME ErrandTypeOK, WorkersApart, CopiesAreVersions, CopiesInv, [ErrandNext]_errandVars
  PROVE  CopiesInv'
<1> SUFFICES ASSUME NEW w \in Workers PROVE CopyInv(w)'
  BY DEF CopiesInv
<1>1. CopyInv(w)
  BY DEF CopiesInv
<1>2. pc[w] # "idle" => Written(key[w])
  BY BusyWorker, StepWrites DEF Busy
<1>3. CASE pc'[w] = pc[w] /\ key'[w] = key[w] /\ obj'[w] = obj[w]
  BY <1>1, <1>2, <1>3, WrittenForCopy
<1>4. ASSUME NEW v \in Workers, Step(v)
      PROVE  CopyInv(w)'
  <2>1. CASE v = w
    BY <1>1, <1>4, <2>1, StepCopy
  <2>2. CASE v # w
    BY <1>3, <1>4, <2>2 DEF Step, Stamp, Clear, Revert, Validate, LookupFails, CreateJob, MarkDone,
       Created, Fail, Release, Goto, ErrandTypeOK
  <2> QED
    BY <2>1, <2>2
<1>5. ASSUME NEW v \in Workers, NEW q \in QJobs, StartPass(v, q)
      PROVE  CopyInv(w)'
  <2>1. CASE v = w
    BY <1>3, <1>5, <2>1, StartCopy DEF workerVars
  <2>2. CASE v # w
    BY <1>3, <1>5, <2>2 DEF StartPass, Take, Goto, ErrandTypeOK, workerVars
  <2> QED
    BY <2>1, <2>2
<1>6. CASE Crash
  BY <1>6 DEF Crash, Begin, CopyInv, Armed
<1>7. CASE UNCHANGED workerVars
  BY <1>3, <1>7 DEF workerVars
<1> QED
  BY <1>4, <1>5, <1>6, <1>7 DEF ErrandNext, Informer, CacheUpdate, HandleEvent, TimerFires,
     Users, CreateQJob, EditQJob, DeleteQJob, CompleteQJob, SetConfig, RemoveConfig, TouchConfig,
     ConfigHandler, HandleConfigEvent, Tick, errandVars

\* An operator on its own knows more.
LEMMA InvCopies ==
  ASSUME ErrandTypeOK, ErrandInv
  PROVE  CopiesInv
<1> SUFFICES ASSUME NEW w \in Workers PROVE CopyInv(w)
  BY DEF CopiesInv
<1>1. CASE pc[w] = "idle"
  BY <1>1 DEF CopyInv, Armed
<1>2. CASE pc[w] # "idle"
  <2>1. PICK q \in QJobs, o \in QJob : key[w] = q /\ obj[w] = o
    BY <1>2, BusyWorker DEF ErrandInv, Busy
  <2>2. qjobs[q] # Nil => qjobs[q] \in QJob
    BY DEF ErrandTypeOK, APITypeOK
  <2> QED
    BY <2>1, <2>2 DEF ErrandInv, WorkersInv, StampInv, ClearInv, ArmedInv, MarkDoneInv, CopyInv,
       Known, IsCurrent, Armed
<1> QED
  BY <1>1, <1>2

\* An operator that starts, with what is stored in its cache or nothing, has
\* idle workers.
LEMMA BeginCopies ==
  ASSUME ErrandTypeOK, CopiesAreVersions, NEW stored, Begin(stored), UNCHANGED <<qjobs, rev>>,
         stored \in {qjobs, [q \in QJobs |-> Nil]}
  PROVE  /\ cache' \in [QJobs -> QJob \cup {Nil}]
         /\ watch' \in [QJobs -> Seq(QJob \cup {Nil})]
         /\ notices' \in [QJobs -> Nat]
         /\ dirty' \subseteq QJobs
         /\ timer' \in [QJobs -> Nat \cup {Nil}]
         /\ pc' \in [Workers -> PCs]
         /\ key' \in [Workers -> QJobs \cup {Nil}]
         /\ obj' \in [Workers -> QJob \cup {Nil}]
         /\ CopiesAreVersions' /\ WorkersApart' /\ CopiesInv'
         /\ \A q \in QJobs : ~HasArmed(q)'
<1> USE DEF Begin
<1>1. cache' \in [QJobs -> QJob \cup {Nil}] /\ watch' = [q \in QJobs |-> <<>>]
  BY DEF ErrandTypeOK, APITypeOK
<1>2. watch' \in [QJobs -> Seq(QJob \cup {Nil})]
  BY <1>1
<1>3. notices' \in [QJobs -> Nat] /\ dirty' \subseteq QJobs /\ timer' \in [QJobs -> Nat \cup {Nil}]
  OBVIOUS
<1>4. /\ pc' \in [Workers -> PCs] /\ key' \in [Workers -> QJobs \cup {Nil}]
      /\ obj' \in [Workers -> QJob \cup {Nil}]
  BY DEF PCs
<1>5. CopiesAreVersions'
  BY <1>1 DEF CopiesAreVersions, Known, IsCurrent
<1>6. WorkersApart' /\ CopiesInv' /\ \A q \in QJobs : ~HasArmed(q)'
  BY DEF WorkersApart, CopiesInv, CopyInv, HasArmed, Armed
<1> QED
  BY <1>1, <1>2, <1>3, <1>4, <1>5, <1>6

-----------------------------------------------------------------------------
(* Who may create a Job.                                                   *)

\* Only a worker that clears the stamp arms a key.
LEMMA ArmingClears ==
  ASSUME ErrandTypeOK, WorkersApart, [ErrandNext]_errandVars, NEW q \in QJobs,
         HasArmed(q)', ~HasArmed(q)
  PROVE  \E w \in Workers : key[w] = q /\ Clear(w) /\ ~Release(w)
<1>1. PICK w \in Workers : key'[w] = q /\ pc'[w] \in Armed
  BY DEF HasArmed
<1>2. ~(pc'[w] = pc[w] /\ key'[w] = key[w])
  BY <1>1 DEF HasArmed
<1>3. ~Crash
  BY <1>1 DEF Crash, Begin, Armed
<1>4. ASSUME NEW v \in Workers, NEW p \in QJobs, StartPass(v, p)
      PROVE  FALSE
  <2>1. CASE UNCHANGED workerVars
    BY <1>2, <2>1 DEF workerVars
  <2>2. ASSUME NEW next \in {"stamp", "clear"}, NEW o, Take(v, p, next, o)
        PROVE  FALSE
    BY <1>1, <1>2, <2>2 DEF Take, Goto, Armed, ErrandTypeOK
  <2> QED
    BY <1>4, <2>1, <2>2 DEF StartPass
<1>5. ~ UNCHANGED workerVars
  BY <1>2 DEF workerVars
<1>6. PICK v \in Workers : Step(v)
  BY <1>3, <1>4, <1>5 DEF ErrandNext, Informer, CacheUpdate, HandleEvent, TimerFires, Users,
     CreateQJob, EditQJob, DeleteQJob, CompleteQJob, SetConfig, RemoveConfig, TouchConfig,
     ConfigHandler, HandleConfigEvent, Tick, errandVars
<1>7. ~Release(v)
  BY <1>1, <1>2 DEF Release, Goto, Armed, ErrandTypeOK
<1>8. ASSUME NEW next, Goto(v, next), key' = key
      PROVE  w = v /\ pc'[v] = next /\ key[v] = q
  BY <1>1, <1>2, <1>8 DEF Goto, ErrandTypeOK
<1>9. ~Revert(v) /\ ~Validate(v)
  <2>1. pc[v] \in Armed => ~ \E next : Goto(v, next) /\ key' = key
    BY <1>1, <1>8 DEF HasArmed
  <2> QED
    BY <1>7, <2>1 DEF Revert, Validate, LookupFails, Fail, Armed
<1>10. ~CreateJob(v)
  BY <1>1, <1>7, <1>8 DEF CreateJob, Created, Fail, Armed
<1>11. ~Stamp(v) /\ ~MarkDone(v)
  BY <1>7 DEF Stamp, MarkDone
<1>12. Clear(v)
  BY <1>6, <1>9, <1>10, <1>11 DEF Step
<1> QED
  BY <1>7, <1>8, <1>12 DEF Clear, Fail

\* What runs changes is a worker creating a Job.
LEMMA RunsAreJobs ==
  ASSUME [ErrandNext]_errandVars, runs' # runs
  PROVE  \E w \in Workers : CreateJob(w)
  BY DEF ErrandNext, Informer, CacheUpdate, HandleEvent, TimerFires, Users, CreateQJob, EditQJob,
     DeleteQJob, CompleteQJob, StartPass, Step, Stamp, Clear, Revert, Validate, LookupFails, MarkDone,
     SetConfig, RemoveConfig, TouchConfig, ConfigHandler, HandleConfigEvent, Tick, Crash,
     errandVars, historyVars

\* A worker that creates a Job may not create another one without clearing
\* another stamp.
LEMMA JobDisarms ==
  ASSUME ErrandTypeOK, WorkersApart, NEW w \in Workers, CreateJob(w), runs' # runs,
         NEW q \in QJobs, q = key[w]
  PROVE  runs' = [runs EXCEPT ![q] = @ + 1] /\ HasArmed(q) /\ ~HasArmed(q)'
<1>1. Busy(w)
  BY BusyWorker DEF CreateJob
<1>2. StoreJob(q, obj[w].uid) /\ pc[w] \in Armed
  BY <1>1 DEF CreateJob, historyVars, Armed
<1>3. \A v \in Workers : ~(key'[v] = q /\ pc'[v] \in Armed)
  BY <1>1 DEF CreateJob, Created, Fail, Release, Goto, WorkersApart, Armed, ErrandTypeOK, Busy
<1> QED
  BY <1>1, <1>2, <1>3 DEF HasArmed, StoreJob

\* A Job is charged to a stamp that was cleared: what a step does to the number
\* of Jobs and to the workers that may create one.
LEMMA Charging ==
  ASSUME ErrandTypeOK, WorkersApart, CopiesInv, [ErrandNext]_errandVars, NEW q \in QJobs
  PROVE  \/ runs'[q] = runs[q] /\ (HasArmed(q)' => HasArmed(q))
         \/ runs'[q] = runs[q] + 1 /\ HasArmed(q) /\ ~HasArmed(q)'
         \/ /\ runs'[q] = runs[q]
            /\ qjobs[q] # Nil /\ qjobs[q].stamp # Nil
            /\ qjobs'[q] # Nil /\ qjobs'[q].stamp = Nil
<1>1. CASE runs' = runs /\ (HasArmed(q)' => HasArmed(q))
  BY <1>1
<1>2. CASE HasArmed(q)' /\ ~HasArmed(q)
  <2>1. PICK w \in Workers : key[w] = q /\ Clear(w) /\ ~Release(w)
    BY <1>2, ArmingClears
  <2>2. Busy(w) /\ CopyInv(w)
    BY <2>1, BusyWorker DEF Clear, CopiesInv
  <2>3. PICK v : v = WithStatusOf(q, obj[w])
    OBVIOUS
  <2>4. IsCurrent(q, obj[w]) /\ Put(q, v) /\ UNCHANGED runs
    BY <2>1, <2>3 DEF Clear, Fail, StatusUpdate, Replace, historyVars
  <2>5. qjobs'[q] = v
    BY <2>4 DEF Put, ErrandTypeOK, APITypeOK
  <2>6. v # Nil /\ v.stamp = Nil
    BY <2>1, <2>2, <2>3, <2>4, VersionFields DEF CopyInv, Clear, IsCurrent, Busy
  <2>7. qjobs[q] # Nil /\ qjobs[q].stamp # Nil
    BY <2>1, <2>2, <2>4 DEF CopyInv, Clear, IsCurrent
  <2> QED
    BY <2>4, <2>5, <2>6, <2>7
<1>3. ASSUME NEW w \in Workers, CreateJob(w), runs' # runs, HasArmed(q)' => HasArmed(q)
      PROVE  \/ runs'[q] = runs[q] /\ (HasArmed(q)' => HasArmed(q))
             \/ runs'[q] = runs[q] + 1 /\ HasArmed(q) /\ ~HasArmed(q)'
  <2>1. PICK k \in QJobs : k = key[w]
    BY <1>3, BusyWorker DEF CreateJob, Busy
  <2>2. runs' = [runs EXCEPT ![k] = @ + 1] /\ HasArmed(k) /\ ~HasArmed(k)'
    BY <1>3, <2>1, JobDisarms
  <2> QED
    BY <1>3, <2>2 DEF HasArmed, ErrandTypeOK
<1> QED
  BY <1>1, <1>2, <1>3, RunsAreJobs

-----------------------------------------------------------------------------
(* Theorems.                                                               *)

\* Every variable of the errand controller keeps its type; above all, a worker
\* that is not idle holds a QuarksJob and its key (errand_reconciler.go:57-74).
THEOREM TypeCorrect == ErrandSafety => []ErrandTypeOK
<1>1. ErrandInit => ErrandTypeOK /\ WorkersApart
  BY InitType, InitInv DEF ErrandInv
<1>2. ErrandTypeOK /\ WorkersApart /\ [ErrandNext]_errandVars
      => (ErrandTypeOK /\ WorkersApart)'
  BY StepType, StepApart
<1> QED
  BY <1>1, <1>2, PTL DEF ErrandSafety

\* The inductive invariant: copies are versions, workers are apart, and what
\* a worker concluded from its copy still holds when it makes its next call
\* unless the server will refuse that call (errand_reconciler.go:57-132).
THEOREM InvCorrect == ErrandSafety => []ErrandInv
<1>1. ErrandInit => ErrandInv
  BY InitInv
<1>2. ErrandTypeOK /\ ErrandTypeOK' /\ ErrandInv /\ [ErrandNext]_errandVars => ErrandInv'
  BY StepInv
<1> QED
  BY <1>1, <1>2, TypeCorrect, PTL DEF ErrandSafety

\* Two Jobs of one QuarksJob are at least ReconcileSkipDuration apart, for
\* any number of QuarksJobs, workers, faults and crashes
\* (errand_reconciler.go:24-26, 89-99).
THEOREM RunsSpacedCorrect == ErrandSafety => RunsSpaced
<1>1. ASSUME ErrandTypeOK, ErrandInv, [ErrandNext]_errandVars, NEW q \in QJobs,
             runs'[q] # runs[q]
      PROVE  Elapsed(q)
  <2>1. PICK w \in Workers : CreateJob(w) /\ key[w] = q
    <3>1. ASSUME NEW w \in Workers, Step(w)
          PROVE  CreateJob(w) /\ key[w] = q
      <4>1. Busy(w)
        BY <1>1, <3>1, WorkerWrites DEF ErrandInv
      <4>2. CASE CreateJob(w)
        BY <1>1, <4>1, <4>2 DEF CreateJob, StoreJob, Busy, historyVars, ErrandTypeOK
      <4>3. CASE ~CreateJob(w)
        BY <1>1, <3>1, <4>3 DEF Step, Stamp, Clear, Revert, Validate, LookupFails, MarkDone, historyVars
      <4> QED
        BY <4>2, <4>3
    <3>2. CASE ~ \E w \in Workers : Step(w)
      BY <1>1, <3>2 DEF ErrandNext, Informer, CacheUpdate, HandleEvent, TimerFires, StartPass,
         Users, CreateQJob, EditQJob, DeleteQJob, CompleteQJob, SetConfig, RemoveConfig, TouchConfig,
         ConfigHandler, HandleConfigEvent, Tick, Crash, Begin, errandVars, historyVars
    <3> QED
      BY <3>1, <3>2
  <2>2. ArmedInv(w)
    BY <1>1, <2>1 DEF ErrandInv, WorkersInv, CreateJob, Armed
  <2> QED
    BY <2>1, <2>2 DEF ArmedInv
<1>2. ErrandTypeOK /\ ErrandInv /\ [ErrandNext]_errandVars
      => [\A q \in QJobs : runs'[q] # runs[q] => Elapsed(q)]_errandVars
  BY <1>1
<1> QED
  BY <1>2, TypeCorrect, InvCorrect, PTL DEF ErrandSafety, RunsSpaced

\* What a worker stores, and from which copy.
LEMMA WorkerStores ==
  ASSUME ErrandTypeOK, WorkersApart, NEW w \in Workers, Step(w),
         NEW q \in QJobs, q = key[w], qjobs'[q] # qjobs[q]
  PROVE  /\ Busy(w) /\ IsCurrent(q, obj[w]) /\ qjobs[q] \in QJob
         /\ \/ (Stamp(w) \/ Clear(w)) /\ qjobs'[q] = WithStatusOf(q, obj[w])
            \/ Revert(w) /\ qjobs'[q] = WithSpecOf(q, [obj[w] EXCEPT !.strategy = "manual"])
            \/ MarkDone(w) /\ qjobs'[q] = WithSpecOf(q, [obj[w] EXCEPT !.strategy = "done"])
<1>1. Busy(w)
  BY WorkerWrites
<1>2. \A s \in Strategies : [obj[w] EXCEPT !.strategy = s].rv = obj[w].rv
  BY <1>1 DEF Busy, QJob
<1>3. ASSUME NEW o, NEW v, NEW ok, Replace(q, o, v, ok)
      PROVE  IsCurrent(q, o) /\ qjobs'[q] = v
  BY <1>3 DEF Replace, Put, ErrandTypeOK, APITypeOK
<1>4. qjobs[q] # Nil => qjobs[q] \in QJob
  BY DEF ErrandTypeOK, APITypeOK
<1>5. CASE Stamp(w) \/ Clear(w)
  BY <1>1, <1>3, <1>4, <1>5 DEF Stamp, Clear, StatusUpdate, IsCurrent
<1>6. CASE Revert(w)
  BY <1>1, <1>2, <1>3, <1>4, <1>6 DEF Revert, Update, IsCurrent, Strategies
<1>7. CASE MarkDone(w)
  BY <1>1, <1>2, <1>3, <1>4, <1>7 DEF MarkDone, Update, IsCurrent, Strategies
<1> QED
  BY <1>5, <1>6, <1>7 DEF Step, Validate, LookupFails, CreateJob

\* The steps in which a worker with a key moves: its own, and a crash.
LEMMA MovesAreSteps ==
  ASSUME ErrandTypeOK, WorkersApart, [ErrandNext]_errandVars, NEW w \in Workers,
         NEW q \in QJobs, key[w] = q, pc'[w] # pc[w], qjobs'[q] # qjobs[q]
  PROVE  Step(w)
<1>1. ASSUME NEW v \in Workers, Step(v)
      PROVE  Step(w)
  <2>1. CASE v # w
    BY <1>1, <2>1 DEF Step, Stamp, Clear, Revert, Validate, LookupFails, CreateJob, MarkDone, Created,
       Fail, Release, Goto, ErrandTypeOK
  <2> QED
    BY <1>1, <2>1
<1>2. ~ \E v \in Workers, p \in QJobs : StartPass(v, p)
  BY DEF StartPass
<1> QED
  BY <1>1, <1>2 DEF ErrandNext, Informer, CacheUpdate, HandleEvent, TimerFires, Users,
     CreateQJob, EditQJob, DeleteQJob, CompleteQJob, SetConfig, RemoveConfig, TouchConfig, ConfigHandler,
     HandleConfigEvent, Tick, Crash, Begin, errandVars, apiVars, workerVars

\* A worker that stores its copy keeps what others have written meanwhile.
LEMMA StepKeepsEdits ==
  ASSUME ErrandTypeOK, WorkersApart, CopiesInv, NEW w \in Workers, Step(w),
         NEW q \in QJobs, q = key[w], qjobs'[q] # qjobs[q]
  PROVE  KeepsEdits(qjobs[q], qjobs'[q])
<1>1. CopyInv(w)
  BY DEF CopiesInv
<1>2. /\ Busy(w) /\ IsCurrent(q, obj[w]) /\ qjobs[q] \in QJob
      /\ \/ (Stamp(w) \/ Clear(w)) /\ qjobs'[q] = WithStatusOf(q, obj[w])
         \/ Revert(w) /\ qjobs'[q] = WithSpecOf(q, [obj[w] EXCEPT !.strategy = "manual"])
         \/ MarkDone(w) /\ qjobs'[q] = WithSpecOf(q, [obj[w] EXCEPT !.strategy = "done"])
  BY WorkerStores
<1>3. PICK o \in QJob, old \in QJob : obj[w] = o /\ old = qjobs[q]
  BY <1>2 DEF Busy
<1>4. rev[q] + 1 \in Nat
  BY KeyTypes
<1>5. CASE (Stamp(w) \/ Clear(w)) /\ qjobs'[q] = WithStatusOf(q, obj[w])
  <2>1. o.completed = old.completed
    <3>1. \E t \in Nat \cup {Nil} : o = [old EXCEPT !.stamp = t]
      <4>1. o = [old EXCEPT !.stamp = o.stamp]
        BY <1>1, <1>2, <1>3, <1>5 DEF Stamp, Clear, CopyInv
      <4>2. o.stamp \in Nat \cup {Nil}
        BY <1>3 DEF QJob
      <4> QED
        BY <4>1, <4>2
    <3> QED
      BY <1>3, <3>1 DEF QJob
  <2>2. PICK new : new = qjobs'[q]
    OBVIOUS
  <2>3. new = [old EXCEPT !.rv = rev[q] + 1, !.stamp = o.stamp, !.completed = o.completed]
    BY <1>3, <1>5, <2>2 DEF WithStatusOf
  <2>4. KeepsEdits(old, new)
    BY <1>3, <1>4, <2>1, <2>3 DEF QJob, KeepsEdits
  <2> QED
    BY <1>3, <2>2, <2>4
<1>6. ASSUME NEW s \in Strategies, pc[w] \in {"revert", "markDone"},
             qjobs'[q] = WithSpecOf(q, [obj[w] EXCEPT !.strategy = s])
      PROVE  \E new \in QJob : /\ new = qjobs'[q] /\ o = old
                               /\ new.uid = old.uid /\ new.update = old.update
                               /\ new.refs = old.refs /\ new.completed = old.completed
                               /\ new.stamp = old.stamp /\ new.strategy = s
  <2>1. Known(q, o)
    BY <1>1, <1>3, <1>6 DEF CopyInv, Armed, Known, IsCurrent
  <2>2. o = old
    BY <1>2, <1>3, <2>1, APIAssumption DEF Known
  <2>3. PICK m : m = [o EXCEPT !.strategy = s]
    OBVIOUS
  <2>4. /\ m \in QJob /\ m.strategy = s
        /\ m.update = o.update /\ m.refs = o.refs
    BY <1>3, <2>3 DEF QJob
  <2>5. PICK new : new = qjobs'[q]
    OBVIOUS
  <2>6. new = [old EXCEPT !.rv = rev[q] + 1, !.strategy = m.strategy,
                          !.update = m.update, !.refs = m.refs]
    BY <1>3, <1>6, <2>3, <2>5 DEF WithSpecOf
  <2>7. new \in QJob
    BY <1>3, <1>4, <2>4, <2>6 DEF QJob
  <2> QED
    BY <1>3, <1>4, <2>2, <2>4, <2>5, <2>6, <2>7 DEF QJob
<1>7. CASE Revert(w) /\ qjobs'[q] = WithSpecOf(q, [obj[w] EXCEPT !.strategy = "manual"])
  <2>1. pc[w] = "revert" /\ o.strategy = "now"
    BY <1>1, <1>3, <1>7 DEF Revert, CopyInv
  <2>2. "manual" \in Strategies
    BY DEF Strategies
  <2>3. old.stamp = Nil
    BY <1>1, <1>2, <1>3, <2>1 DEF CopyInv, Armed, IsCurrent
  <2>4. \E new \in QJob : /\ new = qjobs'[q] /\ o = old
                          /\ new.uid = old.uid /\ new.update = old.update
                          /\ new.refs = old.refs /\ new.completed = old.completed
                          /\ new.stamp = old.stamp /\ new.strategy = "manual"
    BY <1>6, <1>7, <2>1, <2>2
  <2> QED
    BY <1>3, <2>1, <2>3, <2>4 DEF KeepsEdits
<1>8. CASE MarkDone(w) /\ qjobs'[q] = WithSpecOf(q, [obj[w] EXCEPT !.strategy = "done"])
  <2>1. pc[w] = "markDone" /\ o.strategy = "once"
    BY <1>1, <1>3, <1>8 DEF MarkDone, CopyInv
  <2>2. "done" \in Strategies
    BY DEF Strategies
  <2>3. old.stamp = Nil
    BY <1>1, <1>2, <1>3, <2>1 DEF CopyInv, IsCurrent
  <2>4. \E new \in QJob : /\ new = qjobs'[q] /\ o = old
                          /\ new.uid = old.uid /\ new.update = old.update
                          /\ new.refs = old.refs /\ new.completed = old.completed
                          /\ new.stamp = old.stamp /\ new.strategy = "done"
    BY <1>6, <1>8, <2>1, <2>2
  <2> QED
    BY <1>3, <2>1, <2>3, <2>4 DEF KeepsEdits
<1> QED
  BY <1>2, <1>5, <1>7, <1>8

\* An edit by a user or the completed flag of the job controller is never
\* undone by a worker whose copy is older (errand_reconciler.go:80, 96, 104, 125).
THEOREM NoLostUpdateCorrect == ErrandSafety => NoLostUpdate
<1> DEFINE Kept == \A w \in Workers, q \in QJobs :
                     (key[w] = q /\ pc'[w] # pc[w]) =>
                       (qjobs'[q] = qjobs[q] \/ KeepsEdits(qjobs[q], qjobs'[q]))
<1>1. ASSUME ErrandTypeOK, ErrandInv, [ErrandNext]_errandVars, NEW w \in Workers,
             NEW q \in QJobs, key[w] = q, pc'[w] # pc[w], qjobs'[q] # qjobs[q]
      PROVE  KeepsEdits(qjobs[q], qjobs'[q])
  BY <1>1, MovesAreSteps, StepKeepsEdits, InvCopies DEF ErrandInv
<1>2. ErrandTypeOK /\ ErrandInv /\ [ErrandNext]_errandVars => Kept
  BY <1>1
<1>3. ErrandTypeOK /\ ErrandInv /\ [ErrandNext]_errandVars => [Kept]_errandVars
  BY <1>2
<1> QED
  BY <1>3, TypeCorrect, InvCorrect, PTL DEF ErrandSafety, NoLostUpdate

\* A once errand is declared done only after a Job was created for this very
\* object, not for a deleted one of the same name (errand_reconciler.go:109-128).
THEOREM DoneAfterRunCorrect == ErrandSafety => DoneAfterRun
<1> DEFINE Deserved ==
      \A w \in Workers, q \in QJobs :
        (key[w] = q /\ pc'[w] # pc[w] /\ qjobs'[q] # qjobs[q] /\ qjobs'[q].strategy = "done") =>
          \/ qjobs[q].strategy = "done"
          \/ lastRun[q] # Nil /\ lastRun[q].uid = qjobs[q].uid
<1>1. ASSUME ErrandTypeOK, ErrandInv, [ErrandNext]_errandVars, NEW w \in Workers,
             NEW q \in QJobs, key[w] = q, pc'[w] # pc[w], qjobs'[q] # qjobs[q],
             qjobs'[q].strategy = "done", qjobs[q].strategy # "done"
      PROVE  lastRun[q] # Nil /\ lastRun[q].uid = qjobs[q].uid
  <2>1. Step(w) /\ WorkersApart
    BY <1>1, MovesAreSteps DEF ErrandInv
  <2>2. /\ Busy(w) /\ IsCurrent(q, obj[w]) /\ qjobs[q] \in QJob
        /\ \/ (Stamp(w) \/ Clear(w)) /\ qjobs'[q] = WithStatusOf(q, obj[w])
           \/ Revert(w) /\ qjobs'[q] = WithSpecOf(q, [obj[w] EXCEPT !.strategy = "manual"])
           \/ MarkDone(w)
    BY <1>1, <2>1, WorkerStores
  <2>3. WithStatusOf(q, obj[w]).strategy = qjobs[q].strategy
    BY <1>1, <2>2, VersionFields DEF Busy, IsCurrent
  <2>4. WithSpecOf(q, [obj[w] EXCEPT !.strategy = "manual"]).strategy = "manual"
    <3>1. /\ [obj[w] EXCEPT !.strategy = "manual"] \in QJob
          /\ [obj[w] EXCEPT !.strategy = "manual"].strategy = "manual"
      BY <2>2 DEF Busy, QJob, Strategies
    <3> QED
      BY <1>1, <2>2, <3>1, VersionFields DEF IsCurrent
  <2>5. MarkDoneInv(w)
    BY <1>1, <2>2, <2>3, <2>4 DEF MarkDone, ErrandInv, WorkersInv
  <2>6. obj[w] = qjobs[q]
    BY <1>1, <2>2, <2>5, APIAssumption DEF MarkDoneInv, Known, Busy
  <2> QED
    BY <1>1, <2>5, <2>6 DEF MarkDoneInv
<1>2. ErrandTypeOK /\ ErrandInv /\ [ErrandNext]_errandVars => [Deserved]_errandVars
  BY <1>1
<1> QED
  BY <1>2, TypeCorrect, InvCorrect, PTL DEF ErrandSafety, DoneAfterRun
=============================================================================
