----------------------------- MODULE JobProofs -----------------------------
(***************************************************************************)
(* Theorems about the job controller, for any number of QuarksJobs, Jobs   *)
(* and workers: it completes nothing without a Job that has succeeded, its *)
(* write keeps what others have written, and it touches no failed Job.     *)
(***************************************************************************)
EXTENDS JobController, APIProofs, WellFoundedInduction

-----------------------------------------------------------------------------
(* The inductive invariant.                                                *)

\* The types the argument needs, those of the pods apart.
JobCoreType ==
  /\ APITypeOK
  /\ job \in [Jobs -> Job \cup {Nil}]
  /\ used \subseteq Jobs
  /\ jobCache \in [Jobs -> Job \cup {Nil}]
  /\ jobWatch \in [Jobs -> Seq(Job \cup {Nil})]
  /\ todo \subseteq Jobs
  /\ jpc \in [JobWorkers -> JobPCs]
  /\ jkey \in [JobWorkers -> Jobs \cup {Nil}]
  /\ parent \in [JobWorkers -> QJob \cup {Nil}]
  /\ \A w \in JobWorkers : jpc[w] # "idle" => jkey[w] # Nil /\ parent[w] # Nil
  /\ earned \subseteq QJobs \X Nat

Earned(q) == \E e \in earned : e[1] = q

\* A Job of this name has succeeded, which nothing can change any more.
Done(j) == /\ j \in used
           /\ job[j] # Nil => job[j].phase = "succeeded"
           /\ Earned(OwnerOf[j])

\* A version of a Job, stored, cached or on its way, tells the truth.
Truthful(j, v) ==
  v # Nil => /\ j \in used
             /\ v.phase = "succeeded" => Done(j)
             /\ v.deleting => v.phase = "succeeded"

VersionsAreTruthful ==
  \A j \in Jobs : /\ Truthful(j, job[j]) /\ Truthful(j, jobCache[j])
                  /\ \A i \in DOMAIN jobWatch[j] : Truthful(j, jobWatch[j][i])

\* Busy workers have a Job that has succeeded, and a version of its parent.
WorkersAreRight ==
  \A w \in JobWorkers : jpc[w] # "idle" => /\ Done(jkey[w])
                                           /\ Known(OwnerOf[jkey[w]], parent[w])

JobInv == /\ JobCoreType
          /\ CopiesAreVersions
          /\ VersionsAreTruthful
          /\ WorkersAreRight
          /\ CompletedWasEarned

-----------------------------------------------------------------------------
(* Types.                                                                  *)

LEMMA JobInitInv == JobInit => JobInv
<1> SUFFICES ASSUME JobInit PROVE JobInv
  OBVIOUS
<1>1. JobCoreType
  BY APIAssumption DEF JobInit, APIInit, JobCoreType, APITypeOK, JobPCs
<1>2. CopiesAreVersions
  BY DEF JobInit, APIInit, CopiesAreVersions, Known
<1>3. VersionsAreTruthful
  BY DEF JobInit, VersionsAreTruthful, Truthful
<1>4. WorkersAreRight /\ CompletedWasEarned
  BY DEF JobInit, APIInit, WorkersAreRight, CompletedWasEarned
<1> QED
  BY <1>1, <1>2, <1>3, <1>4 DEF JobInv

\* A new version of a Job keeps the types of the stored and the sent ones.
LEMMA PutJobType ==
  ASSUME JobCoreType, NEW j \in Jobs, NEW v \in Job \cup {Nil}, PutJob(j, v)
  PROVE  /\ job' \in [Jobs -> Job \cup {Nil}]
         /\ jobWatch' \in [Jobs -> Seq(Job \cup {Nil})]
  BY DEF JobCoreType, PutJob

\* What a worker that ends its pass leaves is typed.
LEMMA JobReleaseType ==
  ASSUME JobCoreType, NEW w \in JobWorkers, JobRelease(w)
  PROVE  /\ jpc' \in [JobWorkers -> JobPCs]
         /\ jkey' \in [JobWorkers -> Jobs \cup {Nil}]
         /\ parent' \in [JobWorkers -> QJob \cup {Nil}]
         /\ \A v \in JobWorkers : jpc'[v] # "idle" => jkey'[v] # Nil /\ parent'[v] # Nil
         /\ \A v \in JobWorkers : jpc'[v] # "idle" =>
              v # w /\ jpc[v] # "idle" /\ jkey'[v] = jkey[v] /\ parent'[v] = parent[v]
  BY DEF JobCoreType, JobRelease, JobGoto, JobPCs

\* So is what one that goes on leaves.
LEMMA JobGotoType ==
  ASSUME JobCoreType, NEW w \in JobWorkers, jpc[w] # "idle",
         NEW next \in JobPCs, JobGoto(w, next), UNCHANGED <<jkey, parent>>
  PROVE  /\ jpc' \in [JobWorkers -> JobPCs]
         /\ jkey' \in [JobWorkers -> Jobs \cup {Nil}]
         /\ parent' \in [JobWorkers -> QJob \cup {Nil}]
         /\ \A v \in JobWorkers : jpc'[v] # "idle" => jkey'[v] # Nil /\ parent'[v] # Nil
         /\ \A v \in JobWorkers : jpc'[v] # "idle" =>
              jpc[v] # "idle" /\ jkey'[v] = jkey[v] /\ parent'[v] = parent[v]
  BY DEF JobCoreType, JobGoto

-----------------------------------------------------------------------------
(* What a step does to the stored QuarksJobs and their copies.             *)

\* A version that is stored by this step, and what makes it complete.
Writes(q, v) ==
  /\ v \in QJob \cup {Nil}
  /\ v # Nil => v.rv = rev[q] + 1
  /\ Put(q, v)
  /\ UNCHANGED cache
  /\ (v # Nil /\ v.completed) => (qjobs[q] # Nil /\ qjobs[q].completed) \/ Earned(q)

\* The status write, if it takes effect.
LEMMA CompletionWrites ==
  ASSUME JobInv, NEW w \in JobWorkers, SetCompleted(w)
  PROVE  \/ UNCHANGED <<qjobs, rev, cache, watch>>
         \/ /\ Writes(OwnerOf[jkey[w]], [qjobs[OwnerOf[jkey[w]]] EXCEPT
                                           !.rv = rev[OwnerOf[jkey[w]]] + 1, !.completed = TRUE])
            /\ qjobs[OwnerOf[jkey[w]]] # Nil
<1> DEFINE q == OwnerOf[jkey[w]]
           o == [parent[w] EXCEPT !.completed = TRUE]
<1>1. q \in QJobs /\ parent[w] \in QJob /\ jkey[w] \in Jobs
  BY JobAssumption DEF JobInv, JobCoreType, SetCompleted
<1>2. o \in QJob /\ o.rv = parent[w].rv /\ o.stamp = parent[w].stamp /\ o.completed = TRUE
  BY <1>1 DEF QJob
<1>3. \/ UNCHANGED <<qjobs, rev, cache, watch>>
      \/ IsCurrent(q, o) /\ Put(q, WithStatusOf(q, o)) /\ UNCHANGED cache
  BY DEF SetCompleted, StatusUpdate, Replace
<1>4. ASSUME IsCurrent(q, o), Put(q, WithStatusOf(q, o)), UNCHANGED cache
      PROVE  Writes(q, [qjobs[q] EXCEPT !.rv = rev[q] + 1, !.completed = TRUE]) /\ qjobs[q] # Nil
  <2>1. qjobs[q] # Nil /\ qjobs[q] = parent[w]
    <3>1. Known(q, parent[w]) /\ parent[w] # Nil
      BY DEF JobInv, WorkersAreRight, JobCoreType, SetCompleted
    <3>2. qjobs[q] # Nil /\ qjobs[q].rv = parent[w].rv
      BY <1>2, <1>4 DEF IsCurrent
    <3> QED
      BY <3>1, <3>2 DEF Known, IsCurrent
  <2>2. WithStatusOf(q, o) = [qjobs[q] EXCEPT !.rv = rev[q] + 1, !.completed = TRUE]
    BY <1>1, <1>2, <2>1 DEF WithStatusOf, QJob
  <2>3. WithStatusOf(q, o) \in QJob
    BY <1>1, <1>2, <2>1, VersionTypes DEF JobInv, JobCoreType
  <2>4. WithStatusOf(q, o).rv = rev[q] + 1
    BY <1>1, <2>1, <2>2 DEF QJob
  <2>5. Earned(q)
    BY DEF JobInv, WorkersAreRight, Done, SetCompleted
  <2> QED
    BY <1>4, <2>1, <2>2, <2>3, <2>4, <2>5 DEF Writes
<1> QED
  BY <1>3, <1>4

\* The other writers keep the completed flag, or start without it.
LEMMA OthersWrite ==
  ASSUME JobInv, NEW q \in QJobs,
         \/ OpenWindow(q) \/ UsersOf(q)
         \/ \E j \in Jobs : q = OwnerOf[j] /\ StartJob(j)
  PROVE  \E v : Writes(q, v)
<1>1. APITypeOK /\ rev[q] + 1 \in Nat /\ qjobs[q] \in QJob \cup {Nil}
  BY DEF JobInv, JobCoreType, APITypeOK
<1>2. CASE OpenWindow(q)
  <2> DEFINE v == [qjobs[q] EXCEPT !.rv = rev[q] + 1, !.stamp = 0]
  <2>1. qjobs[q] \in QJob
    BY <1>1, <1>2 DEF OpenWindow
  <2>2. v \in QJob /\ v.rv = rev[q] + 1 /\ v.completed = qjobs[q].completed
    <3>1. PICK o \in QJob, r \in Nat : o = qjobs[q] /\ r = rev[q] + 1
      BY <1>1, <2>1
    <3>2. LET u == [o EXCEPT !.rv = r, !.stamp = 0] IN
          u \in QJob /\ u.rv = r /\ u.completed = o.completed
      BY DEF QJob
    <3> QED
      BY <3>1, <3>2
  <2>3. Writes(q, v)
    BY <1>2, <2>2 DEF OpenWindow, Writes
  <2> QED
    BY <2>3
<1>3. ASSUME NEW j \in Jobs, q = OwnerOf[j], StartJob(j)
      PROVE  \E v : Writes(q, v)
  <2> DEFINE v == [qjobs[q] EXCEPT !.rv = rev[q] + 1, !.stamp = Nil]
  <2>1. qjobs[q] \in QJob
    BY <1>1, <1>3 DEF StartJob
  <2>2. v \in QJob /\ v.rv = rev[q] + 1 /\ v.completed = qjobs[q].completed
    <3>1. PICK o \in QJob, r \in Nat : o = qjobs[q] /\ r = rev[q] + 1
      BY <1>1, <2>1
    <3>2. LET u == [o EXCEPT !.rv = r, !.stamp = Nil] IN
          u \in QJob /\ u.rv = r /\ u.completed = o.completed
      BY DEF QJob
    <3> QED
      BY <3>1, <3>2
  <2>3. Writes(q, v)
    BY <1>3, <2>2 DEF StartJob, Writes
  <2> QED
    BY <2>3
<1>4. CASE UsersOf(q)
  <2>1. CASE UserDelete(q)
    BY <2>1 DEF UserDelete, Writes
  <2>2. ASSUME NEW spec \in Specs, UserCreate(q, spec)
        PROVE  \E v : Writes(q, v)
    <3>1. spec \in SpecType
      BY APIAssumption
    <3>2. /\ NewQJob(q, spec) \in QJob /\ NewQJob(q, spec).rv = rev[q] + 1
          /\ NewQJob(q, spec).completed = FALSE
      BY <1>1, <3>1 DEF NewQJob, QJob, SpecType
    <3> QED
      BY <2>2, <3>2 DEF UserCreate, Writes
  <2>3. ASSUME NEW spec \in Specs, UserEdit(q, spec)
        PROVE  \E v : Writes(q, v)
    <3>1. spec \in SpecType /\ qjobs[q] \in QJob
      BY <1>1, <2>3, APIAssumption DEF UserEdit
    <3>2. spec.strategy \in Strategies /\ spec.update \in BOOLEAN /\ spec.refs \in Refs
      BY <3>1 DEF SpecType
    <3>3. /\ WithSpecOf(q, spec) \in QJob /\ WithSpecOf(q, spec).rv = rev[q] + 1
          /\ WithSpecOf(q, spec).completed = qjobs[q].completed
      BY <1>1, <3>1, <3>2 DEF WithSpecOf, QJob
    <3> QED
      BY <2>3, <3>1, <3>3 DEF UserEdit, Writes
  <2> QED
    BY <1>4, <2>1, <2>2, <2>3 DEF UsersOf
<1> QED
  BY <1>2, <1>3, <1>4

\* Every step leaves the QuarksJobs alone, hands one on, starts the operator
\* again, or writes one.
LEMMA APISteps ==
  ASSUME JobInv, [JobNext]_jobVars
  PROVE  \/ UNCHANGED <<qjobs, rev, cache, watch>>
         \/ \E q \in QJobs : ParentEvent(q)
         \/ JobCrash
         \/ \E q \in QJobs : \E v : Writes(q, v)
<1>1. ASSUME NEW j \in Jobs, StartJob(j)
      PROVE  \E q \in QJobs : \E v : Writes(q, v)
  <2>1. OwnerOf[j] \in QJobs
    BY JobAssumption
  <2> QED
    BY <1>1, <2>1, OthersWrite
<1>2. ASSUME NEW q \in QJobs, OpenWindow(q) \/ UsersOf(q)
      PROVE  \E v : Writes(q, v)
  BY <1>2, OthersWrite
<1>3. ASSUME NEW w \in JobWorkers, SetCompleted(w)
      PROVE  \/ UNCHANGED <<qjobs, rev, cache, watch>>
             \/ \E q \in QJobs : \E v : Writes(q, v)
  <2>1. OwnerOf[jkey[w]] \in QJobs
    BY <1>3, JobAssumption DEF JobInv, JobCoreType, SetCompleted
  <2> QED
    BY <1>3, <2>1, CompletionWrites
<1>4. ASSUME NEW j \in Jobs,
             \/ JobEvent(j) \/ Resync(j) \/ StartPod(j) \/ RemoveJob(j) \/ CollectJob(j)
             \/ \E phase \in {"succeeded", "failed"} : EndJob(j, phase)
             \/ \E w \in JobWorkers : StartJobPass(w, j)
      PROVE  UNCHANGED <<qjobs, rev, cache, watch>>
  BY <1>4 DEF JobEvent, Resync, StartPod, RemoveJob, CollectJob, EndJob, StartJobPass, apiVars
<1>5. ASSUME NEW w \in JobWorkers, DeleteJob(w) \/ FindPod(w) \/ DeletePodOf(w)
      PROVE  UNCHANGED <<qjobs, rev, cache, watch>>
  BY <1>5 DEF DeleteJob, FindPod, DeletePodOf
<1>6. CASE LabelNamespace \/ UNCHANGED jobVars
  BY <1>6 DEF LabelNamespace, jobVars, apiVars
<1> QED
  BY <1>1, <1>2, <1>3, <1>4, <1>5, <1>6 DEF JobNext, JobStep

\* Copies remain versions, the ones in the caches and those of the workers.
LEMMA CopiesStep ==
  ASSUME JobInv, [JobNext]_jobVars
  PROVE  /\ APITypeOK'
         /\ CopiesAreVersions'
         /\ JobCrash \/ \A q \in QJobs, o \in QJob \cup {Nil} : Known(q, o) => Known(q, o)'
<1>0. APITypeOK /\ CopiesAreVersions
  BY DEF JobInv, JobCoreType
<1>5. left' \in [Kinds -> Nat]
  BY <1>0, SpendType DEF APITypeOK, Kinds, JobNext, JobStep, jobVars, apiVars, JobEvent, Resync,
     StartJob, StartPod, RemoveJob, CollectJob, EndJob, StartJobPass, DeleteJob, FindPod,
     DeletePodOf, SetCompleted, ParentEvent, OpenWindow, UsersOf, UserCreate, UserEdit,
     UserDelete, LabelNamespace, JobCrash, InNamespace, StatusUpdate, Replace
<1>1. CASE UNCHANGED <<qjobs, rev, cache, watch>>
  BY <1>0, <1>1, <1>5 DEF APITypeOK, CopiesAreVersions, Known, IsCurrent
<1>2. ASSUME NEW q \in QJobs, ParentEvent(q)
      PROVE  /\ APITypeOK' /\ CopiesAreVersions'
             /\ \A p \in QJobs, o \in QJob \cup {Nil} : Known(p, o) => Known(p, o)'
  BY <1>0, <1>2, <1>5, InformerKnown DEF ParentEvent, APITypeOK, Known, IsCurrent
<1>3. CASE JobCrash
  <2>1. APITypeOK'
    BY <1>0, <1>3, <1>5 DEF JobCrash, APITypeOK
  <2>2. \A q \in QJobs : Known(q, qjobs[q])' /\ cache'[q] = qjobs'[q] /\ watch'[q] = <<>>
    BY <1>0, <1>3 DEF JobCrash, CopiesAreVersions, Known, IsCurrent
  <2> QED
    BY <1>3, <2>1, <2>2 DEF CopiesAreVersions, Known, IsCurrent
<1>4. ASSUME NEW q \in QJobs, NEW v, Writes(q, v)
      PROVE  /\ APITypeOK' /\ CopiesAreVersions'
             /\ \A p \in QJobs, o \in QJob \cup {Nil} : Known(p, o) => Known(p, o)'
  <2>1. CopiesAreVersions'
    BY <1>0, <1>4, PutKnown DEF Writes
  <2>2. APITypeOK'
    BY <1>0, <1>4, <1>5, PutType DEF Writes, APITypeOK
  <2>3. ASSUME NEW p \in QJobs, NEW o \in QJob \cup {Nil}, Known(p, o)
        PROVE  Known(p, o)'
    BY <1>0, <1>4, <2>3, PutKeepsKnown DEF Writes
  <2> QED
    BY <2>1, <2>2, <2>3
<1> QED
  BY <1>1, <1>2, <1>3, <1>4, APISteps

\* What has completed a QuarksJob is a Job that has succeeded.
LEMMA CompletedStep ==
  ASSUME JobInv, [JobNext]_jobVars, earned \subseteq earned'
  PROVE  CompletedWasEarned'
<1>1. CompletedWasEarned /\ APITypeOK
  BY DEF JobInv, JobCoreType
<1>2. CASE UNCHANGED qjobs
  BY <1>1, <1>2 DEF CompletedWasEarned
<1>3. ASSUME NEW q \in QJobs, NEW v, Writes(q, v)
      PROVE  CompletedWasEarned'
  <2>1. qjobs'[q] = v /\ \A p \in QJobs \ {q} : qjobs'[p] = qjobs[p]
    BY <1>1, <1>3 DEF Writes, Put, APITypeOK
  <2>2. v # Nil /\ v.completed => \E e \in earned : e[1] = q
    BY <1>1, <1>3 DEF Writes, CompletedWasEarned, Earned
  <2> QED
    BY <1>1, <2>1, <2>2 DEF CompletedWasEarned
<1>4. ASSUME NEW q \in QJobs, ParentEvent(q)
      PROVE  UNCHANGED qjobs
  BY <1>4 DEF ParentEvent
<1> QED
  BY <1>2, <1>3, <1>4, APISteps DEF JobCrash

-----------------------------------------------------------------------------
(* What a step does to the stored Jobs and their versions.                 *)

\* A version of Job j is stored and sent by this step; it is truthful then.
Sends(j, v) ==
  /\ v \in Job \cup {Nil}
  /\ PutJob(j, v) /\ UNCHANGED jobCache
  /\ used \subseteq used' /\ earned \subseteq earned'
  /\ Done(j) => (v = Nil \/ v.phase = "succeeded")
  /\ v # Nil => /\ j \in used'
                /\ v.phase = "succeeded" => Earned(OwnerOf[j])'
                /\ v.deleting => v.phase = "succeeded"

\* What may happen to a failed Job.
KeptIfFailed(j) ==
  (job[j] # Nil /\ job[j].phase = "failed") => job'[j] = job[j] \/ ~IsStored(job[j].uid, OwnerOf[j])

LEMMA CreationSends ==
  ASSUME JobInv, NEW j \in Jobs, StartJob(j)
  PROVE  /\ \E v : Sends(j, v)
         /\ used' \subseteq Jobs /\ earned' = earned /\ KeptIfFailed(j)
<1> DEFINE v == [uid |-> qjobs[OwnerOf[j]].uid, phase |-> "active", deleting |-> FALSE]
<1>1. OwnerOf[j] \in QJobs /\ qjobs[OwnerOf[j]] \in QJob
  BY JobAssumption DEF JobInv, JobCoreType, APITypeOK, StartJob
<1>2. v \in Job
  BY <1>1 DEF Job, QJob
<1>3. job[j] = Nil /\ ~Done(j)
  BY DEF StartJob, JobInv, VersionsAreTruthful, Truthful, Done
<1>4. Sends(j, v)
  BY <1>2, <1>3 DEF StartJob, Sends
<1> QED
  BY <1>3, <1>4 DEF StartJob, KeptIfFailed, JobInv, JobCoreType

LEMMA EndSends ==
  ASSUME JobInv, NEW j \in Jobs, NEW phase \in {"succeeded", "failed"}, EndJob(j, phase)
  PROVE  /\ \E v : Sends(j, v)
         /\ used' = used /\ earned' \subseteq QJobs \X Nat /\ KeptIfFailed(j)
<1> DEFINE v == [job[j] EXCEPT !.phase = phase]
<1>1. /\ job[j] \in Job /\ job[j].phase = "active" /\ job[j].deleting = FALSE
      /\ OwnerOf[j] \in QJobs /\ earned \subseteq QJobs \X Nat
  BY JobAssumption DEF JobInv, JobCoreType, EndJob, IsActive, Job
<1>2. v \in Job /\ v.phase = phase /\ v.deleting = FALSE /\ job[j].uid \in Nat
  BY <1>1 DEF Job
<1>3. j \in used /\ ~Done(j)
  BY <1>1, JobAssumption DEF JobInv, VersionsAreTruthful, Truthful, Done
<1>4. earned \subseteq earned' /\ (phase = "succeeded" => <<OwnerOf[j], job[j].uid>> \in earned')
  BY DEF EndJob
<1>5. phase = "succeeded" => Earned(OwnerOf[j])'
  BY <1>4 DEF Earned
<1>6. Sends(j, v)
  BY <1>2, <1>3, <1>4, <1>5 DEF EndJob, Sends
<1> QED
  BY <1>1, <1>2, <1>6 DEF EndJob, KeptIfFailed

LEMMA RemovalSends ==
  ASSUME JobInv, NEW j \in Jobs, RemoveJob(j) \/ CollectJob(j)
  PROVE  Sends(j, Nil) /\ UNCHANGED <<used, earned>> /\ KeptIfFailed(j)
<1>1. job[j] # Nil /\ job[j].deleting => job[j].phase = "succeeded"
  BY DEF JobInv, VersionsAreTruthful, Truthful
<1> QED
  BY <1>1 DEF RemoveJob, CollectJob, Sends, KeptIfFailed

LEMMA DeletionSends ==
  ASSUME JobInv, NEW w \in JobWorkers, DeleteJob(w)
  PROVE  /\ UNCHANGED <<used, earned, jobCache>>
         /\ \/ UNCHANGED <<job, jobWatch>>
            \/ (\E v : Sends(jkey[w], v)) /\ KeptIfFailed(jkey[w])
<1> DEFINE j == jkey[w]
           v == [job[j] EXCEPT !.deleting = TRUE]
<1>1. j \in Jobs /\ Done(j)
  BY DEF JobInv, JobCoreType, WorkersAreRight, DeleteJob
<1>2. ASSUME job[j] # Nil, PutJob(j, v)
      PROVE  Sends(j, v) /\ KeptIfFailed(j)
  <2>1. job[j] \in Job /\ job[j].phase = "succeeded" /\ j \in used /\ Earned(OwnerOf[j])
    BY <1>1, <1>2 DEF JobInv, JobCoreType, Done
  <2>2. v \in Job /\ v.phase = "succeeded"
    BY <2>1 DEF Job
  <2>3. UNCHANGED <<used, earned, jobCache>> /\ (Earned(OwnerOf[j]) => Earned(OwnerOf[j])')
    BY DEF DeleteJob, Earned
  <2> QED
    BY <1>2, <2>1, <2>2, <2>3 DEF Sends, KeptIfFailed
<1> QED
  BY <1>2 DEF DeleteJob

\* Every step leaves the Jobs alone, hands a version on, starts the operator
\* again, or stores a version.
LEMMA JobSteps ==
  ASSUME JobInv, [JobNext]_jobVars
  PROVE  /\ used' \subseteq Jobs /\ earned' \subseteq QJobs \X Nat
         /\ used \subseteq used' /\ earned \subseteq earned'
         /\ \/ UNCHANGED <<job, jobCache, jobWatch>>
            \/ \E j \in Jobs : JobEvent(j)
            \/ JobCrash
            \/ \E j \in Jobs : \E v : Sends(j, v) /\ KeptIfFailed(j)
<1>1. used \subseteq Jobs /\ earned \subseteq QJobs \X Nat
  BY DEF JobInv, JobCoreType
<1>2. ASSUME NEW j \in Jobs,
             \/ StartJob(j) \/ RemoveJob(j) \/ CollectJob(j)
             \/ \E phase \in {"succeeded", "failed"} : EndJob(j, phase)
      PROVE  /\ used' \subseteq Jobs /\ earned' \subseteq QJobs \X Nat
             /\ \E v : Sends(j, v) /\ KeptIfFailed(j)
  BY <1>1, <1>2, CreationSends, EndSends, RemovalSends
<1>3. ASSUME NEW w \in JobWorkers, DeleteJob(w)
      PROVE  /\ UNCHANGED <<used, earned>>
             /\ \/ UNCHANGED <<job, jobCache, jobWatch>>
                \/ \E j \in Jobs : \E v : Sends(j, v) /\ KeptIfFailed(j)
  <2>1. jkey[w] \in Jobs
    BY <1>3 DEF JobInv, JobCoreType, DeleteJob
  <2> QED
    BY <1>3, <2>1, DeletionSends
<1>4. ASSUME NEW j \in Jobs,
             Resync(j) \/ StartPod(j) \/ \E w \in JobWorkers : StartJobPass(w, j)
      PROVE  UNCHANGED <<job, used, earned, jobCache, jobWatch>>
  BY <1>4 DEF Resync, StartPod, StartJobPass, clusterVars
<1>5. ASSUME NEW w \in JobWorkers, FindPod(w) \/ DeletePodOf(w) \/ SetCompleted(w)
      PROVE  UNCHANGED <<job, used, earned, jobCache, jobWatch>>
  BY <1>5 DEF FindPod, DeletePodOf, SetCompleted, clusterVars
<1>6. ASSUME NEW q \in QJobs, ParentEvent(q) \/ OpenWindow(q) \/ UsersOf(q)
      PROVE  UNCHANGED <<job, used, earned, jobCache, jobWatch>>
  BY <1>6 DEF ParentEvent, OpenWindow, UsersOf, clusterVars
<1>7. ASSUME LabelNamespace \/ UNCHANGED jobVars
      PROVE  UNCHANGED <<job, used, earned, jobCache, jobWatch>>
  BY <1>7 DEF LabelNamespace, jobVars, clusterVars
<1>8. ASSUME NEW j \in Jobs, JobEvent(j)
      PROVE  UNCHANGED <<used, earned>>
  BY <1>8 DEF JobEvent
<1>9. CASE JobCrash
  BY <1>1, <1>9 DEF JobCrash
<1>10. ASSUME NEW j \in Jobs, NEW v, Sends(j, v)
       PROVE  used \subseteq used' /\ earned \subseteq earned'
  BY <1>10 DEF Sends
<1>11. CASE UNCHANGED <<job, used, earned, jobCache, jobWatch>>
  BY <1>1, <1>11
<1>12. CASE \E j \in Jobs : JobEvent(j)
  BY <1>1, <1>8, <1>12
<1> DEFINE Stays == UNCHANGED <<job, used, earned, jobCache, jobWatch>>
           Sent == /\ used' \subseteq Jobs /\ earned' \subseteq QJobs \X Nat
                   /\ \E j \in Jobs : \E v : Sends(j, v) /\ KeptIfFailed(j)
<1>13. ASSUME NEW w \in JobWorkers, JobStep(w)
       PROVE  Stays \/ Sent
  BY <1>1, <1>3, <1>5, <1>13 DEF JobStep
<1>14. ASSUME NEW j \in Jobs,
              \/ Resync(j) \/ StartJob(j) \/ StartPod(j) \/ RemoveJob(j) \/ CollectJob(j)
              \/ \E phase \in {"succeeded", "failed"} : EndJob(j, phase)
              \/ \E w \in JobWorkers : StartJobPass(w, j)
       PROVE  Stays \/ Sent
  BY <1>2, <1>4, <1>14
<1>15. Stays \/ Sent \/ JobCrash \/ \E j \in Jobs : JobEvent(j)
  <2>1. CASE UNCHANGED jobVars
    BY <1>7, <2>1
  <2>2. CASE JobNext
    <3> HIDE DEF Stays, Sent
    <3> QED
      BY <1>6, <1>7, <1>13, <1>14, <2>2 DEF JobNext, Stays
  <2> QED
    BY <2>1, <2>2
<1>16. CASE Sent
  BY <1>10, <1>16
<1> HIDE DEF Stays, Sent
<1> QED
  BY <1>9, <1>11, <1>12, <1>15, <1>16 DEF Stays

\* A Job that is done stays done, and a version that is truthful stays so.
LEMMA TruthStep ==
  ASSUME JobInv, [JobNext]_jobVars
  PROVE  /\ \A j \in Jobs : Done(j) => Done(j)'
         /\ \A j \in Jobs : \A v : Truthful(j, v) => Truthful(j, v)'
<1>1. used \subseteq used' /\ earned \subseteq earned' /\ job \in [Jobs -> Job \cup {Nil}]
  BY JobSteps DEF JobInv, JobCoreType
<1>2. \A q : Earned(q) => Earned(q)'
  BY <1>1 DEF Earned
<1>3. ASSUME NEW j \in Jobs, Done(j)
      PROVE  Done(j)'
  <2>1. CASE UNCHANGED job
    BY <1>1, <1>2, <1>3, <2>1 DEF Done
  <2>2. ASSUME NEW k \in Jobs, NEW v, Sends(k, v)
        PROVE  Done(j)'
    <3>1. job'[k] = v /\ (k # j => job'[j] = job[j])
      BY <1>1, <2>2 DEF Sends, PutJob
    <3> QED
      BY <1>1, <1>2, <1>3, <2>2, <3>1 DEF Sends, Done
  <2>3. ASSUME NEW k \in Jobs, JobEvent(k)
        PROVE  UNCHANGED job
    BY <2>3 DEF JobEvent
  <2> QED
    BY <2>1, <2>2, <2>3, JobSteps DEF JobCrash
<1> QED
  BY <1>1, <1>3 DEF Truthful

LEMMA VersionsStep ==
  ASSUME JobInv, [JobNext]_jobVars
  PROVE  /\ job' \in [Jobs -> Job \cup {Nil}]
         /\ jobCache' \in [Jobs -> Job \cup {Nil}]
         /\ jobWatch' \in [Jobs -> Seq(Job \cup {Nil})]
         /\ VersionsAreTruthful'
<1>1. /\ job \in [Jobs -> Job \cup {Nil}] /\ jobCache \in [Jobs -> Job \cup {Nil}]
      /\ jobWatch \in [Jobs -> Seq(Job \cup {Nil})] /\ VersionsAreTruthful
  BY DEF JobInv, JobCoreType
<1>2. /\ \A j \in Jobs : Done(j) => Done(j)'
      /\ \A j \in Jobs : \A v : Truthful(j, v) => Truthful(j, v)'
  BY TruthStep
<1>3. CASE UNCHANGED <<job, jobCache, jobWatch>>
  BY <1>1, <1>2, <1>3 DEF VersionsAreTruthful, Truthful, Done, Earned
<1>4. CASE JobCrash
  <2>1. job' = job /\ jobCache' = job /\ \A j \in Jobs : jobWatch'[j] = <<>>
    BY <1>4 DEF JobCrash
  <2>2. jobWatch' = [j \in Jobs |-> <<>>]
    BY <1>4 DEF JobCrash
  <2> QED
    BY <1>1, <1>2, <2>1, <2>2 DEF VersionsAreTruthful, Truthful, Done, Earned
<1>5. ASSUME NEW j \in Jobs, JobEvent(j)
      PROVE  /\ jobCache' \in [Jobs -> Job \cup {Nil}]
             /\ jobWatch' \in [Jobs -> Seq(Job \cup {Nil})]
             /\ VersionsAreTruthful'
  <2>1. PICK s \in Seq(Job \cup {Nil}) : s = jobWatch[j] /\ s # <<>>
    BY <1>1, <1>5 DEF JobEvent
  <2>2. /\ Head(s) = s[1] /\ 1 \in DOMAIN s /\ s[1] \in Job \cup {Nil}
        /\ Tail(s) \in Seq(Job \cup {Nil})
        /\ \A i \in DOMAIN Tail(s) : i + 1 \in DOMAIN s /\ Tail(s)[i] = s[i + 1]
    BY <2>1
  <2>3. /\ job' = job
        /\ jobCache' = [jobCache EXCEPT ![j] = s[1]]
        /\ jobWatch' = [jobWatch EXCEPT ![j] = Tail(s)]
    BY <1>5, <2>1, <2>2 DEF JobEvent
  <2>4. /\ jobCache' \in [Jobs -> Job \cup {Nil}]
        /\ jobWatch' \in [Jobs -> Seq(Job \cup {Nil})]
    BY <1>1, <2>2, <2>3
  <2>5. ASSUME NEW k \in Jobs
        PROVE  Truthful(k, job[k])' /\ Truthful(k, jobCache[k])'
    <3>1. jobCache'[k] = jobCache[k] \/ (k = j /\ jobCache'[k] = s[1])
      BY <1>1, <2>3
    <3> QED
      BY <1>1, <1>2, <2>1, <2>2, <2>3, <3>1 DEF VersionsAreTruthful, Truthful, Done, Earned
  <2>6. ASSUME NEW k \in Jobs, NEW i \in DOMAIN jobWatch'[k]
        PROVE  Truthful(k, jobWatch[k][i])'
    <3>1. PICK h \in DOMAIN jobWatch[k] : jobWatch'[k][i] = jobWatch[k][h]
      <4>1. CASE k = j
        BY <1>1, <2>1, <2>2, <2>3, <4>1
      <4>2. CASE k # j
        BY <1>1, <2>3, <4>2
      <4> QED
        BY <4>1, <4>2
    <3>2. Truthful(k, jobWatch[k][h])
      BY <1>1 DEF VersionsAreTruthful
    <3> QED
      BY <1>2, <3>1, <3>2 DEF Truthful, Done, Earned
  <2> QED
    BY <2>4, <2>5, <2>6 DEF VersionsAreTruthful
<1>6. ASSUME NEW j \in Jobs, NEW v, Sends(j, v)
      PROVE  /\ job' \in [Jobs -> Job \cup {Nil}]
             /\ jobCache' = jobCache
             /\ jobWatch' \in [Jobs -> Seq(Job \cup {Nil})]
             /\ VersionsAreTruthful'
  <2>1. /\ v \in Job \cup {Nil} /\ jobCache' = jobCache
        /\ job' = [job EXCEPT ![j] = v]
        /\ jobWatch' = [jobWatch EXCEPT ![j] = Append(jobWatch[j], v)]
    BY <1>6 DEF Sends, PutJob
  <2>2. /\ job' \in [Jobs -> Job \cup {Nil}]
        /\ jobWatch' \in [Jobs -> Seq(Job \cup {Nil})]
    BY <1>1, <2>1
  <2>3. Truthful(j, v)'
    BY <1>1, <1>6, <2>1 DEF Sends, Truthful, Done, Earned
  <2>4. ASSUME NEW k \in Jobs
        PROVE  Truthful(k, job[k])' /\ Truthful(k, jobCache[k])'
    BY <1>1, <1>2, <2>1, <2>3 DEF VersionsAreTruthful, Truthful, Done, Earned
  <2>5. ASSUME NEW k \in Jobs, NEW i \in DOMAIN jobWatch'[k]
        PROVE  Truthful(k, jobWatch[k][i])'
    <3>1. jobWatch[k] \in Seq(Job \cup {Nil})
      BY <1>1
    <3>2. \/ k = j /\ jobWatch'[k][i] = v
          \/ i \in DOMAIN jobWatch[k] /\ jobWatch'[k][i] = jobWatch[k][i]
      BY <1>1, <2>1, <3>1
    <3>3. CASE i \in DOMAIN jobWatch[k] /\ jobWatch'[k][i] = jobWatch[k][i]
      <4>1. Truthful(k, jobWatch[k][i])
        BY <1>1, <3>3 DEF VersionsAreTruthful
      <4> QED
        BY <1>2, <3>3, <4>1 DEF Truthful, Done, Earned
    <3> QED
      BY <2>3, <3>2, <3>3 DEF Truthful, Done, Earned
  <2> QED
    BY <2>1, <2>2, <2>4, <2>5 DEF VersionsAreTruthful
<1>7. ASSUME NEW j \in Jobs, JobEvent(j)
      PROVE  job' = job
  BY <1>7 DEF JobEvent
<1> QED
  BY <1>1, <1>3, <1>4, <1>5, <1>6, <1>7, JobSteps

-----------------------------------------------------------------------------
(* What a step does to the workers.                                        *)

\* A worker that is busy after the step was busy with the same Job before, or
\* has just begun with a Job and the parent from the caches.
LEMMA WorkerSteps ==
  ASSUME JobInv, [JobNext]_jobVars
  PROVE  /\ todo' \subseteq Jobs
         /\ jpc' \in [JobWorkers -> JobPCs]
         /\ jkey' \in [JobWorkers -> Jobs \cup {Nil}]
         /\ parent' \in [JobWorkers -> QJob \cup {Nil}]
         /\ \A v \in JobWorkers : jpc'[v] # "idle" => jkey'[v] # Nil /\ parent'[v] # Nil
         /\ \A v \in JobWorkers : jpc'[v] # "idle" =>
              \/ jpc[v] # "idle" /\ jkey'[v] = jkey[v] /\ parent'[v] = parent[v]
              \/ \E j \in Jobs : IsDue(j) /\ jkey'[v] = j /\ parent'[v] = cache[OwnerOf[j]]
<1>1. JobCoreType
  BY DEF JobInv
<1>2. CASE UNCHANGED jobWorkerVars /\ todo' \subseteq Jobs
  BY <1>1, <1>2 DEF jobWorkerVars, JobCoreType
<1>3. CASE \E w \in JobWorkers : JobRelease(w) /\ todo' = todo
  <2>1. PICK w \in JobWorkers : JobRelease(w) /\ todo' = todo
    BY <1>3
  <2> QED
    BY <1>1, <2>1, JobReleaseType DEF JobCoreType
<1>4. CASE \E w \in JobWorkers, next \in JobPCs : /\ jpc[w] # "idle" /\ JobGoto(w, next)
                                                  /\ UNCHANGED <<todo, jkey, parent>>
  <2>1. PICK w \in JobWorkers, next \in JobPCs : /\ jpc[w] # "idle" /\ JobGoto(w, next)
                                                 /\ UNCHANGED <<todo, jkey, parent>>
    BY <1>4
  <2> QED
    BY <1>1, <2>1, JobGotoType DEF JobCoreType
<1>5. ASSUME NEW j \in Jobs, NEW w \in JobWorkers, StartJobPass(w, j), ~UNCHANGED jobWorkerVars
      PROVE  /\ todo' \subseteq Jobs
             /\ jpc' = [jpc EXCEPT ![w] = "delete"]
             /\ jkey' = [jkey EXCEPT ![w] = j]
             /\ parent' = [parent EXCEPT ![w] = cache[OwnerOf[j]]]
             /\ IsDue(j) /\ cache[OwnerOf[j]] # Nil
  BY <1>1, <1>5 DEF StartJobPass, JobGoto, JobCoreType, NoParent, IsDue
<1>6. CASE \E j \in Jobs, w \in JobWorkers : StartJobPass(w, j) /\ ~UNCHANGED jobWorkerVars
  <2>1. PICK j \in Jobs, w \in JobWorkers : StartJobPass(w, j) /\ ~UNCHANGED jobWorkerVars
    BY <1>6
  <2>2. /\ todo' \subseteq Jobs
        /\ jpc' = [jpc EXCEPT ![w] = "delete"]
        /\ jkey' = [jkey EXCEPT ![w] = j]
        /\ parent' = [parent EXCEPT ![w] = cache[OwnerOf[j]]]
        /\ IsDue(j) /\ cache[OwnerOf[j]] # Nil
    BY <1>5, <2>1
  <2>3. cache[OwnerOf[j]] \in QJob /\ j # Nil
    BY <1>1, <2>2, JobAssumption DEF JobCoreType, APITypeOK
  <2>4. /\ jpc' \in [JobWorkers -> JobPCs]
        /\ jkey' \in [JobWorkers -> Jobs \cup {Nil}]
        /\ parent' \in [JobWorkers -> QJob \cup {Nil}]
    BY <1>1, <2>2, <2>3 DEF JobCoreType, JobPCs
  <2>5. \A v \in JobWorkers : \/ jpc'[v] = jpc[v] /\ jkey'[v] = jkey[v] /\ parent'[v] = parent[v]
                              \/ jkey'[v] = j /\ parent'[v] = cache[OwnerOf[j]]
    <3>1. jpc'[w] = "delete" /\ jkey'[w] = j /\ parent'[w] = cache[OwnerOf[j]]
      BY <1>1, <2>2 DEF JobCoreType
    <3>2. \A v \in JobWorkers \ {w} : /\ jpc'[v] = jpc[v] /\ jkey'[v] = jkey[v]
                                      /\ parent'[v] = parent[v]
      BY <1>1, <2>2 DEF JobCoreType
    <3> QED
      BY <3>1, <3>2
  <2> QED
    BY <1>1, <2>2, <2>3, <2>4, <2>5 DEF JobCoreType
<1>7. CASE JobCrash
  BY <1>7 DEF JobCrash, JobPCs
<1>8. ASSUME NEW w \in JobWorkers, JobStep(w)
      PROVE  /\ todo' = todo
             /\ \/ JobRelease(w)
                \/ \E next \in JobPCs : /\ jpc[w] # "idle" /\ JobGoto(w, next)
                                        /\ UNCHANGED <<jkey, parent>>
  BY <1>8 DEF JobStep, DeleteJob, FindPod, DeletePodOf, SetCompleted, JobPCs
<1>9. ASSUME NEW j \in Jobs,
              \/ JobEvent(j) \/ Resync(j) \/ StartJob(j) \/ StartPod(j) \/ RemoveJob(j)
              \/ CollectJob(j) \/ \E phase \in {"succeeded", "failed"} : EndJob(j, phase)
       PROVE  UNCHANGED jobWorkerVars /\ todo' \subseteq Jobs
  BY <1>1, <1>9 DEF JobEvent, Resync, StartJob, StartPod, RemoveJob, CollectJob, EndJob,
     JobCoreType
<1>10. ASSUME NEW j \in Jobs, NEW w \in JobWorkers, StartJobPass(w, j), UNCHANGED jobWorkerVars
       PROVE  todo' \subseteq Jobs
  BY <1>1, <1>10 DEF StartJobPass, JobCoreType
<1>11. ASSUME NEW q \in QJobs, ParentEvent(q) \/ OpenWindow(q) \/ UsersOf(q)
       PROVE  UNCHANGED jobWorkerVars /\ todo' \subseteq Jobs
  BY <1>1, <1>11 DEF ParentEvent, OpenWindow, UsersOf, JobCoreType
<1>12. ASSUME LabelNamespace \/ UNCHANGED jobVars
       PROVE  UNCHANGED jobWorkerVars /\ todo' \subseteq Jobs
  BY <1>1, <1>12 DEF LabelNamespace, jobVars, JobCoreType
<1> QED
  BY <1>2, <1>3, <1>4, <1>6, <1>7, <1>8, <1>9, <1>10, <1>11, <1>12 DEF JobNext

LEMMA WorkersStep ==
  ASSUME JobInv, [JobNext]_jobVars
  PROVE  WorkersAreRight'
<1> SUFFICES ASSUME NEW v \in JobWorkers, jpc'[v] # "idle"
             PROVE  Done(jkey[v])' /\ Known(OwnerOf[jkey[v]], parent[v])'
  BY DEF WorkersAreRight
<1>1. ~JobCrash
  BY DEF JobCrash
<1>2. /\ jkey'[v] \in Jobs /\ parent'[v] \in QJob \cup {Nil}
      /\ \/ jpc[v] # "idle" /\ jkey'[v] = jkey[v] /\ parent'[v] = parent[v]
         \/ \E j \in Jobs : IsDue(j) /\ jkey'[v] = j /\ parent'[v] = cache[OwnerOf[j]]
  BY WorkerSteps
<1>3. PICK j \in Jobs, o \in QJob \cup {Nil} : jkey'[v] = j /\ parent'[v] = o
  BY <1>2
<1>4. Done(j) /\ Known(OwnerOf[j], o)
  <2>1. CASE jpc[v] # "idle" /\ jkey'[v] = jkey[v] /\ parent'[v] = parent[v]
    BY <1>3, <2>1 DEF JobInv, WorkersAreRight
  <2>2. CASE IsDue(j) /\ parent'[v] = cache[OwnerOf[j]]
    <3>1. Done(j)
      BY <2>2 DEF IsDue, JobInv, VersionsAreTruthful, Truthful
    <3>2. Known(OwnerOf[j], cache[OwnerOf[j]])
      BY JobAssumption DEF JobInv, CopiesAreVersions
    <3> QED
      BY <1>3, <2>2, <3>1, <3>2
  <2> QED
    BY <1>2, <1>3, <2>1, <2>2
<1>5. Done(j)'
  BY <1>4, TruthStep
<1>6. Known(OwnerOf[j], o)'
  BY <1>1, <1>4, JobAssumption, CopiesStep
<1> QED
  BY <1>3, <1>5, <1>6 DEF Done, Earned, Known, IsCurrent

-----------------------------------------------------------------------------
(* Pods.                                                                   *)

PodTypes ==
  /\ pods \in [Jobs -> SUBSET (1 .. MaxPods)]
  /\ started \in [Jobs -> 0 .. MaxPods]
  /\ labelled \in BOOLEAN
  /\ victim \in [JobWorkers -> 0 .. MaxPods]

\* jobPod finds a pod of the list if it is not empty, and none is newer.
LEMMA LatestIsNewest ==
  ASSUME NEW n \in Nat, NEW list \in SUBSET (1 .. n), list # {}
  PROVE  Latest(list) \in list /\ \A m \in list : m <= Latest(list)
<1> DEFINE before == OpToRel(<, Nat)
           newer  == {n - m : m \in list}
<1>1. IsWellFoundedOn(before, Nat)
  BY NatLessThanWellFounded
<1>2. \A x, y \in Nat : <<x, y>> \in before <=> x < y
  BY DEF OpToRel
<1>3. \A m \in list : m \in Nat /\ n - m \in Nat
  OBVIOUS
<1>4. newer \subseteq Nat /\ newer # {}
  BY <1>3
<1> HIDE DEF before
<1>5. PICK x \in newer : \A y \in newer : ~ (<<y, x>> \in before)
  BY <1>1, <1>4, WFMin
<1>6. PICK m \in list : x = n - m
  BY <1>5
<1>7. ASSUME NEW k \in list
      PROVE  m >= k
  <2>1. n - k \in newer /\ n - k \in Nat /\ n - m \in Nat /\ k \in Nat /\ m \in Nat
    BY <1>3
  <2>2. ~ (n - k < n - m)
    BY <1>2, <1>5, <1>6, <2>1
  <2> QED
    BY <2>1, <2>2
<1> QED
  BY <1>3, <1>7 DEF Latest, Max

\* A step starts or removes pods of one Job, and a worker's victim is one of
\* them.
LEMMA PodsStep ==
  ASSUME JobInv, PodTypes, [JobNext]_jobVars
  PROVE  PodTypes'
<1>1. JobCoreType /\ MaxPods \in Nat
  BY JobAssumption DEF JobInv
<1>2. ASSUME NEW j \in Jobs,
             \/ JobEvent(j) \/ Resync(j) \/ StartJob(j) \/ RemoveJob(j)
             \/ \E phase \in {"succeeded", "failed"} : EndJob(j, phase)
      PROVE  UNCHANGED <<pods, started, labelled, victim>>
  BY <1>2 DEF JobEvent, Resync, StartJob, RemoveJob, EndJob, clusterVars, jobWorkerVars
<1>3. ASSUME NEW j \in Jobs, StartPod(j)
      PROVE  PodTypes'
  <2>1. started[j] \in 0 .. MaxPods /\ started[j] < MaxPods
    BY <1>3 DEF StartPod, PodTypes
  <2>2. started[j] + 1 \in 0 .. MaxPods /\ started[j] + 1 \in 1 .. MaxPods
    BY <1>1, <2>1
  <2>3. /\ started' = [started EXCEPT ![j] = started[j] + 1]
        /\ pods' = [pods EXCEPT ![j] = pods[j] \cup {started[j] + 1}]
        /\ UNCHANGED <<labelled, victim>>
    BY <1>3 DEF StartPod, jobWorkerVars
  <2>4. pods[j] \cup {started[j] + 1} \in SUBSET (1 .. MaxPods)
    BY <2>2 DEF PodTypes
  <2> QED
    BY <2>2, <2>3, <2>4 DEF PodTypes
<1>4. ASSUME NEW j \in Jobs, CollectJob(j)
      PROVE  PodTypes'
  BY <1>4 DEF CollectJob, PodTypes, jobWorkerVars
<1>5. ASSUME NEW j \in Jobs, NEW w \in JobWorkers, StartJobPass(w, j)
      PROVE  UNCHANGED <<pods, started, labelled, victim>>
  BY <1>5 DEF StartJobPass, clusterVars, jobWorkerVars
<1>6. ASSUME NEW w \in JobWorkers, DeleteJob(w)
      PROVE  UNCHANGED <<pods, started, labelled, victim>>
  BY <1>6 DEF DeleteJob
<1>7. ASSUME NEW w \in JobWorkers, FindPod(w)
      PROVE  PodTypes'
  <2>1. UNCHANGED <<pods, started, labelled>>
    BY <1>7 DEF FindPod, clusterVars
  <2>2. CASE JobRelease(w)
    BY <1>1, <2>1, <2>2 DEF JobRelease, PodTypes
  <2>3. CASE ~JobRelease(w)
    <3>1. PICK missed \in 0 .. started[jkey[w]] :
            LET list == {n \in pods[jkey[w]] : n <= started[jkey[w]] - missed} IN
            list # {} /\ victim' = [victim EXCEPT ![w] = Latest(list)]
      BY <1>7, <2>3 DEF FindPod
    <3> DEFINE list == {n \in pods[jkey[w]] : n <= started[jkey[w]] - missed}
    <3>2. list \in SUBSET (1 .. MaxPods)
      BY <1>1, <1>7 DEF FindPod, JobCoreType, PodTypes
    <3>3. Latest(list) \in 0 .. MaxPods
      <4> HIDE DEF list
      <4> QED
        BY <1>1, <3>1, <3>2, LatestIsNewest DEF list
    <3> QED
      BY <2>1, <3>1, <3>3 DEF PodTypes
  <2> QED
    BY <2>2, <2>3
<1>8. ASSUME NEW w \in JobWorkers, DeletePodOf(w)
      PROVE  PodTypes'
  BY <1>8 DEF DeletePodOf, PodTypes
<1>9. ASSUME NEW w \in JobWorkers, SetCompleted(w)
      PROVE  PodTypes'
  BY <1>1, <1>9 DEF SetCompleted, JobRelease, clusterVars, PodTypes
<1>10. ASSUME NEW q \in QJobs, ParentEvent(q) \/ OpenWindow(q) \/ UsersOf(q)
       PROVE  UNCHANGED <<pods, started, labelled, victim>>
  BY <1>10 DEF ParentEvent, OpenWindow, UsersOf, clusterVars, jobWorkerVars
<1>11. CASE LabelNamespace
  BY <1>11 DEF LabelNamespace, PodTypes, jobWorkerVars
<1>12. CASE JobCrash
  BY <1>1, <1>12 DEF JobCrash, PodTypes
<1>13. CASE UNCHANGED jobVars
  BY <1>13 DEF jobVars, clusterVars, jobWorkerVars, PodTypes
<1>14. CASE UNCHANGED <<pods, started, labelled, victim>>
  BY <1>14 DEF PodTypes
<1> QED
  BY <1>2, <1>3, <1>4, <1>5, <1>6, <1>7, <1>8, <1>9, <1>10, <1>11, <1>12, <1>13, <1>14
  DEF JobNext, JobStep

-----------------------------------------------------------------------------
(* The theorems.                                                           *)

LEMMA JobNextInv == JobInv /\ [JobNext]_jobVars => JobInv'
<1> SUFFICES ASSUME JobInv, [JobNext]_jobVars PROVE JobInv'
  OBVIOUS
<1>1. used' \subseteq Jobs /\ earned' \subseteq QJobs \X Nat /\ earned \subseteq earned'
  BY JobSteps
<1>2. JobCoreType' /\ VersionsAreTruthful'
  BY <1>1, CopiesStep, VersionsStep, WorkerSteps DEF JobCoreType
<1>3. CopiesAreVersions' /\ WorkersAreRight' /\ CompletedWasEarned'
  BY <1>1, CopiesStep, WorkersStep, CompletedStep
<1> QED
  BY <1>2, <1>3 DEF JobInv

\* The invariant above holds of the job controller.
THEOREM JobInvCorrect == JobSafety => []JobInv
<1> QED
  BY JobInitInv, JobNextInv, PTL DEF JobSafety

\* Every variable of the job controller's model has its type, the pods and the
\* one a worker is about to delete included (job_reconciler.go:70-160).
THEOREM JobTypeCorrect == JobSafety => []JobTypeOK
<1>1. JobInit => PodTypes
  BY JobAssumption DEF JobInit, PodTypes
<1>2. JobInv /\ PodTypes /\ [JobNext]_jobVars => PodTypes'
  BY PodsStep
<1>3. JobInv /\ PodTypes => JobTypeOK
  BY DEF JobInv, JobCoreType, PodTypes, JobTypeOK
<1> QED
  BY <1>1, <1>2, <1>3, JobInvCorrect, PTL DEF JobSafety

\* A QuarksJob is completed only if a Job made for its name has succeeded, for
\* any number of Jobs, workers and disturbances (job_reconciler.go:95, 118).
THEOREM CompletedWasEarnedCorrect == JobSafety => []CompletedWasEarned
<1>1. JobInv => CompletedWasEarned
  BY DEF JobInv
<1> QED
  BY <1>1, JobInvCorrect, PTL

\* The status write of the job controller sets completed and nothing else
\* (job_reconciler.go:88-89, 118-122).
THEOREM StampSurvivesCorrect == JobSafety => StampSurvives
<1>1. ASSUME JobInv, [JobNext]_jobVars,
             NEW w \in JobWorkers, NEW q \in QJobs,
             jpc[w] # "idle", jpc'[w] # jpc[w], qjobs'[q] # qjobs[q]
      PROVE  /\ qjobs[q] # Nil
             /\ qjobs'[q] = [qjobs[q] EXCEPT !.rv = rev'[q], !.completed = TRUE]
  <2>1. /\ APITypeOK /\ jpc \in [JobWorkers -> JobPCs]
    BY <1>1 DEF JobInv, JobCoreType
  <2>2. PICK v \in JobWorkers : SetCompleted(v)
    <3>1. ~UNCHANGED jpc /\ ~UNCHANGED qjobs
      BY <1>1
    <3>2. ASSUME NEW j \in Jobs,
                 \/ JobEvent(j) \/ Resync(j) \/ StartJob(j) \/ StartPod(j) \/ RemoveJob(j)
                 \/ CollectJob(j) \/ \E phase \in {"succeeded", "failed"} : EndJob(j, phase)
          PROVE  UNCHANGED jpc
      BY <3>2 DEF JobEvent, Resync, StartJob, StartPod, RemoveJob, CollectJob, EndJob,
         jobWorkerVars
    <3>3. ASSUME NEW j \in Jobs, NEW u \in JobWorkers, StartJobPass(u, j)
          PROVE  UNCHANGED qjobs
      BY <3>3 DEF StartJobPass
    <3>4. ASSUME NEW u \in JobWorkers, JobStep(u)
          PROVE  SetCompleted(u) \/ UNCHANGED qjobs
      BY <3>4 DEF JobStep, DeleteJob, FindPod, DeletePodOf
    <3>5. ASSUME NEW p \in QJobs, ParentEvent(p) \/ OpenWindow(p) \/ UsersOf(p)
          PROVE  UNCHANGED jpc
      BY <3>5 DEF ParentEvent, OpenWindow, UsersOf, jobWorkerVars
    <3>6. ASSUME LabelNamespace \/ JobCrash \/ UNCHANGED jobVars
          PROVE  UNCHANGED qjobs
      BY <3>6 DEF LabelNamespace, JobCrash, jobVars, apiVars
    <3> QED
      BY <1>1, <3>1, <3>2, <3>3, <3>4, <3>5, <3>6 DEF JobNext
  <2>3. PICK p \in QJobs : p = OwnerOf[jkey[v]]
    BY <1>1, <2>2, JobAssumption DEF JobInv, JobCoreType, SetCompleted
  <2>4. /\ Writes(p, [qjobs[p] EXCEPT !.rv = rev[p] + 1, !.completed = TRUE])
        /\ qjobs[p] # Nil
    BY <1>1, <2>2, <2>3, CompletionWrites
  <2>5. /\ rev'[p] = rev[p] + 1
        /\ qjobs' = [qjobs EXCEPT ![p] = [qjobs[p] EXCEPT !.rv = rev[p] + 1, !.completed = TRUE]]
    BY <2>1, <2>4 DEF Writes, Put, APITypeOK
  <2>6. p = q
    BY <1>1, <2>1, <2>5 DEF APITypeOK
  <2> QED
    BY <2>1, <2>4, <2>5, <2>6 DEF APITypeOK
<1>2. JobInv /\ [JobNext]_jobVars =>
        [\A w \in JobWorkers, q \in QJobs :
           (jpc[w] # "idle" /\ jpc'[w] # jpc[w] /\ qjobs'[q] # qjobs[q]) =>
             /\ qjobs[q] # Nil
             /\ qjobs'[q] = [qjobs[q] EXCEPT !.rv = rev'[q], !.completed = TRUE]]_jobVars
  BY <1>1
<1> QED
  BY <1>2, JobInvCorrect, PTL DEF JobSafety, StampSurvives

\* A failed Job stays until its QuarksJob is deleted
\* (job_reconciler.go:94-126).
THEOREM FailedJobsStayCorrect == JobSafety => FailedJobsStay
<1>1. ASSUME JobInv, [JobNext]_jobVars, NEW j \in Jobs,
             job[j] # Nil, job[j].phase = "failed", job'[j] # job[j]
      PROVE  ~IsStored(job[j].uid, OwnerOf[j])
  <2>1. PICK k \in Jobs : \E v : Sends(k, v) /\ KeptIfFailed(k)
    BY <1>1, JobSteps DEF JobEvent, JobCrash
  <2>2. k = j
    BY <1>1, <2>1 DEF Sends, PutJob, JobInv, JobCoreType
  <2> QED
    BY <1>1, <2>1, <2>2 DEF KeptIfFailed
<1>2. JobInv /\ [JobNext]_jobVars =>
        [\A j \in Jobs : (job[j] # Nil /\ job[j].phase = "failed" /\ job'[j] # job[j])
                             => ~IsStored(job[j].uid, OwnerOf[j])]_jobVars
  BY <1>1
<1> QED
  BY <1>2, JobInvCorrect, PTL DEF JobSafety, FailedJobsStay
=============================================================================
