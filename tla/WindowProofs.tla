---------------------------- MODULE WindowProofs ----------------------------
(***************************************************************************)
(* The errand controller implements the meltdown window, for any number of *)
(* QuarksJobs and workers, any lag of the cache and any disturbances.      *)
(***************************************************************************)
EXTENDS ErrandProofs

-----------------------------------------------------------------------------
(* What the steps do to the phase of a key.                                *)

\* While a worker is about to create the Job, no window is open.
LEMMA ArmedStampless ==
  ASSUME ErrandInv, NEW q \in QJobs, HasArmed(q), qjobs[q] # Nil
  PROVE  qjobs[q].stamp = Nil
  BY DEF ErrandInv, WorkersInv, ArmedInv, HasArmed

\* A step that neither stamps, arms nor lets time pass can only end a window.
LEMMA PhaseShrinks ==
  ASSUME ErrandInv, NEW q \in QJobs, Harmless(q), now' = now,
         HasArmed(q)' => HasArmed(q)
  PROVE  Phase(q)' \in {Phase(q), "idle"}
<1>1. CASE HasArmed(q)'
  BY <1>1 DEF HasArmed, Phase
<1>2. CASE ~HasArmed(q)' /\ (qjobs'[q] = Nil \/ qjobs'[q].stamp = Nil)
  BY <1>2 DEF HasArmed, Phase
<1>3. CASE ~HasArmed(q)' /\ qjobs'[q] # Nil /\ qjobs'[q].stamp # Nil
  <2>1. qjobs[q] # Nil /\ qjobs[q].stamp = qjobs'[q].stamp
    BY <1>3 DEF Harmless
  <2>2. ~HasArmed(q)
    BY <1>3, <2>1, ArmedStampless
  <2> QED
    BY <1>3, <2>1, <2>2 DEF HasArmed, Phase, InWindow
<1> QED
  BY <1>1, <1>2, <1>3

\* A worker that writes the object or creates the Job changes the phase of no
\* other key.
LEMMA OtherPhases ==
  ASSUME ErrandTypeOK, WorkersApart, NEW w \in Workers, Stamp(w) \/ Clear(w) \/ CreateJob(w),
         NEW q \in QJobs, q # key[w]
  PROVE  Phase(q)' = Phase(q)
<1>1. Busy(w) /\ now' = now
  BY BusyWorker DEF Stamp, Clear, CreateJob
<1>2. qjobs'[q] = qjobs[q]
  BY <1>1 DEF Stamp, Clear, CreateJob, StatusUpdate, Replace, Put, Busy, ErrandTypeOK, APITypeOK
<1>3. \A v \in Workers : (key'[v] = q /\ pc'[v] \in Armed) <=> (key[v] = q /\ pc[v] \in Armed)
  <2>1. CASE Release(w)
    BY <1>1, <2>1 DEF Release, Goto, Armed, ErrandTypeOK
  <2>2. CASE \E next : Goto(w, next) /\ key' = key
    BY <1>1, <2>2 DEF Goto, ErrandTypeOK
  <2> QED
    BY <2>1, <2>2 DEF Stamp, Clear, CreateJob, Created, Fail
<1> QED
  BY <1>1, <1>2, <1>3 DEF HasArmed, Phase, InWindow

-----------------------------------------------------------------------------
(* The refinement.                                                         *)

\* Windows end, or nothing happens to them.
LEMMA Abandoned ==
  ASSUME runs' = runs, \A q \in QJobs : Phase(q)' \in {Phase(q), "idle"}
  PROVE  \E void \in SUBSET QJobs : Window!Abandon(void)
<1>1. PICK void \in SUBSET QJobs : \A q \in QJobs : q \in void <=> Phase(q)' # Phase(q)
  <2>1. {q \in QJobs : Phase(q)' # Phase(q)} \in SUBSET QJobs
    OBVIOUS
  <2> QED
    BY <2>1
<1>2. Window!Abandon(void)
  BY <1>1 DEF Window!Abandon
<1> QED
  BY <1>2

\* The phase of one key changes.
LEMMA OnePhase ==
  ASSUME NEW q \in QJobs, NEW p, Phase(q)' = p, \A r \in QJobs \ {q} : Phase(r)' = Phase(r)
  PROVE  [r \in QJobs |-> Phase(r)]' = [[r \in QJobs |-> Phase(r)] EXCEPT ![q] = p]
  OBVIOUS

\* The stamp opens the window.
LEMMA StampOpens ==
  ASSUME ErrandTypeOK, ErrandInv, NEW w \in Workers, Stamp(w)
  PROVE  \/ Window!Open(key[w])
         \/ \E void \in SUBSET QJobs : Window!Abandon(void)
<1>1. PICK q \in QJobs : q = key[w] /\ Busy(w) /\ StampInv(w) /\ WorkersApart
  BY BusyWorker DEF Stamp, ErrandInv, WorkersInv, Busy
<1>2. UNCHANGED <<now, runs>>
  BY DEF Stamp, historyVars
<1>3. ~HasArmed(q) /\ ~HasArmed(q)'
  BY <1>1 DEF HasArmed, WorkersApart, Stamp, Release, Goto, Armed, ErrandTypeOK, Busy
<1>4. \A r \in QJobs \ {q} : Phase(r)' = Phase(r)
  BY <1>1, OtherPhases
<1>5. CASE UNCHANGED qjobs
  <2>1. Phase(q)' = Phase(q)
    BY <1>2, <1>3, <1>5 DEF Phase, HasArmed, InWindow
  <2> QED
    BY <1>2, <1>4, <2>1, Abandoned
<1>6. CASE IsCurrent(q, obj[w]) /\ Put(q, WithStatusOf(q, obj[w]))
  <2>1. qjobs'[q] = WithStatusOf(q, obj[w])
    BY <1>6 DEF Put, ErrandTypeOK, APITypeOK
  <2>2. qjobs[q] # Nil /\ qjobs'[q] # Nil /\ qjobs'[q].stamp = obj[w].stamp
    BY <1>1, <1>6, <2>1, VersionFields DEF IsCurrent, Busy
  <2>3. qjobs[q].stamp = Nil /\ obj[w].stamp # Nil
    BY <1>1, <1>6 DEF StampInv
  <2>4. Phase(q) = "idle"
    BY <1>3, <2>3 DEF Phase, HasArmed
  <2>5. Phase(q)' \in {"open", "over"}
    BY <1>3, <2>2, <2>3 DEF Phase, HasArmed
  <2>6. Window!Open(q)
    BY <1>2, <1>4, <2>4, <2>5, OnePhase DEF Window!Open
  <2> QED
    BY <1>1, <2>6
<1> QED
  BY <1>1, <1>5, <1>6 DEF Stamp, StatusUpdate, Replace

\* Clearing a stamp whose window is over arms the worker.
LEMMA ClearArms ==
  ASSUME ErrandTypeOK, ErrandInv, NEW w \in Workers, Clear(w), ~Release(w)
  PROVE  Window!Arm(key[w])
<1>1. PICK q \in QJobs : q = key[w] /\ Busy(w) /\ ClearInv(w) /\ WorkersApart
  BY BusyWorker DEF Clear, ErrandInv, WorkersInv, Busy
<1>2. UNCHANGED <<now, runs>> /\ key'[w] = q /\ pc'[w] \in Armed
  BY <1>1 DEF Clear, Fail, Goto, Armed, historyVars, ErrandTypeOK
<1>3. IsCurrent(q, obj[w])
  BY <1>1 DEF Clear, Fail, StatusUpdate, Replace
<1>4. ~HasArmed(q)
  BY <1>1 DEF HasArmed, WorkersApart, Clear, Armed, Busy
<1>5. \A r \in QJobs \ {q} : Phase(r)' = Phase(r)
  BY <1>1, OtherPhases
<1>6. /\ qjobs[q] # Nil /\ qjobs[q].stamp # Nil
      /\ qjobs[q].stamp + SkipDuration <= now
  BY <1>1, <1>3 DEF ClearInv, IsCurrent
<1>7. qjobs[q].stamp \in Nat /\ now \in Nat
  BY <1>6, KeyTypes
<1>8. Phase(q) = "over"
  BY <1>4, <1>6, <1>7, ErrandAssumption DEF Phase, HasArmed, InWindow
<1>9. Phase(q)' = "armed"
  BY <1>2 DEF HasArmed, Phase
<1> QED
  BY <1>1, <1>2, <1>5, <1>8, <1>9, OnePhase DEF Window!Arm

\* The Job consumes the window.
LEMMA JobRuns ==
  ASSUME ErrandTypeOK, ErrandInv, NEW w \in Workers, CreateJob(w), runs' # runs
  PROVE  Window!Run(key[w])
<1>1. PICK q \in QJobs : q = key[w] /\ Busy(w) /\ ArmedInv(w) /\ WorkersApart
  BY BusyWorker DEF CreateJob, ErrandInv, WorkersInv, Busy, Armed
<1>2. StoreJob(q, obj[w].uid) /\ now' = now /\ qjobs' = qjobs /\ pc[w] \in Armed
  BY <1>1 DEF CreateJob, historyVars, Armed
<1>3. HasArmed(q) /\ ~HasArmed(q)'
  BY <1>1, JobDisarms
<1>4. Phase(q) = "armed"
  BY <1>3 DEF Phase
<1>5. Phase(q)' = "idle"
  BY <1>1, <1>2, <1>3 DEF HasArmed, Phase, ArmedInv
<1>6. \A r \in QJobs \ {q} : Phase(r)' = Phase(r)
  BY <1>1, OtherPhases
<1> QED
  BY <1>1, <1>2, <1>4, <1>5, <1>6, OnePhase DEF Window!Run, StoreJob

\* The clock ends windows.
LEMMA TickExpires ==
  ASSUME ErrandTypeOK, ErrandInv, Tick
  PROVE  \E ended \in SUBSET QJobs : Window!Expire(ended)
<1>1. /\ UNCHANGED <<qjobs, pc, key, runs>> /\ now' = now + 1
  BY DEF Tick, apiVars, workerVars, historyVars
<1>2. ASSUME NEW q \in QJobs
      PROVE  \/ Phase(q)' = Phase(q)
             \/ Phase(q) = "open" /\ Phase(q)' = "over"
  <2>1. CASE HasArmed(q) \/ qjobs[q] = Nil \/ qjobs[q].stamp = Nil
    BY <1>1, <2>1 DEF Phase, HasArmed
  <2>2. CASE ~HasArmed(q) /\ qjobs[q] # Nil /\ qjobs[q].stamp # Nil
    <3>1. qjobs[q].stamp \in Nat /\ now \in Nat /\ SkipDuration \in Nat
      BY <2>2, KeyTypes, ErrandAssumption
    <3>2. qjobs[q].stamp <= now
      BY <2>2 DEF ErrandInv, StampsFollowRuns, NotBefore
    <3>3. InWindow(qjobs[q].stamp)' => InWindow(qjobs[q].stamp)
      BY <1>1, <3>1, <3>2 DEF InWindow
    <3> QED
      BY <1>1, <2>2, <3>3 DEF Phase, HasArmed
  <2> QED
    BY <2>1, <2>2
<1>3. PICK ended \in SUBSET QJobs : \A q \in QJobs : q \in ended <=> Phase(q)' # Phase(q)
  <2>1. {q \in QJobs : Phase(q)' # Phase(q)} \in SUBSET QJobs
    OBVIOUS
  <2> QED
    BY <2>1
<1>4. Window!Expire(ended)
  BY <1>1, <1>2, <1>3 DEF Window!Expire
<1> QED
  BY <1>4

\* Every step of the controller is one of the window's, or none.
LEMMA StepImplements ==
  ASSUME ErrandTypeOK, ErrandInv, [ErrandNext]_errandVars
  PROVE  Window!WindowNext
<1>0. /\ CopiesAreVersions /\ WorkersApart /\ \A w \in Workers : WorkerInv(w)
  BY InvParts
<1>1. CASE Tick
  BY <1>1, TickExpires DEF Window!WindowNext
<1>2. ASSUME NEW w \in Workers, Stamp(w)
      PROVE  Window!WindowNext
  <2>1. key[w] \in QJobs
    BY <1>0, <1>2, BusyWorker DEF Stamp, Busy
  <2> QED
    BY <1>2, <2>1, StampOpens DEF Window!WindowNext
<1>3. ASSUME NEW w \in Workers, Clear(w), ~Release(w)
      PROVE  Window!WindowNext
  <2>1. key[w] \in QJobs
    BY <1>0, <1>3, BusyWorker DEF Clear, Busy
  <2> QED
    BY <1>3, <2>1, ClearArms DEF Window!WindowNext
<1>4. ASSUME NEW w \in Workers, CreateJob(w), runs' # runs
      PROVE  Window!WindowNext
  <2>1. key[w] \in QJobs
    BY <1>0, <1>4, BusyWorker DEF CreateJob, Busy
  <2> QED
    BY <1>4, <2>1, JobRuns DEF Window!WindowNext
<1>5. CASE /\ ~Tick /\ runs' = runs
           /\ \A w \in Workers : ~Stamp(w) /\ (Clear(w) => Release(w))
  <2>1. now' = now
    BY <1>5 DEF ErrandNext, Informer, CacheUpdate, HandleEvent, TimerFires, Users, CreateQJob,
       EditQJob, DeleteQJob, CompleteQJob, StartPass, Step, Clear, Revert, Validate, LookupFails,
       CreateJob, MarkDone, SetConfig, RemoveConfig, TouchConfig, ConfigHandler,
       HandleConfigEvent, Crash, errandVars
  <2>2. ASSUME NEW q \in QJobs
        PROVE  Phase(q)' \in {Phase(q), "idle"}
    <3>1. HasArmed(q)' => HasArmed(q)
      BY <1>0, <1>5, ArmingClears
    <3>2. CASE Harmless(q)
      BY <2>1, <3>1, <3>2, PhaseShrinks
    <3>3. ASSUME NEW w \in Workers, CreateJob(w)
          PROVE  Phase(q)' \in {Phase(q), "idle"}
      <4>1. CASE q # key[w]
        BY <1>0, <3>3, <4>1, OtherPhases
      <4>2. CASE q = key[w]
        <5>1. qjobs' = qjobs
          BY <3>3 DEF CreateJob
        <5>2. HasArmed(q)
          BY <3>3, <4>2 DEF CreateJob, HasArmed, Armed
        <5>3. qjobs[q] # Nil => qjobs[q].stamp = Nil
          BY <5>2, ArmedStampless
        <5> QED
          BY <5>1, <5>2, <5>3 DEF Phase, HasArmed
      <4> QED
        BY <4>1, <4>2
    <3>4. ASSUME NEW w \in Workers, Step(w), ~CreateJob(w)
          PROVE  Harmless(q)
      BY <1>0, <1>5, <3>4, StepHarmless, OwnHarmless DEF Step
    <3> QED
      BY <1>0, <3>2, <3>3, <3>4, OthersHarmless
  <2> QED
    BY <1>5, <2>2, Abandoned DEF Window!WindowNext
<1> QED
  BY <1>1, <1>2, <1>3, <1>4, <1>5, RunsAreJobs

LEMMA InitImplements == ErrandInit => Window!WindowInit
  BY APIAssumption DEF ErrandInit, APIInit, Window!WindowInit, HasArmed, Phase, Armed

\* The controller implements the meltdown window: every Job consumes a window
\* that was stored, ran its full length and was cleared, whatever triggers,
\* caches, conflicts and crashes do (errand_reconciler.go:76-118).
THEOREM ImplementsWindowCorrect == ErrandSafety => ImplementsWindow
<1>1. ErrandTypeOK /\ ErrandInv /\ [ErrandNext]_errandVars
        => [Window!WindowNext]_(Window!windowVars)
  BY StepImplements
<1> QED
  BY <1>1, InitImplements, TypeCorrect, InvCorrect, PTL
  DEF ErrandSafety, ImplementsWindow, Window!WindowSpec
=============================================================================
