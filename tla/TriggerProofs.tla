---------------------------- MODULE TriggerProofs ----------------------------
(***************************************************************************)
(* A trigger gives one Job: where it is until its Job is created, as long *)
(* as triggers arrive one at a time and nothing fails.                     *)
(***************************************************************************)
EXTENDS ErrandProofs

-----------------------------------------------------------------------------
(* Writes that are no triggers.                                            *)

\* A version of the stored object is written that passes no predicate.
Stores(q, v) ==
  /\ Put(q, v) /\ qjobs[q] # Nil /\ v # Nil /\ v.uid = qjobs[q].uid
  /\ ~Triggers(qjobs[q], v)

\* What is stored, if anything, is no trigger.
Quiet == UNCHANGED <<qjobs, watch>> \/ \E q \in QJobs : \E v : Stores(q, v)

\* A status is no trigger.
LEMMA StatusIsQuiet ==
  ASSUME ErrandTypeOK, NEW q \in QJobs, NEW o \in QJob, NEW ok, StatusUpdate(q, o, ok)
  PROVE  Quiet
<1>1. CASE UNCHANGED <<qjobs, watch>>
  BY <1>1 DEF Quiet
<1>2. CASE IsCurrent(q, o) /\ Put(q, WithStatusOf(q, o))
  <2>1. PICK v : v = WithStatusOf(q, o)
    OBVIOUS
  <2>2. qjobs[q] \in QJob /\ qjobs[q] # Nil
    BY <1>2 DEF IsCurrent, ErrandTypeOK, APITypeOK
  <2>3. v # Nil /\ v.uid = qjobs[q].uid /\ v.strategy = qjobs[q].strategy
    BY <2>1, <2>2, VersionFields
  <2>4. v.refs = qjobs[q].refs
    BY <2>1, <2>2 DEF WithStatusOf, QJob
  <2>5. ~Triggers(qjobs[q], v)
    BY <2>2, <2>3, <2>4 DEF Triggers, PassesUpdate, HasConfigsChanged
  <2> QED
    BY <1>2, <2>1, <2>2, <2>3, <2>5 DEF Quiet, Stores
<1> QED
  BY <1>1, <1>2 DEF StatusUpdate, Replace

\* Nor is the strategy a worker writes, to a version that has not changed since.
LEMMA StrategyIsQuiet ==
  ASSUME ErrandTypeOK, NEW q \in QJobs, NEW o \in QJob, Known(q, o), NEW ok,
         NEW s \in {"manual", "done"}, Update(q, [o EXCEPT !.strategy = s], ok)
  PROVE  Quiet
<1>1. PICK n \in QJob : n = [o EXCEPT !.strategy = s]
  BY DEF QJob, Strategies
<1>2. n.rv = o.rv /\ n.refs = o.refs /\ n.strategy = s
  BY <1>1 DEF QJob
<1>3. CASE UNCHANGED <<qjobs, watch>>
  BY <1>3 DEF Quiet
<1>4. CASE IsCurrent(q, n) /\ Put(q, WithSpecOf(q, n))
  <2>1. PICK v : v = WithSpecOf(q, n)
    OBVIOUS
  <2>2. qjobs[q] = o /\ o # Nil
    BY <1>2, <1>4, APIAssumption DEF Known, IsCurrent
  <2>3. v # Nil /\ v.uid = qjobs[q].uid /\ v.strategy = s
    BY <1>2, <2>1, <2>2, VersionFields
  <2>4. v.refs = qjobs[q].refs
    BY <1>2, <2>1, <2>2 DEF WithSpecOf, QJob
  <2>5. ~Triggers(qjobs[q], v)
    BY <2>2, <2>3, <2>4 DEF Triggers, PassesUpdate, HasConfigsChanged
  <2> QED
    BY <1>4, <2>1, <2>2, <2>3, <2>5 DEF Quiet, Stores
<1> QED
  BY <1>1, <1>3, <1>4 DEF Update, Replace

\* No write of a worker is a trigger.
LEMMA StepIsQuiet ==
  ASSUME ErrandTypeOK, ErrandInv, NEW w \in Workers, Step(w)
  PROVE  Quiet /\ UNCHANGED cache
<1>1. Busy(w) /\ UNCHANGED cache
  BY WorkerWrites DEF ErrandInv
<1>2. PICK q \in QJobs, o \in QJob : key[w] = q /\ obj[w] = o
  BY <1>1 DEF Busy
<1>3. CASE Stamp(w) \/ Clear(w)
  BY <1>2, <1>3, StatusIsQuiet DEF Stamp, Clear
<1>4. CASE Revert(w) \/ MarkDone(w)
  <2>1. Known(q, o)
    BY <1>2, <1>4 DEF ErrandInv, WorkersInv, ArmedInv, MarkDoneInv, Revert, MarkDone, Armed
  <2> QED
    BY <1>2, <1>4, <2>1, StrategyIsQuiet DEF Revert, MarkDone
<1>5. CASE Validate(w) \/ CreateJob(w)
  BY <1>5 DEF Validate, CreateJob, Quiet
<1> QED
  BY <1>1, <1>3, <1>4, <1>5 DEF Step

\* What a write appends to the watch.
LEMMA PutSent ==
  ASSUME ErrandTypeOK, NEW q \in QJobs, Newest(q) = qjobs[q], NEW v, Put(q, v), UNCHANGED cache
  PROVE  /\ qjobs'[q] = v /\ Newest(q)' = v
         /\ watch'[q] = Append(watch[q], v)
         /\ \A i : i \in Sent(q)' <=> \/ i \in Sent(q)
                                      \/ i = Len(watch[q]) + 1 /\ Triggers(qjobs[q], v)
<1>1. /\ qjobs'[q] = v /\ watch'[q] = Append(watch[q], v)
  BY DEF Put, ErrandTypeOK, APITypeOK
<1>2. PICK s \in Seq(QJob \cup {Nil}) : s = watch[q]
  BY DEF ErrandTypeOK, APITypeOK
<1>3. PICK t : t = Append(s, v)
  OBVIOUS
<1>4. /\ Len(s) \in Nat /\ Len(t) = Len(s) + 1 /\ t[Len(s) + 1] = v /\ t # <<>>
      /\ \A i \in 1..Len(s) : t[i] = s[i]
      /\ DOMAIN s = 1..Len(s) /\ DOMAIN t = 1..(Len(s) + 1)
      /\ s = <<>> <=> Len(s) = 0
  <2>1. PICK u \in Seq(QJob \cup {Nil, v}) : u = s
    BY <1>2
  <2>2. t = Append(u, v) /\ v \in QJob \cup {Nil, v}
    BY <1>3, <2>1
  <2> QED
    BY <2>1, <2>2
<1>5. Newest(q)' = v
  BY <1>1, <1>2, <1>3, <1>4 DEF Newest
<1>6. Before(q, Len(s) + 1)' = qjobs[q]
  BY <1>1, <1>2, <1>3, <1>4 DEF Newest, Before
<1>7. \A i \in 1..Len(s) : Before(q, i)' = Before(q, i)
  BY <1>1, <1>2, <1>3, <1>4 DEF Before
<1>8. ASSUME NEW i
      PROVE  i \in Sent(q)' <=> \/ i \in Sent(q)
                                \/ i = Len(s) + 1 /\ Triggers(qjobs[q], v)
  <2>1. i \in Sent(q)' <=> i \in DOMAIN t /\ Triggers(Before(q, i)', t[i])
    BY <1>1, <1>2, <1>3 DEF Sent, Triggers, PassesCreate, PassesUpdate, IsAutoErrand
  <2>2. i \in Sent(q) <=> i \in DOMAIN s /\ Triggers(Before(q, i), s[i])
    BY <1>2 DEF Sent
  <2>3. CASE i \in 1..Len(s)
    BY <1>4, <1>7, <2>1, <2>2, <2>3
  <2>4. CASE i = Len(s) + 1
    BY <1>4, <1>6, <2>1, <2>2, <2>4
  <2>5. CASE i \notin DOMAIN t
    BY <1>4, <2>1, <2>2, <2>5
  <2> QED
    BY <1>4, <2>3, <2>4, <2>5
<1> QED
  BY <1>1, <1>2, <1>5, <1>8

\* What is on the watch of the other keys.
LEMMA OtherSent ==
  ASSUME ErrandTypeOK, NEW q \in QJobs, NEW v, Put(q, v), UNCHANGED cache, NEW p \in QJobs \ {q}
  PROVE  /\ qjobs'[p] = qjobs[p] /\ watch'[p] = watch[p]
         /\ Newest(p)' = Newest(p) /\ Sent(p)' = Sent(p) /\ OneObject(p)' = OneObject(p)
<1>1. qjobs'[p] = qjobs[p] /\ watch'[p] = watch[p]
  BY DEF Put, ErrandTypeOK, APITypeOK
<1> QED
  BY <1>1 DEF Newest, Sent, Before, OneObject, IsStored, Triggers, PassesCreate, PassesUpdate,
     IsAutoErrand

\* Such a write puts no trigger on the watch.
LEMMA QuietSent ==
  ASSUME ErrandTypeOK, \A q \in QJobs : Newest(q) = qjobs[q], Quiet, UNCHANGED cache,
         NEW p \in QJobs
  PROVE  /\ Newest(p)' = qjobs'[p] /\ Sent(p)' = Sent(p)
         /\ OneObject(p) => OneObject(p)'
<1>1. CASE UNCHANGED <<qjobs, watch>>
  BY <1>1 DEF Newest, Sent, Before, OneObject, IsStored, Triggers, PassesCreate, PassesUpdate,
     IsAutoErrand
<1>2. ASSUME NEW q \in QJobs, NEW v, Stores(q, v)
      PROVE  /\ Newest(p)' = qjobs'[p] /\ Sent(p)' = Sent(p)
             /\ OneObject(p) => OneObject(p)'
  <2>1. CASE p # q
    BY <1>2, <2>1, OtherSent DEF Stores
  <2>2. CASE p = q
    <3>1. /\ qjobs'[q] = v /\ Newest(q)' = v /\ watch'[q] = Append(watch[q], v)
          /\ \A i : i \in Sent(q)' <=> i \in Sent(q)
      BY <1>2, PutSent DEF Stores
    <3>2. Sent(q)' = Sent(q)
      BY <3>1 DEF Sent
    <3>3. ASSUME OneObject(q)
          PROVE  OneObject(q)'
      <4>1. PICK s \in Seq(QJob \cup {Nil}) : s = watch[q]
        BY DEF ErrandTypeOK, APITypeOK
      <4>2. \A u : IsStored(u, q) => IsStored(u, q)'
        BY <1>2, <3>1 DEF Stores, IsStored
      <4>3. \A i \in DOMAIN watch'[q] : (i \in DOMAIN s /\ watch'[q][i] = s[i]) \/ watch'[q][i] = v
        <5>1. PICK u \in Seq(QJob \cup {Nil, v}) : u = s
          BY <4>1
        <5> QED
          BY <3>1, <4>1, <5>1
      <4>4. IsStored(v.uid, q)'
        BY <1>2, <3>1 DEF Stores, IsStored
      <4> QED
        BY <3>3, <4>1, <4>2, <4>3, <4>4 DEF OneObject
    <3> QED
      BY <2>2, <3>1, <3>2, <3>3
  <2> QED
    BY <2>1, <2>2
<1> QED
  BY <1>1, <1>2 DEF Quiet

\* The informer takes the first version off the watch.
LEMMA CacheSent ==
  ASSUME ErrandTypeOK, NEW q \in QJobs, CacheUpdate(q)
  PROVE  /\ Newest(q)' = Newest(q)
         /\ 1 \in Sent(q) <=> Triggers(cache[q], Head(watch[q]))
         /\ \A i \in Nat \ {0} : i \in Sent(q)' <=> i + 1 \in Sent(q)
         /\ Sent(q)' \subseteq Nat \ {0}
         /\ OneObject(q) => OneObject(q)'
<1>1. PICK s \in Seq(QJob \cup {Nil}) : s = watch[q]
  BY DEF ErrandTypeOK, APITypeOK
<1>2. s # <<>>
  BY <1>1 DEF CacheUpdate
<1>3. PICK t \in Seq(QJob \cup {Nil}) : t = Tail(s)
  <2>1. Tail(s) \in Seq(QJob \cup {Nil})
    BY <1>2
  <2> QED
    BY <2>1
<1>4. cache'[q] = s[1] /\ watch'[q] = t /\ UNCHANGED qjobs
  BY <1>1, <1>2, <1>3 DEF CacheUpdate, ErrandTypeOK, APITypeOK
<1>5. /\ Len(s) \in Nat \ {0} /\ DOMAIN s = 1..Len(s)
      /\ Len(t) = Len(s) - 1 /\ DOMAIN t = 1..(Len(s) - 1)
      /\ \A i \in DOMAIN t : t[i] = s[i + 1]
      /\ t = <<>> <=> Len(s) = 1
      /\ Head(s) = s[1]
  <2>1. /\ Len(s) \in Nat \ {0} /\ DOMAIN s = 1..Len(s) /\ Head(s) = s[1]
        /\ Len(t) \in Nat /\ DOMAIN t = 1..Len(t)
    BY <1>2
  <2>2. Len(t) = Len(s) - 1 /\ \A i \in 1..Len(t) : t[i] = s[i + 1]
    BY <1>2, <1>3, <2>1
  <2>3. t = <<>> <=> Len(t) = 0
    OBVIOUS
  <2> QED
    BY <2>1, <2>2, <2>3
<1>6. Newest(q)' = Newest(q)
  BY <1>1, <1>4, <1>5 DEF Newest
<1>7. 1 \in Sent(q) <=> Triggers(cache[q], Head(watch[q]))
  BY <1>1, <1>5 DEF Sent, Before
<1>8. ASSUME NEW i \in Nat \ {0}
      PROVE  i \in Sent(q)' <=> i + 1 \in Sent(q)
  <2>1. i \in Sent(q)' <=> i \in DOMAIN t /\ Triggers(Before(q, i)', t[i])
    BY <1>4 DEF Sent, Triggers, PassesCreate, PassesUpdate, IsAutoErrand
  <2>2. i + 1 \in Sent(q) <=> i + 1 \in DOMAIN s /\ Triggers(Before(q, i + 1), s[i + 1])
    BY <1>1 DEF Sent
  <2>3. CASE i \in DOMAIN t
    <3>1. Before(q, i)' = Before(q, i + 1)
      BY <1>1, <1>4, <1>5, <2>3 DEF Before
    <3> QED
      BY <1>5, <2>1, <2>2, <2>3, <3>1
  <2>4. CASE i \notin DOMAIN t
    BY <1>5, <2>1, <2>2, <2>4
  <2> QED
    BY <2>3, <2>4
<1>9. Sent(q)' \subseteq Nat \ {0}
  BY <1>4, <1>5 DEF Sent
<1>10. OneObject(q) => OneObject(q)'
  <2>1. 1 \in DOMAIN s /\ \A i \in DOMAIN t : i + 1 \in DOMAIN s
    BY <1>5
  <2>2. \A u : IsStored(u, q)' <=> IsStored(u, q)
    BY <1>4 DEF IsStored
  <2> QED
    BY <1>1, <1>4, <1>5, <2>1, <2>2 DEF OneObject
<1> QED
  BY <1>6, <1>7, <1>8, <1>9, <1>10

-----------------------------------------------------------------------------
(* Where the trigger goes.                                                 *)

\* What the invariant says of one key.
KeyOwed(q) == /\ Newest(q) = qjobs[q]
              /\ \E place \in Places : TriggerAt(q, place)

\* What it says of all of them.
KeysOwed == /\ \A q \in QJobs : KeyOwed(q)
            /\ events # {} => ConfigInv

\* What a step would have to do to disturb a key.
Untouched(q) ==
  /\ notices'[q] = notices[q] /\ (q \in dirty' <=> q \in dirty)
  /\ timer'[q] = timer[q] /\ (Serving(q)' <=> Serving(q)) /\ owed'[q] = owed[q]

LEMMA StaysThere ==
  ASSUME NEW q \in QJobs, Sent(q)' = Sent(q), Untouched(q), NEW place, TriggerAt(q, place)
  PROVE  TriggerAt(q, place)'
  BY DEF Untouched, TriggerAt

\* A version becomes a notice if it passes the predicate.
LEMMA NoticeTaken ==
  ASSUME ErrandTypeOK, NEW q \in QJobs, CacheUpdate(q), left["fault"] = 0,
         NEW place \in Places, TriggerAt(q, place), NEW next,
         next = IF Triggers(cache[q], Head(watch[q])) THEN "notice" ELSE place
  PROVE  TriggerAt(q, next)'
<1>1. /\ notices'[q] = IF Triggers(cache[q], Head(watch[q])) THEN notices[q] + 1 ELSE notices[q]
      /\ UNCHANGED <<queueVars, workerVars, historyVars>>
      /\ notices[q] \in Nat
  BY DEF CacheUpdate, Spend, ErrandTypeOK
<1>2. Serving(q)' = Serving(q)
  BY <1>1 DEF Serving, workerVars
<1>3. \A i \in Sent(q)' : i \in Nat \ {0} /\ i + 1 \in Sent(q)
  BY CacheSent
<1>4. \A i, j \in Sent(q)' : i = j
  <2> SUFFICES ASSUME NEW i \in Sent(q)', NEW j \in Sent(q)' PROVE i = j
    OBVIOUS
  <2>1. i + 1 = j + 1 /\ i \in Nat /\ j \in Nat
    BY <1>3 DEF TriggerAt
  <2> QED
    BY <2>1
<1>5. Sent(q)' # {} => Sent(q) # {}
  BY <1>3
<1>6. CASE Triggers(cache[q], Head(watch[q]))
  <2>1. 1 \in Sent(q)
    BY <1>6, CacheSent
  <2>2. place = "watch" /\ notices[q] = 0 /\ Sent(q) = {1}
    BY <1>1, <2>1 DEF TriggerAt
  <2>3. Sent(q)' = {}
    BY <1>3, <2>2
  <2> QED
    BY <1>1, <1>2, <1>6, <2>2, <2>3 DEF TriggerAt, queueVars, historyVars
<1>7. CASE ~Triggers(cache[q], Head(watch[q]))
  BY <1>1, <1>2, <1>4, <1>5, <1>7 DEF TriggerAt, queueVars, historyVars
<1> QED
  BY <1>6, <1>7

LEMMA CacheOwed ==
  ASSUME ErrandTypeOK, OwedInv, NEW q \in QJobs, CacheUpdate(q)
  PROVE  KeysOwed'
<1>1. ASSUME NEW p \in QJobs \ {q}
      PROVE  /\ Newest(p)' = Newest(p) /\ OneObject(p)' = OneObject(p)
             /\ Sent(p)' = Sent(p) /\ Untouched(p)
  <2>1. /\ cache'[p] = cache[p] /\ watch'[p] = watch[p] /\ notices'[p] = notices[p]
        /\ UNCHANGED <<qjobs, queueVars, workerVars, historyVars>>
    BY DEF CacheUpdate, ErrandTypeOK, APITypeOK
  <2> QED
    BY <2>1 DEF Newest, OneObject, IsStored, Untouched, Sent, Before, Serving, Triggers,
       PassesCreate, PassesUpdate, IsAutoErrand, queueVars, workerVars, historyVars
<1>2. UNCHANGED <<qjobs, events>> /\ left["fault"] = 0
  BY DEF CacheUpdate, configVars, OwedInv
<1>3. KeyOwed(q)'
  <2>1. PICK place \in Places : TriggerAt(q, place)
    BY DEF OwedInv
  <2>2. PICK next \in Places : next = IF Triggers(cache[q], Head(watch[q])) THEN "notice" ELSE place
    BY DEF Places
  <2>3. TriggerAt(q, next)'
    BY <1>2, <2>1, <2>2, NoticeTaken
  <2>4. Newest(q)' = qjobs'[q]
    BY <1>2, CacheSent DEF OwedInv
  <2> QED
    BY <2>3, <2>4 DEF KeyOwed
<1>4. ASSUME NEW p \in QJobs \ {q}
      PROVE  KeyOwed(p)'
  <2>1. PICK place \in Places : TriggerAt(p, place)
    BY DEF OwedInv
  <2>2. TriggerAt(p, place)'
    BY <1>1, <2>1, StaysThere
  <2>3. Newest(p)' = qjobs'[p]
    BY <1>1, <1>2 DEF OwedInv
  <2> QED
    BY <2>2, <2>3 DEF KeyOwed
<1>5. ASSUME events' # {}
      PROVE  ConfigInv'
  <2>1. ConfigInv
    BY <1>2, <1>5 DEF OwedInv
  <2>2. ~Triggers(cache[q], Head(watch[q]))
    BY <2>1, CacheSent DEF ConfigInv, TriggerAt
  <2>3. TriggerAt(q, "nowhere")'
    <3>1. "nowhere" \in Places /\ TriggerAt(q, "nowhere")
      BY <2>1 DEF ConfigInv, Places
    <3> QED
      BY <1>2, <2>2, <3>1, NoticeTaken
  <2>4. ASSUME NEW p \in QJobs
        PROVE  TriggerAt(p, "nowhere")' /\ OneObject(p)'
    BY <1>1, <2>1, <2>3, CacheSent, StaysThere DEF ConfigInv
  <2> QED
    BY <1>2, <2>1, <2>4 DEF ConfigInv
<1> QED
  BY <1>3, <1>4, <1>5 DEF KeysOwed

\* The trigger of one key moves, and nothing is written that is a trigger.
LEMMA OneKeyMoves ==
  ASSUME ErrandTypeOK, OwedInv, Quiet, UNCHANGED <<cache, events>>, NEW q \in QJobs,
         \A p \in QJobs \ {q} : Untouched(p),
         \A place \in Places : TriggerAt(q, place) =>
           \E next \in Places : TriggerAt(q, next)' /\ (place = "nowhere" => next = place)
  PROVE  KeysOwed'
<1>1. ASSUME NEW p \in QJobs
      PROVE  Newest(p)' = qjobs'[p] /\ Sent(p)' = Sent(p) /\ (OneObject(p) => OneObject(p)')
  BY QuietSent DEF OwedInv
<1>2. ASSUME NEW p \in QJobs, NEW place \in Places, TriggerAt(p, place)
      PROVE  \E next \in Places : TriggerAt(p, next)' /\ (place = "nowhere" => next = place)
  <2>1. CASE p # q
    <3>1. TriggerAt(p, place)'
      BY <1>1, <1>2, <2>1, StaysThere
    <3> QED
      BY <3>1
  <2> QED
    BY <1>2, <2>1
<1>3. ASSUME NEW p \in QJobs
      PROVE  KeyOwed(p)'
  <2>1. PICK place \in Places : TriggerAt(p, place)
    BY DEF OwedInv
  <2>2. PICK next \in Places : TriggerAt(p, next)'
    BY <1>2, <2>1
  <2> QED
    BY <1>1, <2>2 DEF KeyOwed
<1>4. ASSUME events' # {}
      PROVE  ConfigInv'
  <2>1. ConfigInv
    BY <1>4 DEF OwedInv
  <2>2. ASSUME NEW p \in QJobs
        PROVE  TriggerAt(p, "nowhere")' /\ OneObject(p)'
    <3>1. TriggerAt(p, "nowhere") /\ OneObject(p)
      BY <2>1 DEF ConfigInv
    <3>2. PICK next \in Places : TriggerAt(p, next)' /\ next = "nowhere"
      BY <1>2, <3>1 DEF Places
    <3> QED
      BY <1>1, <3>1, <3>2
  <2> QED
    BY <2>1, <2>2 DEF ConfigInv
<1> QED
  BY <1>3, <1>4 DEF KeysOwed

LEMMA NothingMoves ==
  ASSUME ErrandTypeOK, OwedInv, Quiet, UNCHANGED <<cache, events>>,
         \A p \in QJobs : Untouched(p)
  PROVE  KeysOwed'
<1>1. CASE QJobs = {}
  BY <1>1 DEF KeysOwed, OwedInv, ConfigInv
<1>2. ASSUME NEW q \in QJobs
      PROVE  KeysOwed'
  <2>1. Sent(q)' = Sent(q)
    BY QuietSent DEF OwedInv
  <2>2. \A place \in Places : TriggerAt(q, place) => TriggerAt(q, place)'
    BY <2>1, StaysThere
  <2> QED
    BY <2>2, OneKeyMoves
<1> QED
  BY <1>1, <1>2

\* A notice becomes an entry of the queue, and so does a delayed entry.
LEMMA QueueOwed ==
  ASSUME ErrandTypeOK, OwedInv, NEW q \in QJobs, HandleEvent(q) \/ TimerFires(q)
  PROVE  KeysOwed'
<1>1. /\ Quiet /\ UNCHANGED <<cache, events, workerVars, historyVars>>
      /\ dirty' = dirty \cup {q}
      /\ \A p \in QJobs \ {q} : notices'[p] = notices[p] /\ timer'[p] = timer[p]
  BY DEF HandleEvent, TimerFires, Quiet, apiVars, configVars, ErrandTypeOK
<1>2. \A p \in QJobs : Serving(p)' = Serving(p)
  BY <1>1 DEF Serving, workerVars
<1>3. \A p \in QJobs \ {q} : Untouched(p)
  BY <1>1, <1>2 DEF Untouched, historyVars
<1>4. Sent(q)' = Sent(q)
  BY <1>1, QuietSent DEF OwedInv
<1>5. ASSUME NEW place \in Places, TriggerAt(q, place)
      PROVE  place # "nowhere" /\ TriggerAt(q, "queue")'
  <2>1. /\ HandleEvent(q) => place = "notice" /\ notices[q] = 1
        /\ TimerFires(q) => place = "timer"
    BY <1>5 DEF HandleEvent, TimerFires, TriggerAt, ErrandTypeOK
  <2>2. Sent(q) = {} /\ ~Serving(q) /\ owed[q]
    BY <1>5, <2>1 DEF HandleEvent, TimerFires, TriggerAt
  <2>3. timer'[q] = Nil /\ notices'[q] = 0
    BY <1>5, <2>1 DEF HandleEvent, TimerFires, TriggerAt, ErrandTypeOK
  <2> QED
    BY <1>1, <1>2, <1>4, <2>1, <2>2, <2>3 DEF TriggerAt, historyVars
<1> QED
  BY <1>1, <1>3, <1>5, OneKeyMoves DEF Places

\* A worker takes the key, or drops it because of the window.
LEMMA StartOwed ==
  ASSUME ErrandTypeOK, WorkersApart, OwedInv, NEW w \in Workers, NEW q \in QJobs, StartPass(w, q)
  PROVE  KeysOwed'
<1>1. /\ Quiet /\ UNCHANGED <<cache, events, notices, timer, historyVars>>
      /\ dirty' = dirty \ {q} /\ q \in dirty
      /\ pc[w] = "idle" /\ key[w] = Nil
      /\ \/ UNCHANGED workerVars
         \/ \E next \in {"stamp", "clear"} : \E o : Take(w, q, next, o)
  BY DEF StartPass, Quiet, configVars, Spend, OwedInv, WorkersApart
<1>2. \A p \in QJobs \ {q} : Serving(p)' = Serving(p)
  <2>1. CASE UNCHANGED workerVars
    BY <2>1 DEF Serving, workerVars
  <2>2. ASSUME NEW next \in {"stamp", "clear"}, NEW o, Take(w, q, next, o),
               NEW p \in QJobs \ {q}
        PROVE  Serving(p)' = Serving(p)
    <3>1. /\ key'[w] = q /\ key[w] # p
          /\ \A v \in Workers \ {w} : key'[v] = key[v] /\ pc'[v] = pc[v]
      BY <1>1, <2>2, APIAssumption DEF Take, Goto, ErrandTypeOK
    <3> QED
      BY <2>2, <3>1 DEF Serving
  <2> QED
    BY <1>1, <2>1, <2>2
<1>3. \A p \in QJobs \ {q} : Untouched(p)
  BY <1>1, <1>2 DEF Untouched, historyVars
<1>4. Sent(q)' = Sent(q)
  BY <1>1, QuietSent DEF OwedInv
<1>5. ASSUME NEW place \in Places, TriggerAt(q, place)
      PROVE  place # "nowhere" /\ \E next \in Places : TriggerAt(q, next)'
  <2>1. place = "queue" /\ Sent(q) = {} /\ owed[q] /\ timer[q] = Nil /\ ~(notices[q] > 0)
    BY <1>1, <1>5 DEF TriggerAt
  <2>2. TriggerAt(q, "worker")'
    BY <1>1, <1>4, <1>5, <2>1 DEF TriggerAt, historyVars
  <2> QED
    BY <2>1, <2>2 DEF Places
<1> QED
  BY <1>1, <1>3, <1>5, OneKeyMoves

\* What a worker does to the trigger it serves: keep it, give it back to the
\* queue for later, or create its Job.
LEMMA StepMoves ==
  ASSUME ErrandTypeOK, WorkersApart, OwedInv, NEW w \in Workers, Step(w),
         NEW q \in QJobs, key[w] = q
  PROVE  /\ UNCHANGED <<events, notices, dirty>>
         /\ \A p \in QJobs \ {q} : timer'[p] = timer[p] /\ owed'[p] = owed[p]
         /\ \A v \in Workers \ {w} : key'[v] = key[v] /\ pc'[v] = pc[v]
         /\ \/ /\ pc[w] # "markDone" /\ key'[w] = q /\ pc'[w] # "markDone"
               /\ UNCHANGED <<timer, owed>>
            \/ /\ pc[w] # "markDone" /\ key'[w] = Nil
               /\ timer'[q] # Nil /\ UNCHANGED owed
            \/ /\ pc[w] # "markDone" /\ (key'[w] = Nil \/ pc'[w] = "markDone")
               /\ UNCHANGED timer /\ owed'[q] = FALSE
            \/ pc[w] = "markDone" /\ key'[w] = Nil /\ UNCHANGED <<timer, owed>>
<1>1. ASSUME Release(w)
      PROVE  /\ key'[w] = Nil
             /\ \A v \in Workers \ {w} : key'[v] = key[v] /\ pc'[v] = pc[v]
  BY <1>1 DEF Release, Goto, ErrandTypeOK
<1>2. ASSUME NEW next, Goto(w, next), key' = key
      PROVE  /\ key'[w] = q /\ pc'[w] = next
             /\ \A v \in Workers \ {w} : key'[v] = key[v] /\ pc'[v] = pc[v]
  BY <1>2 DEF Goto, ErrandTypeOK
<1>3. ASSUME NEW d \in Nat, AddAfter(q, d)
      PROVE  timer'[q] # Nil /\ \A p \in QJobs \ {q} : timer'[p] = timer[p]
  <2>1. now + d \in Nat
    BY DEF ErrandTypeOK
  <2> QED
    BY <1>3, <2>1, APIAssumption DEF AddAfter, ErrandTypeOK
<1>4. ASSUME Requeue(q)
      PROVE  timer'[q] # Nil /\ \A p \in QJobs \ {q} : timer'[p] = timer[p]
  BY <1>3, <1>4, ErrandAssumption DEF Requeue
<1>5. left["fault"] = 0
  BY DEF OwedInv
<1>6. CASE Stamp(w)
  BY <1>1, <1>3, <1>4, <1>6, ErrandAssumption DEF Stamp, configVars, historyVars
<1>7. CASE Clear(w)
  <2>1. \/ \E next \in {"revert", "validate"} : Goto(w, next) /\ UNCHANGED <<key, timer>>
        \/ Release(w) /\ Requeue(q)
    BY <1>7 DEF Clear, Fail
  <2> QED
    BY <1>1, <1>2, <1>4, <1>7, <2>1 DEF Clear, configVars, historyVars
<1>8. CASE Revert(w)
  <2>1. \/ Goto(w, "validate") /\ UNCHANGED <<key, timer>>
        \/ Release(w) /\ Requeue(q)
    BY <1>8 DEF Revert, Fail
  <2> QED
    BY <1>1, <1>2, <1>4, <1>8, <2>1 DEF Revert, configVars, historyVars
<1>9. CASE Validate(w)
  BY <1>1, <1>2, <1>3, <1>4, <1>9, ErrandAssumption
  DEF Validate, LookupFails, Fail, configVars, historyVars
<1>10. CASE CreateJob(w)
  <2>1. /\ pc[w] = "create" /\ Created(w)
        /\ owed' = [owed EXCEPT ![q] = FALSE]
        /\ UNCHANGED <<events, notices, dirty>>
    BY <1>5, <1>10 DEF CreateJob, StoreJob, Spend, configVars
  <2>2. owed'[q] = FALSE /\ \A p \in QJobs \ {q} : owed'[p] = owed[p]
    BY <2>1 DEF ErrandTypeOK
  <2> QED
    BY <1>1, <1>2, <2>1, <2>2 DEF Created
<1>11. CASE MarkDone(w)
  BY <1>1, <1>11 DEF MarkDone, queueVars, configVars, historyVars
<1> QED
  BY <1>6, <1>7, <1>8, <1>9, <1>10, <1>11 DEF Step

LEMMA StepOwed ==
  ASSUME ErrandTypeOK, ErrandInv, OwedInv, NEW w \in Workers, Step(w)
  PROVE  KeysOwed'
<1>1. WorkersApart /\ Quiet /\ UNCHANGED cache
  BY StepIsQuiet DEF ErrandInv
<1>2. PICK q \in QJobs : key[w] = q
  BY <1>1, WorkerWrites DEF Busy
<1>3. /\ UNCHANGED <<events, notices, dirty>>
      /\ \A p \in QJobs \ {q} : timer'[p] = timer[p] /\ owed'[p] = owed[p]
      /\ \A v \in Workers \ {w} : key'[v] = key[v] /\ pc'[v] = pc[v]
  BY <1>1, <1>2, StepMoves
<1>4. key'[w] \in {q, Nil}
  BY <1>1, <1>2, StepMoves DEF Step, Stamp, Clear, Revert, Validate, LookupFails, CreateJob,
     MarkDone, Created, Fail, Release, ErrandTypeOK
<1>5. \A p \in QJobs \ {q} : Untouched(p)
  BY <1>2, <1>3, <1>4, APIAssumption DEF Untouched, Serving
<1>6. Sent(q)' = Sent(q)
  BY <1>1, QuietSent DEF OwedInv
<1>7. \A v \in Workers \ {w} : key[v] # q
  BY <1>1, <1>2, APIAssumption DEF WorkersApart
<1>8. Serving(q) <=> pc[w] # "markDone"
  BY <1>2, <1>7 DEF Serving
<1>9. Serving(q)' <=> key'[w] = q /\ pc'[w] # "markDone"
  BY <1>3, <1>7 DEF Serving
<1>10. ASSUME NEW place \in Places, TriggerAt(q, place)
       PROVE  \E next \in Places : TriggerAt(q, next)' /\ (place = "nowhere" => next = place)
  <2>1. CASE pc[w] = "markDone"
    <3>1. key'[w] = Nil /\ UNCHANGED <<timer, owed>>
      BY <1>1, <1>2, <2>1, StepMoves
    <3>2. Untouched(q)
      BY <1>3, <1>8, <1>9, <2>1, <3>1, APIAssumption DEF Untouched
    <3> QED
      BY <1>6, <1>10, <3>2, StaysThere
  <2>2. CASE pc[w] # "markDone"
    <3>1. /\ place = "worker" /\ owed[q] /\ Sent(q) = {} /\ ~(notices[q] > 0) /\ q \notin dirty
          /\ timer[q] = Nil
      BY <1>8, <1>10, <2>2 DEF TriggerAt
    <3>2. CASE key'[w] = q /\ pc'[w] # "markDone" /\ UNCHANGED <<timer, owed>>
      BY <1>3, <1>6, <1>10, <3>1, <3>2 DEF TriggerAt
    <3>3. CASE key'[w] = Nil /\ timer'[q] # Nil /\ UNCHANGED owed
      <4>1. ~Serving(q)'
        BY <1>9, <3>3, APIAssumption
      <4>2. TriggerAt(q, "timer")'
        BY <1>3, <1>6, <1>10, <3>1, <3>3, <4>1 DEF TriggerAt
      <4> QED
        BY <3>1, <4>2 DEF Places
    <3>4. CASE (key'[w] = Nil \/ pc'[w] = "markDone") /\ UNCHANGED timer /\ owed'[q] = FALSE
      <4>1. ~Serving(q)'
        BY <1>9, <3>4, APIAssumption
      <4>2. TriggerAt(q, "nowhere")'
        BY <1>3, <1>6, <1>10, <3>1, <3>4, <4>1 DEF TriggerAt
      <4> QED
        BY <3>1, <4>2 DEF Places
    <3> QED
      BY <1>1, <1>2, <2>2, <3>2, <3>3, <3>4, StepMoves
  <2> QED
    BY <2>1, <2>2
<1> QED
  BY <1>1, <1>3, <1>5, <1>10, OneKeyMoves

\* The clock, changes of metadata, removals and the job controller move no
\* trigger.
LEMMA OthersOwed ==
  ASSUME ErrandTypeOK, OwedInv,
         \/ UNCHANGED errandVars \/ Tick
         \/ \E c \in Configs : RemoveConfig(c) \/ TouchConfig(c)
         \/ \E q \in QJobs : CompleteQJob(q)
  PROVE  KeysOwed'
<1>1. Quiet
  <2>1. ASSUME NEW q \in QJobs, CompleteQJob(q)
        PROVE  Quiet
    <3>1. PICK o \in QJob : o = [cache[q] EXCEPT !.completed = TRUE]
      BY <2>1, CompletedType DEF CompleteQJob, ErrandTypeOK
    <3> QED
      BY <2>1, <3>1, StatusIsQuiet DEF CompleteQJob
  <2>2. CASE ~ \E q \in QJobs : CompleteQJob(q)
    BY <2>2 DEF Quiet, errandVars, Tick, RemoveConfig, TouchConfig, apiVars
  <2> QED
    BY <2>1, <2>2
<1>2. UNCHANGED <<cache, events, notices, queueVars, workerVars, historyVars>>
  BY DEF CompleteQJob, errandVars, Tick, RemoveConfig, TouchConfig, apiVars, configVars
<1>3. \A p \in QJobs : Untouched(p)
  BY <1>2 DEF Untouched, Serving, queueVars, workerVars, historyVars
<1> QED
  BY <1>1, <1>2, <1>3, NothingMoves

\* Nothing of q is on its way.
LEMMA RestIsNowhere ==
  ASSUME ErrandTypeOK, NEW q \in QJobs, AtRest(q)
  PROVE  /\ events = {} /\ watch[q] = <<>> /\ ~owed[q]
         /\ TriggerAt(q, "nowhere") /\ Sent(q) = {}
<1>1. Sent(q) = {}
  BY DEF AtRest, Sent
<1> QED
  BY <1>1 DEF AtRest, TriggerAt, Serving

\* The trigger of a user is the first one after a rest.
LEMMA UsersOwed ==
  ASSUME ErrandTypeOK, OwedInv, ~Overlap, NEW q \in QJobs, Users(q)
  PROVE  KeysOwed'
<1>1. UNCHANGED <<cache, events, notices, queueVars, workerVars>>
  BY DEF Users, CreateQJob, EditQJob, DeleteQJob, UserCreate, UserEdit, UserDelete, configVars
<1>2. \A p \in QJobs : Serving(p)' <=> Serving(p)
  BY <1>1 DEF Serving, workerVars
<1>3. \A p \in QJobs \ {q} : owed'[p] = owed[p]
  BY DEF Users, CreateQJob, EditQJob, DeleteQJob, Owe, ErrandTypeOK
<1>4. \A p \in QJobs \ {q} : Untouched(p)
  BY <1>1, <1>2, <1>3 DEF Untouched, queueVars
<1>5. ASSUME NEW spec \in Specs, EditQJob(q, spec), ~Triggers(qjobs[q], WithSpecOf(q, spec))
      PROVE  KeysOwed'
  <2>1. PICK v : v = WithSpecOf(q, spec)
    OBVIOUS
  <2>2. qjobs[q] \in QJob /\ qjobs[q] # Nil /\ spec \in SpecType /\ rev[q] + 1 \in Nat
    BY <1>5, APIAssumption DEF EditQJob, UserEdit, ErrandTypeOK, APITypeOK
  <2>3. v \in QJob /\ v.uid = qjobs[q].uid
    BY <2>1, <2>2 DEF WithSpecOf, QJob, SpecType
  <2>4. Quiet
    BY <1>5, <2>1, <2>2, <2>3, APIAssumption DEF EditQJob, UserEdit, Quiet, Stores
  <2>5. owed'[q] = owed[q]
    BY <1>5 DEF EditQJob, Owe, ErrandTypeOK
  <2>6. \A p \in QJobs : Untouched(p)
    BY <1>1, <1>2, <1>4, <2>5 DEF Untouched, queueVars
  <2> QED
    BY <1>1, <2>4, <2>6, NothingMoves
<1>6. ASSUME AtRest(q), NEW v, Put(q, v), owed'[q] <=> Triggers(qjobs[q], v)
      PROVE  KeysOwed'
  <2>1. /\ events = {} /\ watch[q] = <<>>
        /\ TriggerAt(q, "nowhere") /\ Sent(q) = {}
    BY <1>6, RestIsNowhere
  <2>2. Newest(q) = qjobs[q]
    BY DEF OwedInv
  <2>3. /\ qjobs'[q] = v /\ Newest(q)' = v
        /\ \A i : i \in Sent(q)' <=> i = 1 /\ Triggers(qjobs[q], v)
    BY <1>1, <1>6, <2>1, <2>2, PutSent
  <2>4. KeyOwed(q)'
    <3>1. CASE Triggers(qjobs[q], v)
      <4>1. TriggerAt(q, "watch")'
        BY <1>1, <1>2, <1>6, <2>1, <2>3, <3>1 DEF TriggerAt, queueVars
      <4> QED
        BY <2>3, <4>1 DEF KeyOwed, Places
    <3>2. CASE ~Triggers(qjobs[q], v)
      <4>1. TriggerAt(q, "nowhere")'
        BY <1>1, <1>2, <1>6, <2>1, <2>3, <3>2 DEF TriggerAt, queueVars
      <4> QED
        BY <2>3, <4>1 DEF KeyOwed, Places
    <3> QED
      BY <3>1, <3>2
  <2>5. ASSUME NEW p \in QJobs \ {q}
        PROVE  KeyOwed(p)'
    <3>1. qjobs'[p] = qjobs[p] /\ Newest(p)' = Newest(p) /\ Sent(p)' = Sent(p)
      BY <1>1, <1>6, OtherSent
    <3>2. PICK place \in Places : TriggerAt(p, place)
      BY DEF OwedInv
    <3>3. TriggerAt(p, place)'
      BY <1>4, <3>1, <3>2, StaysThere
    <3> QED
      BY <3>1, <3>2, <3>3 DEF KeyOwed, OwedInv
  <2> QED
    BY <1>1, <2>1, <2>4, <2>5 DEF KeysOwed
<1>7. ASSUME NEW spec \in Specs, EditQJob(q, spec), Triggers(qjobs[q], WithSpecOf(q, spec))
      PROVE  KeysOwed'
  <2>1. AtRest(q) /\ Put(q, WithSpecOf(q, spec))
    BY <1>7 DEF EditQJob, UserEdit, Calm
  <2>2. owed'[q] <=> Triggers(qjobs[q], WithSpecOf(q, spec))
    BY <1>7 DEF EditQJob, Owe, ErrandTypeOK
  <2> QED
    BY <1>6, <2>1, <2>2
<1>8. ASSUME NEW spec \in Specs, CreateQJob(q, spec)
      PROVE  KeysOwed'
  <2>1. AtRest(q) /\ Put(q, NewQJob(q, spec)) /\ qjobs[q] = Nil
    BY <1>8 DEF CreateQJob, UserCreate, Calm
  <2>2. owed'[q] <=> Triggers(qjobs[q], NewQJob(q, spec))
    BY <1>8, <2>1 DEF CreateQJob, Owe, ErrandTypeOK, AtRest
  <2> QED
    BY <1>6, <2>1, <2>2
<1>9. CASE DeleteQJob(q)
  <2>1. AtRest(q) /\ Put(q, Nil)
    BY <1>9 DEF DeleteQJob, UserDelete, Calm
  <2>2. owed'[q] <=> Triggers(qjobs[q], Nil)
    BY <1>9 DEF DeleteQJob, Triggers, ErrandTypeOK
  <2> QED
    BY <1>6, <2>1, <2>2
<1> QED
  BY <1>5, <1>7, <1>8, <1>9 DEF Users

\* A change of configuration is on its way to all keys that are at rest.
LEMMA SetConfigOwed ==
  ASSUME ErrandTypeOK, OwedInv, ~Overlap, NEW c \in Configs, SetConfig(c)
  PROVE  KeysOwed'
<1>1. UNCHANGED <<qjobs, watch, cache, notices, queueVars, workerVars, historyVars>>
  BY DEF SetConfig
<1>2. Quiet
  BY <1>1 DEF Quiet
<1>3. ASSUME NEW q \in QJobs
      PROVE  TriggerAt(q, "nowhere")' /\ OneObject(q)' /\ KeyOwed(q)'
  <2>1. AtRest(q)
    BY DEF SetConfig, Calm
  <2>2. watch[q] = <<>> /\ TriggerAt(q, "nowhere") /\ Newest(q) = qjobs[q]
    BY <2>1, RestIsNowhere DEF OwedInv
  <2>3. Newest(q)' = qjobs'[q] /\ Sent(q)' = Sent(q)
    BY <1>1, <1>2, QuietSent DEF OwedInv
  <2>4. Untouched(q)
    BY <1>1 DEF Untouched, Serving, queueVars, workerVars, historyVars
  <2>5. TriggerAt(q, "nowhere")'
    BY <2>2, <2>3, <2>4, StaysThere
  <2>6. OneObject(q)'
    BY <1>1, <2>2 DEF OneObject, IsStored, Newest
  <2> QED
    BY <2>3, <2>5, <2>6 DEF KeyOwed, Places
<1>4. events' # {} => ConfigInv'
  <2>1. ASSUME NEW q \in QJobs, events' # {}
        PROVE  events' = {<<c, TRUE>>}
    <3>1. events = {}
      BY DEF SetConfig, Calm, AtRest
    <3> QED
      BY <2>1, <3>1 DEF SetConfig, OfOthers
  <2> QED
    BY <1>3, <2>1 DEF ConfigInv
<1> QED
  BY <1>3, <1>4 DEF KeysOwed

\* The mapping function enqueues the keys that follow the configuration.
LEMMA ConfigOwed ==
  ASSUME ErrandTypeOK, OwedInv, NEW c \in Configs, NEW fresh \in BOOLEAN,
         HandleConfigEvent(c, fresh)
  PROVE  KeysOwed'
<1>1. UNCHANGED <<qjobs, watch, cache, notices, timer, workerVars>>
  BY DEF HandleConfigEvent
<1>2. ConfigInv
  BY DEF HandleConfigEvent, OwedInv
<1>3. Quiet
  BY <1>1 DEF Quiet
<1>4. ASSUME NEW q \in QJobs
      PROVE  KeyOwed(q)'
  <2>1. Newest(q)' = qjobs'[q] /\ Sent(q)' = Sent(q)
    BY <1>1, <1>3, QuietSent DEF OwedInv
  <2>2. TriggerAt(q, "nowhere") /\ OneObject(q)
    BY <1>2 DEF ConfigInv
  <2>3. fresh = TRUE
    <3>1. PICK d \in Configs : events = {<<d, TRUE>>}
      BY <1>2 DEF ConfigInv
    <3> QED
      BY <3>1 DEF HandleConfigEvent
  <2>4. Serving(q)' <=> Serving(q)
    BY <1>1 DEF Serving, workerVars
  <2>5. CASE q \in dirty'
    <3>1. q \in Reconciles(c) /\ ~IsStale(c)
      BY <2>2, <2>5 DEF HandleConfigEvent, TriggerAt, OwedInv, Spend
    <3>2. IsStored(cache[q].uid, q)
      BY <2>2, <3>1 DEF Reconciles, Follows, OneObject
    <3>3. owed'[q]
      <4>1. owed' = [p \in QJobs |->
                       owed[p] \/ (fresh /\ p \in Reconciles(c) /\ IsStored(cache[p].uid, p))]
        BY <3>1 DEF HandleConfigEvent, OwedInv, Spend
      <4> QED
        BY <2>3, <3>1, <3>2, <4>1
    <3>4. TriggerAt(q, "queue")'
      BY <1>1, <2>1, <2>2, <2>4, <3>3 DEF TriggerAt
    <3> QED
      BY <2>1, <3>4 DEF KeyOwed, Places
  <2>6. CASE q \notin dirty'
    <3>1. TriggerAt(q, "nowhere")'
      BY <1>1, <2>1, <2>2, <2>4, <2>6 DEF TriggerAt
    <3> QED
      BY <2>1, <3>1 DEF KeyOwed, Places
  <2> QED
    BY <2>5, <2>6
<1>5. events' # {} => ConfigInv'
  <2>1. ASSUME NEW q \in QJobs
        PROVE  events' = {}
    <3>1. PICK d \in Configs : events = {<<d, TRUE>>}
      BY <1>2 DEF ConfigInv
    <3> QED
      BY <3>1 DEF HandleConfigEvent
  <2> QED
    BY <2>1 DEF ConfigInv
<1> QED
  BY <1>4, <1>5 DEF KeysOwed

-----------------------------------------------------------------------------
(* One trigger, one Job.                                                   *)

\* A disturbance that is not left does not happen.
LEMMA BudgetStays ==
  ASSUME ErrandTypeOK, [ErrandNext]_errandVars, left["fault"] = 0, left["crash"] = 0
  PROVE  left'["fault"] = 0 /\ left'["crash"] = 0
<1>1. ASSUME NEW kind \in Kinds, Spend(kind)
      PROVE  left'["fault"] = 0 /\ left'["crash"] = 0
  BY <1>1 DEF Spend, Kinds, ErrandTypeOK, APITypeOK
<1>2. UNCHANGED left \/ \E kind \in Kinds : Spend(kind)
  BY DEF ErrandNext, Informer, CacheUpdate, HandleEvent, TimerFires, Users, CreateQJob, EditQJob,
     DeleteQJob, CompleteQJob, StatusUpdate, Update, Replace, UserCreate, UserEdit, UserDelete,
     StartPass, Step, Stamp, Clear, Revert, Validate, LookupFails, CreateJob, MarkDone, SetConfig,
     RemoveConfig, TouchConfig, ConfigHandler, HandleConfigEvent, Tick, Crash, errandVars, apiVars,
     Kinds
<1> QED
  BY <1>1, <1>2

LEMMA StepOwedInv ==
  ASSUME ErrandTypeOK, ErrandInv, OwedInv, Undisturbed, [ErrandNext]_errandVars
  PROVE  OwedInv'
<1>1. ~Crash /\ ~Overlap
  BY DEF Crash, Spend, OwedInv, Undisturbed
<1>2. KeysOwed'
  BY <1>1, CacheOwed, QueueOwed, StartOwed, StepOwed, OthersOwed, UsersOwed, SetConfigOwed,
     ConfigOwed
  DEF ErrandNext, Informer, ConfigHandler, ErrandInv
<1>3. left'["fault"] = 0 /\ left'["crash"] = 0
  BY BudgetStays DEF OwedInv
<1> QED
  BY <1>2, <1>3 DEF KeysOwed, KeyOwed, OwedInv

LEMMA InitOwed ==
  ASSUME ErrandInit, events = {}, Undisturbed
  PROVE  OwedInv
<1>1. ASSUME NEW q \in QJobs
      PROVE  Newest(q) = qjobs[q] /\ TriggerAt(q, "nowhere")
  <2>1. Sent(q) = {}
    BY DEF ErrandInit, APIInit, Sent
  <2> QED
    BY <2>1, APIAssumption DEF ErrandInit, APIInit, Newest, TriggerAt, Serving
<1> QED
  BY <1>1 DEF OwedInv, Places, ErrandInit, APIInit, Undisturbed

\* Where the trigger is: at one place, until its Job is created, for any number
\* of QuarksJobs and workers, lag and missing references
\* (errand_controller.go:49-93, errand_reconciler.go:76-118).
THEOREM OwedInvCorrect ==
  ASSUME Undisturbed
  PROVE  ErrandSafety /\ events = {} => []OwedInv
<1>1. ErrandInit /\ events = {} => OwedInv
  BY InitOwed
<1>2. ErrandTypeOK /\ ErrandInv /\ OwedInv /\ [ErrandNext]_errandVars => OwedInv'
  BY StepOwedInv
<1> QED
  BY <1>1, <1>2, TypeCorrect, InvCorrect, PTL DEF ErrandSafety

\* One trigger gives one Job, as long as triggers do not overlap and neither
\* the API server nor the operator fails; the operator starts where no versioned
\* secret past its first version is reported as created
\* (errand_controller.go:50-90, errand_reconciler.go:109-131).
THEOREM RunsAreOwedCorrect ==
  ASSUME Undisturbed
  PROVE  ErrandSafety /\ events = {} => RunsAreOwed
<1>1. ASSUME ErrandTypeOK, ErrandInv, OwedInv, [ErrandNext]_errandVars, NEW q \in QJobs,
             runs'[q] # runs[q]
      PROVE  owed[q]
  <2>1. PICK w \in Workers : CreateJob(w)
    BY <1>1, RunsAreJobs
  <2>2. PICK k \in QJobs : key[w] = k
    BY <1>1, <2>1, BusyWorker DEF CreateJob, Busy, ErrandInv
  <2>3. k = q
    BY <1>1, <2>1, <2>2 DEF CreateJob, StoreJob, historyVars, ErrandTypeOK
  <2>4. Serving(q)
    BY <2>1, <2>2, <2>3 DEF Serving, CreateJob
  <2> QED
    BY <1>1, <2>4 DEF OwedInv, TriggerAt
<1>2. ErrandTypeOK /\ ErrandInv /\ OwedInv /\ [ErrandNext]_errandVars
      => [\A q \in QJobs : runs'[q] # runs[q] => owed[q]]_errandVars
  BY <1>1
<1> QED
  BY <1>2, TypeCorrect, InvCorrect, OwedInvCorrect, PTL DEF ErrandSafety, RunsAreOwed
=============================================================================
