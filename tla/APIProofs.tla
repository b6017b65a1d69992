----------------------------- MODULE APIProofs -----------------------------
(***************************************************************************)
(* What requests to the API server and its watch keep, for any controller: *)
(* the types, and that every copy of a QuarksJob is a version of it.       *)
(***************************************************************************)
EXTENDS QuarksJobAPI, TLAPS

-----------------------------------------------------------------------------
(* Types.                                                                  *)

\* A write keeps the types of what the API server and the watch hold.
LEMMA PutType ==
  ASSUME APITypeOK, NEW q \in QJobs, NEW v \in QJob \cup {Nil}, Put(q, v)
  PROVE  /\ qjobs' \in [QJobs -> QJob \cup {Nil}]
         /\ rev' \in [QJobs -> Nat]
         /\ watch' \in [QJobs -> Seq(QJob \cup {Nil})]
  BY DEF APITypeOK, Put

\* A disturbance keeps the type of the budget.
LEMMA SpendType ==
  ASSUME APITypeOK, NEW kind \in Kinds, Spend(kind)
  PROVE  left' \in [Kinds -> Nat]
  BY DEF APITypeOK, Spend

\* The versions the server makes of its object are QuarksJobs.
LEMMA VersionTypes ==
  ASSUME APITypeOK, NEW q \in QJobs, qjobs[q] # Nil, NEW o \in QJob
  PROVE  WithStatusOf(q, o) \in QJob /\ WithSpecOf(q, o) \in QJob
<1>1. qjobs[q] \in QJob /\ rev[q] + 1 \in Nat
  BY DEF APITypeOK
<1>2. WithStatusOf(q, o) \in QJob
  BY <1>1 DEF WithStatusOf, QJob
<1>3. WithSpecOf(q, o) \in QJob
  BY <1>1 DEF WithSpecOf, QJob
<1> QED
  BY <1>2, <1>3

\* A worker's copy is a QuarksJob, with its stamp set or cleared.
LEMMA CopyType ==
  ASSUME APITypeOK, NEW q \in QJobs, cache[q] # Nil, NEW t \in Nat \cup {Nil}
  PROVE  [cache[q] EXCEPT !.stamp = t] \in QJob
<1>1. cache[q] \in QJob
  BY DEF APITypeOK
<1> QED
  BY <1>1 DEF QJob

\* So is the job controller's copy, with the completed flag set.
LEMMA CompletedType ==
  ASSUME APITypeOK, NEW q \in QJobs, cache[q] # Nil
  PROVE  LET o == [cache[q] EXCEPT !.completed = TRUE] IN
         o \in QJob /\ o.rv = cache[q].rv /\ o.stamp = cache[q].stamp
<1>1. cache[q] \in QJob
  BY DEF APITypeOK
<1> QED
  BY <1>1 DEF QJob

\* A request keeps the types, whatever its outcome.
LEMMA ReplaceType ==
  ASSUME APITypeOK, NEW q \in QJobs, NEW o, NEW v, NEW ok,
         IsCurrent(q, o) => v \in QJob,
         Replace(q, o, v, ok)
  PROVE  /\ qjobs' \in [QJobs -> QJob \cup {Nil}]
         /\ rev' \in [QJobs -> Nat]
         /\ watch' \in [QJobs -> Seq(QJob \cup {Nil})]
         /\ left' \in [Kinds -> Nat]
<1>1. CASE UNCHANGED <<qjobs, rev, watch>>
  BY <1>1, SpendType DEF Replace, APITypeOK, Kinds
<1>2. CASE IsCurrent(q, o) /\ Put(q, v)
  BY <1>2, PutType, SpendType DEF Replace, APITypeOK, Kinds
<1> QED
  BY <1>1, <1>2 DEF Replace

-----------------------------------------------------------------------------
(* Copies.                                                                 *)

\* A copy stays a version whatever is written.
LEMMA PutKeepsKnown ==
  ASSUME APITypeOK, NEW q \in QJobs, NEW v \in QJob \cup {Nil},
         v # Nil => v.rv = rev[q] + 1, Put(q, v),
         NEW p \in QJobs, NEW o \in QJob \cup {Nil}, Known(p, o)
  PROVE  Known(p, o)'
<1>1. /\ qjobs'[q] = v /\ rev'[q] = rev[q] + 1
      /\ p # q => qjobs'[p] = qjobs[p] /\ rev'[p] = rev[p]
  BY DEF Put, APITypeOK
<1>2. o # Nil => o.rv \in Nat /\ rev[q] \in Nat
  BY DEF QJob, APITypeOK
<1> QED
  BY <1>1, <1>2 DEF Known, IsCurrent

\* A write leaves behind only versions that are no longer stored.
LEMMA PutKnown ==
  ASSUME APITypeOK, CopiesAreVersions, NEW q \in QJobs, NEW v \in QJob \cup {Nil},
         v # Nil => v.rv = rev[q] + 1, Put(q, v), UNCHANGED cache
  PROVE  CopiesAreVersions'
<1>1. /\ qjobs'[q] = v /\ rev'[q] = rev[q] + 1 /\ watch'[q] = Append(watch[q], v)
      /\ \A p \in QJobs \ {q} : /\ qjobs'[p] = qjobs[p] /\ rev'[p] = rev[p]
                                /\ watch'[p] = watch[p]
  BY DEF Put, APITypeOK
<1>2. ASSUME NEW p \in QJobs \ {q}, NEW o, Known(p, o)
      PROVE  Known(p, o)'
  BY <1>1, <1>2 DEF Known, IsCurrent
<1>3. ASSUME NEW o \in QJob \cup {Nil}, Known(q, o)
      PROVE  Known(q, o)'
  BY <1>3, PutKeepsKnown
<1>4. Known(q, v)'
  <2>1. rev[q] \in Nat
    BY DEF APITypeOK
  <2> QED
    BY <1>1, <2>1 DEF Known, IsCurrent
<1>5. /\ cache[q] \in QJob \cup {Nil}
      /\ watch[q] \in Seq(QJob \cup {Nil})
  BY DEF APITypeOK
<1>6. \A i \in DOMAIN watch'[q] : Known(q, watch[q][i])' \/ watch'[q][i] = v
  <2> SUFFICES ASSUME NEW i \in DOMAIN watch'[q] PROVE Known(q, watch[q][i])' \/ watch'[q][i] = v
    OBVIOUS
  <2>1. CASE i \in DOMAIN watch[q]
    <3>1. PICK o \in QJob \cup {Nil} : o = watch[q][i]
      BY <1>5, <2>1
    <3>2. watch'[q][i] = o
      BY <1>1, <1>5, <2>1, <3>1
    <3>3. Known(q, o)
      BY <2>1, <3>1 DEF CopiesAreVersions
    <3>4. Known(q, o)'
      BY <1>3, <3>3
    <3> QED
      BY <3>2, <3>4 DEF Known, IsCurrent
  <2>2. CASE i \notin DOMAIN watch[q]
    BY <1>1, <1>5, <2>2
  <2> QED
    BY <2>1, <2>2
<1> QED
  BY <1>1, <1>2, <1>3, <1>4, <1>5, <1>6 DEF CopiesAreVersions

LEMMA ReplaceKnown ==
  ASSUME APITypeOK, CopiesAreVersions, NEW q \in QJobs, NEW o, NEW v, NEW ok,
         IsCurrent(q, o) => (v \in QJob /\ v.rv = rev[q] + 1),
         Replace(q, o, v, ok), UNCHANGED cache
  PROVE  CopiesAreVersions'
<1>1. CASE UNCHANGED <<qjobs, rev, watch>>
  BY <1>1 DEF CopiesAreVersions, Known, IsCurrent
<1>2. CASE IsCurrent(q, o) /\ Put(q, v)
  BY <1>2, PutKnown
<1> QED
  BY <1>1, <1>2 DEF Replace

LEMMA ReplaceKeepsKnown ==
  ASSUME APITypeOK, NEW q \in QJobs, NEW o, NEW v, NEW ok,
         IsCurrent(q, o) => (v \in QJob /\ v.rv = rev[q] + 1),
         Replace(q, o, v, ok),
         NEW p \in QJobs, NEW c \in QJob \cup {Nil}, Known(p, c)
  PROVE  Known(p, c)'
<1>1. CASE UNCHANGED <<qjobs, rev, watch>>
  BY <1>1 DEF Known, IsCurrent
<1>2. CASE IsCurrent(q, o) /\ Put(q, v)
  BY <1>2, PutKeepsKnown
<1> QED
  BY <1>1, <1>2 DEF Replace

\* The informer hands on versions.
LEMMA InformerKnown ==
  ASSUME APITypeOK, CopiesAreVersions, NEW q \in QJobs, watch[q] # <<>>,
         cache' = [cache EXCEPT ![q] = Head(watch[q])],
         watch' = [watch EXCEPT ![q] = Tail(@)],
         UNCHANGED <<qjobs, rev>>
  PROVE  /\ CopiesAreVersions'
         /\ cache' \in [QJobs -> QJob \cup {Nil}]
         /\ watch' \in [QJobs -> Seq(QJob \cup {Nil})]
<1>1. /\ cache'[q] = watch[q][1]
      /\ \A p \in QJobs \ {q} : cache'[p] = cache[p] /\ watch'[p] = watch[p]
      /\ watch'[q] = Tail(watch[q])
      /\ watch[q] \in Seq(QJob \cup {Nil}) /\ watch[q] # <<>>
  BY DEF APITypeOK
<1>2. 1 \in DOMAIN watch[q]
  BY <1>1
<1>3. \A i \in DOMAIN watch'[q] : i + 1 \in DOMAIN watch[q] /\ watch'[q][i] = watch[q][i + 1]
  <2>1. PICK s \in Seq(QJob \cup {Nil}) : s = watch[q]
    BY <1>1
  <2>2. s # <<>> /\ watch'[q] = Tail(s)
    BY <1>1, <2>1
  <2>3. Len(s) \in Nat \ {0} /\ DOMAIN s = 1 .. Len(s)
    BY <2>2
  <2>4. DOMAIN Tail(s) = 1 .. (Len(s) - 1) /\ \A i \in 1 .. (Len(s) - 1) : Tail(s)[i] = s[i + 1]
    BY <2>2, <2>3
  <2>5. ASSUME NEW i \in DOMAIN watch'[q]
        PROVE  i + 1 \in DOMAIN watch[q] /\ watch'[q][i] = watch[q][i + 1]
    <3>1. i \in 1 .. (Len(s) - 1) /\ watch'[q][i] = Tail(s)[i]
      BY <2>2, <2>4
    <3>2. i + 1 \in DOMAIN s /\ Tail(s)[i] = s[i + 1]
      BY <2>3, <2>4, <3>1
    <3> QED
      BY <2>1, <3>1, <3>2
  <2> QED
    BY <2>5
<1>4. ASSUME NEW p \in QJobs, NEW o, Known(p, o)
      PROVE  Known(p, o)'
  BY <1>4 DEF Known, IsCurrent
<1>5. \A p \in QJobs : Known(p, qjobs[p]) /\ Known(p, cache[p])
  BY DEF CopiesAreVersions
<1>6. \A p \in QJobs : \A i \in DOMAIN watch[p] : Known(p, watch[p][i])
  BY DEF CopiesAreVersions
<1>7. ASSUME NEW p \in QJobs
      PROVE  Known(p, qjobs[p])' /\ Known(p, cache[p])'
  BY <1>1, <1>2, <1>4, <1>5, <1>6 DEF Known, IsCurrent
<1>8. ASSUME NEW p \in QJobs, NEW i \in DOMAIN watch'[p]
      PROVE  Known(p, watch[p][i])'
  <2>1. PICK j \in DOMAIN watch[p] : watch'[p][i] = watch[p][j]
    <3>1. CASE p = q
      BY <1>3, <3>1
    <3>2. CASE p # q
      BY <1>1, <3>2
    <3> QED
      BY <3>1, <3>2
  <2>2. Known(p, watch[p][j])
    BY <1>6
  <2> QED
    BY <1>4, <2>1, <2>2 DEF Known, IsCurrent
<1>9. watch[q][1] \in QJob \cup {Nil} /\ Tail(watch[q]) \in Seq(QJob \cup {Nil})
  BY <1>1, <1>2
<1> QED
  BY <1>7, <1>8, <1>9 DEF CopiesAreVersions, APITypeOK

\* Users write versions, and leave the completed flag as it is.
LEMMA UserWrites ==
  ASSUME APITypeOK, NEW q \in QJobs,
         UserDelete(q) \/ \E spec \in Specs : UserCreate(q, spec) \/ UserEdit(q, spec)
  PROVE  /\ UNCHANGED cache /\ left' \in [Kinds -> Nat]
         /\ \E v \in QJob \cup {Nil} :
              /\ Put(q, v)
              /\ v # Nil => v.rv = rev[q] + 1
              /\ (v # Nil /\ v.completed) => (qjobs[q] # Nil /\ qjobs[q].completed)
<1>1. "edit" \in Kinds
  BY DEF Kinds
<1>2. left' \in [Kinds -> Nat] /\ UNCHANGED cache
  BY <1>1, SpendType DEF UserDelete, UserCreate, UserEdit
<1>3. ASSUME NEW spec \in Specs, UserCreate(q, spec)
      PROVE  \E v \in QJob : Put(q, v) /\ v.rv = rev[q] + 1 /\ ~v.completed
  <2>1. spec \in SpecType
    BY APIAssumption
  <2>2. NewQJob(q, spec) \in QJob /\ NewQJob(q, spec).rv = rev[q] + 1 /\ ~NewQJob(q, spec).completed
    BY <2>1 DEF NewQJob, QJob, SpecType, APITypeOK
  <2> QED
    BY <1>3, <2>2 DEF UserCreate
<1>4. ASSUME NEW spec \in Specs, UserEdit(q, spec)
      PROVE  \E v \in QJob : /\ Put(q, v) /\ v.rv = rev[q] + 1
                             /\ v.completed = qjobs[q].completed /\ qjobs[q] # Nil
  <2>1. spec \in SpecType
    BY APIAssumption
  <2>2. qjobs[q] \in QJob /\ rev[q] + 1 \in Nat
    BY <1>4 DEF UserEdit, APITypeOK
  <2>3. WithSpecOf(q, spec) \in QJob /\ WithSpecOf(q, spec).rv = rev[q] + 1
        /\ WithSpecOf(q, spec).completed = qjobs[q].completed
    BY <2>1, <2>2 DEF WithSpecOf, QJob, SpecType
  <2> QED
    BY <1>4, <2>3 DEF UserEdit
<1>5. ASSUME UserDelete(q)
      PROVE  Put(q, Nil)
  BY <1>5 DEF UserDelete
<1> QED
  BY <1>2, <1>3, <1>4, <1>5
=============================================================================
