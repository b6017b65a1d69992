---------------------------- MODULE QuarksJobAPI ----------------------------
(***************************************************************************)
(* The QuarksJob objects of the API server and the operator's view of      *)
(* them.                                                                   *)
(*                                                                         *)
(* The operator reads through an informer cache that lags behind the       *)
(* server (watch holds the versions still on their way) and writes to the  *)
(* server, which refuses a write whose resource version is not the stored  *)
(* one.  The status is a subresource: Status().Update stores the status    *)
(* only, Update the rest only.  A request may fail without effect, or      *)
(* take effect while its reply is lost.                                    *)
(*                                                                         *)
(* Users create, edit and delete QuarksJobs here; what the controllers do  *)
(* is in the modules that extend this one.                                 *)
(***************************************************************************)
EXTENDS Integers, Sequences, ConfigRefs

CONSTANTS QJobs,      \* keys (namespace/name) of the QuarksJobs
          Nil,        \* no object, no time
          Specs,      \* the specs users write
          Budget,     \* bound: how often each kind of disturbance happens
          MaxLag      \* bound: versions of one object the cache can be behind

Strategies == {"manual", "now", "once", "done"}

SpecType == [strategy : Strategies, update : BOOLEAN, refs : Refs]

\* What the operator keeps in a QuarksJob.  stamp is status.lastReconcile.
QJob == [uid : Nat, rv : Nat,
         strategy : Strategies, update : BOOLEAN, refs : Refs,
         stamp : Nat \cup {Nil}, completed : BOOLEAN]

\* Disturbances, each happening at most Budget[k] times: edits by users,
\* changes of configuration, changes of its metadata, API faults, crashes of
\* the operator, attempts that meet a missing reference, job names that are
\* taken.
Kinds == {"edit", "config", "touch", "fault", "crash", "miss", "clash"}

ASSUME APIAssumption ==
  /\ Nil \notin Nat
  /\ Nil \notin QJob /\ Nil \notin QJobs
  /\ Specs \subseteq SpecType
  /\ Budget \in [Kinds -> Nat]
  /\ MaxLag \in Nat \ {0}

VARIABLES qjobs,   \* the stored QuarksJobs, Nil where there is none
          rev,     \* resource version of the last write to each key
          cache,   \* the informer cache
          watch,   \* versions not yet in the cache, oldest first
          left     \* what is left of the budget

apiVars == <<qjobs, rev, cache, watch, left>>

APITypeOK ==
  /\ qjobs \in [QJobs -> QJob \cup {Nil}]
  /\ rev \in [QJobs -> Nat]
  /\ cache \in [QJobs -> QJob \cup {Nil}]
  /\ watch \in [QJobs -> Seq(QJob \cup {Nil})]
  /\ left \in [Kinds -> Nat]

APIInit ==
  /\ qjobs = [q \in QJobs |-> Nil]
  /\ rev = [q \in QJobs |-> 0]
  /\ cache = [q \in QJobs |-> Nil]
  /\ watch = [q \in QJobs |-> <<>>]
  /\ left = Budget

IsAutoErrand(o) == o.strategy \in {"once", "done"}

Spend(kind) == /\ left[kind] > 0
               /\ left' = [left EXCEPT ![kind] = @ - 1]

-----------------------------------------------------------------------------
(* Writes.                                                                 *)

\* Store v under q and send it down the watch.
Put(q, v) ==
  /\ Len(watch[q]) < MaxLag
  /\ qjobs' = [qjobs EXCEPT ![q] = v]
  /\ rev' = [rev EXCEPT ![q] = @ + 1]
  /\ watch' = [watch EXCEPT ![q] = Append(@, v)]

\* Is the writer's copy o still the stored version?
IsCurrent(q, o) == qjobs[q] # Nil /\ qjobs[q].rv = o.rv

WithStatusOf(q, o) == [qjobs[q] EXCEPT !.rv = rev[q] + 1, !.stamp = o.stamp,
                                       !.completed = o.completed]

WithSpecOf(q, o) == [qjobs[q] EXCEPT !.rv = rev[q] + 1, !.strategy = o.strategy,
                                     !.update = o.update, !.refs = o.refs]

\* Replace without the check of the resource version, for mutants.
ReplaceUnlocked(q, o, v, ok) ==
  \/ ok /\ qjobs[q] # Nil /\ Put(q, v) /\ UNCHANGED left
  \/ ~ok /\ Spend("fault") /\ UNCHANGED <<qjobs, rev, watch>>

\* A request to replace copy o by v, and whether the caller sees it succeed:
\* stored; refused as a conflict or because the object is gone; lost; stored
\* with the reply lost.
Replace(q, o, v, ok) ==
  \/ ok /\ IsCurrent(q, o) /\ Put(q, v) /\ UNCHANGED left
  \/ ~ok /\ ~IsCurrent(q, o) /\ UNCHANGED <<qjobs, rev, watch, left>>
  \/ ~ok /\ Spend("fault") /\ UNCHANGED <<qjobs, rev, watch>>
  \/ ~ok /\ Spend("fault") /\ IsCurrent(q, o) /\ Put(q, v)

\* Mutant of StatusUpdate: the status is patched, the last writer wins.
StatusPatch(q, o, ok) == ReplaceUnlocked(q, o, WithStatusOf(q, o), ok)

\* Mutant of StatusUpdate: the whole object is written, the status ignored.
StatusIgnored(q, o, ok) == Replace(q, o, WithSpecOf(q, o), ok)

StatusUpdate(q, o, ok) == Replace(q, o, WithStatusOf(q, o), ok)

\* Mutant of Update: the spec is patched.
Patch(q, o, ok) == ReplaceUnlocked(q, o, WithSpecOf(q, o), ok)

Update(q, o, ok) == Replace(q, o, WithSpecOf(q, o), ok)

-----------------------------------------------------------------------------
(* Users.                                                                  *)

NewQJob(q, spec) ==
  [uid |-> rev[q] + 1, rv |-> rev[q] + 1,
   strategy |-> spec.strategy, update |-> spec.update, refs |-> spec.refs,
   stamp |-> Nil, completed |-> FALSE]

UserCreate(q, spec) ==
  /\ qjobs[q] = Nil
  /\ Spend("edit")
  /\ Put(q, NewQJob(q, spec))
  /\ UNCHANGED cache

UserEdit(q, spec) ==
  /\ qjobs[q] # Nil
  /\ WithSpecOf(q, spec) # [qjobs[q] EXCEPT !.rv = rev[q] + 1]
  /\ Spend("edit")
  /\ Put(q, WithSpecOf(q, spec))
  /\ UNCHANGED cache

UserDelete(q) ==
  /\ qjobs[q] # Nil
  /\ Spend("edit")
  /\ Put(q, Nil)
  /\ UNCHANGED cache

-----------------------------------------------------------------------------
(* Copies of QuarksJobs.                                                   *)

\* A copy of q is not newer than the last write, and it is the stored object
\* if it has its resource version.
Known(q, o) ==
  o # Nil => /\ o.rv <= rev[q]
             /\ IsCurrent(q, o) => o = qjobs[q]

CopiesAreVersions ==
  \A q \in QJobs : /\ Known(q, qjobs[q]) /\ Known(q, cache[q])
                   /\ \A i \in DOMAIN watch[q] : Known(q, watch[q][i])
=============================================================================
