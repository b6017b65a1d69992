---------------------------- MODULE RollingProofs ----------------------------
(***************************************************************************)
(* Proofs about the update of the operator's deployment, for any number of *)
(* QuarksJobs and workers, any lag of the caches and any disturbances.     *)
(* What ErrandProofs says about a step of an operator it says of both; what *)
(* is added here is that the one that does not make the step stays right.  *)
(***************************************************************************)
EXTENDS RollingUpdate, TLAPS

-----------------------------------------------------------------------------
(* The two instances.                                                      *)

\* They have the same QuarksJobs, Jobs and budget.
LEMMA SameTypes ==
  /\ New!QJob = Old!QJob /\ New!Run = Old!Run /\ New!SpecType = Old!SpecType
  /\ New!Kinds = Old!Kinds /\ New!PCs = Old!PCs
<1>1. New!Strategies = Old!Strategies /\ New!Refs = Old!Refs
  BY DEF New!Strategies, Old!Strategies, New!Refs, Old!Refs
<1>2. New!QJob = Old!QJob /\ New!SpecType = Old!SpecType
  BY <1>1 DEF New!QJob, Old!QJob, New!SpecType, Old!SpecType
<1>3. New!Run = Old!Run /\ New!Kinds = Old!Kinds
  BY DEF New!Run, Old!Run, New!Kinds, Old!Kinds
<1>4. New!PCs = Old!PCs
  BY DEF New!PCs, Old!PCs, New!Armed, Old!Armed
<1> QED
  BY <1>2, <1>3, <1>4

LEMMA NewAssumption ==
  /\ Nil \notin Nat /\ Nil \notin QJobs
  /\ Nil \notin New!QJob /\ Nil \notin New!Run
  /\ Specs \subseteq New!SpecType
  /\ Budget \in [New!Kinds -> Nat]
  /\ MaxLag \in Nat \ {0}
  /\ SkipDuration \in Nat \ {0}
  /\ Backoffs \subseteq Nat /\ Backoffs # {}
  BY RollingAssumption, SameTypes

\* What the invariant says of one operator.
OldInv == /\ Old!ErrandTypeOK /\ Old!CopiesAreVersions
          /\ Old!WorkersApart /\ Old!CopiesInv

NewInv == /\ New!ErrandTypeOK /\ New!CopiesAreVersions
          /\ New!WorkersApart /\ New!CopiesInv

-----------------------------------------------------------------------------
(* The old operator makes a step.                                          *)

LEMMA OldSteps ==
  ASSUME OldInv, [Old!ErrandNext]_(Old!errandVars)
  PROVE  /\ OldInv'
         /\ \A q \in QJobs : Old!Written(q)
<1>1. /\ Old!ErrandTypeOK /\ Old!CopiesAreVersions
      /\ Old!WorkersApart /\ Old!CopiesInv
  BY DEF OldInv
<1>2. Old!ErrandTypeOK'
  BY <1>1, RollingAssumption, Old!StepType
<1>3. Old!WorkersApart'
  BY <1>1, RollingAssumption, Old!StepApart
<1>4. Old!CopiesAreVersions'
  BY <1>1, RollingAssumption, Old!StepCopies
<1>5. Old!CopiesInv'
  BY <1>1, RollingAssumption, Old!StepCopiesInv
<1>6. ASSUME NEW q \in QJobs PROVE Old!Written(q)
  BY <1>1, RollingAssumption, Old!StepWrites
<1> QED
  BY <1>2, <1>3, <1>4, <1>5, <1>6 DEF OldInv

\* The other one sees what is written, or not.
LEMMA NewObserves ==
  ASSUME OldInv', NewInv, \A q \in QJobs : Old!Written(q),
         newWatch' = Relay("new", newWatch), UNCHANGED newVars
  PROVE  NewInv'
<1>1. /\ New!ErrandTypeOK /\ New!CopiesAreVersions
      /\ New!WorkersApart /\ New!CopiesInv
  BY DEF NewInv
<1>2. /\ qjobs' \in [QJobs -> New!QJob \cup {Nil}] /\ rev' \in [QJobs -> Nat]
      /\ left' \in [New!Kinds -> Nat] /\ now' \in Nat
      /\ jobs' \in [QJobs -> Nat] /\ runs' \in [QJobs -> Nat]
      /\ lastRun' \in [QJobs -> New!Run \cup {Nil}] /\ owed' \in [QJobs -> BOOLEAN]
  BY SameTypes DEF OldInv, Old!ErrandTypeOK, Old!APITypeOK
<1>3. \A q \in QJobs : New!Written(q)
  BY DEF Old!Written, New!Written
<1>4. \A q \in QJobs : New!Observed(q)
  BY DEF Relay, New!Observed
<1>5. newWatch' \in [QJobs -> Seq(New!QJob \cup {Nil})]
  <2>1. \A q \in QJobs : newWatch[q] \in Seq(New!QJob \cup {Nil})
    BY <1>1 DEF New!ErrandTypeOK, New!APITypeOK
  <2>2. \A q \in QJobs : newWatch'[q] \in Seq(New!QJob \cup {Nil})
    BY <1>2, <2>1 DEF Relay
  <2> QED
    BY <2>2 DEF Relay
<1>6. New!ErrandTypeOK'
  BY <1>1, <1>2, <1>5 DEF New!ErrandTypeOK, New!APITypeOK, newVars
<1>7. New!CopiesAreVersions'
  BY <1>1, <1>2, <1>3, <1>4, <1>5, NewAssumption, New!ObservedCopies
  DEF New!ErrandTypeOK, newVars
<1>8. New!WorkersApart'
  BY <1>1 DEF New!WorkersApart, newVars
<1>9. ASSUME NEW w \in Workers PROVE New!CopyInv(w)'
  <2>1. /\ New!CopyInv(w) /\ newPc'[w] = newPc[w] /\ newKey'[w] = newKey[w]
        /\ newObj'[w] = newObj[w]
    BY <1>1 DEF New!CopiesInv, newVars
  <2>2. newPc[w] # "idle" => newKey[w] \in QJobs
    BY <1>1, NewAssumption, New!BusyWorker DEF New!Busy
  <2> QED
    BY <1>1, <1>3, <2>1, <2>2, NewAssumption, New!WrittenForCopy
<1> QED
  BY <1>6, <1>7, <1>8, <1>9 DEF NewInv, New!CopiesInv

\* The old operator, or nobody, uses up a window.
LEMMA OldCharges ==
  ASSUME OldInv, [Old!ErrandNext]_(Old!errandVars), UNCHANGED newVars,
         cleared \in [QJobs -> Nat], CountClears,
         NEW q \in QJobs, Charged(q) <= cleared[q]
  PROVE  (Charged(q) <= cleared[q])'
<1>1. \/ runs'[q] = runs[q] /\ (Old!HasArmed(q)' => Old!HasArmed(q))
      \/ runs'[q] = runs[q] + 1 /\ Old!HasArmed(q) /\ ~Old!HasArmed(q)'
      \/ runs'[q] = runs[q] /\ Clears(q)
  <2>1. Old!ErrandTypeOK /\ Old!WorkersApart /\ Old!CopiesInv
    BY DEF OldInv
  <2>2. \/ runs'[q] = runs[q] /\ (Old!HasArmed(q)' => Old!HasArmed(q))
        \/ runs'[q] = runs[q] + 1 /\ Old!HasArmed(q) /\ ~Old!HasArmed(q)'
        \/ /\ runs'[q] = runs[q]
           /\ qjobs[q] # Nil /\ qjobs[q].stamp # Nil
           /\ qjobs'[q] # Nil /\ qjobs'[q].stamp = Nil
    BY <2>1, RollingAssumption, Old!Charging
  <2> QED
    BY <2>2 DEF Clears
<1>2. New!HasArmed(q)' = New!HasArmed(q)
  BY DEF New!HasArmed, newVars
<1>3. cleared'[q] = cleared[q] + IF Clears(q) THEN 1 ELSE 0
  BY DEF CountClears
<1>4. runs[q] \in Nat /\ cleared[q] \in Nat
  BY DEF OldInv, Old!ErrandTypeOK
<1> QED
  BY <1>1, <1>2, <1>3, <1>4 DEF Charged
-----------------------------------------------------------------------------
(* The new operator makes a step.                                          *)

LEMMA NewSteps ==
  ASSUME NewInv, [New!ErrandNext]_(New!errandVars)
  PROVE  /\ NewInv'
         /\ \A q \in QJobs : New!Written(q)
<1>1. /\ New!ErrandTypeOK /\ New!CopiesAreVersions
      /\ New!WorkersApart /\ New!CopiesInv
  BY DEF NewInv
<1>2. New!ErrandTypeOK'
  BY <1>1, NewAssumption, New!StepType
<1>3. New!WorkersApart'
  BY <1>1, NewAssumption, New!StepApart
<1>4. New!CopiesAreVersions'
  BY <1>1, NewAssumption, New!StepCopies
<1>5. New!CopiesInv'
  BY <1>1, NewAssumption, New!StepCopiesInv
<1>6. ASSUME NEW q \in QJobs PROVE New!Written(q)
  BY <1>1, NewAssumption, New!StepWrites
<1> QED
  BY <1>2, <1>3, <1>4, <1>5, <1>6 DEF NewInv

\* The other one sees what is written, or not.
LEMMA OldObserves ==
  ASSUME NewInv', OldInv, \A q \in QJobs : New!Written(q),
         oldWatch' = Relay("old", oldWatch), UNCHANGED oldVars
  PROVE  OldInv'
<1>1. /\ Old!ErrandTypeOK /\ Old!CopiesAreVersions
      /\ Old!WorkersApart /\ Old!CopiesInv
  BY DEF OldInv
<1>2. /\ qjobs' \in [QJobs -> Old!QJob \cup {Nil}] /\ rev' \in [QJobs -> Nat]
      /\ left' \in [Old!Kinds -> Nat] /\ now' \in Nat
      /\ jobs' \in [QJobs -> Nat] /\ runs' \in [QJobs -> Nat]
      /\ lastRun' \in [QJobs -> Old!Run \cup {Nil}] /\ owed' \in [QJobs -> BOOLEAN]
  BY SameTypes DEF NewInv, New!ErrandTypeOK, New!APITypeOK
<1>3. \A q \in QJobs : Old!Written(q)
  BY DEF New!Written, Old!Written
<1>4. \A q \in QJobs : Old!Observed(q)
  BY DEF Relay, Old!Observed
<1>5. oldWatch' \in [QJobs -> Seq(Old!QJob \cup {Nil})]
  <2>1. \A q \in QJobs : oldWatch[q] \in Seq(Old!QJob \cup {Nil})
    BY <1>1 DEF Old!ErrandTypeOK, Old!APITypeOK
  <2>2. \A q \in QJobs : oldWatch'[q] \in Seq(Old!QJob \cup {Nil})
    BY <1>2, <2>1 DEF Relay
  <2> QED
    BY <2>2 DEF Relay
<1>6. Old!ErrandTypeOK'
  BY <1>1, <1>2, <1>5 DEF Old!ErrandTypeOK, Old!APITypeOK, oldVars
<1>7. Old!CopiesAreVersions'
  BY <1>1, <1>2, <1>3, <1>4, <1>5, RollingAssumption, Old!ObservedCopies
  DEF Old!ErrandTypeOK, oldVars
<1>8. Old!WorkersApart'
  BY <1>1 DEF Old!WorkersApart, oldVars
<1>9. ASSUME NEW w \in Workers PROVE Old!CopyInv(w)'
  <2>1. /\ Old!CopyInv(w) /\ oldPc'[w] = oldPc[w] /\ oldKey'[w] = oldKey[w]
        /\ oldObj'[w] = oldObj[w]
    BY <1>1 DEF Old!CopiesInv, oldVars
  <2>2. oldPc[w] # "idle" => oldKey[w] \in QJobs
    BY <1>1, RollingAssumption, Old!BusyWorker DEF Old!Busy
  <2> QED
    BY <1>1, <1>3, <2>1, <2>2, RollingAssumption, Old!WrittenForCopy
<1> QED
  BY <1>6, <1>7, <1>8, <1>9 DEF OldInv, Old!CopiesInv

\* The new operator, or nobody, uses up a window.
LEMMA NewCharges ==
  ASSUME NewInv, [New!ErrandNext]_(New!errandVars), UNCHANGED oldVars,
         cleared \in [QJobs -> Nat], CountClears,
         NEW q \in QJobs, Charged(q) <= cleared[q]
  PROVE  (Charged(q) <= cleared[q])'
<1>1. \/ runs'[q] = runs[q] /\ (New!HasArmed(q)' => New!HasArmed(q))
      \/ runs'[q] = runs[q] + 1 /\ New!HasArmed(q) /\ ~New!HasArmed(q)'
      \/ runs'[q] = runs[q] /\ Clears(q)
  <2>1. New!ErrandTypeOK /\ New!WorkersApart /\ New!CopiesInv
    BY DEF NewInv
  <2>2. \/ runs'[q] = runs[q] /\ (New!HasArmed(q)' => New!HasArmed(q))
        \/ runs'[q] = runs[q] + 1 /\ New!HasArmed(q) /\ ~New!HasArmed(q)'
        \/ /\ runs'[q] = runs[q]
           /\ qjobs[q] # Nil /\ qjobs[q].stamp # Nil
           /\ qjobs'[q] # Nil /\ qjobs'[q].stamp = Nil
    BY <2>1, NewAssumption, New!Charging
  <2> QED
    BY <2>2 DEF Clears
<1>2. Old!HasArmed(q)' = Old!HasArmed(q)
  BY DEF Old!HasArmed, oldVars
<1>3. cleared'[q] = cleared[q] + IF Clears(q) THEN 1 ELSE 0
  BY DEF CountClears
<1>4. runs[q] \in Nat /\ cleared[q] \in Nat
  BY DEF NewInv, New!ErrandTypeOK
<1> QED
  BY <1>1, <1>2, <1>3, <1>4 DEF Charged

-----------------------------------------------------------------------------
(* Nothing is written: the clock, start-up and termination.                *)

\* The shared state but for the clock and the budget.
writtenVars == <<qjobs, rev, jobs, runs, lastRun, owed>>

LEMMA OldRests ==
  ASSUME OldInv, UNCHANGED <<writtenVars, oldVars, oldWatch>>,
         now' \in Nat, left' \in [Old!Kinds -> Nat]
  PROVE  OldInv' /\ \A q \in QJobs : Old!HasArmed(q)' = Old!HasArmed(q)
<1> USE DEF oldVars, writtenVars
<1>1. Old!ErrandTypeOK' /\ Old!WorkersApart'
  BY DEF OldInv, Old!ErrandTypeOK, Old!APITypeOK, Old!WorkersApart
<1>2. Old!CopiesAreVersions'
  BY DEF OldInv, Old!CopiesAreVersions, Old!Known, Old!IsCurrent
<1>3. Old!CopiesInv'
  BY DEF OldInv, Old!CopiesInv, Old!CopyInv, Old!Known, Old!IsCurrent
<1> QED
  BY <1>1, <1>2, <1>3 DEF OldInv, Old!HasArmed

LEMMA OldBegins ==
  ASSUME OldInv, UNCHANGED writtenVars, now' \in Nat, left' \in [Old!Kinds -> Nat],
         NEW listed \in {qjobs, NoObjects}, Old!Begin(listed)
  PROVE  OldInv' /\ \A q \in QJobs : ~Old!HasArmed(q)'
<1>1. Old!ErrandTypeOK /\ Old!CopiesAreVersions
  BY DEF OldInv
<1>2. /\ oldCache' \in [QJobs -> Old!QJob \cup {Nil}]
      /\ oldWatch' \in [QJobs -> Seq(Old!QJob \cup {Nil})]
      /\ oldNotices' \in [QJobs -> Nat]
      /\ oldDirty' \subseteq QJobs
      /\ oldTimer' \in [QJobs -> Nat \cup {Nil}]
      /\ oldPc' \in [Workers -> Old!PCs]
      /\ oldKey' \in [Workers -> QJobs \cup {Nil}]
      /\ oldObj' \in [Workers -> Old!QJob \cup {Nil}]
      /\ Old!CopiesAreVersions' /\ Old!WorkersApart' /\ Old!CopiesInv'
      /\ \A q \in QJobs : ~Old!HasArmed(q)'
  BY <1>1, RollingAssumption, Old!BeginCopies DEF NoObjects, writtenVars
<1>3. Old!ErrandTypeOK'
  BY <1>1, <1>2 DEF Old!ErrandTypeOK, Old!APITypeOK, writtenVars
<1> QED
  BY <1>2, <1>3 DEF OldInv

LEMMA NewRests ==
  ASSUME NewInv, UNCHANGED <<writtenVars, newVars, newWatch>>,
         now' \in Nat, left' \in [New!Kinds -> Nat]
  PROVE  NewInv' /\ \A q \in QJobs : New!HasArmed(q)' = New!HasArmed(q)
<1> USE DEF newVars, writtenVars
<1>1. New!ErrandTypeOK' /\ New!WorkersApart'
  BY DEF NewInv, New!ErrandTypeOK, New!APITypeOK, New!WorkersApart
<1>2. New!CopiesAreVersions'
  BY DEF NewInv, New!CopiesAreVersions, New!Known, New!IsCurrent
<1>3. New!CopiesInv'
  BY DEF NewInv, New!CopiesInv, New!CopyInv, New!Known, New!IsCurrent
<1> QED
  BY <1>1, <1>2, <1>3 DEF NewInv, New!HasArmed

LEMMA NewBegins ==
  ASSUME NewInv, UNCHANGED writtenVars, now' \in Nat, left' \in [New!Kinds -> Nat],
         NEW listed \in {qjobs, NoObjects}, New!Begin(listed)
  PROVE  NewInv' /\ \A q \in QJobs : ~New!HasArmed(q)'
<1>1. New!ErrandTypeOK /\ New!CopiesAreVersions
  BY DEF NewInv
<1>2. /\ newCache' \in [QJobs -> New!QJob \cup {Nil}]
      /\ newWatch' \in [QJobs -> Seq(New!QJob \cup {Nil})]
      /\ newNotices' \in [QJobs -> Nat]
      /\ newDirty' \subseteq QJobs
      /\ newTimer' \in [QJobs -> Nat \cup {Nil}]
      /\ newPc' \in [Workers -> New!PCs]
      /\ newKey' \in [Workers -> QJobs \cup {Nil}]
      /\ newObj' \in [Workers -> New!QJob \cup {Nil}]
      /\ New!CopiesAreVersions' /\ New!WorkersApart' /\ New!CopiesInv'
      /\ \A q \in QJobs : ~New!HasArmed(q)'
  BY <1>1, NewAssumption, New!BeginCopies DEF NoObjects, writtenVars
<1>3. New!ErrandTypeOK'
  BY <1>1, <1>2 DEF New!ErrandTypeOK, New!APITypeOK, writtenVars
<1> QED
  BY <1>2, <1>3 DEF NewInv
-----------------------------------------------------------------------------
(* The invariant is inductive.                                             *)

LEMMA InvParts ==
  ASSUME RollingTypeOK
  PROVE  RollingInv <=> /\ OldInv /\ NewInv
                        /\ \A q \in QJobs : Charged(q) <= cleared[q]
  BY DEF RollingTypeOK, RollingInv, OldInv, NewInv

\* What the deployment remembers keeps its type.
DeployTypeOK ==
  /\ crd \in {"none", "applied", "ready"}
  /\ stage \in [Operators -> Stages]
  /\ cleared \in [QJobs -> Nat]
  /\ hasty \in BOOLEAN

LEMMA CountType ==
  ASSUME cleared \in [QJobs -> Nat], CountClears
  PROVE  cleared' \in [QJobs -> Nat]
  BY DEF CountClears

LEMMA DeployType ==
  ASSUME DeployTypeOK, [RollingNext]_rollingVars
  PROVE  DeployTypeOK'
<1> USE DEF DeployTypeOK
<1>1. CASE UNCHANGED <<deployVars, hasty>> /\ CountClears
  BY <1>1, CountType DEF deployVars
<1>2. CASE UNCHANGED <<deployVars, cleared, hasty>>
  BY <1>2 DEF deployVars
<1>3. ASSUME NEW op \in Operators, ApplyCRDs(op) \/ StartFails(op)
      PROVE  DeployTypeOK'
  BY <1>3 DEF ApplyCRDs, StartFails, Stages
<1>4. CASE Establish \/ StartOld \/ StartNew \/ Deploy
  BY <1>4 DEF Establish, StartOld, StartNew, Deploy, Stages, Operators
<1>5. CASE TerminateOld \/ NewDies
  BY <1>5 DEF TerminateOld, NewDies, InProgress, Stages, Operators
<1>6. CASE \E q \in QJobs : OldWorks(q) \/ NewWorks(q) \/ UsersAct(q)
  BY <1>1, <1>6 DEF OldWorks, NewWorks, UsersAct, OfOld, OfNew
<1>7. CASE Unheard \/ Clock \/ UNCHANGED rollingVars
  BY <1>2, <1>7 DEF Unheard, Clock, rollingVars, deployVars
<1> QED
  BY <1>3, <1>4, <1>5, <1>6, <1>7 DEF RollingNext

\* A step in which one operator works, or a user.
LEMMA OldActs ==
  ASSUME OldInv, NewInv, DeployTypeOK, \A q \in QJobs : Charged(q) <= cleared[q],
         OfOld([Old!ErrandNext]_(Old!errandVars))
  PROVE  OldInv' /\ NewInv' /\ \A q \in QJobs : (Charged(q) <= cleared[q])'
<1> USE DEF OfOld
<1>1. OldInv' /\ \A q \in QJobs : Old!Written(q)
  BY OldSteps
<1>2. NewInv'
  BY <1>1, NewObserves
<1>3. \A q \in QJobs : (Charged(q) <= cleared[q])'
  BY OldCharges DEF DeployTypeOK
<1> QED
  BY <1>1, <1>2, <1>3

LEMMA NewActs ==
  ASSUME OldInv, NewInv, DeployTypeOK, \A q \in QJobs : Charged(q) <= cleared[q],
         OfNew([New!ErrandNext]_(New!errandVars))
  PROVE  OldInv' /\ NewInv' /\ \A q \in QJobs : (Charged(q) <= cleared[q])'
<1> USE DEF OfNew
<1>1. NewInv' /\ \A q \in QJobs : New!Written(q)
  BY NewSteps
<1>2. OldInv'
  BY <1>1, OldObserves
<1>3. \A q \in QJobs : (Charged(q) <= cleared[q])'
  BY NewCharges DEF DeployTypeOK
<1> QED
  BY <1>1, <1>2, <1>3

\* A step of the deployment is one of an operator, or writes nothing.
LEMMA Acts ==
  ASSUME RollingNext
  PROVE  \/ OfOld([Old!ErrandNext]_(Old!errandVars))
         \/ OfNew([New!ErrandNext]_(New!errandVars))
         \/ /\ UNCHANGED <<writtenVars, cleared>>
            /\ now' \in {now, now + 1}
            /\ UNCHANGED left \/ Old!Spend("crash") \/ New!Spend("crash")
            /\ \/ UNCHANGED <<oldVars, oldWatch>>
               \/ \E listed \in {qjobs, NoObjects} : Old!Begin(listed)
            /\ \/ UNCHANGED <<newVars, newWatch>>
               \/ \E listed \in {qjobs, NoObjects} : New!Begin(listed)
<1>1. ASSUME NEW q \in QJobs, OldWorks(q)
      PROVE  OfOld([Old!ErrandNext]_(Old!errandVars))
  BY <1>1 DEF OldWorks, OfOld, Old!ErrandNext
<1>2. ASSUME NEW q \in QJobs, NewWorks(q)
      PROVE  OfNew([New!ErrandNext]_(New!errandVars))
  BY <1>2 DEF NewWorks, OfNew, New!ErrandNext
<1>3. ASSUME NEW q \in QJobs, UsersAct(q)
      PROVE  \/ OfOld([Old!ErrandNext]_(Old!errandVars))
             \/ OfNew([New!ErrandNext]_(New!errandVars))
  BY <1>3 DEF UsersAct, OfOld, OfNew, Old!ErrandNext, New!ErrandNext
<1> USE DEF writtenVars, sharedVars
<1>4. ASSUME NEW op \in Operators, ApplyCRDs(op) \/ StartFails(op)
      PROVE  /\ UNCHANGED <<writtenVars, cleared, now, oldVars, oldWatch, newVars, newWatch>>
             /\ UNCHANGED left \/ Old!Spend("crash")
  BY <1>4 DEF ApplyCRDs, StartFails
<1>5. CASE Establish \/ Deploy
  BY <1>5 DEF Establish, Deploy
<1>6. CASE StartOld \/ TerminateOld
  BY <1>6 DEF StartOld, TerminateOld
<1>7. CASE StartNew \/ NewDies \/ Unheard
  BY <1>7 DEF StartNew, NewDies, Unheard
<1>8. CASE Clock
  BY <1>8 DEF Clock
<1> QED
  BY <1>1, <1>2, <1>3, <1>4, <1>5, <1>6, <1>7, <1>8 DEF RollingNext

LEMMA StepRolling ==
  ASSUME RollingTypeOK, RollingInv, [RollingNext]_rollingVars
  PROVE  RollingTypeOK' /\ RollingInv'
<1>1. OldInv /\ NewInv /\ DeployTypeOK /\ \A q \in QJobs : Charged(q) <= cleared[q]
  BY InvParts DEF RollingTypeOK, DeployTypeOK
<1>2. DeployTypeOK'
  BY <1>1, DeployType
<1>3. now \in Nat /\ left \in [Old!Kinds -> Nat]
  BY <1>1 DEF OldInv, Old!ErrandTypeOK, Old!APITypeOK
<1>4. ASSUME UNCHANGED <<writtenVars, cleared>>,
             now' \in {now, now + 1},
             UNCHANGED left \/ Old!Spend("crash") \/ New!Spend("crash"),
             \/ UNCHANGED <<oldVars, oldWatch>>
             \/ \E listed \in {qjobs, NoObjects} : Old!Begin(listed),
             \/ UNCHANGED <<newVars, newWatch>>
             \/ \E listed \in {qjobs, NoObjects} : New!Begin(listed)
      PROVE  OldInv' /\ NewInv' /\ \A q \in QJobs : (Charged(q) <= cleared[q])'
  <2>1. now' \in Nat /\ left' \in [Old!Kinds -> Nat] /\ left' \in [New!Kinds -> Nat]
    BY <1>3, <1>4, SameTypes DEF Old!Spend, New!Spend
  <2>2. OldInv' /\ \A q \in QJobs : Old!HasArmed(q)' => Old!HasArmed(q)
    BY <1>1, <1>4, <2>1, OldRests, OldBegins
  <2>3. NewInv' /\ \A q \in QJobs : New!HasArmed(q)' => New!HasArmed(q)
    BY <1>1, <1>4, <2>1, NewRests, NewBegins
  <2>4. ASSUME NEW q \in QJobs PROVE (Charged(q) <= cleared[q])'
    <3>1. runs'[q] = runs[q] /\ cleared'[q] = cleared[q]
      BY <1>4 DEF writtenVars
    <3>2. runs[q] \in Nat /\ cleared[q] \in Nat
      BY <1>1 DEF OldInv, Old!ErrandTypeOK, DeployTypeOK
    <3> QED
      BY <1>1, <2>2, <2>3, <3>1, <3>2 DEF Charged
  <2> QED
    BY <2>2, <2>3, <2>4
<1>5. OldInv' /\ NewInv' /\ \A q \in QJobs : (Charged(q) <= cleared[q])'
  <2>1. CASE RollingNext
    BY <1>1, <1>4, <2>1, OldActs, NewActs, Acts
  <2>2. CASE UNCHANGED rollingVars
    BY <1>3, <1>4, <2>2 DEF rollingVars, sharedVars, writtenVars
  <2> QED
    BY <2>1, <2>2
<1>6. RollingTypeOK'
  BY <1>2, <1>5 DEF OldInv, NewInv, DeployTypeOK, RollingTypeOK
<1>7. RollingInv'
  BY <1>5 DEF OldInv, NewInv, RollingInv
<1> QED
  BY <1>6, <1>7

LEMMA InitRolling == RollingInit => RollingTypeOK /\ RollingInv
<1> SUFFICES ASSUME RollingInit PROVE RollingTypeOK /\ RollingInv
  OBVIOUS
<1>1. Old!ErrandInit /\ New!ErrandInit
  BY DEF RollingInit
<1>2. Old!ErrandTypeOK /\ Old!WorkersApart
  BY <1>1, RollingAssumption, Old!InitType
<1>3. New!ErrandTypeOK /\ New!WorkersApart
  BY <1>1, NewAssumption, New!InitType
<1>4. Old!ErrandInv /\ New!ErrandInv
  BY <1>1, RollingAssumption, NewAssumption, Old!InitInv, New!InitInv
<1>5. Old!CopiesInv
  BY <1>2, <1>4, RollingAssumption, Old!InvCopies
<1>6. New!CopiesInv
  BY <1>3, <1>4, NewAssumption, New!InvCopies
<1>7. Old!CopiesAreVersions /\ New!CopiesAreVersions
  BY <1>4 DEF Old!ErrandInv, New!ErrandInv
<1>8. ASSUME NEW q \in QJobs PROVE Charged(q) <= cleared[q]
  <2>1. ~Old!HasArmed(q) /\ ~New!HasArmed(q) /\ runs[q] = 0
    BY <1>1 DEF Old!ErrandInit, New!ErrandInit, Old!HasArmed, New!HasArmed, Old!Armed, New!Armed
  <2>2. cleared[q] = 0
    BY DEF RollingInit
  <2> QED
    BY <2>1, <2>2 DEF Charged
<1>9. RollingTypeOK
  <2>1. stage \in [Operators -> Stages]
    BY DEF RollingInit, Operators, Stages
  <2>2. cleared \in [QJobs -> Nat]
    BY DEF RollingInit
  <2> QED
    BY <1>2, <1>3, <2>1, <2>2 DEF RollingInit, RollingTypeOK
<1> QED
  BY <1>2, <1>3, <1>5, <1>6, <1>7, <1>8, <1>9 DEF RollingInv

-----------------------------------------------------------------------------
(* Theorems.                                                               *)

\* The variables of both operators keep their types, whenever they start, end
\* and start again (root.go:64-83, controller.go:35-61).
THEOREM RollingTypeCorrect == RollingSafety => []RollingTypeOK
<1>1. RollingInit => RollingTypeOK /\ RollingInv
  BY InitRolling
<1>2. RollingTypeOK /\ RollingInv /\ [RollingNext]_rollingVars => (RollingTypeOK /\ RollingInv)'
  BY StepRolling
<1> QED
  BY <1>1, <1>2, PTL DEF RollingSafety

\* Whatever the other operator writes, copies are versions, keys are processed
\* by one worker of an operator, and what a worker concluded from its copy holds
\* unless the server will refuse its next call
\* (errand_reconciler.go:57-132, root.go:64-83).
THEOREM RollingInvCorrect == RollingSafety => []RollingInv
<1>1. RollingInit => RollingTypeOK /\ RollingInv
  BY InitRolling
<1>2. RollingTypeOK /\ RollingInv /\ [RollingNext]_rollingVars => (RollingTypeOK /\ RollingInv)'
  BY StepRolling
<1> QED
  BY <1>1, <1>2, PTL DEF RollingSafety

\* However two operators interleave, every Job uses up a window of its own
\* (errand_reconciler.go:94-118, root.go:69-72).
THEOREM JobPerWindowCorrect == RollingSafety => []JobPerWindow
<1>1. RollingTypeOK /\ RollingInv => JobPerWindow
  <2>1. ASSUME RollingTypeOK, NEW q \in QJobs, Charged(q) <= cleared[q]
        PROVE  runs[q] <= cleared[q]
    <3>1. runs[q] \in Nat /\ cleared[q] \in Nat
      BY <2>1 DEF RollingTypeOK, Old!ErrandTypeOK
    <3> QED
      BY <2>1, <3>1 DEF Charged
  <2> QED
    BY <2>1 DEF RollingInv, JobPerWindow
<1> QED
  BY <1>1, RollingTypeCorrect, RollingInvCorrect, PTL

\* No worker of either operator undoes what the other one, a user or the job
\* controller has written (errand_reconciler.go:80, 96, 104, 125, root.go:71).
THEOREM NothingLostCorrect == RollingSafety => NothingLost
<1> DEFINE Kept ==
      \A w \in Workers, q \in QJobs :
        \/ oldKey[w] = q /\ oldPc'[w] # oldPc[w]
        \/ newKey[w] = q /\ newPc'[w] # newPc[w]
        => (qjobs'[q] = qjobs[q] \/ Old!KeepsEdits(qjobs[q], qjobs'[q]))
<1>1. ASSUME RollingTypeOK, RollingInv, RollingNext, NEW w \in Workers, NEW q \in QJobs,
             \/ oldKey[w] = q /\ oldPc'[w] # oldPc[w]
             \/ newKey[w] = q /\ newPc'[w] # newPc[w],
             qjobs'[q] # qjobs[q]
      PROVE  Old!KeepsEdits(qjobs[q], qjobs'[q])
  <2>1. OldInv /\ NewInv
    BY <1>1, InvParts
  <2>2. CASE OfOld([Old!ErrandNext]_(Old!errandVars))
    <3>1. oldKey[w] = q /\ oldPc'[w] # oldPc[w] /\ [Old!ErrandNext]_(Old!errandVars)
      BY <1>1, <2>2 DEF OfOld, newVars
    <3>2. Old!ErrandTypeOK /\ Old!WorkersApart /\ Old!CopiesInv
      BY <2>1 DEF OldInv
    <3>3. Old!Step(w)
      BY <1>1, <3>1, <3>2, RollingAssumption, Old!MovesAreSteps
    <3> QED
      BY <1>1, <3>1, <3>2, <3>3, RollingAssumption, Old!StepKeepsEdits
  <2>3. CASE OfNew([New!ErrandNext]_(New!errandVars))
    <3>1. newKey[w] = q /\ newPc'[w] # newPc[w] /\ [New!ErrandNext]_(New!errandVars)
      BY <1>1, <2>3 DEF OfNew, oldVars
    <3>2. New!ErrandTypeOK /\ New!WorkersApart /\ New!CopiesInv
      BY <2>1 DEF NewInv
    <3>3. New!Step(w)
      BY <1>1, <3>1, <3>2, NewAssumption, New!MovesAreSteps
    <3>4. New!KeepsEdits(qjobs[q], qjobs'[q])
      BY <1>1, <3>1, <3>2, <3>3, NewAssumption, New!StepKeepsEdits
    <3> QED
      BY <3>4 DEF New!KeepsEdits, Old!KeepsEdits
  <2> QED
    BY <1>1, <2>2, <2>3, Acts DEF writtenVars
<1>2. RollingTypeOK /\ RollingInv /\ [RollingNext]_rollingVars => [Kept]_rollingVars
  BY <1>1
<1> QED
  BY <1>2, RollingTypeCorrect, RollingInvCorrect, PTL DEF RollingSafety, NothingLost
=============================================================================
