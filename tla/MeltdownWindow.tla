--------------------------- MODULE MeltdownWindow ---------------------------
(***************************************************************************)
(* What the meltdown of a QuarksJob promises, whoever reads or writes what *)
(* and in which order: a Job is created only at the end of a meltdown      *)
(* window, a window that was open for its whole duration yields at most    *)
(* one Job, and no window opens while a Job is about to be created.        *)
(* Triggers, queues, caches, workers and crashes do not appear: a window   *)
(* that they make void is abandoned.                                       *)
(***************************************************************************)
EXTENDS Naturals

CONSTANTS QJobs

VARIABLES phase,  \* of each QuarksJob
          runs    \* Jobs created for it

windowVars == <<phase, runs>>

\* No window; inside; past the end; past the end with the stamp cleared.
Phases == {"idle", "open", "over", "armed"}

WindowInit == /\ phase = [q \in QJobs |-> "idle"]
              /\ runs = [q \in QJobs |-> 0]

\* The stamp may be as old as the window is long by the time it is stored.
Open(q) == /\ phase[q] = "idle"
           /\ \E p \in {"open", "over"} : phase' = [phase EXCEPT ![q] = p]
           /\ UNCHANGED runs

\* One tick of the clock may end several windows.
Expire(ended) == /\ \A q \in ended : phase[q] = "open"
                 /\ phase' = [q \in QJobs |-> IF q \in ended THEN "over" ELSE phase[q]]
                 /\ UNCHANGED runs

Arm(q) == /\ phase[q] = "over"
          /\ phase' = [phase EXCEPT ![q] = "armed"]
          /\ UNCHANGED runs

Run(q) == /\ phase[q] = "armed"
          /\ phase' = [phase EXCEPT ![q] = "idle"]
          /\ runs' = [runs EXCEPT ![q] = @ + 1]

\* The QuarksJob is deleted, the pass fails, or the operator crashes.
Abandon(void) == /\ phase' = [q \in QJobs |-> IF q \in void THEN "idle" ELSE phase[q]]
                 /\ UNCHANGED runs

WindowNext == \/ \E q \in QJobs : Open(q) \/ Arm(q) \/ Run(q)
              \/ \E some \in SUBSET QJobs : Expire(some) \/ Abandon(some)

WindowSpec == WindowInit /\ [][WindowNext]_windowVars
=============================================================================
