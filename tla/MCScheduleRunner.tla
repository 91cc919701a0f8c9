-------------------------- MODULE MCScheduleRunner --------------------------
(* Small instances of ScheduleRunner.                                      *)
EXTENDS ScheduleRunner, TLC

\* No progress reports: the scheduler does not look at them.
NoMark == << >>

Symmetry ==
  Permutations(Runs) \cup Permutations(Sources) \cup Permutations(Options)
     \cup Permutations(Runners)
\* Every source has a schedule, with the same option. One of the sources is analysed
\* by clients as well, with any option; they do not cancel.
OneSource == CHOOSE s \in Sources : TRUE
OneOption == CHOOSE o \in Options : TRUE

ServedInit ==
  /\ ScheduleInit
  /\ \A s \in Sources : schedules[s] # None /\ schedules[s].opts = OneOption

ServedNext ==
  /\ ScheduleNext
  /\ \A c \in Clients : pc'[c] # "revoke" /\ (asked'[c] = None \/ asked'[c][1] = OneSource)

ServedSpec == ServedInit /\ [][ServedNext]_allVars /\ ScheduleFairness
=============================================================================
