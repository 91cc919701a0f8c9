------------------------ MODULE ScheduleRunnerProofs ------------------------
(***************************************************************************)
(* Proofs about ScheduleRunner: everything AnalysisRuns promises of a      *)
(* state still holds with the scheduler beside it, and in one process a    *)
(* source lock is never left behind, for any sets of sources, runs,        *)
(* requests, runners, workers and cadences.                                *)
(*                                                                         *)
(* RunnersInv is inductive.  The part of it that speaks of the analysis    *)
(* runs follows from the lemmas of AnalysisRunsProofs, which hold for a    *)
(* runner as for a request; each action of the scheduler then has a lemma  *)
(* for its own variables.  What AnalysisRuns promises of a step (the       *)
(* ledger, ended runs, progress) follows from its lemmas in the same way.  *)
(***************************************************************************)
EXTENDS ScheduleRunner, AnalysisRunsProofs

-----------------------------------------------------------------------------
(* calculate_next_run.                                                     *)

\* The next occurrence lies strictly after the moment it is computed for, and
\* on the grid of the cadence.
LEMMA NextRunIsAhead ==
  ASSUME NEW every \in Nat \ {0}, NEW t \in Nat
  PROVE  /\ NextRun(every, t) \in Nat
         /\ NextRun(every, t) > t
         /\ NextRun(every, t) <= t + every
<1> DEFINE q == t \div every
<1>1. q \in Int /\ q * every <= t /\ t < q * every + every /\ q >= 0
  OBVIOUS
<1>2. NextRun(every, t) = q * every + every
  BY <1>1 DEF NextRun
<1> HIDE DEF q
<1> QED
  BY <1>1, <1>2

-----------------------------------------------------------------------------
(* What the steps of AnalysisRuns mean for the runners.                    *)

\* A step of one caller moves no other caller, and forgets no source.
LEMMA CallerStepFrame ==
  ASSUME IndInv, NEW c \in Callers, CallerStep(c)
  PROVE  /\ \A d \in Callers \ {c} : pc'[d] = pc[d]
         /\ tracked \subseteq tracked'
<1> USE DEF dbVars, rowVars, Goto, Reply, IndInv, TypeOK
<1>1. ASSUME NEW r \in Runs, FlushSource(c, r) \/ InsertRun(c, r)
      PROVE  /\ \A d \in Callers \ {c} : pc'[d] = pc[d]
             /\ tracked \subseteq tracked'
  BY <1>1 DEF FlushSource, InsertRun, InsertQueued
<1>2. CASE LookupActive(c) \/ RequeryActive(c)
  BY <1>2 DEF LookupActive, RequeryActive, Deduplicate
<1>3. CASE Enqueue(c) \/ EnqueueRaises(c) \/ MarkUnqueued(c)
  BY <1>3 DEF Enqueue, EnqueueRaises, OnEnqueueError, MarkUnqueued
<1>4. CASE CancelRevoke(c) \/ CancelWrite(c)
  BY <1>4 DEF CancelRevoke, CancelWrite
<1> QED
  BY <1>1, <1>2, <1>3, <1>4 DEF CallerStep

LEMMA ClientRequestFrame ==
  ASSUME IndInv, NEW c \in Clients, ClientRequest(c)
  PROVE  /\ \A d \in Callers \ {c} : pc'[d] = pc[d]
         /\ tracked' = tracked
BY DEF ClientRequest, RequestAnalysis, CancelRead, dbVars, IndInv, TypeOK, Callers

LEMMA WorkerStepFrame ==
  ASSUME NEW w \in Workers, WorkerStep(w) \/ WorkerCrash(w)
  PROVE  pc' = pc /\ tracked' = tracked
BY DEF WorkerStep, WorkerCrash, Claim, Report, CrawlReturns, CrawlRaises,
       SaveRead, SaveWrite, SaveRaises, FailRead, FailWrite,
       callerVars, dbVars, rowVars

\* A call of create_for_source goes from step to step until it has answered.
LEMMA RunnerCalls ==
  ASSUME IndInv, NEW p \in Runners, CallerStep(p),
         pc[p] \notin {"flush", "revoke", "cancel"}
  PROVE  /\ pc'[p] \notin {"idle", "flush", "revoke", "cancel"}
         /\ pc'[p] \in CallerSteps \cup Replies
<1> USE DEF IndInv, TypeOK, Goto, Reply, Replies, CallerSteps, Callers
<1>1. ASSUME NEW r \in Runs, FlushSource(p, r) \/ InsertRun(p, r)
      PROVE  pc'[p] \in {"enqueue", "requery"}
  BY <1>1 DEF FlushSource, InsertRun, InsertQueued
<1>2. CASE LookupActive(p) \/ RequeryActive(p)
  BY <1>2 DEF LookupActive, RequeryActive, Deduplicate
<1>3. CASE Enqueue(p) \/ EnqueueRaises(p) \/ MarkUnqueued(p)
  BY <1>3 DEF Enqueue, EnqueueRaises, OnEnqueueError, MarkUnqueued
<1>4. CASE CancelRevoke(p) \/ CancelWrite(p)
  BY <1>4 DEF CancelRevoke, CancelWrite
<1> QED
  BY <1>1, <1>2, <1>3, <1>4 DEF CallerStep

-----------------------------------------------------------------------------
(* The part of the invariant that speaks of the analysis runs.             *)

\* A runner asks like a request that found its source.
LEMMA AcquireInv ==
  ASSUME RunnersInv, NEW p \in Runners, Acquire(p)
  PROVE  IndInv'
<1> USE DEF RunnersInv
<1>1. CASE UNCHANGED callerVars
  BY <1>1, StutterInv DEF Acquire, vars
<1>2. CASE /\ pc' = [pc EXCEPT ![p] = "lookup"]
           /\ asked' = [asked EXCEPT ![p] = <<row[p].source, row[p].opts>>]
           /\ mine' = mine
  <2> DEFINE request == <<row[p].source, row[p].opts>>
  <2>1. /\ row[p] \in Copies /\ row[p].source \in tracked
        /\ pc[p] = "idle"
    BY DEF Acquire, RunnerRegisters, ScheduleTypeOK
  <2>2. /\ request \in Sources \X Options
        /\ request # None
        /\ request[1] \in tracked
    BY <2>1, NamesAssumption DEF Copies
  <2>3. /\ mine' = [mine EXCEPT ![p] = mine[p]]
        /\ mine[p] \in Runs \cup {None}
        /\ "lookup" \in CallerSteps \cup Replies
        /\ p \in Callers
    BY <1>2 DEF IndInv, TypeOK, Callers, CallerSteps
  <2> HIDE DEF request
  <2>4. asked' = [asked EXCEPT ![p] = request]
    BY <1>2 DEF request
  <2>5. /\ UNCHANGED <<dbVars, brokerVars, workerVars, crashes>>
        /\ pc[p] \notin {"enqueue", "unqueue", "cancel"}
        /\ "lookup" \notin {"enqueue", "unqueue", "revoke", "cancel"}
        /\ IndInv
    BY <2>1 DEF Acquire
  <2>6. pc' = [pc EXCEPT ![p] = "lookup"]
    BY <1>2
  <2> HIDE DEF RunnersInv
  <2> QED
    BY <2>2, <2>3, <2>4, <2>5, <2>6, RequestMovesInv
<1> QED
  BY <1>1, <1>2 DEF Acquire

LEMMA UnlockInv ==
  ASSUME RunnersInv, NEW p \in Runners, Unlock(p)
  PROVE  IndInv'
<1>1. /\ IndInv
      /\ p \in Callers
      /\ pc' = [pc EXCEPT ![p] = "idle"]
      /\ asked' = [asked EXCEPT ![p] = asked[p]]
      /\ mine' = [mine EXCEPT ![p] = mine[p]]
      /\ asked[p] \in (Sources \X Options) \cup {None}
      /\ mine[p] \in Runs \cup {None}
      /\ "idle" \in CallerSteps \cup Replies
  BY DEF Unlock, RunnersInv, IndInv, TypeOK, Callers, CallerSteps
<1>2. pc[p] \notin {"enqueue", "unqueue", "cancel"}
  BY DEF Unlock, Replies
<1>3. UNCHANGED <<dbVars, brokerVars, workerVars, crashes>>
  BY DEF Unlock
<1>4. /\ "idle" \notin {"flush", "lookup", "insert", "requery"}
      /\ "idle" \notin {"enqueue", "unqueue", "revoke", "cancel"}
  OBVIOUS
<1> QED
  BY <1>1, <1>2, <1>3, <1>4, RequestMovesInv

\* A runner that fails or dies lets go of what it holds.
LEMMA RunnerFailsInv ==
  ASSUME RunnersInv, NEW p \in Runners, CycleRaises(p) \/ RunnerCrash(p)
  PROVE  IndInv'
<1> USE DEF RunnersInv, CycleRaises, RunnerCrash, Reply, callerVars
<1>1. IndInv /\ Crash /\ UNCHANGED <<dbVars, brokerVars, workerVars>>
  OBVIOUS
<1>2. \/ UNCHANGED callerVars
      \/ /\ pc' = [pc EXCEPT ![p] = "raised"] \/ pc' = [pc EXCEPT ![p] = "idle"]
         /\ asked' = [asked EXCEPT ![p] = None]
         /\ mine' = [mine EXCEPT ![p] = None]
  OBVIOUS
<1>3. TypeOK'
  <2>1. crashes' \in 0..MaxCrashes
    BY <1>1, NamesAssumption DEF Crash, IndInv, TypeOK
  <2>2. /\ pc' \in [Callers -> CallerSteps \cup Replies]
        /\ asked' \in [Callers -> (Sources \X Options) \cup {None}]
        /\ mine' \in [Callers -> Runs \cup {None}]
    BY <1>2 DEF IndInv, TypeOK, CallerSteps, Replies
  <2> QED
    BY <1>1, <2>1, <2>2 DEF IndInv, TypeOK, dbVars, brokerVars, workerVars
<1>4. WorkerRegisters' /\ MessagesHaveRows'
  BY <1>1 DEF IndInv, WorkerRegisters, MessagesHaveRows, dbVars, brokerVars, workerVars
<1>5. CallerRegisters'
  BY <1>1, <1>2 DEF IndInv, TypeOK, CallerRegisters, Callers, dbVars
<1> QED
  BY <1>1, <1>3, <1>4, <1>5, CrashInv DEF workerVars

\* Whatever the scheduler does, the invariant of the analysis runs is kept.
LEMMA CoreInv ==
  ASSUME RunnersInv, [ScheduleNext]_allVars
  PROVE  IndInv'
<1> USE DEF RunnersInv
<1>1. CASE UNCHANGED coreVars
  BY <1>1, StutterInv DEF coreVars, vars, dbVars, brokerVars, callerVars, workerVars
<1>2. CASE CoreStep
  BY <1>2, CallerStepInv, RequestAnalysisInv, CancelReadInv, WorkerStepInv,
     ClientCrashInv, WorkerCrashInv DEF CoreStep, ClientRequest, Callers
<1>3. ASSUME NEW p \in Runners, RunnerStep(p)
      PROVE  IndInv'
  <2>1. CASE Call(p)
    BY <2>1, CallerStepInv DEF Call, Callers
  <2>2. CASE Acquire(p) \/ Unlock(p)
    BY <2>2, AcquireInv, UnlockInv
  <2>3. CASE \/ \E browser \in BOOLEAN : CycleStarts(p, browser)
             \/ TakeRow(p) \/ Advance(p) \/ RecordMissed(p)
    BY <2>3, <1>1 DEF CycleStarts, TakeRow, Advance, RecordMissed, Commit
  <2> QED
    BY <1>3, <2>1, <2>2, <2>3 DEF RunnerStep
<1>4. ASSUME NEW p \in Runners, CycleRaises(p) \/ RunnerCrash(p)
      PROVE  IndInv'
  BY <1>4, RunnerFailsInv
<1>5. CASE LocalCrash
  BY <1>5, ProcessCrashInv DEF LocalCrash
<1>6. CASE Tick \/ ScheduleEdit \/ \E s \in Sources : ExpireLock(s)
  BY <1>6, <1>1
     DEF Tick, ScheduleEdit, CreateSchedule, PatchSchedule, DeleteSchedule, Edit,
         ExpireLock
<1> QED
  BY <1>1, <1>2, <1>3, <1>4, <1>5, <1>6 DEF ScheduleNext, allVars

-----------------------------------------------------------------------------
(* The scheduler's own variables.                                          *)

LEMMA ScheduleInitInv ==
  ASSUME ScheduleInit
  PROVE  RunnersInv
<1> USE DEF ScheduleInit
<1>1. IndInv
  BY InitInv
<1>2. ScheduleTypeOK
  <2>1. \A k \in Cadences : NextRun(k, 0) \in Nat
    BY CadencesAssumption, NextRunIsAhead
  <2>2. \A k \in Cadences, o \in Options :
          [id |-> 0, enabled |-> TRUE, every |-> k, opts |-> o,
           next |-> NextRun(k, 0)] \in Rows
    BY <2>1 DEF Rows
  <2>3. schedules \in [Sources -> Rows \cup {None}]
    BY <2>2
  <2>4. time \in 0..MaxTime /\ edits \in 0..MaxEdits
    BY BoundsAssumption
  <2> QED
    BY <2>3, <2>4 DEF ScheduleTypeOK, RunnerSteps
<1>3. RunnerRegisters /\ LockIsInUse
  BY DEF RunnerRegisters, LockIsInUse, Init, Callers
<1> QED
  BY <1>1, <1>2, <1>3 DEF RunnersInv

\* A step beside the scheduler leaves its invariant alone.
LEMMA BesideInv ==
  ASSUME RunnersInv, UNCHANGED scheduleVars, tracked \subseteq tracked',
         \A p \in Runners : pc'[p] = pc[p]
  PROVE  ScheduleTypeOK' /\ RunnerRegisters' /\ LockIsInUse'
<1> USE DEF RunnersInv, scheduleVars, cycleVars
<1>1. ScheduleTypeOK'
  BY DEF ScheduleTypeOK
<1>2. RunnerRegisters'
  BY DEF RunnerRegisters, ScheduleTypeOK, Copies
<1>3. LockIsInUse'
  BY DEF LockIsInUse
<1> QED
  BY <1>1, <1>2, <1>3

LEMMA CoreStepInv ==
  ASSUME RunnersInv, CoreStep
  PROVE  ScheduleTypeOK' /\ RunnerRegisters' /\ LockIsInUse'
<1>1. UNCHANGED scheduleVars
  BY DEF CoreStep
<1>2. tracked \subseteq tracked' /\ \A p \in Runners : pc'[p] = pc[p]
  <2>1. CASE \E c \in Clients : ClientRequest(c) \/ CallerStep(c)
    BY <2>1, CallerStepFrame, ClientRequestFrame, NamesAssumption
       DEF RunnersInv, Callers
  <2>2. CASE \E w \in Workers : WorkerStep(w) \/ WorkerCrash(w)
    BY <2>2, WorkerStepFrame
  <2>3. CASE \E c \in Clients : ClientCrash(c)
    BY <2>3, NamesAssumption
       DEF ClientCrash, dbVars, Callers, RunnersInv, IndInv, TypeOK
  <2> QED
    BY <2>1, <2>2, <2>3 DEF CoreStep
<1> QED
  BY <1>1, <1>2, BesideInv

LEMMA TickInv ==
  ASSUME RunnersInv, Tick
  PROVE  ScheduleTypeOK' /\ RunnerRegisters' /\ LockIsInUse'
<1> USE DEF Tick, RunnersInv, cycleVars, coreVars, dbVars, callerVars
<1>1. ScheduleTypeOK'
  BY BoundsAssumption DEF ScheduleTypeOK
<1>2. RunnerRegisters' /\ LockIsInUse'
  BY DEF RunnerRegisters, LockIsInUse
<1> QED
  BY <1>1, <1>2

\* The schedule API writes rows of known sources.
LEMMA EditInv ==
  ASSUME RunnersInv, NEW s \in tracked, NEW new \in Rows \cup {None}, Edit(s, new)
  PROVE  ScheduleTypeOK' /\ RunnerRegisters' /\ LockIsInUse'
<1> USE DEF Edit, RunnersInv, cycleVars, coreVars, dbVars, callerVars
<1>1. ScheduleTypeOK'
  <2>1. edits' \in 0..MaxEdits
    BY BoundsAssumption DEF ScheduleTypeOK
  <2>2. schedules' \in [Sources -> Rows \cup {None}]
    BY DEF ScheduleTypeOK, IndInv, TypeOK
  <2> QED
    BY <2>1, <2>2 DEF ScheduleTypeOK
<1>2. RunnerRegisters' /\ LockIsInUse'
  BY DEF RunnerRegisters, LockIsInUse, ScheduleTypeOK
<1> QED
  BY <1>1, <1>2

LEMMA ScheduleEditInv ==
  ASSUME RunnersInv, ScheduleEdit
  PROVE  ScheduleTypeOK' /\ RunnerRegisters' /\ LockIsInUse'
<1> USE DEF RunnersInv
<1>1. \A k \in Cadences : NextRun(k, time) \in Nat
  BY CadencesAssumption, NextRunIsAhead DEF ScheduleTypeOK
<1>2. ASSUME NEW s \in Sources, NEW k \in Cadences, NEW o \in Options,
             NEW on \in BOOLEAN, CreateSchedule(s, k, o, on)
      PROVE  ScheduleTypeOK' /\ RunnerRegisters' /\ LockIsInUse'
  <2> DEFINE new == [id |-> edits + 1, enabled |-> on, every |-> k, opts |-> o,
                     next |-> NextRun(k, time)]
  <2>1. s \in tracked /\ Edit(s, new)
    BY <1>2 DEF CreateSchedule
  <2>2. new \in Rows
    BY <1>1, BoundsAssumption DEF Rows, ScheduleTypeOK
  <2> QED
    BY <2>1, <2>2, EditInv
<1>3. ASSUME NEW s \in Sources, NEW k \in Cadences \cup {None},
             NEW o \in Options \cup {None}, NEW on \in BOOLEAN \cup {None},
             PatchSchedule(s, k, o, on)
      PROVE  ScheduleTypeOK' /\ RunnerRegisters' /\ LockIsInUse'
  <2> DEFINE old   == schedules[s]
             every == IF k = None THEN old.every ELSE k
             new   == [id |-> old.id,
                       enabled |-> IF on = None THEN old.enabled ELSE on,
                       every |-> every,
                       opts |-> IF o = None THEN old.opts ELSE o,
                       next |-> IF k # None \/ on = TRUE THEN NextRun(every, time)
                                                         ELSE old.next]
  <2>1. s \in tracked /\ old \in Rows /\ Edit(s, new)
    BY <1>3 DEF PatchSchedule, RunnerRegisters, ScheduleTypeOK
  <2>2. every \in Cadences
    BY <2>1 DEF Rows
  <2>3. new \in Rows
    BY <1>1, <2>1, <2>2 DEF Rows
  <2> QED
    BY <2>1, <2>3, EditInv
<1>4. ASSUME NEW s \in Sources, NEW hard \in BOOLEAN, DeleteSchedule(s, hard)
      PROVE  ScheduleTypeOK' /\ RunnerRegisters' /\ LockIsInUse'
  <2> DEFINE new == IF hard THEN None ELSE [schedules[s] EXCEPT !.enabled = FALSE]
  <2>1. s \in tracked /\ schedules[s] \in Rows /\ Edit(s, new)
    BY <1>4 DEF DeleteSchedule, RunnerRegisters, ScheduleTypeOK
  <2>2. new \in Rows \cup {None}
    BY <2>1 DEF Rows
  <2> QED
    BY <2>1, <2>2, EditInv
<1> QED
  BY <1>2, <1>3, <1>4 DEF ScheduleEdit

-----------------------------------------------------------------------------
(* The steps of a cycle.                                                   *)

\* What a step of runner p has to do for its registers and its lock, so that
\* the invariant holds for all of them.
LEMMA RunnerMovesInv ==
  ASSUME RunnersInv, NEW p \in Runners, ScheduleTypeOK',
         tracked \subseteq tracked',
         \A s \in Sources : schedules'[s] # None => schedules[s] # None,
         \A q \in Runners \ {p} : /\ rpc'[q] = rpc[q] /\ todo'[q] = todo[q]
                                  /\ row'[q] = row[q] /\ pc'[q] = pc[q],
         \A x \in todo'[p] : x.source \in tracked,
         rpc'[p] \notin {"asleep", "loop"} => row'[p] # None,
         row'[p] # None => row'[p].source \in tracked,
         rpc'[p] = "calling" <=> pc'[p] # "idle",
         pc'[p] \notin {"flush", "revoke", "cancel"},
         Runtime = "local" =>
           \A s \in Sources : lock'[s] # None =>
             \/ lock'[s] = lock[s] /\ lock[s] # p
             \/ lock'[s] = p /\ rpc'[p] = "calling" /\ row'[p].source = s
  PROVE  RunnerRegisters' /\ LockIsInUse'
<1> USE DEF RunnersInv
<1>1. RunnerRegisters'
  <2>1. \A s \in Sources : schedules'[s] # None => s \in tracked'
    BY DEF RunnerRegisters
  <2>2. ASSUME NEW q \in Runners
        PROVE  /\ \A x \in todo'[q] : x.source \in tracked'
               /\ rpc'[q] \notin {"asleep", "loop"} => row'[q] # None
               /\ row'[q] # None => row'[q].source \in tracked'
               /\ rpc'[q] = "calling" <=> pc'[q] # "idle"
               /\ pc'[q] \notin {"flush", "revoke", "cancel"}
    <3>1. CASE q = p
      BY <3>1
    <3>2. CASE q # p
      BY <3>2 DEF RunnerRegisters
    <3> QED
      BY <3>1, <3>2
  <2> QED
    BY <2>1, <2>2 DEF RunnerRegisters
<1>2. LockIsInUse'
  <2> SUFFICES ASSUME Runtime = "local", NEW s \in Sources, lock'[s] # None
               PROVE  rpc'[lock'[s]] = "calling" /\ row'[lock'[s]].source = s
    BY DEF LockIsInUse
  <2>1. CASE lock'[s] = lock[s] /\ lock[s] # p
    <3>1. lock[s] \in Runners \ {p}
      BY <2>1 DEF ScheduleTypeOK
    <3>2. rpc[lock[s]] = "calling" /\ row[lock[s]].source = s
      BY <2>1 DEF LockIsInUse
    <3> QED
      BY <2>1, <3>1, <3>2
  <2>2. CASE lock'[s] = p /\ rpc'[p] = "calling" /\ row'[p].source = s
    BY <2>2
  <2> QED
    BY <2>1, <2>2
<1> QED
  BY <1>1, <1>2

\* A runner that is not inside create_for_source holds no lock.
LEMMA NoLockOutside ==
  ASSUME RunnersInv, Runtime = "local", NEW p \in Runners, rpc[p] # "calling"
  PROVE  \A s \in Sources : lock[s] # p
BY ScheduleNamesAssumption DEF RunnersInv, LockIsInUse

\* The end of a cycle, and of its registers.
LEMMA SleepInv ==
  ASSUME RunnersInv, NEW p \in Runners, Sleep(p),
         pc' = [pc EXCEPT ![p] = "idle"] \/ (pc' = pc /\ pc[p] = "idle"),
         UNCHANGED <<dbVars, time, schedules, edits, fired, missed>>,
         lock' \in [Sources -> Runners \cup {None}],
         Runtime = "local" =>
           \A s \in Sources : lock'[s] # None => lock'[s] = lock[s] /\ lock[s] # p
  PROVE  ScheduleTypeOK' /\ RunnerRegisters' /\ LockIsInUse'
<1> USE DEF RunnersInv, Sleep, dbVars
<1>1. ScheduleTypeOK'
  BY DEF ScheduleTypeOK, RunnerSteps
<1>2. /\ rpc'[p] = "asleep" /\ todo'[p] = {} /\ row'[p] = None /\ pc'[p] = "idle"
      /\ \A q \in Runners \ {p} : /\ rpc'[q] = rpc[q] /\ todo'[q] = todo[q]
                                  /\ row'[q] = row[q] /\ pc'[q] = pc[q]
  BY DEF ScheduleTypeOK, IndInv, TypeOK, Callers
<1> QED
  BY <1>1, <1>2, RunnerMovesInv

LEMMA CycleStartsInv ==
  ASSUME RunnersInv, NEW p \in Runners, NEW browser \in BOOLEAN,
         CycleStarts(p, browser)
  PROVE  ScheduleTypeOK' /\ RunnerRegisters' /\ LockIsInUse'
<1> USE DEF RunnersInv, CycleStarts, coreVars, dbVars, callerVars
<1>1. Due(time) \subseteq Copies /\ \A x \in Due(time) : x.source \in tracked
  BY DEF Due, Copies, Rows, ScheduleTypeOK, IndInv, TypeOK
<1>2. ScheduleTypeOK'
  BY <1>1, BoundsAssumption DEF ScheduleTypeOK, RunnerSteps
<1>3. /\ rpc'[p] = "loop" /\ todo'[p] = Due(time) /\ row'[p] = row[p]
      /\ \A q \in Runners \ {p} : /\ rpc'[q] = rpc[q] /\ todo'[q] = todo[q]
                                  /\ row'[q] = row[q] /\ pc'[q] = pc[q]
  BY DEF ScheduleTypeOK
<1>4. pc'[p] = "idle" /\ (row[p] # None => row[p].source \in tracked)
  BY DEF RunnerRegisters
<1>5. Runtime = "local" => \A s \in Sources : lock'[s] = lock[s] /\ lock[s] # p
  BY NoLockOutside
<1> QED
  BY <1>1, <1>2, <1>3, <1>4, <1>5, RunnerMovesInv

LEMMA TakeRowInv ==
  ASSUME RunnersInv, NEW p \in Runners, TakeRow(p)
  PROVE  ScheduleTypeOK' /\ RunnerRegisters' /\ LockIsInUse'
<1> USE DEF RunnersInv, TakeRow, coreVars, callerVars, dbVars
<1>1. pc[p] = "idle"
  BY DEF RunnerRegisters
<1>2. Runtime = "local" => \A s \in Sources : lock'[s] = lock[s] /\ lock[s] # p
  BY NoLockOutside
<1>3. CASE Sleep(p)
  BY <1>1, <1>2, <1>3, SleepInv DEF ScheduleTypeOK
<1>4. ASSUME NEW x \in todo[p],
             row' = [row EXCEPT ![p] = x],
             todo' = [todo EXCEPT ![p] = @ \ {x}],
             rpc' = [rpc EXCEPT ![p] = IF ready[p] THEN "lock" ELSE "unavailable"],
             UNCHANGED <<now, ready, expired>>
      PROVE  ScheduleTypeOK' /\ RunnerRegisters' /\ LockIsInUse'
  <2>1. x \in Copies /\ x # None /\ x.source \in tracked
    BY ScheduleNamesAssumption DEF ScheduleTypeOK, RunnerRegisters
  <2>2. ScheduleTypeOK'
    BY <1>4, <2>1 DEF ScheduleTypeOK, RunnerSteps
  <2>3. /\ rpc'[p] \in {"lock", "unavailable"} /\ row'[p] = x
        /\ todo'[p] = todo[p] \ {x} /\ pc'[p] = "idle"
        /\ \A q \in Runners \ {p} : /\ rpc'[q] = rpc[q] /\ todo'[q] = todo[q]
                                    /\ row'[q] = row[q] /\ pc'[q] = pc[q]
    BY <1>1, <1>4 DEF ScheduleTypeOK
  <2>4. \A y \in todo'[p] : y.source \in tracked
    BY <2>3 DEF RunnerRegisters
  <2> QED
    BY <1>2, <2>1, <2>2, <2>3, <2>4, RunnerMovesInv
<1> QED
  BY <1>3, <1>4

\* A runner that goes on with the row it is at.
LEMMA GoOnInv ==
  ASSUME RunnersInv, NEW p \in Runners, NEW step \in RunnerSteps, GoOn(p, step),
         ScheduleTypeOK', tracked \subseteq tracked',
         \A s \in Sources : schedules'[s] # None => schedules[s] # None,
         \A q \in Runners \ {p} : pc'[q] = pc[q],
         step # "asleep" /\ (step # "loop" => row[p] # None),
         step = "calling" <=> pc'[p] # "idle",
         pc'[p] \notin {"flush", "revoke", "cancel"},
         Runtime = "local" =>
           \A s \in Sources : lock'[s] # None =>
             \/ lock'[s] = lock[s] /\ lock[s] # p
             \/ lock'[s] = p /\ step = "calling" /\ row[p].source = s
  PROVE  RunnerRegisters' /\ LockIsInUse'
<1> USE DEF RunnersInv, GoOn
<1>1. /\ rpc'[p] = step /\ todo'[p] = todo[p] /\ row'[p] = row[p]
      /\ \A q \in Runners \ {p} : /\ rpc'[q] = rpc[q] /\ todo'[q] = todo[q]
                                  /\ row'[q] = row[q]
  BY DEF ScheduleTypeOK
<1>2. /\ \A x \in todo[p] : x.source \in tracked
      /\ row[p] # None => row[p].source \in tracked
  BY DEF RunnerRegisters
<1> QED
  BY <1>1, <1>2, RunnerMovesInv

LEMMA AcquireScheduleInv ==
  ASSUME RunnersInv, NEW p \in Runners, Acquire(p)
  PROVE  ScheduleTypeOK' /\ RunnerRegisters' /\ LockIsInUse'
<1> USE DEF RunnersInv, Acquire, dbVars
<1>1. /\ pc[p] = "idle" /\ row[p] \in Copies /\ row[p] # None
      /\ row[p].source \in Sources
  BY DEF RunnerRegisters, ScheduleTypeOK, Copies
<1>2. Runtime = "local" => \A s \in Sources : lock[s] # p
  BY NoLockOutside
<1>3. CASE /\ lock' = [lock EXCEPT ![row[p].source] = p]
           /\ pc' = [pc EXCEPT ![p] = "lookup"]
           /\ GoOn(p, "calling")
  <2>1. ScheduleTypeOK'
    BY <1>3 DEF GoOn, ScheduleTypeOK, RunnerSteps
  <2>2. pc'[p] = "lookup" /\ \A q \in Runners \ {p} : pc'[q] = pc[q]
    BY <1>3 DEF IndInv, TypeOK, Callers
  <2>3. \A s \in Sources : \/ lock'[s] = p /\ row[p].source = s
                           \/ lock'[s] = lock[s]
    BY <1>3 DEF ScheduleTypeOK
  <2>4. "calling" \in RunnerSteps
    BY DEF RunnerSteps
  <2>5. Runtime = "local" =>
          \A s \in Sources : lock'[s] # None =>
            \/ lock'[s] = lock[s] /\ lock[s] # p
            \/ lock'[s] = p /\ row[p].source = s
    BY <1>2, <2>3
  <2> QED
    BY <1>1, <1>3, <2>1, <2>2, <2>4, <2>5, GoOnInv
<1>4. ASSUME NEW step \in {"loop", "recover"}, GoOn(p, step),
             UNCHANGED <<callerVars, lock>>
      PROVE  ScheduleTypeOK' /\ RunnerRegisters' /\ LockIsInUse'
  <2>1. ScheduleTypeOK' /\ step \in RunnerSteps
    BY <1>4 DEF GoOn, ScheduleTypeOK, RunnerSteps
  <2> QED
    BY <1>1, <1>2, <1>4, <2>1, GoOnInv DEF callerVars
<1> QED
  BY <1>3, <1>4

LEMMA CallInv ==
  ASSUME RunnersInv, NEW p \in Runners, Call(p)
  PROVE  ScheduleTypeOK' /\ RunnerRegisters' /\ LockIsInUse'
<1> USE DEF RunnersInv, Call
<1>1. /\ pc'[p] \notin {"idle", "flush", "revoke", "cancel"}
      /\ tracked \subseteq tracked'
      /\ \A q \in Runners \ {p} : pc'[q] = pc[q]
  BY RunnerCalls, CallerStepFrame DEF RunnerRegisters, Callers
<1>2. row[p] \in Copies /\ row[p] # None
  BY DEF RunnerRegisters, ScheduleTypeOK
<1>3. ScheduleTypeOK'
  <2>1. <<row[p].source, row[p].next>> \in Sources \X Nat
    BY <1>2 DEF Copies
  <2>2. fired' \in [Runs -> (Sources \X Nat) \cup {None}]
    BY <2>1 DEF ScheduleTypeOK
  <2>3. expired' \in [Runners -> BOOLEAN]
    <3>1. expired[p] \in BOOLEAN
      BY DEF ScheduleTypeOK
    <3>2. (expired[p] \/ pc'[p] = "requery") \in BOOLEAN
      OBVIOUS
    <3> QED
      BY <3>2 DEF ScheduleTypeOK
  <2> QED
    BY <2>2, <2>3 DEF ScheduleTypeOK
<1>4. /\ todo'[p] = todo[p] /\ row'[p] = row[p] /\ rpc'[p] = "calling"
      /\ lock' = lock /\ schedules' = schedules
      /\ \A q \in Runners \ {p} : /\ rpc'[q] = rpc[q] /\ todo'[q] = todo[q]
                                  /\ row'[q] = row[q]
  OBVIOUS
<1>5. /\ \A x \in todo[p] : x.source \in tracked
      /\ row[p].source \in tracked
  BY <1>2 DEF RunnerRegisters
<1>6. Runtime = "local" =>
        \A s \in Sources : lock[s] # None =>
          lock[s] # p \/ row[p].source = s
  BY DEF LockIsInUse
<1> QED
  BY <1>1, <1>2, <1>3, <1>4, <1>5, <1>6, RunnerMovesInv

LEMMA UnlockScheduleInv ==
  ASSUME RunnersInv, NEW p \in Runners, Unlock(p)
  PROVE  ScheduleTypeOK' /\ RunnerRegisters' /\ LockIsInUse'
<1> USE DEF RunnersInv, Unlock
<1>1. /\ row[p] # None /\ row[p].source \in Sources
      /\ pc'[p] = "idle" /\ \A q \in Runners \ {p} : pc'[q] = pc[q]
  BY DEF RunnerRegisters, IndInv, TypeOK, Callers
<1>2. lock' \in [Sources -> Runners \cup {None}]
  BY DEF FreeLock, ScheduleTypeOK
<1>3. Runtime = "local" =>
        \A s \in Sources : lock'[s] # None => lock'[s] = lock[s] /\ lock[s] # p
  <2> SUFFICES ASSUME Runtime = "local", NEW s \in Sources, lock'[s] # None
               PROVE  lock'[s] = lock[s] /\ lock[s] # p
    OBVIOUS
  <2>1. FreeLock(p)
    OBVIOUS
  <2>2. CASE lock[s] = p
    <3>1. row[p].source = s
      BY <2>2, ScheduleNamesAssumption DEF LockIsInUse
    <3> QED
      BY <2>1, <2>2, <3>1 DEF FreeLock, ScheduleTypeOK
  <2>3. CASE lock[s] # p
    BY <2>1, <2>3 DEF FreeLock, ScheduleTypeOK
  <2> QED
    BY <2>2, <2>3
<1>4. CASE Sleep(p)
  BY <1>2, <1>3, <1>4, SleepInv
<1>5. ASSUME NEW step \in {"recover", "advance"}, GoOn(p, step)
      PROVE  ScheduleTypeOK' /\ RunnerRegisters' /\ LockIsInUse'
  <2>1. ScheduleTypeOK' /\ step \in RunnerSteps
    BY <1>2, <1>5 DEF GoOn, ScheduleTypeOK, RunnerSteps
  <2> QED
    BY <1>1, <1>3, <1>5, <2>1, GoOnInv DEF dbVars
<1> QED
  BY <1>4, <1>5 DEF AfterCall

\* A commit of a cycle moves its row on, if it is still there.
LEMMA CommitInv ==
  ASSUME RunnersInv, NEW p \in Runners, rpc[p] # "calling", rpc[p] # "asleep",
         rpc[p] # "loop",
         NEW inserted \in SUBSET (Sources \X Nat), Commit(p, inserted)
  PROVE  ScheduleTypeOK' /\ RunnerRegisters' /\ LockIsInUse'
<1> USE DEF RunnersInv, Commit, coreVars, dbVars, callerVars
<1>1. /\ pc[p] = "idle" /\ row[p] \in Copies /\ row[p] # None
      /\ row[p].source \in Sources
  BY DEF RunnerRegisters, ScheduleTypeOK, Copies
<1>2. Runtime = "local" => \A s \in Sources : lock'[s] = lock[s] /\ lock[s] # p
  BY NoLockOutside
<1>3. CASE RowGone(p)
  <2>1. Sleep(p) /\ UNCHANGED <<schedules, missed>>
    BY <1>3
  <2>2. lock' \in [Sources -> Runners \cup {None}]
    BY DEF ScheduleTypeOK
  <2> QED
    BY <1>1, <1>2, <2>1, <2>2, SleepInv
<1>4. CASE ~RowGone(p)
  <2>1. schedules[row[p].source] \in Rows /\ row[p].every \in Cadences
    BY <1>1, <1>4 DEF RowGone, ScheduleTypeOK, Copies
  <2>2. NextRun(row[p].every, now[p]) \in Nat
    BY <2>1, CadencesAssumption, NextRunIsAhead DEF ScheduleTypeOK
  <2>3. /\ schedules' \in [Sources -> Rows \cup {None}]
        /\ \A s \in Sources : schedules'[s] # None => schedules[s] # None
    <3> DEFINE new == [schedules[row[p].source] EXCEPT
                         !.next = NextRun(row[p].every, now[p])]
    <3>1. new \in Rows /\ schedules[row[p].source] # None
      BY <2>1, <2>2, ScheduleNamesAssumption DEF Rows
    <3>2. schedules' = [schedules EXCEPT ![row[p].source] = new]
      BY <1>4 DEF MoveNext
    <3> HIDE DEF new
    <3> QED
      BY <1>1, <3>1, <3>2 DEF ScheduleTypeOK
  <2>4. GoOn(p, "loop") /\ missed' = missed \cup inserted
    BY <1>4
  <2>5. ScheduleTypeOK'
    BY <2>3, <2>4 DEF GoOn, ScheduleTypeOK, RunnerSteps
  <2>6. "loop" \in RunnerSteps
    BY DEF RunnerSteps
  <2> QED
    BY <1>1, <1>2, <2>3, <2>4, <2>5, <2>6, GoOnInv
<1> QED
  BY <1>3, <1>4

LEMMA RunnerStepInv ==
  ASSUME RunnersInv, NEW p \in Runners, RunnerStep(p)
  PROVE  ScheduleTypeOK' /\ RunnerRegisters' /\ LockIsInUse'
<1>1. CASE \/ \E browser \in BOOLEAN : CycleStarts(p, browser)
           \/ TakeRow(p)
  BY <1>1, CycleStartsInv, TakeRowInv
<1>2. CASE Acquire(p) \/ Call(p) \/ Unlock(p)
  BY <1>2, AcquireScheduleInv, CallInv, UnlockScheduleInv
<1>3. CASE Advance(p)
  BY <1>3, CommitInv DEF Advance
<1>4. CASE RecordMissed(p)
  <2>1. row[p] \in Copies
    BY <1>4 DEF RecordMissed, RunnersInv, RunnerRegisters, ScheduleTypeOK
  <2>2. {<<row[p].source, row[p].next>>} \in SUBSET (Sources \X Nat)
    BY <2>1 DEF Copies
  <2> QED
    BY <1>4, <2>2, CommitInv DEF RecordMissed
<1> QED
  BY <1>1, <1>2, <1>3, <1>4 DEF RunnerStep

-----------------------------------------------------------------------------
(* Locks that expire, and crashes.                                         *)

LEMMA ExpireLockInv ==
  ASSUME RunnersInv, NEW s \in Sources, ExpireLock(s)
  PROVE  ScheduleTypeOK' /\ RunnerRegisters' /\ LockIsInUse'
<1> USE DEF RunnersInv, ExpireLock, cycleVars, coreVars, dbVars, callerVars
<1>1. ScheduleTypeOK'
  BY DEF ScheduleTypeOK
<1>2. RunnerRegisters' /\ LockIsInUse'
  BY DEF RunnerRegisters, LockIsInUse
<1> QED
  BY <1>1, <1>2

LEMMA CycleRaisesInv ==
  ASSUME RunnersInv, NEW p \in Runners, CycleRaises(p)
  PROVE  ScheduleTypeOK' /\ RunnerRegisters' /\ LockIsInUse'
<1> USE DEF RunnersInv, CycleRaises, dbVars
<1>1. CASE rpc[p] # "calling"
  <2>1. Sleep(p) /\ UNCHANGED <<callerVars, lock>>
    BY <1>1
  <2>2. pc[p] = "idle"
    BY <1>1 DEF RunnerRegisters
  <2>3. Runtime = "local" => \A s \in Sources : lock'[s] = lock[s] /\ lock[s] # p
    BY <1>1, <2>1, NoLockOutside
  <2>4. lock' \in [Sources -> Runners \cup {None}]
    BY <2>1 DEF ScheduleTypeOK
  <2> QED
    BY <2>1, <2>2, <2>3, <2>4, SleepInv DEF callerVars
<1>2. CASE rpc[p] = "calling"
  <2>1. /\ Reply(p, "raised") /\ expired' = [expired EXCEPT ![p] = TRUE]
        /\ UNCHANGED <<rpc, now, ready, todo, row, lock>>
    BY <1>2
  <2>2. ScheduleTypeOK'
    BY <2>1 DEF ScheduleTypeOK
  <2>3. pc'[p] = "raised" /\ \A q \in Runners \ {p} : pc'[q] = pc[q]
    BY <2>1 DEF Reply, IndInv, TypeOK, Callers
  <2>4. /\ \A x \in todo[p] : x.source \in tracked
        /\ row[p] # None /\ row[p].source \in tracked
    BY <1>2 DEF RunnerRegisters
  <2>5. Runtime = "local" =>
          \A s \in Sources : lock[s] # None =>
            lock[s] # p \/ row[p].source = s
    BY DEF LockIsInUse
  <2> QED
    BY <1>2, <2>1, <2>2, <2>3, <2>4, <2>5, RunnerMovesInv
<1> QED
  BY <1>1, <1>2

LEMMA RunnerCrashInv ==
  ASSUME RunnersInv, NEW p \in Runners, RunnerCrash(p)
  PROVE  ScheduleTypeOK' /\ RunnerRegisters' /\ LockIsInUse'
<1>1. /\ Sleep(p) /\ pc' = [pc EXCEPT ![p] = "idle"] /\ Runtime = "docker"
      /\ UNCHANGED <<dbVars, time, schedules, edits, lock, fired, missed>>
  BY DEF RunnerCrash
<1>2. lock' \in [Sources -> Runners \cup {None}]
  BY <1>1 DEF RunnersInv, ScheduleTypeOK
<1> QED
  BY <1>1, <1>2, SleepInv

LEMMA LocalCrashInv ==
  ASSUME RunnersInv, LocalCrash
  PROVE  ScheduleTypeOK' /\ RunnerRegisters' /\ LockIsInUse'
<1> USE DEF RunnersInv, LocalCrash, ProcessCrash, dbVars
<1>1. ScheduleTypeOK'
  BY DEF ScheduleTypeOK, RunnerSteps
<1>2. RunnerRegisters' /\ LockIsInUse'
  BY DEF RunnerRegisters, LockIsInUse, Callers
<1> QED
  BY <1>1, <1>2

-----------------------------------------------------------------------------
(* The theorems.                                                           *)

LEMMA ScheduleStepInv ==
  ASSUME RunnersInv, [ScheduleNext]_allVars
  PROVE  RunnersInv'
<1>1. IndInv'
  BY CoreInv
<1>2. ScheduleTypeOK' /\ RunnerRegisters' /\ LockIsInUse'
  <2>1. CASE CoreStep
    BY <2>1, CoreStepInv
  <2>2. CASE Tick \/ ScheduleEdit
    BY <2>2, TickInv, ScheduleEditInv
  <2>3. CASE \E p \in Runners : RunnerStep(p) \/ CycleRaises(p) \/ RunnerCrash(p)
    BY <2>3, RunnerStepInv, CycleRaisesInv, RunnerCrashInv
  <2>4. CASE LocalCrash \/ \E s \in Sources : ExpireLock(s)
    BY <2>4, LocalCrashInv, ExpireLockInv
  <2>5. CASE UNCHANGED allVars
    BY <2>5, BesideInv DEF allVars, coreVars, dbVars, callerVars
  <2> QED
    BY <2>1, <2>2, <2>3, <2>4, <2>5 DEF ScheduleNext
<1> QED
  BY <1>1, <1>2 DEF RunnersInv

\* With the scheduler beside the API and the workers, whatever the schedules,
\* the edits, the locks that expire and the crashes, the invariant of the
\* analysis runs and that of the runners hold in every reachable state.
THEOREM RunnersInvariance == ScheduleSpec => []RunnersInv
<1>1. ScheduleInit => RunnersInv
  BY ScheduleInitInv
<1>2. RunnersInv /\ [ScheduleNext]_allVars => RunnersInv'
  BY ScheduleStepInv
<1> QED
  BY <1>1, <1>2, PTL DEF ScheduleSpec

\* A scheduler, even an overlapping one, never gives a source a second active
\* run.
THEOREM ScheduledRunIsUnique == ScheduleSpec => []OneActivePerSource
BY RunnersInvariance, PTL DEF RunnersInv, IndInv

\* In one process a source lock is held only inside enqueue_with_source_lock.
THEOREM LockIsNotLeaked == ScheduleSpec => []LockIsInUse
BY RunnersInvariance, PTL DEF RunnersInv

\* A step that takes a lock from its holder is the holder's, or the expiry.
LEMMA LockTaken ==
  ASSUME RunnersInv, [ScheduleNext]_allVars,
         NEW s \in Sources, lock[s] # None, lock'[s] # lock[s]
  PROVE  lock'[s] = None /\ (rpc'[lock[s]] # rpc[lock[s]] \/ ExpireLock(s))
<1> USE DEF RunnersInv
<1>1. ASSUME NEW p \in Runners, Acquire(p)
      PROVE  FALSE
  BY <1>1 DEF Acquire, ScheduleTypeOK
<1>2. ASSUME NEW p \in Runners, Unlock(p)
      PROVE  lock'[s] = None /\ rpc'[lock[s]] # rpc[lock[s]]
  <2>1. FreeLock(p)
    BY <1>2 DEF Unlock
  <2>2. lock[s] = p /\ lock'[s] = None
    BY <2>1 DEF FreeLock, ScheduleTypeOK
  <2>3. rpc[p] = "calling" /\ rpc'[p] # "calling"
    BY <1>2 DEF Unlock, AfterCall, Sleep, GoOn, ScheduleTypeOK
  <2> QED
    BY <2>2, <2>3
<1>3. ASSUME NEW p \in Runners,
             \/ \E browser \in BOOLEAN : CycleStarts(p, browser)
             \/ TakeRow(p) \/ Call(p) \/ Advance(p) \/ RecordMissed(p)
             \/ CycleRaises(p) \/ RunnerCrash(p)
      PROVE  FALSE
  BY <1>3 DEF CycleStarts, TakeRow, Call, Advance, RecordMissed, Commit,
              CycleRaises, RunnerCrash
<1>4. ASSUME NEW t \in Sources, ExpireLock(t)
      PROVE  lock'[s] = None /\ ExpireLock(s)
  <2>1. s = t
    BY <1>4 DEF ExpireLock, ScheduleTypeOK
  <2>2. lock'[s] = None
    BY <1>4, <2>1 DEF ExpireLock, ScheduleTypeOK
  <2> QED
    BY <1>4, <2>1, <2>2
<1>5. CASE LocalCrash
  <2>1. lock'[s] = None /\ rpc'[lock[s]] = "asleep"
    BY <1>5 DEF LocalCrash, ScheduleTypeOK
  <2>2. rpc[lock[s]] = "calling"
    BY <1>5 DEF LocalCrash, ProcessCrash, LockIsInUse
  <2> QED
    BY <2>1, <2>2
<1>6. CASE \/ CoreStep \/ Tick \/ ScheduleEdit \/ UNCHANGED allVars
  BY <1>6 DEF CoreStep, Tick, ScheduleEdit, CreateSchedule, PatchSchedule,
              DeleteSchedule, Edit, allVars, scheduleVars
<1> QED
  BY <1>1, <1>2, <1>3, <1>4, <1>5, <1>6 DEF ScheduleNext, RunnerStep

\* The token keeps a runner whose lock has expired from releasing the lock of
\* the runner that took it next.
THEOREM OnlyHolderUnlocks == ScheduleSpec => OwnLockOnly
<1>1. RunnersInv /\ [ScheduleNext]_allVars =>
        [\A s \in Sources : lock[s] # None /\ lock'[s] # lock[s] =>
           lock'[s] = None /\ (rpc'[lock[s]] # rpc[lock[s]] \/ ExpireLock(s))]_allVars
  BY LockTaken
<1> QED
  BY <1>1, RunnersInvariance, PTL DEF ScheduleSpec, OwnLockOnly

-----------------------------------------------------------------------------
(* The runs of the scheduler.                                              *)

\* Beside a caller's and a worker's steps nothing touches the rows of the runs, and
\* only a crash the workers.
LEMMA RowsBeside ==
  ASSUME [ScheduleNext]_allVars
  PROVE  \/ \E c \in Callers : CallerStep(c)
         \/ \E w \in Workers : WorkerStep(w)
         \/ UNCHANGED <<dbVars, workerVars>>
         \/ (\E c \in Clients : ClientCrash(c)) \/ (\E w \in Workers : WorkerCrash(w))
         \/ ProcessCrash
<1>1. CASE CoreStep
  <2>1. CASE \E c \in Clients : ClientRequest(c)
    BY <2>1 DEF ClientRequest, RequestAnalysis, CancelRead
  <2> QED
    BY <1>1, <2>1 DEF CoreStep, Callers
<1>2. CASE Tick \/ ScheduleEdit \/ \E s \in Sources : ExpireLock(s)
  BY <1>2 DEF Tick, ScheduleEdit, CreateSchedule, PatchSchedule, DeleteSchedule, Edit,
              ExpireLock, coreVars
<1>3. ASSUME NEW p \in Runners, RunnerStep(p)
      PROVE  CallerStep(p) \/ UNCHANGED <<dbVars, workerVars>>
  BY <1>3 DEF RunnerStep, CycleStarts, TakeRow, Acquire, Call, Unlock, Advance, RecordMissed,
              Commit, coreVars
<1>4. ASSUME NEW p \in Runners, CycleRaises(p) \/ RunnerCrash(p)
      PROVE  UNCHANGED <<dbVars, workerVars>>
  BY <1>4 DEF CycleRaises, RunnerCrash
<1>5. CASE LocalCrash
  BY <1>5 DEF LocalCrash
<1>6. CASE UNCHANGED allVars
  BY <1>6 DEF allVars, coreVars
<1> QED
  BY <1>1, <1>2, <1>3, <1>4, <1>5, <1>6 DEF ScheduleNext, Callers

\* With the scheduler beside the API and the workers the rows of the runs still move
\* only as the ledger allows: a scheduled run starts once, from queued, and ends with
\* its worker or by the request that created or cancels it.
THEOREM ScheduleKeepsLedger == ScheduleSpec => ImplementsLedger
<1>1. ScheduleInit => Ledger!Init
  BY DEF ScheduleInit, Init, Ledger!Init
<1>2. RunnersInv /\ [ScheduleNext]_allVars => [Ledger!Next]_Ledger!ledger
  <2> SUFFICES ASSUME RunnersInv, [ScheduleNext]_allVars
               PROVE  Ledger!Next \/ UNCHANGED Ledger!ledger
    OBVIOUS
  <2>1. IndInv
    BY DEF RunnersInv
  <2>2. CASE \E c \in Callers : CallerStep(c)
    BY <2>1, <2>2, LedgerCaller
  <2>3. CASE \E w \in Workers : WorkerStep(w)
    BY <2>1, <2>3, LedgerWorker
  <2>4. CASE UNCHANGED dbVars
    BY <2>4, LedgerStutters DEF dbVars, rowVars
  <2>5. \/ \E c \in Callers : CallerStep(c)
        \/ \E w \in Workers : WorkerStep(w)
        \/ UNCHANGED dbVars
    BY RowsBeside DEF ClientCrash, WorkerCrash, ProcessCrash
  <2> QED
    BY <2>2, <2>3, <2>4, <2>5
<1> QED
  BY <1>1, <1>2, RunnersInvariance, PTL DEF ScheduleSpec, ImplementsLedger, Ledger!Spec

\* A worker rewrites no run that is over, be it a scheduled one or the one of an
\* overlapping cycle.
THEOREM ScheduledEndsAreKept ==
  ASSUME Runtime = "docker"
  PROVE  ScheduleSpec => EndedByRequestOnly
<1>1. RunnersInv /\ [ScheduleNext]_allVars =>
        [\A r \in Runs :
           status[r] \in Terminal /\ status'[r] # status[r] =>
             \E c \in Callers : /\ pc[c] \in {"cancel", "unqueue"}
                                /\ mine[c] = r
                                /\ pc'[c] # pc[c]]_vars
  <2> SUFFICES ASSUME RunnersInv, [ScheduleNext]_allVars,
                      NEW r \in Runs, status[r] \in Terminal, status'[r] # status[r]
               PROVE  \E c \in Callers : /\ pc[c] \in {"cancel", "unqueue"}
                                         /\ mine[c] = r
                                         /\ pc'[c] # pc[c]
    OBVIOUS
  <2>1. IndInv
    BY DEF RunnersInv
  <2>2. ~UNCHANGED dbVars
    BY DEF dbVars
  <2>3. \/ \E c \in Callers : CallerStep(c)
        \/ \E w \in Workers : WorkerStep(w)
    BY <2>2, RowsBeside DEF ClientCrash, WorkerCrash, ProcessCrash
  <2> QED
    BY <2>1, <2>3, EndedOfCaller, EndedOfWorker
<1> QED
  BY <1>1, RunnersInvariance, PTL DEF ScheduleSpec, EndedByRequestOnly

\* Nor does the progress of any run go back.
THEOREM ScheduledProgressGoesForward == ScheduleSpec => ProgressNeverRegresses
<1>1. ScheduleInit => ProgressIsReported
  BY DEF ScheduleInit, Init, ProgressIsReported
<1>2. RunnersInv /\ ProgressIsReported /\ [ScheduleNext]_allVars =>
        ProgressIsReported' /\ [\A r \in Runs : progress[r] <= progress'[r]]_vars
  <2> SUFFICES ASSUME RunnersInv, ProgressIsReported, [ScheduleNext]_allVars
               PROVE  ProgressIsReported' /\ \A r \in Runs : progress[r] <= progress'[r]
    OBVIOUS
  <2>1. IndInv /\ progress \in [Runs -> 0..100]
    BY DEF RunnersInv, IndInv, TypeOK
  <2>2. CASE \E w \in Workers : WorkerStep(w)
    BY <2>1, <2>2, ProgressOfWorker
  <2>3. CASE \E c \in Callers : CallerStep(c)
    BY <2>1, <2>3, ProgressOfCaller
  <2>4. CASE \/ UNCHANGED <<dbVars, workerVars>>
             \/ (\E c \in Clients : ClientCrash(c)) \/ (\E w \in Workers : WorkerCrash(w))
             \/ ProcessCrash
    BY <2>1, <2>4, ProgressBeside
  <2> QED
    BY <2>2, <2>3, <2>4, RowsBeside
<1> QED
  BY <1>1, <1>2, RunnersInvariance, PTL DEF ScheduleSpec, ProgressNeverRegresses

=============================================================================
