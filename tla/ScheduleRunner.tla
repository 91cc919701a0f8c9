--------------------------- MODULE ScheduleRunner ---------------------------
(***************************************************************************)
(* The scheduler beside the analysis runs: the crawl_schedules table, the  *)
(* source locks (Redis, or in the process), the schedule API, and          *)
(* ScheduleRunnerService.enqueue_due, which Celery Beat or the local loop  *)
(* starts every minute and which calls AnalysisService.create_for_source.  *)
(*                                                                         *)
(* A runner works on copies of the rows it read when its cycle began; the  *)
(* API, users and, with more than one worker, another cycle go on          *)
(* meanwhile.                                                              *)
(***************************************************************************)
EXTENDS AnalysisRuns

CONSTANTS
  Cadences,   \* the periods a schedule may have, in ticks
  MaxTime,    \* bound on the clock
  MaxEdits    \* bound on the operations of the schedule API

ASSUME CadencesAssumption == Cadences \subseteq Nat \ {0}
ASSUME BoundsAssumption == MaxTime \in Nat /\ MaxEdits \in Nat
ASSUME LocalLoopAssumption ==   \* one scheduler loop in the local process
  Runtime = "local" => \A p, q \in Runners : p = q

VARIABLES
  time,       \* the clock
  schedules,  \* the crawl_schedules row of each source
  edits,      \* operations of the schedule API so far
  lock,       \* the runner whose token a source lock holds
  rpc,        \* the next step of a runner's cycle
  now,        \* "current" of the cycle
  ready,      \* the browser status the cycle was started with
  todo,       \* copies of the due rows the cycle has not come to
  row,        \* the copy it is at
  expired,    \* a rollback has expired the objects of its session
  fired,      \* history: the occurrence a runner created a run for
  missed      \* the occurrences a runner inserted a failed run for

cycleVars    == <<rpc, now, ready, todo, row, expired>>
scheduleVars == <<time, schedules, edits, lock, cycleVars, fired, missed>>
coreVars     == <<dbVars, brokerVars, callerVars, workerVars, crashes>>
allVars      == <<coreVars, scheduleVars>>

Rows == [id : Nat, enabled : BOOLEAN, every : Cadences, opts : Options, next : Nat]
Copies == [source : Sources, id : Nat, every : Cadences, opts : Options, next : Nat]

ASSUME ScheduleNamesAssumption == None \notin Rows \cup Copies \cup Runners \cup (Sources \X Nat)

RunnerSteps == {"asleep", "loop", "unavailable", "lock", "calling", "advance", "recover"}

ScheduleTypeOK ==
  /\ time \in 0..MaxTime
  /\ schedules \in [Sources -> Rows \cup {None}]
  /\ edits \in 0..MaxEdits
  /\ lock \in [Sources -> Runners \cup {None}]
  /\ rpc \in [Runners -> RunnerSteps]
  /\ now \in [Runners -> Nat]
  /\ ready \in [Runners -> BOOLEAN]
  /\ todo \in [Runners -> SUBSET Copies]
  /\ row \in [Runners -> Copies \cup {None}]
  /\ expired \in [Runners -> BOOLEAN]
  /\ fired \in [Runs -> (Sources \X Nat) \cup {None}]
  /\ missed \in SUBSET (Sources \X Nat)

\* calculate_next_run: the first occurrence strictly after t.
NextRun(every, t) == (t \div every + 1) * every

\* Sources that are known may have a schedule that is on.
ScheduleInit ==
  /\ Init
  /\ time = 0
  /\ schedules \in [Sources -> {None} \cup
       {[id |-> 0, enabled |-> TRUE, every |-> k, opts |-> o, next |-> NextRun(k, 0)] :
          k \in Cadences, o \in Options}]
  /\ \A s \in Sources : schedules[s] # None => s \in tracked
  /\ edits = 0
  /\ lock = [s \in Sources |-> None]
  /\ rpc = [p \in Runners |-> "asleep"]
  /\ now = [p \in Runners |-> 0]
  /\ ready = [p \in Runners |-> TRUE]
  /\ todo = [p \in Runners |-> {}]
  /\ row = [p \in Runners |-> None]
  /\ expired = [p \in Runners |-> FALSE]
  /\ fired = [r \in Runs |-> None]
  /\ missed = {}

Tick ==
  /\ time < MaxTime
  /\ time' = time + 1
  /\ UNCHANGED <<coreVars, schedules, edits, lock, cycleVars, fired, missed>>

-----------------------------------------------------------------------------
(* The schedule API.                                                       *)

Edit(s, new) ==
  /\ edits < MaxEdits
  /\ edits' = edits + 1
  /\ schedules' = [schedules EXCEPT ![s] = new]
  /\ UNCHANGED <<coreVars, time, lock, cycleVars, fired, missed>>

\* ScheduleService.create: for a source that was analysed before.
CreateSchedule(s, k, o, on) ==
  /\ s \in tracked
  /\ schedules[s] = None
  /\ Edit(s, [id |-> edits + 1, enabled |-> on, every |-> k, opts |-> o,
              next |-> NextRun(k, time)])

\* ScheduleService.patch: a field of the payload that is None keeps its value;
\* a new cadence or "enabled: true" computes the next run afresh.
PatchSchedule(s, k, o, on) ==
  /\ schedules[s] # None
  /\ LET old   == schedules[s]
         every == IF k = None THEN old.every ELSE k
     IN  Edit(s, [id |-> old.id,
                  enabled |-> IF on = None THEN old.enabled ELSE on,
                  every |-> every,
                  opts |-> IF o = None THEN old.opts ELSE o,
                  next |-> IF k # None \/ on = TRUE THEN NextRun(every, time)
                                                    ELSE old.next])

\* ScheduleService.delete: switched off, or deleted for good once it is off.
DeleteSchedule(s, hard) ==
  /\ schedules[s] # None
  /\ hard => ~schedules[s].enabled
  /\ Edit(s, IF hard THEN None ELSE [schedules[s] EXCEPT !.enabled = FALSE])

ScheduleEdit ==
  \E s \in Sources :
    \/ \E k \in Cadences, o \in Options, on \in BOOLEAN : CreateSchedule(s, k, o, on)
    \/ \E k \in Cadences \cup {None}, o \in Options \cup {None},
          on \in BOOLEAN \cup {None} : PatchSchedule(s, k, o, on)
    \/ \E hard \in BOOLEAN : DeleteSchedule(s, hard)

-----------------------------------------------------------------------------
(* A cycle of enqueue_due.                                                 *)

\* The rows the query of enqueue_due returns at time t.
Due(t) ==
  {[source |-> s, id |-> schedules[s].id, every |-> schedules[s].every,
    opts |-> schedules[s].opts, next |-> schedules[s].next] :
      s \in {x \in tracked : /\ schedules[x] # None
                             /\ schedules[x].enabled
                             /\ schedules[x].next <= t}}

\* Beat or the local loop starts a cycle; the browser was probed before.
CycleStarts(p, browser) ==
  /\ rpc[p] = "asleep"
  /\ Due(time) # {}
  /\ rpc' = [rpc EXCEPT ![p] = "loop"]
  /\ now' = [now EXCEPT ![p] = time]
  /\ ready' = [ready EXCEPT ![p] = browser]
  /\ todo' = [todo EXCEPT ![p] = Due(time)]
  /\ UNCHANGED <<coreVars, time, schedules, edits, lock, row, expired, fired, missed>>

\* The cycle is over, at its end or by an exception that leaves enqueue_due.
Sleep(p) ==
  /\ rpc' = [rpc EXCEPT ![p] = "asleep"]
  /\ todo' = [todo EXCEPT ![p] = {}]
  /\ row' = [row EXCEPT ![p] = None]
  /\ expired' = [expired EXCEPT ![p] = FALSE]
  /\ UNCHANGED <<now, ready>>

\* The next row in the order of next_run_at.
TakeRow(p) ==
  /\ rpc[p] = "loop"
  /\ \/ /\ todo[p] = {}
        /\ Sleep(p)
     \/ \E x \in todo[p] :
          /\ \A y \in todo[p] : x.next <= y.next
          /\ row' = [row EXCEPT ![p] = x]
          /\ todo' = [todo EXCEPT ![p] = @ \ {x}]
          /\ rpc' = [rpc EXCEPT ![p] = IF ready[p] THEN "lock" ELSE "unavailable"]
          /\ UNCHANGED <<now, ready, expired>>
  /\ UNCHANGED <<coreVars, time, schedules, edits, lock, fired, missed>>

GoOn(p, step) ==
  /\ rpc' = [rpc EXCEPT ![p] = step]
  /\ UNCHANGED <<now, ready, todo, row, expired>>

\* SourceLockManager.acquire, SET NX: a source that is locked is passed over
\* and stays due.  In Docker Redis may be out of reach.
Acquire(p) ==
  /\ rpc[p] = "lock"
  /\ \/ /\ lock[row[p].source] = None
        /\ lock' = [lock EXCEPT ![row[p].source] = p]
        /\ pc' = [pc EXCEPT ![p] = "lookup"]
        /\ asked' = [asked EXCEPT ![p] = <<row[p].source, row[p].opts>>]
        /\ UNCHANGED mine
        /\ GoOn(p, "calling")
     \/ /\ lock[row[p].source] # None
        /\ UNCHANGED <<callerVars, lock>>
        /\ GoOn(p, "loop")
     \/ /\ Runtime = "docker"
        /\ UNCHANGED <<callerVars, lock>>
        /\ GoOn(p, "recover")
  /\ UNCHANGED <<dbVars, brokerVars, workerVars, crashes,
                 time, schedules, edits, fired, missed>>

\* A step of create_for_source.  The rollback after an IntegrityError expires
\* every object of the session, the schedule rows of the batch included.
Call(p) ==
  /\ rpc[p] = "calling"
  /\ CallerStep(p)
  /\ expired' = [expired EXCEPT ![p] = @ \/ pc'[p] = "requery"]
  /\ fired' = IF pc[p] = "insert" /\ pc'[p] = "enqueue"
                THEN [fired EXCEPT ![mine'[p]] = <<row[p].source, row[p].next>>]
                ELSE fired
  /\ UNCHANGED <<time, schedules, edits, lock, rpc, now, ready, todo, row, missed>>

\* What follows the answer: expired objects cannot be read, and the exception
\* leaves enqueue_due; a failed call is recorded; else the schedule moves on.
AfterCall_SkipsFailed(p, failed) ==   \* mutant: a failed call is not recorded
  IF expired[p] THEN Sleep(p)
  ELSE GoOn(p, IF failed \/ pc[p] = "raised" THEN "loop" ELSE "advance")
AfterCall(p, failed) ==
  IF expired[p] THEN Sleep(p)
  ELSE GoOn(p, IF failed \/ pc[p] = "raised" THEN "recover" ELSE "advance")

\* The release script deletes the key only while it holds the runner's token.
FreeLock_AnyToken(p) ==      \* mutant: DEL without comparing the token
  lock' = [lock EXCEPT ![row[p].source] = None]
FreeLock_OnSuccess(p) ==     \* mutant: released after enqueue(), not in finally
  lock' = IF lock[row[p].source] = p /\ pc[p] # "raised"
            THEN [lock EXCEPT ![row[p].source] = None] ELSE lock
FreeLock(p) ==
  lock' = IF lock[row[p].source] = p
            THEN [lock EXCEPT ![row[p].source] = None] ELSE lock

\* The finally clause of enqueue_with_source_lock.
Unlock(p) ==
  /\ rpc[p] = "calling"
  /\ pc[p] \in Replies
  /\ pc' = [pc EXCEPT ![p] = "idle"]
  /\ \/ FreeLock(p) /\ AfterCall(p, FALSE)
     \/ Runtime = "docker" /\ UNCHANGED lock /\ AfterCall(p, TRUE)
  /\ UNCHANGED <<asked, mine, dbVars, brokerVars, workerVars, crashes,
                 time, schedules, edits, fired, missed>>

\* UPDATE crawl_schedules SET next_run_at, by primary key, from the copy's
\* cadence and the cycle's clock; the row may have been deleted meanwhile, and
\* then the flush raises StaleDataError.
RowGone(p) ==
  LET current == schedules[row[p].source]
  IN  ~(current # None /\ current.id = row[p].id)

MoveNext_Kept(p) ==          \* mutant: next_run_at is not moved
  UNCHANGED schedules
MoveNext(p) ==
  schedules' = [schedules EXCEPT ![row[p].source].next = NextRun(row[p].every, now[p])]

\* A commit of the cycle for its row, with what else it writes.
Commit(p, inserted) ==
  /\ \/ /\ RowGone(p)
        /\ UNCHANGED <<schedules, missed>>
        /\ Sleep(p)
     \/ /\ ~RowGone(p)
        /\ MoveNext(p)
        /\ missed' = missed \cup inserted
        /\ GoOn(p, "loop")
  /\ UNCHANGED <<coreVars, time, edits, lock, fired>>

Advance(p) == rpc[p] = "advance" /\ Commit(p, {})

\* The failed run that stands for an occurrence nobody could start: the
\* browser is unavailable, or the dispatch raised.
RecordMissed(p) ==
  /\ rpc[p] \in {"unavailable", "recover"}
  /\ Commit(p, {<<row[p].source, row[p].next>>})

RunnerStep(p) ==
  \/ \E browser \in BOOLEAN : CycleStarts(p, browser)
  \/ TakeRow(p) \/ Acquire(p) \/ Call(p) \/ Unlock(p)
  \/ Advance(p) \/ RecordMissed(p)

-----------------------------------------------------------------------------
(* Locks that expire, and crashes.                                         *)

\* The time to live of a Redis lock, 600 s, is over, whatever its holder does.
ExpireLock(s) ==
  /\ Runtime = "docker"
  /\ lock[s] # None
  /\ lock' = [lock EXCEPT ![s] = None]
  /\ UNCHANGED <<coreVars, time, schedules, edits, cycleVars, fired, missed>>

\* A statement of the cycle fails.  Inside create_for_source the lock is
\* released first; the session is of no more use either way.
CycleRaises(p) ==
  /\ Crash
  /\ \/ /\ rpc[p] \in {"loop", "unavailable", "advance", "recover"}
        /\ Sleep(p)
        /\ UNCHANGED <<callerVars, lock>>
     \/ /\ rpc[p] = "calling"
        /\ pc[p] \notin Replies
        /\ Reply(p, "raised")
        /\ expired' = [expired EXCEPT ![p] = TRUE]
        /\ UNCHANGED <<rpc, now, ready, todo, row, lock>>
  /\ UNCHANGED <<dbVars, brokerVars, workerVars, time, schedules, edits, fired, missed>>

\* The worker process that runs the cycle dies; in Docker its locks stay.
RunnerCrash(p) ==
  /\ Crash
  /\ Runtime = "docker"
  /\ rpc[p] # "asleep"
  /\ pc' = [pc EXCEPT ![p] = "idle"]
  /\ asked' = [asked EXCEPT ![p] = None]
  /\ mine' = [mine EXCEPT ![p] = None]
  /\ Sleep(p)
  /\ UNCHANGED <<dbVars, brokerVars, workerVars, time, schedules, edits, lock,
                 fired, missed>>

\* The local process dies with its loop and its locks.
LocalCrash ==
  /\ ProcessCrash
  /\ lock' = [s \in Sources |-> None]
  /\ rpc' = [p \in Runners |-> "asleep"]
  /\ todo' = [p \in Runners |-> {}]
  /\ row' = [p \in Runners |-> None]
  /\ expired' = [p \in Runners |-> FALSE]
  /\ UNCHANGED <<time, schedules, edits, now, ready, fired, missed>>

-----------------------------------------------------------------------------
\* The handlers and workers of AnalysisRuns, beside the scheduler.
CoreStep ==
  /\ \/ \E c \in Clients : ClientRequest(c) \/ CallerStep(c)
     \/ \E w \in Workers : WorkerStep(w)
     \/ \E c \in Clients : ClientCrash(c)
     \/ \E w \in Workers : WorkerCrash(w)
  /\ UNCHANGED scheduleVars

ScheduleNext ==
  \/ CoreStep
  \/ Tick
  \/ ScheduleEdit
  \/ \E p \in Runners : RunnerStep(p) \/ CycleRaises(p) \/ RunnerCrash(p)
  \/ \E s \in Sources : ExpireLock(s)
  \/ LocalCrash

ScheduleSpec == ScheduleInit /\ [][ScheduleNext]_allVars

\* Beat keeps starting cycles and a cycle that was started goes on; a lock that
\* nobody released expires; handlers and workers go on as in AnalysisRuns.
ScheduleFairness ==
  /\ \A p \in Runners : WF_allVars(RunnerStep(p))
  /\ \A s \in Sources : WF_allVars(ExpireLock(s))
  /\ \A c \in Clients : WF_allVars(CallerStep(c) /\ UNCHANGED scheduleVars)
  /\ \A w \in Workers : WF_allVars(WorkerStep(w) /\ UNCHANGED scheduleVars)

FairScheduleSpec == ScheduleSpec /\ ScheduleFairness

-----------------------------------------------------------------------------
(* What the scheduler promises.                                            *)

\* Between its steps a cycle's registers agree, and schedules have sources.
RunnerRegisters ==
  /\ \A s \in Sources : schedules[s] # None => s \in tracked
  /\ \A p \in Runners :
       /\ \A x \in todo[p] : x.source \in tracked
       /\ rpc[p] \notin {"asleep", "loop"} => row[p] # None
       /\ row[p] # None => row[p].source \in tracked
       /\ rpc[p] = "calling" <=> pc[p] # "idle"
       /\ pc[p] \notin {"flush", "revoke", "cancel"}

\* enqueue_with_source_lock: in one process no lock outlives its block, so
\* that no source is passed over for ever.
LockIsInUse ==
  Runtime = "local" =>
    \A s \in Sources : lock[s] # None =>
      rpc[lock[s]] = "calling" /\ row[lock[s]].source = s

\* What the analysis runs promise, they promise to the scheduler too.
RunnersInv ==
  /\ ScheduleTypeOK
  /\ IndInv
  /\ RunnerRegisters
  /\ LockIsInUse

\* One scheduler loop starts an occurrence of a schedule at most once, though
\* the cycle commits its run and the new next_run_at separately.
OncePerOccurrence ==
  crashes = 0 /\ (\A p, q \in Runners : p = q) =>
    \A r, q \in Runs : fired[r] # None /\ fired[r] = fired[q] => r = q

\* In the local runtime an occurrence whose dispatch is on record as failed has
\* no run on its way, unless a crash came between the two commits of a cycle.
MissedIsNotRunning ==
  Runtime = "local" /\ crashes = 0 =>
    \A r \in Runs : fired[r] \in missed => status[r] \notin Active

\* An occurrence is spent when it has a run or a failed run that stands for it.
Spent == {fired[r] : r \in {q \in Runs : fired[q] # None}} \cup missed
Occurrence(copy) == <<copy.source, copy.next>>

\* A cycle is at a row, and has not come to create its run yet.
AtRow(p) == rpc[p] \notin {"asleep", "loop"}
IsFresh(p) == \/ rpc[p] \in {"unavailable", "lock"}
              \/ rpc[p] = "calling" /\ pc[p] \in {"lookup", "insert", "requery"}

\* What a lone loop knows of the copies it works on: there is one of each
\* source, it was due, and its row has kept its id or been made anew since.
CopiesAreDue(p) ==
  LET copies == todo[p] \cup {x \in {row[p]} : AtRow(p)}
  IN  /\ now[p] <= time
      /\ AtRow(p) => row[p] \notin todo[p]
      /\ \A x, y \in copies : x.source = y.source => x = y
      /\ \A x \in copies :
           /\ x.next <= now[p]
           /\ schedules[x.source] # None =>
                schedules[x.source].id = x.id \/ schedules[x.source].next > now[p]

\* What is still to do has not been done, and an occurrence that is spent lies
\* behind its schedule, or is the one the cycle is just about to move on from.
SpentIsBehind(p) ==
  /\ \A x \in todo[p] : Occurrence(x) \notin Spent
  /\ IsFresh(p) \/ (rpc[p] = "calling" /\ expired[p]) => Occurrence(row[p]) \notin Spent
  /\ AtRow(p) => Occurrence(row[p]) \notin missed
  /\ \A o \in Spent :
       /\ o[2] <= now[p]
       /\ \/ schedules[o[1]] = None
          \/ schedules[o[1]].next > o[2]
          \/ AtRow(p) /\ Occurrence(row[p]) = o

\* The run of a call, and how a call that raised has left it.
CallIsKnown(p) ==
  /\ expired[p] => rpc[p] = "calling" /\ pc[p] \in {"requery"} \cup Replies
  /\ rpc[p] = "calling" /\ pc[p] \in {"enqueue", "unqueue"} =>
       fired[mine[p]] = Occurrence(row[p])
  /\ \/ Runtime = "local" /\ rpc[p] = "recover"
     \/ rpc[p] = "calling" /\ pc[p] = "raised"
     => \A r \in Runs : fired[r] = Occurrence(row[p]) => status[r] \notin Active

Alone == crashes = 0 /\ \A p, q \in Runners : p = q

\* What holds of one scheduler loop as long as nothing has crashed.
OccurrenceInv ==
  Alone =>
    /\ \A p \in Runners : CopiesAreDue(p) /\ SpentIsBehind(p) /\ CallIsKnown(p)
    /\ \A r \in Runs : fired[r] # None => status[r] # "absent"
    /\ OncePerOccurrence
    /\ MissedIsNotRunning

\* The inductive invariant.
ScheduleInv == RunnersInv /\ OccurrenceInv

\* A lock is taken away from its holder by the holder or by its expiry only.
OwnLockOnly ==
  [][\A s \in Sources : lock[s] # None /\ lock'[s] # lock[s] =>
       lock'[s] = None /\ (rpc'[lock[s]] # rpc[lock[s]] \/ ExpireLock(s))]_allVars

\* A schedule that is due moves on, or is switched off: no crash, lock, race
\* or conflict leaves it due for ever.  (Ids of runs are bounded here only.)
IsDue(s) ==
  schedules[s] # None /\ schedules[s].enabled /\ schedules[s].next <= time
IdsUsedUp == \A r \in Runs : status[r] # "absent"

DueIsServed == \A s \in Sources : IsDue(s) ~> ~IsDue(s) \/ IdsUsedUp

\* The next run of a schedule is an occurrence of its own cadence.
NextFollowsCadence ==
  \A s \in Sources :
    schedules[s] # None => schedules[s].next % schedules[s].every = 0
=============================================================================
