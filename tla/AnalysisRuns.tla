---------------------------- MODULE AnalysisRuns ----------------------------
(***************************************************************************)
(* The life of an analysis run: the crawl_runs table, the API handlers     *)
(* that create and cancel runs (AnalysisService), the task broker, and the *)
(* workers that claim a run, crawl and persist it (crawl_tasks,            *)
(* PersistenceService.persist, mark_run_terminal).                         *)
(*                                                                         *)
(* A step is one committed database statement, one broker call, or one     *)
(* read whose result is used after an await.  Between any two steps of one *)
(* process every other process may run.                                    *)
(***************************************************************************)
EXTENDS Naturals, Sequences

CONSTANTS
  Sources,     \* (owner, url_hash) pairs: rows tracked_sources may come to hold
  Runs,        \* the ids uuid4 hands out to crawl_runs rows
  Options,     \* (collect_broker_details, interaction_delay_preset) pairs
  Clients,     \* concurrent API requests
  Runners,     \* scheduler tasks calling AnalysisService.create_for_source
  Workers,     \* slots that execute the crawl task
  Runtime,     \* APP_RUNTIME
  Marks,       \* the values the pipeline reports before it saves, in order
  MaxCrashes,  \* bound on process crashes
  None         \* NULL

Callers == Clients \cup Runners

ASSUME RuntimeAssumption == Runtime \in {"local", "docker"}
ASSUME LocalExecutorAssumption ==   \* ThreadPoolExecutor(max_workers=1)
  Runtime = "local" => \A v, w \in Workers : v = w
ASSUME MarksAssumption ==
  /\ Marks \in Seq(1..100)
  /\ \A i, j \in DOMAIN Marks : i <= j => Marks[i] <= Marks[j]
ASSUME NamesAssumption ==
  /\ None \notin Runs \cup (Sources \X Options) \cup Sources \cup Options
  /\ Clients \cap Runners = {}
  /\ MaxCrashes \in Nat

VARIABLES
  \* the database
  tracked,   \* the sources that have a tracked_sources row
  status,    \* CrawlRun.status, "absent" before the INSERT
  source,    \* CrawlRun.source_id
  opts,      \* CrawlRun.collect_broker_details, interaction_delay_preset
  progress,  \* CrawlRun.progress
  saves,     \* how many persist transactions have committed a run's snapshots
  \* the broker
  queue,     \* task messages, oldest first
  revoked,   \* ids the broker drops instead of executing
  misfired,  \* history: ids that a revoke withdrew, which then raised
  \* the API handlers
  pc,        \* the next step of a request
  asked,     \* <<source, options>> of a create request
  mine,      \* the run the request holds a row object of
  \* the workers
  wpc,       \* the next step of a slot
  held,      \* the run it executes
  reports,   \* progress callbacks it has made
  verdict,   \* the outcome it is about to record
  \* the environment
  crashes

dbVars     == <<tracked, status, source, opts, progress, saves>>
rowVars    == <<tracked, source, opts>>
brokerVars == <<queue, revoked, misfired>>
callerVars == <<pc, asked, mine>>
workerVars == <<wpc, held, reports, verdict>>
vars == <<dbVars, brokerVars, callerVars, workerVars, crashes>>

Active    == {"queued", "running"}
Successes == {"completed", "partial"}
Failures  == {"failed", "blocked"}
Terminal  == Successes \cup Failures \cup {"cancelled"}

CallerSteps == {"idle", "flush", "lookup", "insert", "requery", "enqueue",
                "unqueue", "revoke", "cancel"}
\* What a scheduler task learns when create_for_source returns or raises.
Replies     == {"created", "reused", "raised"}
WorkerSteps == {"idle", "crawl", "save", "write", "fail", "mark"}

TypeOK ==
  /\ tracked \in SUBSET Sources
  /\ status \in [Runs -> {"absent"} \cup Active \cup Terminal]
  /\ source \in [Runs -> Sources \cup {None}]
  /\ opts \in [Runs -> Options \cup {None}]
  /\ progress \in [Runs -> 0..100]
  /\ saves \in [Runs -> Nat]
  /\ queue \in Seq(Runs)
  /\ {revoked, misfired} \subseteq SUBSET Runs
  /\ pc \in [Callers -> CallerSteps \cup Replies]
  /\ asked \in [Callers -> (Sources \X Options) \cup {None}]
  /\ mine \in [Callers -> Runs \cup {None}]
  /\ wpc \in [Workers -> WorkerSteps]
  /\ held \in [Workers -> Runs \cup {None}]
  /\ reports \in [Workers -> 0..Len(Marks)]
  /\ verdict \in [Workers -> Successes \cup Failures \cup {None}]
  /\ crashes \in 0..MaxCrashes

\* Some sources are known from earlier; their runs, long over, are left out.
Init ==
  /\ tracked \in SUBSET Sources
  /\ status = [r \in Runs |-> "absent"]
  /\ source = [r \in Runs |-> None]
  /\ opts = [r \in Runs |-> None]
  /\ progress = [r \in Runs |-> 0]
  /\ saves = [r \in Runs |-> 0]
  /\ queue = << >>
  /\ revoked = {}
  /\ misfired = {}
  /\ pc = [c \in Callers |-> "idle"]
  /\ asked = [c \in Callers |-> None]
  /\ mine = [c \in Callers |-> None]
  /\ wpc = [w \in Workers |-> "idle"]
  /\ held = [w \in Workers |-> None]
  /\ reports = [w \in Workers |-> 0]
  /\ verdict = [w \in Workers |-> None]
  /\ crashes = 0

-----------------------------------------------------------------------------
(* Table access.                                                           *)

ActiveRuns(s) == {r \in Runs : status[r] \in Active /\ source[r] = s}

\* uq_crawl_runs_active_source lets a run of the source in.
SlotFree_QueuedOnly(s) ==    \* mutant: the index covers queued runs only
  \A r \in ActiveRuns(s) : status[r] # "queued"
SlotFree(s) == ActiveRuns(s) = {}

\* The row lock SELECT ... FOR UPDATE holds until the transaction ends.
\* SQLite renders no FOR UPDATE, so in the local runtime nothing is locked.
RowLocked_PersistOnly(r) ==  \* mutant: mark_run_terminal reads without it
  /\ Runtime = "docker"
  /\ \E w \in Workers : wpc[w] = "write" /\ held[w] = r
RowLocked(r) ==
  /\ Runtime = "docker"
  /\ \E w \in Workers : wpc[w] \in {"write", "mark"} /\ held[w] = r

\* The broker holds a message of the run.
Waiting(r) == \E i \in DOMAIN queue : queue[i] = r

\* The INSERT of a queued run for request a = <<source, options>>.
InsertQueued(c, r, a) ==
  /\ status[r] = "absent"
  /\ status' = [status EXCEPT ![r] = "queued"]
  /\ source' = [source EXCEPT ![r] = a[1]]
  /\ opts' = [opts EXCEPT ![r] = a[2]]
  /\ pc' = [pc EXCEPT ![c] = "enqueue"]
  /\ mine' = [mine EXCEPT ![c] = r]
  /\ UNCHANGED <<asked, progress, saves, brokerVars, workerVars, crashes>>

Goto(c, step) ==
  /\ pc' = [pc EXCEPT ![c] = step]
  /\ UNCHANGED <<asked, mine>>

\* The request is answered; a scheduler task goes on with the answer.
Reply(c, answer) ==
  /\ pc' = [pc EXCEPT ![c] = IF c \in Runners THEN answer ELSE "idle"]
  /\ asked' = [asked EXCEPT ![c] = None]
  /\ mine' = [mine EXCEPT ![c] = None]

-----------------------------------------------------------------------------
(* AnalysisService: creating a run.                                        *)

\* create_for_user: the source is looked up by owner and url hash.
RequestAnalysis(c, s, o) ==
  /\ pc[c] = "idle"
  /\ asked' = [asked EXCEPT ![c] = <<s, o>>]
  /\ pc' = [pc EXCEPT ![c] = IF s \in tracked THEN "lookup" ELSE "flush"]
  /\ UNCHANGED <<mine, dbVars, brokerVars, workerVars, crashes>>

\* create_for_user saw no source row.  Flushing a new row takes the unique
\* key until the commit, so the row and its first run appear together; if
\* another request was first the flush fails and its row is read instead.
FlushSource(c, r) ==
  /\ pc[c] = "flush"
  /\ \/ /\ asked[c][1] \in tracked
        /\ Goto(c, "lookup")
        /\ UNCHANGED <<dbVars, brokerVars, workerVars, crashes>>
     \/ /\ asked[c][1] \notin tracked
        /\ tracked' = tracked \cup {asked[c][1]}
        /\ InsertQueued(c, r, asked[c])

\* _deduplicated_run: an active run answers a request with the same options.
Deduplicate(c, r) ==
  Reply(c, IF opts[r] = asked[c][2] THEN "reused" ELSE "raised")

\* _create_for_source, the first _active_run.
LookupActive(c) ==
  /\ pc[c] = "lookup"
  /\ \/ \E r \in ActiveRuns(asked[c][1]) : Deduplicate(c, r)
     \/ ActiveRuns(asked[c][1]) = {} /\ Goto(c, "insert")
  /\ UNCHANGED <<dbVars, brokerVars, workerVars, crashes>>

\* _create_for_source, the commit, or IntegrityError and rollback.
InsertRun(c, r) ==
  /\ pc[c] = "insert"
  /\ \/ /\ SlotFree(asked[c][1])
        /\ InsertQueued(c, r, asked[c])
        /\ UNCHANGED tracked
     \/ /\ ~SlotFree(asked[c][1])
        /\ Goto(c, "requery")
        /\ UNCHANGED <<dbVars, brokerVars, workerVars, crashes>>

\* _create_for_source, the _active_run after the rollback.  The run that won
\* may have ended by now, and then the IntegrityError is raised again; and the
\* rollback expired the source object, so that reading source.id outside the
\* session's greenlet may itself raise.
RequeryActive(c) ==
  /\ pc[c] = "requery"
  /\ \/ \E r \in ActiveRuns(asked[c][1]) : Deduplicate(c, r)
     \/ Reply(c, "raised")
  /\ UNCHANGED <<dbVars, brokerVars, workerVars, crashes>>

\* dispatcher.enqueue returned.  A publish that Celery retried may have
\* reached Redis twice.
Enqueue(c) ==
  /\ pc[c] = "enqueue"
  /\ \/ queue' = Append(queue, mine[c])
     \/ Runtime = "docker" /\ queue' = queue \o <<mine[c], mine[c]>>
  /\ Reply(c, "created")
  /\ UNCHANGED <<revoked, misfired, dbVars, workerVars, crashes>>

\* What follows an exception of dispatcher.enqueue.
OnEnqueueError_Reply(c) == Reply(c, "raised")   \* mutant: the run is left queued
OnEnqueueError(c) == Goto(c, "unqueue")

\* dispatcher.enqueue raised: an executor that was shut down took nothing, a
\* broken connection to Redis may have carried the message.
EnqueueRaises(c) ==
  /\ pc[c] = "enqueue"
  /\ OnEnqueueError(c)
  /\ \/ UNCHANGED queue
     \/ Runtime = "docker" /\ queue' = Append(queue, mine[c])
  /\ UNCHANGED <<revoked, misfired, dbVars, workerVars, crashes>>

\* The handler of that exception: UPDATE by primary key, whatever the status.
MarkUnqueued(c) ==
  /\ pc[c] = "unqueue"
  /\ ~RowLocked(mine[c])
  /\ status' = [status EXCEPT ![mine[c]] = "failed"]
  /\ Reply(c, "raised")
  /\ UNCHANGED <<rowVars, progress, saves, brokerVars, workerVars, crashes>>

-----------------------------------------------------------------------------
(* AnalysisService.cancel.                                                 *)

CancelRead(c, r) ==
  /\ pc[c] = "idle"
  /\ status[r] = "queued"
  /\ pc' = [pc EXCEPT ![c] = "revoke"]
  /\ mine' = [mine EXCEPT ![c] = r]
  /\ UNCHANGED <<asked, dbVars, brokerVars, workerVars, crashes>>

\* dispatcher.cancel.  Locally it takes back a Future that waits for the
\* executor and does nothing to any other; the Celery broadcast is remembered
\* by the workers, but may find none listening, or fail, and a broken connection
\* may have carried it all the same: the exception then leaves a run queued that
\* no worker will execute.
CancelRevoke(c) ==
  /\ pc[c] = "revoke"
  /\ \/ /\ Runtime = "docker" \/ Waiting(mine[c])
        /\ revoked' = revoked \cup {mine[c]}
        /\ Goto(c, "cancel")
        /\ UNCHANGED misfired
     \/ /\ Runtime = "docker" \/ ~Waiting(mine[c])
        /\ Goto(c, "cancel")
        /\ UNCHANGED <<revoked, misfired>>
     \/ /\ Runtime = "docker"
        /\ Reply(c, "raised")
        /\ UNCHANGED <<revoked, misfired>>
     \/ /\ Runtime = "docker"
        /\ revoked' = revoked \cup {mine[c]}
        /\ misfired' = misfired \cup {mine[c]}
        /\ Reply(c, "raised")
  /\ UNCHANGED <<queue, dbVars, workerVars, crashes>>

\* The commit: UPDATE by primary key of the row object read before.
CancelWrite(c) ==
  /\ pc[c] = "cancel"
  /\ ~RowLocked(mine[c])
  /\ status' = [status EXCEPT ![mine[c]] = "cancelled"]
  /\ Reply(c, "raised")
  /\ UNCHANGED <<rowVars, progress, saves, brokerVars, workerVars, crashes>>

-----------------------------------------------------------------------------
(* crawl_tasks: the worker.                                                *)

\* The slot is free again.
Release_KeepsRun(w) ==       \* mutant: the run is not let go
  /\ wpc' = [wpc EXCEPT ![w] = "idle"]
  /\ reports' = [reports EXCEPT ![w] = 0]
  /\ verdict' = [verdict EXCEPT ![w] = None]
  /\ UNCHANGED held
Release(w) ==
  /\ wpc' = [wpc EXCEPT ![w] = "idle"]
  /\ held' = [held EXCEPT ![w] = None]
  /\ reports' = [reports EXCEPT ![w] = 0]
  /\ verdict' = [verdict EXCEPT ![w] = None]

\* A delivered run is executed if it was not revoked and _claim_run's UPDATE
\* finds it queued.
Claimable_Running(r) ==      \* mutant: takes over a run that is running
  r \notin revoked /\ status[r] \in Active
Claimable_Any(r) ==          \* mutant: no condition on the status
  r \notin revoked
Claimable(r) ==
  r \notin revoked /\ status[r] = "queued"

\* The worker receives a task (acknowledged on receipt): a revoked task is
\* dropped, otherwise _claim_run updates the row if it is still queued, and a
\* second delivery of a claimed or finished run ends here.
Claim(w) ==
  /\ wpc[w] = "idle"
  /\ queue # << >>
  /\ queue' = Tail(queue)
  /\ LET r == Head(queue) IN
       \/ /\ Claimable(r)
          /\ status' = [status EXCEPT ![r] = "running"]
          /\ progress' = [progress EXCEPT ![r] = 1]
          /\ wpc' = [wpc EXCEPT ![w] = "crawl"]
          /\ held' = [held EXCEPT ![w] = r]
          /\ UNCHANGED <<reports, verdict>>
       \/ /\ ~Claimable(r)
          /\ UNCHANGED <<status, progress, workerVars>>
  /\ UNCHANGED <<rowVars, saves, revoked, misfired, callerVars, crashes>>

\* _update_progress: the UPDATE applies to a running row only.
Report(w) ==
  /\ wpc[w] = "crawl"
  /\ reports[w] < Len(Marks)
  /\ ~RowLocked(held[w])
  /\ progress' = IF status[held[w]] = "running"
                   THEN [progress EXCEPT ![held[w]] = Marks[reports[w] + 1]]
                   ELSE progress
  /\ reports' = [reports EXCEPT ![w] = @ + 1]
  /\ UNCHANGED <<rowVars, status, saves, brokerVars, callerVars,
                 wpc, held, verdict, crashes>>

\* collect() returned a payload and the last report was made.
CrawlReturns(w, outcome) ==
  /\ wpc[w] = "crawl"
  /\ reports[w] = Len(Marks)
  /\ wpc' = [wpc EXCEPT ![w] = "save"]
  /\ verdict' = [verdict EXCEPT ![w] = outcome]
  /\ UNCHANGED <<held, reports, dbVars, brokerVars, callerVars, crashes>>

\* collect() raised a CrawlError (run_status failed or blocked), or anything
\* on the way to the save raised an unexpected exception.
CrawlRaises(w, outcome) ==
  /\ wpc[w] = "crawl"
  /\ wpc' = [wpc EXCEPT ![w] = "fail"]
  /\ verdict' = [verdict EXCEPT ![w] = outcome]
  /\ UNCHANGED <<held, reports, dbVars, brokerVars, callerVars, crashes>>

\* TERMINAL_RUN_STATUSES, which persist and mark_run_terminal leave alone.
Closed_ButCancelled(r) ==    \* mutant: the tuple misses "cancelled"
  status[r] \in Successes \cup Failures
Closed(r) == status[r] \in Terminal

\* persist reads the run for update; a terminal run is left as it is.
SaveRead(w) ==
  /\ wpc[w] = "save"
  /\ ~RowLocked(held[w])
  /\ \/ /\ Closed(held[w])
        /\ Release(w)
     \/ /\ ~Closed(held[w])
        /\ wpc' = [wpc EXCEPT ![w] = "write"]
        /\ UNCHANGED <<held, reports, verdict>>
  /\ UNCHANGED <<dbVars, brokerVars, callerVars, crashes>>

\* The exception handlers of _execute_pipeline around the save.
RecordFailure(w) ==
  /\ wpc' = [wpc EXCEPT ![w] = "fail"]
  /\ verdict' = [verdict EXCEPT ![w] = "failed"]
  /\ UNCHANGED <<held, reports>>

\* persist commits every snapshot, event and state row with the run's status.
\* Whatever raises after the commit (its acknowledgement, the crawl_finished
\* log) takes the task to the handler that records a failure.
SaveWrite_StatusLater(w) ==  \* mutant: the status is left to another commit
  /\ wpc[w] = "write"
  /\ saves' = [saves EXCEPT ![held[w]] = @ + 1]
  /\ wpc' = [wpc EXCEPT ![w] = "mark"]
  /\ UNCHANGED <<held, reports, verdict, rowVars, status, progress, brokerVars,
                 callerVars, crashes>>
SaveWrite(w) ==
  /\ wpc[w] = "write"
  /\ status' = [status EXCEPT ![held[w]] = verdict[w]]
  /\ progress' = [progress EXCEPT ![held[w]] = 100]
  /\ saves' = [saves EXCEPT ![held[w]] = @ + 1]
  /\ Release(w) \/ RecordFailure(w)
  /\ UNCHANGED <<rowVars, brokerVars, callerVars, crashes>>

\* persist raises (PersistenceError or any other) and rolls back.
SaveRaises_Unrecorded(w) ==  \* mutant: the exception leaves the task
  /\ wpc[w] = "write"
  /\ Release(w)
  /\ UNCHANGED <<dbVars, brokerVars, callerVars, crashes>>
SaveRaises(w) ==
  /\ wpc[w] = "write"
  /\ RecordFailure(w)
  /\ UNCHANGED <<dbVars, brokerVars, callerVars, crashes>>

\* mark_run_terminal: read for update, then write unless already terminal.
FailRead(w) ==
  /\ wpc[w] = "fail"
  /\ ~RowLocked(held[w])
  /\ \/ /\ Closed(held[w])
        /\ Release(w)
     \/ /\ ~Closed(held[w])
        /\ wpc' = [wpc EXCEPT ![w] = "mark"]
        /\ UNCHANGED <<held, reports, verdict>>
  /\ UNCHANGED <<dbVars, brokerVars, callerVars, crashes>>

FailWrite_Resets(w) ==       \* mutant: a failed run starts over from 0
  /\ wpc[w] = "mark"
  /\ status' = [status EXCEPT ![held[w]] = verdict[w]]
  /\ progress' = [progress EXCEPT ![held[w]] = 0]
  /\ Release(w)
  /\ UNCHANGED <<rowVars, saves, brokerVars, callerVars, crashes>>
FailWrite(w) ==
  /\ wpc[w] = "mark"
  /\ status' = [status EXCEPT ![held[w]] = verdict[w]]
  /\ Release(w)
  /\ UNCHANGED <<rowVars, progress, saves, brokerVars, callerVars, crashes>>

-----------------------------------------------------------------------------
(* Crashes.  Nothing is redelivered and nothing is recovered at start-up.   *)

Crash == crashes < MaxCrashes /\ crashes' = crashes + 1

\* A request dies between two of its steps: the API process went down, or a
\* statement that has no handler (the refresh after the commit, the commit of
\* a failed or cancelled status) raised.
ClientCrash(c) ==
  /\ Crash
  /\ pc[c] # "idle"
  /\ pc' = [pc EXCEPT ![c] = "idle"]
  /\ asked' = [asked EXCEPT ![c] = None]
  /\ mine' = [mine EXCEPT ![c] = None]
  /\ UNCHANGED <<dbVars, brokerVars, workerVars>>

\* A task ends without recording anything: mark_run_terminal itself raised, or
\* the worker process died, and with it may go the revoked ids it remembers.
WorkerCrash(w) ==
  /\ Crash
  /\ wpc[w] # "idle" \/ (Runtime = "docker" /\ revoked # {})
  /\ Release(w)
  /\ \/ UNCHANGED revoked
     \/ Runtime = "docker" /\ revoked' = {}
  /\ UNCHANGED <<dbVars, queue, misfired, callerVars>>

\* The local runtime is one process: handlers, executor queue and crawl.
ProcessCrash ==
  /\ Crash
  /\ Runtime = "local"
  /\ queue' = << >>
  /\ revoked' = {}
  /\ pc' = [c \in Callers |-> "idle"]
  /\ asked' = [c \in Callers |-> None]
  /\ mine' = [c \in Callers |-> None]
  /\ wpc' = [w \in Workers |-> "idle"]
  /\ held' = [w \in Workers |-> None]
  /\ reports' = [w \in Workers |-> 0]
  /\ verdict' = [w \in Workers |-> None]
  /\ UNCHANGED <<dbVars, misfired>>

-----------------------------------------------------------------------------
\* A request that was accepted runs to its answer.
CallerStep(c) ==
  \/ \E r \in Runs : FlushSource(c, r) \/ InsertRun(c, r)
  \/ LookupActive(c) \/ RequeryActive(c)
  \/ Enqueue(c) \/ EnqueueRaises(c) \/ MarkUnqueued(c)
  \/ CancelRevoke(c) \/ CancelWrite(c)

ClientRequest(c) ==
  \/ \E s \in Sources, o \in Options : RequestAnalysis(c, s, o)
  \/ \E r \in Runs : CancelRead(c, r)

WorkerStep(w) ==
  \/ Claim(w) \/ Report(w)
  \/ \E outcome \in Successes : CrawlReturns(w, outcome)
  \/ \E outcome \in Failures : CrawlRaises(w, outcome)
  \/ SaveRead(w) \/ SaveWrite(w) \/ SaveRaises(w)
  \/ FailRead(w) \/ FailWrite(w)

Crashes ==
  \/ \E c \in Clients : ClientCrash(c)
  \/ \E w \in Workers : WorkerCrash(w)
  \/ ProcessCrash

Next ==
  \/ \E c \in Clients : ClientRequest(c) \/ CallerStep(c)
  \/ \E w \in Workers : WorkerStep(w)
  \/ Crashes

Spec == Init /\ [][Next]_vars

\* Handlers and workers keep running: asyncio resumes a handler, every wait
\* of the crawl has a time limit, and a worker takes the oldest message.
Fairness ==
  /\ \A c \in Clients : WF_vars(CallerStep(c))
  /\ \A w \in Workers : WF_vars(WorkerStep(w))

FairSpec == Spec /\ Fairness
-----------------------------------------------------------------------------
(* Safety.                                                                 *)

\* A source never has two active runs, whatever the interleaving of requests:
\* the promise of uq_crawl_runs_active_source and of every status write that
\* bypasses it (a blind failed or cancelled, a worker's terminal status).
OneActivePerSource ==
  \A r, q \in Runs :
    /\ status[r] \in Active
    /\ status[q] \in Active
    /\ source[r] = source[q]
    => r = q

\* A run is crawled by one worker at a time, even if its message arrives
\* twice or its row is cancelled under the worker: _claim_run lets one in.
CrawledByOne ==
  \A v, w \in Workers : held[v] # None /\ held[v] = held[w] => v = w

\* The snapshots of a run are written at most once, however often its task is
\* delivered and whatever is written to its status meanwhile.
SavedAtMostOnce == \A r \in Runs : saves[r] <= 1

\* AnalysisService.result: a run that says completed or partial has snapshots.
ResultExists ==
  \A r \in Runs : status[r] \in Successes => saves[r] > 0

\* A run whose snapshots are stored is over: no status write reopens it.
SavedIsOver ==
  \A r \in Runs : saves[r] > 0 => status[r] \in Terminal

\* What a worker holds has been claimed: it is running, unless a request took
\* it away meanwhile, and nothing of it is stored yet, unless the worker has
\* just stored it itself and what followed the commit raised.
ClaimedBeforeCrawled ==
  \A w \in Workers :
    held[w] # None =>
      \/ /\ status[held[w]] \in {"running", "cancelled", "failed"}
         /\ saves[held[w]] = 0
      \/ /\ wpc[w] = "fail"
         /\ status[held[w]] \in Terminal
         /\ saves[held[w]] = 1

\* Inside persist and mark_run_terminal the row lock keeps the run running:
\* the check made when it was read still holds when it is written.
LockedRunIsRunning ==
  Runtime = "docker" =>
    \A w \in Workers : wpc[w] \in {"write", "mark"} => status[held[w]] = "running"

\* As long as nothing crashed, a queued run is not forgotten: its message is
\* on the way, or a handler will still publish, fail or cancel it.  The one
\* exception is a run whose revoke raised after the workers had heard of it:
\* it stays queued until somebody cancels it again.
InHandler(r) ==
  \E c \in Callers : mine[c] = r /\ pc[c] \in {"enqueue", "unqueue", "cancel"}

InBroker(r) ==
  r \notin revoked /\ Waiting(r)

QueuedIsCarried ==
  crashes = 0 =>
    \A r \in Runs : status[r] = "queued" =>
      InHandler(r) \/ InBroker(r) \/ r \in misfired

\* As long as nothing crashed, a running run has the worker that will end it.
RunningIsCrawled ==
  crashes = 0 =>
    \A r \in Runs : status[r] = "running" => \E w \in Workers : held[w] = r

\* Between the reads and the writes of a process its own registers agree.
WorkerRegisters ==
  \A w \in Workers :
    /\ wpc[w] = "idle" <=> held[w] = None
    /\ wpc[w] \in {"save", "write"} => verdict[w] \in Successes
    /\ wpc[w] \in {"fail", "mark"} => verdict[w] \in Failures

CallerRegisters ==
  \A c \in Callers :
    /\ pc[c] \in {"flush", "lookup", "insert", "requery"} => asked[c] # None
    /\ pc[c] \in {"lookup", "insert", "requery"} => asked[c][1] \in tracked
    /\ pc[c] \in {"enqueue", "unqueue", "revoke", "cancel"} =>
         mine[c] # None /\ status[mine[c]] # "absent"

RunsHaveSources ==
  \A r \in Runs : status[r] # "absent" => source[r] \in tracked

RevokedIsCancelled ==
  crashes = 0 =>
    \A r \in revoked \ misfired : status[r] = "queued" =>
      \E c \in Callers : mine[c] = r /\ pc[c] = "cancel"

MessagesHaveRows ==
  /\ \A i \in DOMAIN queue : status[queue[i]] # "absent"
  /\ \A r \in revoked \cup misfired : status[r] # "absent"

IndInv ==
  /\ TypeOK
  /\ WorkerRegisters
  /\ CallerRegisters
  /\ RunsHaveSources
  /\ MessagesHaveRows
  /\ OneActivePerSource
  /\ CrawledByOne
  /\ SavedAtMostOnce
  /\ ResultExists
  /\ SavedIsOver
  /\ ClaimedBeforeCrawled
  /\ LockedRunIsRunning
  /\ RevokedIsCancelled
  /\ QueuedIsCarried
  /\ RunningIsCrawled

-----------------------------------------------------------------------------
(* What a step may not do.                                                 *)

\* A run that is over changes only through the commit of a handler that read
\* it earlier (cancel, or the failed write after enqueue): a worker, however
\* late, never rewrites an ended run.
EndedByRequestOnly ==
  [][\A r \in Runs :
       status[r] \in Terminal /\ status'[r] # status[r] =>
         \E c \in Callers : /\ pc[c] \in {"cancel", "unqueue"}
                            /\ mine[c] = r
                            /\ pc'[c] # pc[c]]_vars

\* The progress a client polls never goes back.
ProgressNeverRegresses ==
  [][\A r \in Runs : progress[r] <= progress'[r]]_vars

\* A run that waits for its worker has made no progress, and one that is crawled is
\* not further than the marks its worker has yet to report.
ProgressIsReported ==
  /\ \A r \in Runs : status[r] \in {"absent", "queued"} => progress[r] = 0
  /\ \A w \in Workers : wpc[w] = "crawl" =>
       \A i \in DOMAIN Marks : i > reports[w] => progress[held[w]] <= Marks[i]

\* AnalysisService.cancel says that only a queued run can be cancelled.
OnlyQueuedCancelled ==
  [][\A r \in Runs :
       status'[r] = "cancelled" => status[r] \in {"queued", "cancelled"}]_vars

-----------------------------------------------------------------------------
(* The abstract specification.                                             *)

\* Every step of the handlers, the broker and the workers is, on the rows, a
\* step the ledger allows, or no step at all.
Ledger == INSTANCE RunLedger WITH
            RowLocks <- Runtime = "docker",
            stored   <- {r \in Runs : saves[r] > 0}

ImplementsLedger == Ledger!Spec

-----------------------------------------------------------------------------
(* Liveness.                                                               *)

\* A run that was accepted comes to an end when no process crashes, unless it
\* waits and a revoke that raised has taken its message away.
EveryRunSettles ==
  \A r \in Runs : status[r] \in Active ~>
    status[r] \in Terminal \/ (status[r] = "queued" /\ r \in misfired)
=============================================================================
