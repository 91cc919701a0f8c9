-------------------------- MODULE OccurrenceProofs --------------------------
(***************************************************************************)
(* Proofs about the occurrences of a schedule: one scheduler loop that no  *)
(* crash interrupts creates at most one run for each, whatever the schedule*)
(* API, the other requests and the workers do meanwhile, and records none  *)
(* as failed whose run is on its way.                                      *)
(*                                                                         *)
(* OccurrenceInv is inductive relative to RunnersInv.  Its core says that *)
(* an occurrence that is spent lies behind the next_run_at of its schedule,*)
(* or is the one the loop is at; so a new cycle cannot copy it again.      *)
(***************************************************************************)
EXTENDS ScheduleRunnerProofs

-----------------------------------------------------------------------------
(* What steps of requests and workers mean for the loop.                   *)

\* A run that has ended, or that never was, does not become active by a step
\* of a worker or of a request that has its run; a row is never deleted.
StatusMoves ==
  \A r \in Runs :
    /\ status[r] # "absent" => status'[r] # "absent"
    /\ status[r] \notin Active \cup {"absent"} => status'[r] \notin Active

LEMMA WorkerStatusMoves ==
  ASSUME IndInv, NEW w \in Workers, WorkerStep(w)
  PROVE  StatusMoves
<1> USE DEF IndInv, TypeOK, StatusMoves, Active, Terminal, Successes, Failures
<1>1. CASE Claim(w)
  BY <1>1 DEF Claim, Claimable
<1>2. CASE \/ Report(w) \/ SaveRead(w) \/ SaveRaises(w) \/ FailRead(w)
           \/ \E outcome \in Successes : CrawlReturns(w, outcome)
           \/ \E outcome \in Failures : CrawlRaises(w, outcome)
  BY <1>2 DEF Report, SaveRead, SaveRaises, FailRead, CrawlReturns, CrawlRaises, dbVars
<1>3. CASE SaveWrite(w) \/ FailWrite(w)
  BY <1>3 DEF SaveWrite, FailWrite, WorkerRegisters
<1> QED
  BY <1>1, <1>2, <1>3 DEF WorkerStep

LEMMA CallerStatusMoves ==
  ASSUME IndInv, NEW c \in Callers, CallerStep(c)
  PROVE  /\ StatusMoves
         /\ \A d \in Callers \ {c} : mine'[d] = mine[d]
<1> USE DEF IndInv, TypeOK, StatusMoves, Active, Terminal, Successes, Failures,
            dbVars, rowVars, Goto, Reply
<1>1. ASSUME NEW r \in Runs, FlushSource(c, r) \/ InsertRun(c, r)
      PROVE  StatusMoves /\ \A d \in Callers \ {c} : mine'[d] = mine[d]
  BY <1>1 DEF FlushSource, InsertRun, InsertQueued
<1>2. CASE LookupActive(c) \/ RequeryActive(c)
  BY <1>2 DEF LookupActive, RequeryActive, Deduplicate
<1>3. CASE Enqueue(c) \/ EnqueueRaises(c) \/ MarkUnqueued(c)
  BY <1>3 DEF Enqueue, EnqueueRaises, OnEnqueueError, MarkUnqueued
<1>4. CASE CancelRevoke(c) \/ CancelWrite(c)
  BY <1>4 DEF CancelRevoke, CancelWrite
<1> QED
  BY <1>1, <1>2, <1>3, <1>4 DEF CallerStep

\* A step beside the scheduler leaves the registers of a runner alone.
LEMMA CoreStepFrame ==
  ASSUME RunnersInv, CoreStep, crashes' = 0
  PROVE  /\ StatusMoves
         /\ \A p \in Runners : pc'[p] = pc[p] /\ mine'[p] = mine[p]
<1> USE DEF RunnersInv
<1>1. ASSUME NEW c \in Clients, ClientRequest(c)
      PROVE  /\ StatusMoves
             /\ \A p \in Runners : pc'[p] = pc[p] /\ mine'[p] = mine[p]
  BY <1>1, NamesAssumption
     DEF ClientRequest, RequestAnalysis, CancelRead, dbVars, StatusMoves, Active,
         IndInv, TypeOK, Callers
<1>2. ASSUME NEW c \in Clients, CallerStep(c)
      PROVE  /\ StatusMoves
             /\ \A p \in Runners : pc'[p] = pc[p] /\ mine'[p] = mine[p]
  BY <1>2, CallerStatusMoves, CallerStepFrame, NamesAssumption DEF Callers
<1>3. ASSUME NEW w \in Workers, WorkerStep(w)
      PROVE  /\ StatusMoves
             /\ \A p \in Runners : pc'[p] = pc[p] /\ mine'[p] = mine[p]
  <2>1. UNCHANGED callerVars
    BY <1>3 DEF WorkerStep, Claim, Report, CrawlReturns, CrawlRaises, SaveRead,
                SaveWrite, SaveRaises, FailRead, FailWrite
  <2> QED
    BY <1>3, <2>1, WorkerStatusMoves DEF callerVars
<1>4. ASSUME NEW c \in Clients, ClientCrash(c)
      PROVE  FALSE
  BY <1>4 DEF ClientCrash, Crash, IndInv, TypeOK
<1>5. ASSUME NEW w \in Workers, WorkerCrash(w)
      PROVE  FALSE
  BY <1>5 DEF WorkerCrash, Crash, IndInv, TypeOK
<1> QED
  BY <1>1, <1>2, <1>3, <1>4, <1>5 DEF CoreStep

\* Where a call of create_for_source goes next, and what of the rows it writes.
LEMMA CallGoesOn ==
  ASSUME RunnersInv, NEW p \in Runners, Call(p)
  PROVE  \/ /\ pc[p] = "insert" /\ pc'[p] = "enqueue"
            /\ mine'[p] \in Runs
            /\ status[mine'[p]] = "absent"
            /\ status' = [status EXCEPT ![mine'[p]] = "queued"]
         \/ /\ pc[p] = "unqueue" /\ pc'[p] = "raised"
            /\ status' = [status EXCEPT ![mine[p]] = "failed"]
         \/ /\ pc[p] = "enqueue" /\ pc'[p] = "unqueue"
            /\ UNCHANGED <<status, mine>>
         \/ /\ pc[p] = "enqueue" /\ pc'[p] = "created"
            /\ UNCHANGED status
         \/ /\ pc[p] \in {"lookup", "insert"} /\ pc'[p] \in {"insert", "requery"}
            /\ pc'[p] = "requery" => pc[p] = "insert"
            /\ UNCHANGED status
         \/ /\ pc[p] \in {"lookup", "requery"} /\ pc'[p] \in {"reused", "raised"}
            /\ UNCHANGED status
<1> USE DEF RunnersInv, IndInv, TypeOK, Goto, Reply, dbVars, rowVars, Callers
<1>1. CallerStep(p) /\ pc[p] \notin {"flush", "revoke", "cancel"}
  BY DEF Call, RunnerRegisters
<1>2. ASSUME NEW r \in Runs, InsertRun(p, r)
      PROVE  \/ /\ pc[p] = "insert" /\ pc'[p] = "enqueue"
                /\ mine'[p] = r
                /\ status[r] = "absent"
                /\ status' = [status EXCEPT ![r] = "queued"]
             \/ /\ pc[p] = "insert" /\ pc'[p] = "requery" /\ UNCHANGED status
  BY <1>2 DEF InsertRun, InsertQueued
<1>3. CASE LookupActive(p) \/ RequeryActive(p)
  BY <1>3 DEF LookupActive, RequeryActive, Deduplicate
<1>4. CASE Enqueue(p) \/ EnqueueRaises(p) \/ MarkUnqueued(p)
  BY <1>4 DEF Enqueue, EnqueueRaises, OnEnqueueError, MarkUnqueued
<1> QED
  BY <1>1, <1>2, <1>3, <1>4 DEF CallerStep, FlushSource, CancelRevoke, CancelWrite

-----------------------------------------------------------------------------
(* The loop's own facts.                                                   *)

LoopInv(p) == CopiesAreDue(p) /\ SpentIsBehind(p) /\ CallIsKnown(p)

\* Where the loop is alone now, it has been alone.
LEMMA StaysAlone ==
  ASSUME RunnersInv, [ScheduleNext]_allVars, Alone'
  PROVE  Alone /\ crashes' = 0
<1>1. crashes' = 0 /\ \A p, q \in Runners : p = q
  BY DEF Alone
<1>2. crashes \in Nat /\ (crashes' = crashes \/ crashes' = crashes + 1)
  <2>1. crashes \in Nat
    BY NamesAssumption DEF RunnersInv, IndInv, TypeOK
  <2>2. ASSUME NEW c \in Callers, CallerStep(c)
        PROVE  crashes' = crashes
    <3>1. ASSUME NEW r \in Runs, FlushSource(c, r) \/ InsertRun(c, r)
          PROVE  crashes' = crashes
      BY <3>1 DEF FlushSource, InsertRun, InsertQueued
    <3> QED
      BY <2>2, <3>1
         DEF CallerStep, LookupActive, RequeryActive, Enqueue, EnqueueRaises,
             MarkUnqueued, CancelRevoke, CancelWrite
  <2>3. ASSUME NEW w \in Workers, WorkerStep(w)
        PROVE  crashes' = crashes
    BY <2>3 DEF WorkerStep, Claim, Report, CrawlReturns, CrawlRaises, SaveRead,
                SaveWrite, SaveRaises, FailRead, FailWrite
  <2>4. CASE CoreStep
    BY <2>1, <2>2, <2>3, <2>4 DEF CoreStep, ClientRequest, RequestAnalysis, CancelRead,
                            ClientCrash, WorkerCrash, Crash, Callers
  <2>5. ASSUME NEW p \in Runners, RunnerStep(p)
        PROVE  crashes' = crashes
    BY <2>2, <2>5 DEF RunnerStep, CycleStarts, TakeRow, Acquire, Call, Unlock, Advance,
                      RecordMissed, Commit, coreVars, Callers
  <2>6. CASE \/ Tick \/ ScheduleEdit \/ UNCHANGED allVars
             \/ \E s \in Sources : ExpireLock(s)
    BY <2>1, <2>6 DEF Tick, ScheduleEdit, CreateSchedule, PatchSchedule, DeleteSchedule, Edit,
                ExpireLock, allVars, coreVars
  <2>7. CASE \/ \E p \in Runners : CycleRaises(p) \/ RunnerCrash(p)
             \/ LocalCrash
    BY <2>1, <2>7 DEF CycleRaises, RunnerCrash, LocalCrash, ProcessCrash, Crash
  <2> QED
    BY <2>1, <2>4, <2>5, <2>6, <2>7 DEF ScheduleNext
<1> QED
  BY <1>1, <1>2 DEF Alone

LEMMA InitOccurrenceInv ==
  ASSUME ScheduleInit
  PROVE  OccurrenceInv
BY DEF ScheduleInit, OccurrenceInv, CopiesAreDue, SpentIsBehind, CallIsKnown, Spent, AtRow,
       IsFresh, OncePerOccurrence, MissedIsNotRunning

\* The occurrences that are spent are those of the runs on record and of missed.
LEMMA SpentRuns ==
  ASSUME ScheduleTypeOK
  PROVE  /\ \A r \in Runs : fired[r] # None => fired[r] \in Spent
         /\ \A o \in Spent : o \in Sources \X Nat
         /\ \A o \in Spent : o \in missed \/ \E r \in Runs : fired[r] = o
         /\ missed \subseteq Spent
         /\ \A x \in Copies : Occurrence(x) \in Sources \X Nat /\ Occurrence(x) # None
BY ScheduleNamesAssumption, NamesAssumption DEF ScheduleTypeOK, Spent, Occurrence, Copies


\* A step that leaves the schedules and the cycle alone.
LEMMA BesideOccurrenceInv ==
  ASSUME RunnersInv, OccurrenceInv, Alone, Alone',
         UNCHANGED <<schedules, cycleVars, fired, missed>>,
         time \in Nat, time' \in Nat, time <= time',
         \A p \in Runners : pc'[p] = pc[p] /\ mine'[p] = mine[p],
         StatusMoves
  PROVE  OccurrenceInv'
<1> USE DEF cycleVars
<1>1. ASSUME NEW p \in Runners
      PROVE  LoopInv(p)'
  <2>0. LoopInv(p) /\ now[p] \in Nat
    BY DEF OccurrenceInv, LoopInv, RunnersInv, ScheduleTypeOK
  <2>1. CopiesAreDue(p)'
    BY <2>0 DEF LoopInv, CopiesAreDue, AtRow
  <2>2. SpentIsBehind(p)'
    BY <2>0 DEF LoopInv, SpentIsBehind, AtRow, IsFresh, Spent, Occurrence
  <2>3. CallIsKnown(p)'
    <3>1. CallIsKnown(p)
      BY <2>0 DEF LoopInv
    <3>2. AtRow(p) => Occurrence(row[p]) # None
      BY SpentRuns DEF RunnersInv, ScheduleTypeOK, RunnerRegisters, AtRow
    <3>3. \A r \in Runs : fired[r] # None => status[r] # "absent"
      BY DEF OccurrenceInv
    <3> QED
      BY <3>1, <3>2, <3>3 DEF CallIsKnown, Occurrence, StatusMoves, AtRow
  <2> QED
    BY <2>1, <2>2, <2>3 DEF LoopInv
<1>2. \A r \in Runs : fired'[r] # None => status'[r] # "absent"
  BY DEF OccurrenceInv, StatusMoves
<1>3. OncePerOccurrence'
  BY DEF OccurrenceInv, OncePerOccurrence, Alone
<1>4. MissedIsNotRunning'
  <2>1. \A r \in Runs : fired[r] \in missed => status[r] # "absent"
    BY ScheduleNamesAssumption DEF OccurrenceInv, RunnersInv, ScheduleTypeOK
  <2> QED
    BY <2>1 DEF OccurrenceInv, MissedIsNotRunning, StatusMoves, Alone
<1> QED
  BY <1>1, <1>2, <1>3, <1>4 DEF OccurrenceInv, LoopInv


\* The facts about runs survive a step that writes none of fired, missed, status.
LEMMA LoopMoves ==
  ASSUME OccurrenceInv, Alone, NEW p \in Runners,
         UNCHANGED <<status, fired, missed>>, LoopInv(p)'
  PROVE  OccurrenceInv'
<1>1. \A q \in Runners : q = p
  BY DEF Alone
<1>2. OncePerOccurrence' /\ MissedIsNotRunning'
  BY DEF OccurrenceInv, OncePerOccurrence, MissedIsNotRunning, Alone
<1> QED
  BY <1>1, <1>2 DEF OccurrenceInv, LoopInv

\* The schedule API writes a row with the same id and next_run_at, or one whose
\* next_run_at lies ahead of the clock; or it deletes the row.
LEMMA EditOccurrenceInv ==
  ASSUME RunnersInv, OccurrenceInv, Alone, Alone',
         NEW s \in Sources, NEW new, Edit(s, new),
         new # None => \/ new.next > time
                       \/ /\ schedules[s] # None
                          /\ new.id = schedules[s].id /\ new.next = schedules[s].next,
         new # None => new.next \in Nat
  PROVE  OccurrenceInv'
<1> USE DEF Edit, cycleVars, coreVars, dbVars, callerVars
<1>1. ASSUME NEW p \in Runners
      PROVE  LoopInv(p)'
  <2>1. /\ LoopInv(p) /\ now[p] \in Nat /\ time \in Nat /\ now[p] <= time
        /\ schedules \in [Sources -> Rows \cup {None}]
        /\ todo[p] \subseteq Copies /\ (AtRow(p) => row[p] \in Copies)
    BY BoundsAssumption
       DEF OccurrenceInv, LoopInv, CopiesAreDue, RunnersInv, ScheduleTypeOK,
           RunnerRegisters, AtRow
  <2>2. \A t \in Sources : schedules'[t] = IF t = s THEN new ELSE schedules[t]
    BY <2>1
  <2>3. CopiesAreDue(p)'
    <3> DEFINE copies == todo[p] \cup {x \in {row[p]} : AtRow(p)}
    <3>1. copies' = copies
      BY DEF AtRow
    <3>2. \A x \in copies : x.source \in Sources
      BY <2>1 DEF Copies
    <3>3. ASSUME NEW x \in copies, schedules'[x.source] # None
          PROVE  schedules'[x.source].id = x.id \/ schedules'[x.source].next > now[p]
      <4>1. schedules[x.source] # None =>
              schedules[x.source].id = x.id \/ schedules[x.source].next > now[p]
        BY <2>1 DEF LoopInv, CopiesAreDue
      <4> QED
        BY <2>1, <2>2, <3>2, <3>3, <4>1
    <3> QED
      BY <2>1, <3>1, <3>3 DEF LoopInv, CopiesAreDue, AtRow
  <2>4. SpentIsBehind(p)'
    <3>1. ASSUME NEW o \in Spent
          PROVE  \/ schedules'[o[1]] = None
                 \/ schedules'[o[1]].next > o[2]
                 \/ AtRow(p) /\ Occurrence(row[p]) = o
      <4>1. o[1] \in Sources /\ o[2] \in Nat /\ o[2] <= now[p]
        BY <2>1, SpentRuns DEF RunnersInv, LoopInv, SpentIsBehind
      <4>2. \/ schedules[o[1]] = None
            \/ schedules[o[1]].next > o[2]
            \/ AtRow(p) /\ Occurrence(row[p]) = o
        BY <2>1 DEF LoopInv, SpentIsBehind
      <4> QED
        BY <2>1, <2>2, <4>1, <4>2
    <3>2. Spent' = Spent /\ AtRow(p)' = AtRow(p) /\ IsFresh(p)' = IsFresh(p)
      BY DEF Spent, AtRow, IsFresh
    <3> QED
      BY <2>1, <3>1, <3>2 DEF LoopInv, SpentIsBehind, Occurrence
  <2>5. CallIsKnown(p)'
    BY <2>1 DEF LoopInv, CallIsKnown, Occurrence
  <2> QED
    BY <2>3, <2>4, <2>5 DEF LoopInv
<1>2. OncePerOccurrence' /\ MissedIsNotRunning'
  BY DEF OccurrenceInv, OncePerOccurrence, MissedIsNotRunning, Alone
<1> QED
  BY <1>1, <1>2 DEF OccurrenceInv, LoopInv

LEMMA ScheduleEditOccurrenceInv ==
  ASSUME RunnersInv, OccurrenceInv, Alone, Alone', ScheduleEdit
  PROVE  OccurrenceInv'
<1>1. /\ time \in Nat
      /\ \A k \in Cadences : NextRun(k, time) \in Nat /\ NextRun(k, time) > time
  <2>1. time \in Nat
    BY BoundsAssumption DEF RunnersInv, ScheduleTypeOK
  <2> QED
    BY <2>1, CadencesAssumption, NextRunIsAhead
<1>2. ASSUME NEW s \in Sources, NEW k \in Cadences, NEW o \in Options,
             NEW on \in BOOLEAN, CreateSchedule(s, k, o, on)
      PROVE  OccurrenceInv'
  BY <1>1, <1>2, EditOccurrenceInv DEF CreateSchedule
<1>3. ASSUME NEW s \in Sources, NEW k \in Cadences \cup {None},
             NEW o \in Options \cup {None}, NEW on \in BOOLEAN \cup {None},
             PatchSchedule(s, k, o, on)
      PROVE  OccurrenceInv'
  <2> DEFINE old   == schedules[s]
             every == IF k = None THEN old.every ELSE k
             new   == [id |-> old.id,
                       enabled |-> IF on = None THEN old.enabled ELSE on,
                       every |-> every,
                       opts |-> IF o = None THEN old.opts ELSE o,
                       next |-> IF k # None \/ on = TRUE THEN NextRun(every, time)
                                                         ELSE old.next]
  <2>1. old \in Rows /\ old # None /\ Edit(s, new)
    BY <1>3 DEF PatchSchedule, RunnersInv, ScheduleTypeOK
  <2>2. every \in Cadences /\ old.next \in Nat
    BY <2>1 DEF Rows
  <2>3. /\ new.id = old.id /\ new.next \in Nat
        /\ new.next > time \/ new.next = old.next
    BY <1>1, <2>2
  <2> HIDE DEF new
  <2> QED
    BY <2>1, <2>3, EditOccurrenceInv
<1>4. ASSUME NEW s \in Sources, NEW hard \in BOOLEAN, DeleteSchedule(s, hard)
      PROVE  OccurrenceInv'
  <2> DEFINE new == IF hard THEN None ELSE [schedules[s] EXCEPT !.enabled = FALSE]
  <2>1. schedules[s] \in Rows /\ schedules[s] # None /\ Edit(s, new)
    BY <1>4 DEF DeleteSchedule, RunnersInv, ScheduleTypeOK
  <2>2. new # None => /\ new.id = schedules[s].id /\ new.next = schedules[s].next
                      /\ new.next \in Nat
    BY <2>1 DEF Rows
  <2> HIDE DEF new
  <2> QED
    BY <2>1, <2>2, EditOccurrenceInv
<1> QED
  BY <1>2, <1>3, <1>4 DEF ScheduleEdit


-----------------------------------------------------------------------------
(* The steps of a cycle.                                                   *)

\* A cycle copies rows whose occurrence has not been spent.
LEMMA CycleStartsOccurrenceInv ==
  ASSUME RunnersInv, OccurrenceInv, Alone, Alone',
         NEW p \in Runners, NEW browser \in BOOLEAN, CycleStarts(p, browser)
  PROVE  OccurrenceInv'
<1> USE DEF CycleStarts, coreVars, dbVars, callerVars
<1>1. /\ LoopInv(p) /\ time \in Nat /\ now[p] \in Nat /\ now[p] <= time
      /\ ~AtRow(p) /\ ~AtRow(p)' /\ ~IsFresh(p)' /\ rpc'[p] = "loop"
      /\ now'[p] = time /\ todo'[p] = Due(time)
      /\ Spent' = Spent
  BY BoundsAssumption DEF OccurrenceInv, LoopInv, CopiesAreDue, RunnersInv,
                          ScheduleTypeOK, AtRow, IsFresh, Spent
<1>2. \A x \in Due(time) :
        /\ x.source \in Sources /\ schedules[x.source] # None
        /\ x = [source |-> x.source, id |-> schedules[x.source].id,
                every |-> schedules[x.source].every, opts |-> schedules[x.source].opts,
                next |-> schedules[x.source].next]
        /\ x.id = schedules[x.source].id /\ x.next = schedules[x.source].next
        /\ x.next <= time /\ x.next \in Nat
  BY DEF Due, RunnersInv, ScheduleTypeOK, Rows, IndInv, TypeOK
<1>3. CopiesAreDue(p)'
  <2>1. \A x, y \in Due(time) : x.source = y.source => x = y
    BY <1>2
  <2> QED
    BY <1>1, <1>2, <2>1 DEF CopiesAreDue, AtRow
<1>4. SpentIsBehind(p)'
  <2>1. ASSUME NEW o \in Spent
        PROVE  /\ o[2] \in Nat /\ o[2] <= time /\ o[1] \in Sources
               /\ schedules[o[1]] = None \/ schedules[o[1]].next > o[2]
    BY <1>1, SpentRuns DEF LoopInv, SpentIsBehind, RunnersInv
  <2>2. \A x \in Due(time) : Occurrence(x) \notin Spent
    <3> SUFFICES ASSUME NEW x \in Due(time), Occurrence(x) \in Spent
                 PROVE  FALSE
      OBVIOUS
    <3>1. Occurrence(x)[1] = x.source /\ Occurrence(x)[2] = x.next
      BY DEF Occurrence
    <3> QED
      BY <1>2, <2>1, <3>1
  <2> QED
    BY <1>1, <2>1, <2>2 DEF SpentIsBehind
<1>5. CallIsKnown(p)'
  BY <1>1 DEF LoopInv, CallIsKnown
<1> QED
  BY <1>3, <1>4, <1>5, LoopMoves DEF LoopInv

\* A cycle that ends leaves nothing spent that is still due.
LEMMA SleepLoopInv ==
  ASSUME RunnersInv, OccurrenceInv, Alone, NEW p \in Runners, Sleep(p),
         UNCHANGED <<status, fired, missed, schedules, time>>,
         AtRow(p) /\ Occurrence(row[p]) \in Spent =>
           \/ schedules[row[p].source] = None
           \/ schedules[row[p].source].next > row[p].next
  PROVE  OccurrenceInv'
<1> USE DEF Sleep
<1>1. /\ LoopInv(p)
      /\ rpc'[p] = "asleep" /\ todo'[p] = {} /\ ~expired'[p] /\ now' = now
      /\ ~AtRow(p)' /\ ~IsFresh(p)' /\ Spent' = Spent
  BY DEF OccurrenceInv, LoopInv, RunnersInv, ScheduleTypeOK, AtRow, IsFresh, Spent
<1>2. CopiesAreDue(p)'
  BY <1>1 DEF LoopInv, CopiesAreDue
<1>3. SpentIsBehind(p)'
  <2>1. ASSUME NEW o \in Spent
        PROVE  /\ o[2] <= now[p]
               /\ schedules[o[1]] = None \/ schedules[o[1]].next > o[2]
    BY <1>1 DEF LoopInv, SpentIsBehind, Occurrence
  <2> QED
    BY <1>1, <2>1 DEF SpentIsBehind
<1>4. CallIsKnown(p)'
  BY <1>1 DEF CallIsKnown
<1> QED
  BY <1>2, <1>3, <1>4, LoopMoves DEF LoopInv

LEMMA TakeRowOccurrenceInv ==
  ASSUME RunnersInv, OccurrenceInv, Alone, Alone', NEW p \in Runners, TakeRow(p)
  PROVE  OccurrenceInv'
<1> USE DEF TakeRow, coreVars, dbVars, callerVars
<1>1. CASE Sleep(p)
  BY <1>1, SleepLoopInv DEF AtRow
<1>2. ASSUME NEW x \in todo[p],
             row' = [row EXCEPT ![p] = x],
             todo' = [todo EXCEPT ![p] = @ \ {x}],
             rpc' = [rpc EXCEPT ![p] = IF ready[p] THEN "lock" ELSE "unavailable"],
             UNCHANGED <<now, ready, expired>>
      PROVE  OccurrenceInv'
  <2>1. /\ LoopInv(p) /\ ~AtRow(p) /\ AtRow(p)'
        /\ rpc'[p] \in {"lock", "unavailable"} /\ row'[p] = x
        /\ todo'[p] = todo[p] \ {x} /\ Spent' = Spent
    BY <1>2 DEF OccurrenceInv, LoopInv, RunnersInv, ScheduleTypeOK, AtRow, Spent
  <2>2. CopiesAreDue(p)'
    BY <1>2, <2>1 DEF LoopInv, CopiesAreDue
  <2>3. SpentIsBehind(p)'
    <3>1. Occurrence(x) \notin Spent /\ missed \subseteq Spent
      BY <2>1 DEF LoopInv, SpentIsBehind, Spent
    <3>2. \A o \in Spent : /\ o[2] <= now[p]
                           /\ schedules[o[1]] = None \/ schedules[o[1]].next > o[2]
      BY <2>1 DEF LoopInv, SpentIsBehind
    <3>3. \A y \in todo'[p] : Occurrence(y) \notin Spent
      BY <2>1 DEF LoopInv, SpentIsBehind
    <3> QED
      BY <1>2, <2>1, <3>1, <3>2, <3>3 DEF SpentIsBehind
  <2>4. CallIsKnown(p)'
    BY <1>2, <2>1 DEF LoopInv, CallIsKnown, AtRow
  <2> QED
    BY <2>2, <2>3, <2>4, LoopMoves DEF LoopInv
<1> QED
  BY <1>1, <1>2


LEMMA AcquireOccurrenceInv ==
  ASSUME RunnersInv, OccurrenceInv, Alone, Alone', NEW p \in Runners, Acquire(p)
  PROVE  OccurrenceInv'
<1> USE DEF Acquire, GoOn, dbVars, callerVars
<1>1. /\ LoopInv(p) /\ AtRow(p) /\ IsFresh(p) /\ Spent' = Spent
      /\ UNCHANGED <<time, schedules, status, fired, missed, now, todo, row, expired>>
      /\ ~expired[p]
  BY DEF OccurrenceInv, LoopInv, AtRow, IsFresh, Spent, CallIsKnown
<1>2. \/ rpc'[p] = "calling" /\ pc'[p] = "lookup"
      \/ rpc'[p] = "loop"
      \/ rpc'[p] = "recover" /\ Runtime = "docker"
  BY DEF RunnersInv, ScheduleTypeOK, IndInv, TypeOK, Callers
<1>3. /\ IsFresh(p)' => IsFresh(p)
      /\ AtRow(p)' => AtRow(p)
  BY <1>1
<1>4. CopiesAreDue(p)'
  BY <1>1, <1>3 DEF LoopInv, CopiesAreDue
<1>5. SpentIsBehind(p)'
  <2>1. Occurrence(row[p]) \notin Spent
    BY <1>1 DEF LoopInv, SpentIsBehind
  <2>2. \A o \in Spent : /\ o[2] <= now[p]
                         /\ schedules[o[1]] = None \/ schedules[o[1]].next > o[2]
    BY <1>1, <2>1 DEF LoopInv, SpentIsBehind
  <2> QED
    BY <1>1, <2>1, <2>2 DEF LoopInv, SpentIsBehind, Occurrence
<1>6. CallIsKnown(p)'
  BY <1>1, <1>2 DEF CallIsKnown
<1> QED
  BY <1>1, <1>4, <1>5, <1>6, LoopMoves DEF LoopInv

\* A step of the call creates the run of the row's occurrence, once.
LEMMA CallOccurrenceInv ==
  ASSUME RunnersInv, OccurrenceInv, Alone, Alone', NEW p \in Runners, Call(p)
  PROVE  OccurrenceInv'
<1> DEFINE x == row[p]
           r == mine'[p]
           fires == pc[p] = "insert" /\ pc'[p] = "enqueue"
<1>1. /\ LoopInv(p) /\ AtRow(p) /\ AtRow(p)' /\ rpc[p] = "calling" /\ rpc'[p] = "calling"
      /\ x \in Copies
      /\ UNCHANGED <<time, schedules, now, todo, row, missed>>
      /\ expired' = [expired EXCEPT ![p] = @ \/ pc'[p] = "requery"]
      /\ fired' = IF fires THEN [fired EXCEPT ![r] = Occurrence(x)] ELSE fired
  BY DEF OccurrenceInv, LoopInv, AtRow, Call, RunnersInv, ScheduleTypeOK, RunnerRegisters,
         Occurrence
<1>2. expired'[p] = (expired[p] \/ pc'[p] = "requery")
  BY <1>1 DEF RunnersInv, ScheduleTypeOK
<1>3. CopiesAreDue(p)'
  BY <1>1 DEF LoopInv, CopiesAreDue
<1>4. \A q \in Runners : q = p
  BY DEF Alone
<1>5. CASE fires
  <2>1. /\ r \in Runs /\ status[r] = "absent"
        /\ status' = [status EXCEPT ![r] = "queued"]
    BY <1>5, CallGoesOn
  <2>2. /\ Occurrence(x) \notin Spent
        /\ fired[r] = None
        /\ fired' = [fired EXCEPT ![r] = Occurrence(x)]
    BY <1>1, <1>5, <2>1 DEF LoopInv, SpentIsBehind, IsFresh, OccurrenceInv
  <2>3. Occurrence(x) # None /\ fired \in [Runs -> (Sources \X Nat) \cup {None}]
    BY <1>1, SpentRuns DEF RunnersInv, ScheduleTypeOK
  <2>4. /\ \A q \in Runs : fired'[q] = IF q = r THEN Occurrence(x) ELSE fired[q]
        /\ Spent' = Spent \cup {Occurrence(x)}
    <3>1. \A q \in Runs : fired'[q] = IF q = r THEN Occurrence(x) ELSE fired[q]
      BY <2>1, <2>2, <2>3
    <3>2. Spent' = {fired'[q] : q \in {q \in Runs : fired'[q] # None}} \cup missed
      BY <1>1 DEF Spent
    <3> QED
      BY <2>1, <2>2, <2>3, <3>1, <3>2 DEF Spent
  <2>5. SpentIsBehind(p)'
    <3>1. \A y \in todo[p] : Occurrence(y) # Occurrence(x)
      BY <1>1 DEF LoopInv, CopiesAreDue, Occurrence
    <3>2. ~IsFresh(p)' /\ ~expired'[p]
      BY <1>1, <1>2, <1>5 DEF IsFresh, LoopInv, CallIsKnown, Replies
    <3>3. Occurrence(x)[2] <= now[p]
      BY <1>1 DEF LoopInv, CopiesAreDue, Occurrence
    <3> QED
      BY <1>1, <2>4, <3>1, <3>2, <3>3 DEF LoopInv, SpentIsBehind, Occurrence
  <2>6. CallIsKnown(p)'
    BY <1>1, <1>2, <1>5, <2>1, <2>4 DEF LoopInv, CallIsKnown, Replies, Occurrence
  <2>7. \A q \in Runs : fired'[q] # None => status'[q] # "absent"
    BY <2>1, <2>4 DEF OccurrenceInv, RunnersInv, IndInv, TypeOK
  <2>8. OncePerOccurrence'
    <3>1. \A q \in Runs : fired[q] # None => fired[q] # Occurrence(x)
      BY <2>2, SpentRuns DEF RunnersInv
    <3> QED
      BY <2>4, <3>1 DEF OccurrenceInv, OncePerOccurrence, Alone
  <2>9. MissedIsNotRunning'
    <3>1. Occurrence(x) \notin missed
      BY <2>2 DEF Spent
    <3> QED
      BY <1>1, <2>1, <2>4, <3>1
         DEF OccurrenceInv, MissedIsNotRunning, Alone, RunnersInv, IndInv, TypeOK
  <2> QED
    BY <1>3, <1>4, <2>5, <2>6, <2>7, <2>8, <2>9 DEF OccurrenceInv, LoopInv
<1>6. CASE ~fires
  <2>1. fired' = fired /\ Spent' = Spent
    BY <1>1, <1>6 DEF Spent
  <2>2. StatusMoves
    BY CallerStatusMoves DEF Call, Callers, RunnersInv
  <2>3. SpentIsBehind(p)'
    <3>1. IsFresh(p)' => IsFresh(p)
      BY <1>1, CallGoesOn DEF IsFresh
    <3>2. expired'[p] => expired[p] \/ IsFresh(p)
      BY <1>1, <1>2, CallGoesOn DEF IsFresh
    <3> QED
      BY <1>1, <2>1, <3>1, <3>2 DEF LoopInv, SpentIsBehind, Occurrence
  <2>4. CallIsKnown(p)'
    <3>1. expired'[p] => pc'[p] \in {"requery"} \cup Replies
      BY <1>1, <1>2, CallGoesOn DEF LoopInv, CallIsKnown, Replies
    <3>2. pc'[p] \in {"enqueue", "unqueue"} => fired'[mine'[p]] = Occurrence(row[p])
      BY <1>1, <1>6, <2>1, CallGoesOn DEF LoopInv, CallIsKnown
    <3>3. ASSUME pc'[p] = "raised", NEW q \in Runs, fired[q] = Occurrence(x)
          PROVE  status'[q] \notin Active
      <4>1. Occurrence(x) # None
        BY <1>1, SpentRuns DEF RunnersInv
      <4>2. Occurrence(x) \in Spent
        BY <3>3, <4>1 DEF Spent
      <4>3. ~IsFresh(p)
        BY <1>1, <4>2 DEF LoopInv, SpentIsBehind
      <4>4. /\ pc[p] = "unqueue"
            /\ status' = [status EXCEPT ![mine[p]] = "failed"]
        BY <1>1, <3>3, <4>3, CallGoesOn DEF IsFresh
      <4>5. mine[p] \in Runs /\ fired[mine[p]] = Occurrence(x)
        BY <1>1, <4>4 DEF LoopInv, CallIsKnown, RunnersInv, IndInv, TypeOK, CallerRegisters,
                          Callers
      <4>6. q = mine[p]
        BY <3>3, <4>1, <4>5 DEF OccurrenceInv, OncePerOccurrence, Alone
      <4> QED
        BY <4>4, <4>6 DEF RunnersInv, IndInv, TypeOK, Active
    <3> QED
      BY <1>1, <2>1, <3>1, <3>2, <3>3 DEF CallIsKnown, Occurrence
  <2>5. \A q \in Runs : fired'[q] # None => status'[q] # "absent"
    BY <2>1, <2>2 DEF OccurrenceInv, StatusMoves
  <2>6. OncePerOccurrence'
    BY <2>1 DEF OccurrenceInv, OncePerOccurrence, Alone
  <2>7. MissedIsNotRunning'
    <3>1. \A q \in Runs : fired[q] \in missed => status[q] # "absent"
      BY ScheduleNamesAssumption DEF OccurrenceInv, RunnersInv, ScheduleTypeOK
    <3> QED
      BY <1>1, <2>1, <2>2, <3>1 DEF OccurrenceInv, MissedIsNotRunning, StatusMoves, Alone
  <2> QED
    BY <1>3, <1>4, <2>3, <2>4, <2>5, <2>6, <2>7 DEF OccurrenceInv, LoopInv
<1> QED
  BY <1>5, <1>6


LEMMA UnlockOccurrenceInv ==
  ASSUME RunnersInv, OccurrenceInv, Alone, Alone', NEW p \in Runners, Unlock(p)
  PROVE  OccurrenceInv'
<1> USE DEF Unlock, dbVars
<1>1. /\ LoopInv(p) /\ AtRow(p) /\ rpc[p] = "calling" /\ pc[p] \in Replies
      /\ UNCHANGED <<time, schedules, status, fired, missed>>
  BY DEF OccurrenceInv, LoopInv, AtRow
<1>2. CASE expired[p] /\ Sleep(p)
  BY <1>1, <1>2, SleepLoopInv DEF LoopInv, SpentIsBehind
<1>3. ASSUME NEW step \in {"recover", "advance"}, GoOn(p, step), ~expired[p],
             Runtime = "local" /\ step = "recover" => pc[p] = "raised"
      PROVE  OccurrenceInv'
  <2>1. /\ rpc'[p] = step /\ UNCHANGED <<now, todo, row, expired>>
        /\ AtRow(p)' /\ ~IsFresh(p)' /\ Spent' = Spent
    BY <1>1, <1>3 DEF GoOn, RunnersInv, ScheduleTypeOK, AtRow, IsFresh, Spent
  <2>2. CopiesAreDue(p)'
    BY <1>1, <2>1 DEF LoopInv, CopiesAreDue
  <2>3. SpentIsBehind(p)'
    BY <1>1, <1>3, <2>1 DEF LoopInv, SpentIsBehind, Occurrence
  <2>4. CallIsKnown(p)'
    BY <1>1, <1>3, <2>1 DEF LoopInv, CallIsKnown, Occurrence
  <2> QED
    BY <1>1, <2>2, <2>3, <2>4, LoopMoves DEF LoopInv
<1>4. \/ expired[p] /\ Sleep(p)
      \/ \E step \in {"recover", "advance"} :
           /\ GoOn(p, step) /\ ~expired[p]
           /\ Runtime = "local" /\ step = "recover" => pc[p] = "raised"
  <2>1. PICK failed \in BOOLEAN : AfterCall(p, failed) /\ (failed => Runtime = "docker")
    OBVIOUS
  <2> QED
    BY <2>1 DEF AfterCall
<1> QED
  BY <1>2, <1>3, <1>4

\* A commit moves the schedule behind which its occurrence then lies, or finds
\* that the row is gone, or made anew for a later time.
LEMMA CommitOccurrenceInv ==
  ASSUME RunnersInv, OccurrenceInv, Alone, Alone', NEW p \in Runners,
         rpc[p] \notin {"calling", "asleep", "loop"},
         NEW inserted \in SUBSET {Occurrence(row[p])}, Commit(p, inserted),
         Runtime = "local" /\ inserted # {} =>
           \A r \in Runs : fired[r] = Occurrence(row[p]) => status[r] \notin Active
  PROVE  OccurrenceInv'
<1> USE DEF Commit, coreVars, dbVars, callerVars
<1> DEFINE x == row[p]
<1>1. /\ LoopInv(p) /\ AtRow(p) /\ x \in Copies /\ x # None
      /\ x.source \in Sources /\ x.next \in Nat /\ x.next <= now[p] /\ now[p] \in Nat
      /\ UNCHANGED <<time, status, fired>>
  BY DEF OccurrenceInv, LoopInv, CopiesAreDue, AtRow, RunnersInv, ScheduleTypeOK,
         RunnerRegisters, Copies
<1>2. CASE RowGone(p)
  <2>1. Sleep(p) /\ UNCHANGED <<schedules, missed>>
    BY <1>2
  <2>2. \/ schedules[x.source] = None
        \/ schedules[x.source].next > now[p]
    BY <1>1, <1>2 DEF RowGone, LoopInv, CopiesAreDue
  <2>3. \/ schedules[x.source] = None
        \/ schedules[x.source].next > x.next
    BY <1>1, <2>2 DEF RunnersInv, ScheduleTypeOK, Rows
  <2> QED
    BY <1>1, <2>1, <2>3, SleepLoopInv
<1>3. CASE ~RowGone(p)
  <2> DEFINE new == NextRun(x.every, now[p])
  <2>1. /\ schedules[x.source] \in Rows
        /\ new \in Nat /\ new > now[p]
    <3>1. schedules[x.source] \in Rows /\ x.every \in Cadences
      BY <1>1, <1>3 DEF RowGone, RunnersInv, ScheduleTypeOK, Copies
    <3> QED
      BY <1>1, <3>1, CadencesAssumption, NextRunIsAhead
  <2>2. /\ schedules'[x.source] = [schedules[x.source] EXCEPT !.next = new]
        /\ \A s \in Sources : s # x.source => schedules'[s] = schedules[s]
    BY <1>1, <1>3 DEF MoveNext, RunnersInv, ScheduleTypeOK
  <2>3. /\ schedules'[x.source] # None
        /\ schedules'[x.source].next = new /\ schedules'[x.source].id = schedules[x.source].id
    BY <2>1, <2>2, ScheduleNamesAssumption DEF Rows
  <2> HIDE DEF new
  <2>4. /\ rpc'[p] = "loop" /\ ~AtRow(p)' /\ ~IsFresh(p)'
        /\ UNCHANGED <<now, todo, row, expired>>
        /\ missed' = missed \cup inserted
        /\ Spent' = Spent \cup inserted
    BY <1>1, <1>3 DEF GoOn, RunnersInv, ScheduleTypeOK, AtRow, IsFresh, Spent
  <2>5. \A y \in todo[p] : /\ y \in Copies /\ y.source \in Sources
                           /\ y.source # x.source /\ Occurrence(y) # Occurrence(x)
    BY <1>1 DEF LoopInv, CopiesAreDue, Occurrence, RunnersInv, ScheduleTypeOK, Copies
  <2>6. CopiesAreDue(p)'
    BY <1>1, <2>2, <2>4, <2>5 DEF LoopInv, CopiesAreDue
  <2>7. SpentIsBehind(p)'
    <3>1. ASSUME NEW o \in Spent \cup inserted
          PROVE  /\ o[2] <= now[p]
                 /\ schedules'[o[1]] = None \/ schedules'[o[1]].next > o[2]
      <4>1. /\ o[1] \in Sources /\ o[2] \in Nat /\ o[2] <= now[p]
            /\ o[1] # x.source => o \in Spent
        BY <1>1, SpentRuns DEF LoopInv, SpentIsBehind, Occurrence, RunnersInv
      <4>2. CASE o[1] = x.source
        BY <1>1, <2>1, <2>3, <4>1, <4>2
      <4>3. CASE o[1] # x.source
        <5>1. schedules[o[1]] = None \/ schedules[o[1]].next > o[2]
          BY <1>1, <4>1, <4>3 DEF LoopInv, SpentIsBehind, Occurrence
        <5> QED
          BY <2>2, <4>1, <4>3, <5>1
      <4> QED
        BY <4>1, <4>2, <4>3
    <3>2. \A y \in todo[p] : Occurrence(y) \notin Spent \cup inserted
      BY <1>1, <2>5 DEF LoopInv, SpentIsBehind
    <3> QED
      BY <2>4, <3>1, <3>2 DEF SpentIsBehind
  <2>8. CallIsKnown(p)'
    BY <1>1, <2>4 DEF LoopInv, CallIsKnown
  <2>9. OncePerOccurrence' /\ MissedIsNotRunning'
    BY <1>1, <2>4 DEF OccurrenceInv, OncePerOccurrence, MissedIsNotRunning, Alone
  <2> QED
    BY <1>1, <2>6, <2>7, <2>8, <2>9 DEF OccurrenceInv, LoopInv, Alone
<1> QED
  BY <1>2, <1>3

LEMMA RunnerOccurrenceInv ==
  ASSUME RunnersInv, OccurrenceInv, Alone, Alone', NEW p \in Runners, RunnerStep(p)
  PROVE  OccurrenceInv'
<1>1. CASE Advance(p)
  BY <1>1, CommitOccurrenceInv DEF Advance
<1>2. CASE RecordMissed(p)
  <2>1. /\ rpc[p] \in {"unavailable", "recover"}
        /\ Commit(p, {Occurrence(row[p])})
    BY <1>2 DEF RecordMissed, Occurrence
  <2>2. Occurrence(row[p]) # None
    BY <2>1, SpentRuns DEF RunnersInv, ScheduleTypeOK, RunnerRegisters
  <2>3. ASSUME Runtime = "local", NEW r \in Runs, fired[r] = Occurrence(row[p])
        PROVE  status[r] \notin Active
    <3>1. Occurrence(row[p]) \in Spent
      BY <2>2, <2>3 DEF Spent
    <3> QED
      BY <2>1, <2>3, <3>1 DEF OccurrenceInv, SpentIsBehind, CallIsKnown, IsFresh
  <2> QED
    BY <2>1, <2>3, CommitOccurrenceInv
<1> QED
  BY <1>1, <1>2, CycleStartsOccurrenceInv, TakeRowOccurrenceInv, AcquireOccurrenceInv,
     CallOccurrenceInv, UnlockOccurrenceInv DEF RunnerStep

-----------------------------------------------------------------------------
(* The theorems.                                                           *)

LEMMA StepOccurrenceInv ==
  ASSUME RunnersInv, OccurrenceInv, [ScheduleNext]_allVars
  PROVE  OccurrenceInv'
<1> SUFFICES ASSUME Alone'
             PROVE  OccurrenceInv'
  BY DEF OccurrenceInv
<1>1. Alone /\ crashes = 0 /\ crashes' = 0
  BY StaysAlone DEF Alone
<1>2. time \in Nat
  BY BoundsAssumption DEF RunnersInv, ScheduleTypeOK
<1>3. CASE CoreStep
  BY <1>1, <1>2, <1>3, CoreStepFrame, BesideOccurrenceInv DEF CoreStep, scheduleVars
<1>4. CASE \/ Tick \/ UNCHANGED allVars
           \/ \E s \in Sources : ExpireLock(s)
  <2>1. /\ UNCHANGED <<schedules, cycleVars, fired, missed, pc, mine, status>>
        /\ time' = time \/ time' = time + 1
    BY <1>4 DEF Tick, ExpireLock, allVars, scheduleVars, coreVars, callerVars, dbVars
  <2>2. StatusMoves
    BY <2>1 DEF StatusMoves
  <2> QED
    BY <1>1, <1>2, <2>1, <2>2, BesideOccurrenceInv
<1>5. CASE ScheduleEdit
  BY <1>1, <1>5, ScheduleEditOccurrenceInv
<1>6. ASSUME NEW p \in Runners, RunnerStep(p)
      PROVE  OccurrenceInv'
  BY <1>1, <1>6, RunnerOccurrenceInv
<1>7. CASE \/ \E p \in Runners : CycleRaises(p) \/ RunnerCrash(p)
           \/ LocalCrash
  BY <1>1, <1>7 DEF CycleRaises, RunnerCrash, LocalCrash, ProcessCrash, Crash
<1> QED
  BY <1>3, <1>4, <1>5, <1>6, <1>7 DEF ScheduleNext

\* With the scheduler beside the API and the workers, whatever the schedules,
\* the edits, the locks that expire and the crashes, the invariant of the
\* analysis runs and that of the scheduler hold in every reachable state.
THEOREM ScheduleInvariance == ScheduleSpec => []ScheduleInv
<1>1. ScheduleInit => OccurrenceInv
  BY InitOccurrenceInv
<1>2. RunnersInv /\ OccurrenceInv /\ [ScheduleNext]_allVars => OccurrenceInv'
  BY StepOccurrenceInv
<1>3. RunnersInv /\ OccurrenceInv => ScheduleInv
  BY DEF ScheduleInv
<1> QED
  BY <1>1, <1>2, <1>3, RunnersInvariance, PTL DEF ScheduleSpec

\* enqueue_due creates at most one run for an occurrence of a schedule, as long
\* as one loop runs it and nothing crashes.
THEOREM OccurrenceRunsOnce == ScheduleSpec => []OncePerOccurrence
<1>1. ScheduleInv => OncePerOccurrence
  BY DEF ScheduleInv, OccurrenceInv, OncePerOccurrence, Alone
<1> QED
  BY <1>1, ScheduleInvariance, PTL

\* In the local runtime no occurrence is on record as failed while its run is on
\* its way, as long as nothing crashes.
THEOREM FailedIsNotOnItsWay == ScheduleSpec => []MissedIsNotRunning
<1>1. ScheduleInv => MissedIsNotRunning
  BY LocalLoopAssumption DEF ScheduleInv, OccurrenceInv, MissedIsNotRunning, Alone
<1> QED
  BY <1>1, ScheduleInvariance, PTL

=============================================================================
