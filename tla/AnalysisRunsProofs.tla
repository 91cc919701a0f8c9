------------------------- MODULE AnalysisRunsProofs -------------------------
(***************************************************************************)
(* Proofs about AnalysisRuns: IndInv is an inductive invariant, whatever    *)
(* the sets of sources, runs, requests and workers and however many        *)
(* crashes, and the rows implement the ledger.                             *)
(*                                                                         *)
(* There is a lemma for each action.  The three ways in which a request    *)
(* moves on (it goes to another step, is answered, or inserts its run) are *)
(* shared by several actions and come first.                               *)
(***************************************************************************)
EXTENDS AnalysisRuns, SequenceTheorems, TLAPS

-----------------------------------------------------------------------------
LEMMA InitInv ==
  ASSUME Init
  PROVE  IndInv
<1> USE NamesAssumption, MarksAssumption DEF Init, Callers, CallerSteps, WorkerSteps
<1>1. TypeOK
  BY DEF TypeOK
<1>2. /\ WorkerRegisters /\ CallerRegisters /\ RunsHaveSources
      /\ MessagesHaveRows
  BY DEF WorkerRegisters, CallerRegisters, RunsHaveSources, MessagesHaveRows
<1>3. /\ OneActivePerSource /\ CrawledByOne /\ SavedAtMostOnce
      /\ ResultExists /\ SavedIsOver /\ ClaimedBeforeCrawled
  BY DEF OneActivePerSource, CrawledByOne, SavedAtMostOnce, ResultExists,
         SavedIsOver, ClaimedBeforeCrawled, Active, Successes
<1>4. /\ LockedRunIsRunning /\ RevokedIsCancelled /\ QueuedIsCarried
      /\ RunningIsCrawled
  BY DEF LockedRunIsRunning, RevokedIsCancelled, QueuedIsCarried, RunningIsCrawled
<1> QED
  BY <1>1, <1>2, <1>3, <1>4 DEF IndInv

-----------------------------------------------------------------------------
(* Steps of a request that leave every row and message alone.              *)

\* Rows and workers are as before: what is said of them alone stands.
LEMMA RowsUnchanged ==
  ASSUME IndInv, UNCHANGED <<dbVars, workerVars, crashes>>
  PROVE  /\ WorkerRegisters' /\ RunsHaveSources'
         /\ OneActivePerSource' /\ CrawledByOne' /\ SavedAtMostOnce'
         /\ ResultExists' /\ SavedIsOver' /\ ClaimedBeforeCrawled'
         /\ LockedRunIsRunning' /\ RunningIsCrawled'
<1> USE DEF IndInv, dbVars, workerVars
<1>1. WorkerRegisters' /\ RunsHaveSources'
  BY DEF WorkerRegisters, RunsHaveSources
<1>2. OneActivePerSource' /\ CrawledByOne' /\ SavedAtMostOnce'
  BY DEF OneActivePerSource, CrawledByOne, SavedAtMostOnce
<1>3. ResultExists' /\ SavedIsOver' /\ ClaimedBeforeCrawled'
  BY DEF ResultExists, SavedIsOver, ClaimedBeforeCrawled
<1>4. LockedRunIsRunning' /\ RunningIsCrawled'
  BY DEF LockedRunIsRunning, RunningIsCrawled
<1> QED
  BY <1>1, <1>2, <1>3, <1>4

\* A request that goes on to its next step, or is answered, without giving
\* up a run that only it can carry.
LEMMA RequestMovesInv ==
  ASSUME IndInv, NEW c \in Callers,
         UNCHANGED <<dbVars, brokerVars, workerVars, crashes>>,
         NEW step \in CallerSteps \cup Replies,
         NEW request \in (Sources \X Options) \cup {None},
         NEW run \in Runs \cup {None},
         pc' = [pc EXCEPT ![c] = step],
         asked' = [asked EXCEPT ![c] = request],
         mine' = [mine EXCEPT ![c] = run],
         step \in {"flush", "lookup", "insert", "requery"} => request # None,
         step \in {"lookup", "insert", "requery"} => request[1] \in tracked,
         step \in {"enqueue", "unqueue", "revoke", "cancel"} =>
           run # None /\ status[run] # "absent",
         pc[c] \notin {"enqueue", "unqueue", "cancel"}
  PROVE  IndInv'
<1>1. TypeOK'
  BY DEF IndInv, TypeOK, dbVars, brokerVars, workerVars
<1>2. CallerRegisters'
  BY DEF IndInv, TypeOK, CallerRegisters, dbVars
<1>3. QueuedIsCarried'
  <2> SUFFICES ASSUME crashes = 0, NEW r \in Runs, status[r] = "queued",
                      r \notin misfired
               PROVE  InHandler(r)' \/ InBroker(r)'
    BY DEF QueuedIsCarried, dbVars, brokerVars
  <2>1. InHandler(r) \/ InBroker(r)
    BY DEF IndInv, QueuedIsCarried
  <2>2. InBroker(r) => InBroker(r)'
    BY DEF InBroker, Waiting, brokerVars
  <2>3. InHandler(r) => InHandler(r)'
    BY DEF IndInv, TypeOK, InHandler
  <2> QED
    BY <2>1, <2>2, <2>3
<1>4. RevokedIsCancelled'
  BY DEF IndInv, TypeOK, RevokedIsCancelled, dbVars, brokerVars
<1>5. MessagesHaveRows'
  BY DEF IndInv, MessagesHaveRows, dbVars, brokerVars
<1> QED
  BY <1>1, <1>2, <1>3, <1>4, <1>5, RowsUnchanged DEF IndInv

LEMMA RequestAnalysisInv ==
  ASSUME IndInv, NEW c \in Callers, NEW s \in Sources, NEW o \in Options,
         RequestAnalysis(c, s, o)
  PROVE  IndInv'
<1> DEFINE step == IF s \in tracked THEN "lookup" ELSE "flush"
<1>1. pc' = [pc EXCEPT ![c] = step] /\ mine' = [mine EXCEPT ![c] = mine[c]]
  BY DEF RequestAnalysis, IndInv, TypeOK
<1>2. step \in CallerSteps \cup Replies /\ mine[c] \in Runs \cup {None}
  BY DEF CallerSteps, IndInv, TypeOK
<1>3. /\ <<s, o>> \in Sources \X Options
      /\ <<s, o>> # None
      /\ step = "lookup" => <<s, o>>[1] \in tracked
  BY NamesAssumption
<1> QED
  BY <1>1, <1>2, <1>3, RequestMovesInv DEF RequestAnalysis

LEMMA CancelReadInv ==
  ASSUME IndInv, NEW c \in Callers, NEW r \in Runs, CancelRead(c, r)
  PROVE  IndInv'
<1>1. asked' = [asked EXCEPT ![c] = asked[c]]
      /\ asked[c] \in (Sources \X Options) \cup {None}
  BY DEF CancelRead, IndInv, TypeOK
<1>2. "revoke" \in CallerSteps \cup Replies /\ r # None
  BY NamesAssumption DEF CallerSteps
<1> QED
  BY <1>1, <1>2, RequestMovesInv DEF CancelRead

\* A handler that owes no run its message may go on, or answer.
LEMMA GotoInv ==
  ASSUME IndInv, NEW c \in Callers, Goto(c, "insert") \/ Goto(c, "requery")
                                    \/ Goto(c, "lookup"),
         pc[c] \in {"flush", "lookup", "insert", "requery"},
         asked[c][1] \in tracked,
         UNCHANGED <<dbVars, brokerVars, workerVars, crashes>>
  PROVE  IndInv'
<1>1. PICK step \in {"insert", "requery", "lookup"} : pc' = [pc EXCEPT ![c] = step]
  BY DEF Goto
<1>2. /\ asked' = [asked EXCEPT ![c] = asked[c]]
      /\ mine' = [mine EXCEPT ![c] = mine[c]]
      /\ asked[c] \in (Sources \X Options) \cup {None}
      /\ mine[c] \in Runs \cup {None}
  BY DEF Goto, IndInv, TypeOK
<1>3. asked[c] # None
  BY DEF IndInv, CallerRegisters
<1>4. step \in CallerSteps \cup Replies
  BY <1>1 DEF CallerSteps
<1> QED
  BY <1>1, <1>2, <1>3, <1>4, RequestMovesInv

LEMMA ReplyInv ==
  ASSUME IndInv, NEW c \in Callers, NEW answer \in Replies, Reply(c, answer),
         pc[c] \notin {"enqueue", "unqueue", "cancel"},
         UNCHANGED <<dbVars, brokerVars, workerVars, crashes>>
  PROVE  IndInv'
<1> DEFINE step == IF c \in Runners THEN answer ELSE "idle"
<1>1. /\ pc' = [pc EXCEPT ![c] = step]
      /\ asked' = [asked EXCEPT ![c] = None]
      /\ mine' = [mine EXCEPT ![c] = None]
  BY DEF Reply
<1>2. /\ step \in CallerSteps \cup Replies
      /\ step \notin {"flush", "lookup", "insert", "requery",
                      "enqueue", "unqueue", "revoke", "cancel"}
  BY DEF CallerSteps, Replies
<1> QED
  BY <1>1, <1>2, RequestMovesInv

LEMMA LookupActiveInv ==
  ASSUME IndInv, NEW c \in Callers, LookupActive(c)
  PROVE  IndInv'
<1> USE DEF LookupActive
<1>1. CASE \E r \in ActiveRuns(asked[c][1]) : Deduplicate(c, r)
  BY <1>1, ReplyInv DEF Deduplicate, Replies
<1>2. CASE Goto(c, "insert")
  BY <1>2, GotoInv DEF IndInv, CallerRegisters
<1> QED
  BY <1>1, <1>2

LEMMA RequeryActiveInv ==
  ASSUME IndInv, NEW c \in Callers, RequeryActive(c)
  PROVE  IndInv'
<1> QED
  BY ReplyInv DEF RequeryActive, Deduplicate, Replies

-----------------------------------------------------------------------------
(* Creating a run.                                                         *)

\* The INSERT behind uq_crawl_runs_active_source.
LEMMA InsertQueuedInv ==
  ASSUME IndInv, NEW c \in Callers, NEW r \in Runs,
         NEW a \in Sources \X Options, InsertQueued(c, r, a),
         tracked' = tracked \cup {a[1]},
         \/ ActiveRuns(a[1]) = {}
         \/ a[1] \notin tracked,
         pc[c] \in {"flush", "insert"}
  PROVE  IndInv'
<1> USE DEF InsertQueued, brokerVars, workerVars
<1>1. TypeOK'
  <2>1. a[1] \in Sources /\ a[2] \in Options
    OBVIOUS
  <2> QED
    BY <2>1 DEF IndInv, TypeOK, Active, CallerSteps
<1>2. WorkerRegisters' /\ RunsHaveSources' /\ MessagesHaveRows'
  BY DEF IndInv, TypeOK, WorkerRegisters, RunsHaveSources, MessagesHaveRows
<1>3. CallerRegisters'
  BY NamesAssumption DEF IndInv, TypeOK, CallerRegisters
<1>4. OneActivePerSource'
  <2>1. \A q \in Runs : status[q] \in Active => source[q] # a[1]
    BY DEF ActiveRuns, IndInv, RunsHaveSources, Active
  <2> QED
    BY <2>1 DEF IndInv, TypeOK, OneActivePerSource
<1>5. CrawledByOne' /\ SavedAtMostOnce' /\ ResultExists' /\ SavedIsOver'
  BY DEF IndInv, TypeOK, CrawledByOne, SavedAtMostOnce, ResultExists,
         SavedIsOver, Successes, Failures, Terminal
<1>6. ClaimedBeforeCrawled' /\ LockedRunIsRunning' /\ RunningIsCrawled'
  <2>1. \A w \in Workers : held[w] # r
    <3>1. r # None /\ status[r] = "absent"
      BY NamesAssumption
    <3> QED
      BY <3>1 DEF IndInv, ClaimedBeforeCrawled, Terminal, Successes, Failures
  <2> QED
    BY <2>1 DEF IndInv, TypeOK, ClaimedBeforeCrawled, LockedRunIsRunning,
                RunningIsCrawled
<1>7. RevokedIsCancelled'
  BY DEF IndInv, TypeOK, RevokedIsCancelled, MessagesHaveRows
<1>8. QueuedIsCarried'
  <2> SUFFICES ASSUME crashes = 0, NEW q \in Runs, status'[q] = "queued",
                      q \notin misfired
               PROVE  InHandler(q)' \/ InBroker(q)'
    BY DEF QueuedIsCarried
  <2>1. CASE q = r
    BY <2>1 DEF InHandler, IndInv, TypeOK
  <2>2. CASE q # r
    <3>1. InHandler(q) \/ InBroker(q)
      BY <2>2 DEF IndInv, TypeOK, QueuedIsCarried
    <3>2. InHandler(q) => InHandler(q)'
      BY DEF InHandler, IndInv, TypeOK
    <3> QED
      BY <3>1, <3>2 DEF InBroker, Waiting
  <2> QED
    BY <2>1, <2>2
<1> QED
  BY <1>1, <1>2, <1>3, <1>4, <1>5, <1>6, <1>7, <1>8 DEF IndInv

LEMMA FlushSourceInv ==
  ASSUME IndInv, NEW c \in Callers, NEW r \in Runs, FlushSource(c, r)
  PROVE  IndInv'
<1> USE DEF FlushSource
<1>1. CASE asked[c][1] \in tracked
  BY <1>1, GotoInv
<1>2. CASE asked[c][1] \notin tracked
  <2>1. asked[c] \in Sources \X Options
    BY DEF IndInv, TypeOK, CallerRegisters
  <2> QED
    BY <1>2, <2>1, InsertQueuedInv
<1> QED
  BY <1>1, <1>2

LEMMA InsertRunInv ==
  ASSUME IndInv, NEW c \in Callers, NEW r \in Runs, InsertRun(c, r)
  PROVE  IndInv'
<1> USE DEF InsertRun
<1>1. asked[c] \in Sources \X Options /\ asked[c][1] \in tracked
  BY DEF IndInv, TypeOK, CallerRegisters
<1>2. CASE SlotFree(asked[c][1])
  <2>1. tracked' = tracked \cup {asked[c][1]}
    BY <1>1, <1>2
  <2> QED
    BY <1>1, <1>2, <2>1, InsertQueuedInv DEF SlotFree
<1>3. CASE ~SlotFree(asked[c][1])
  BY <1>1, <1>3, GotoInv
<1> QED
  BY <1>2, <1>3

\* Publishing: the message of the run follows those that are waiting.
LEMMA PublishInv ==
  ASSUME IndInv, NEW c \in Callers, pc[c] = "enqueue",
         NEW sent \in Seq(Runs), queue' = queue \o sent,
         \A i \in DOMAIN sent : sent[i] = mine[c],
         \/ Reply(c, "created") /\ sent # << >>
         \/ Goto(c, "unqueue"),
         UNCHANGED <<revoked, misfired, dbVars, workerVars, crashes>>
  PROVE  IndInv'
<1> USE DEF dbVars, workerVars
<1>1. mine[c] \in Runs /\ status[mine[c]] # "absent"
  BY DEF IndInv, TypeOK, CallerRegisters
<1>2. TypeOK'
  <2>1. queue' \in Seq(Runs)
    BY DEF IndInv, TypeOK
  <2> QED
    BY <2>1 DEF IndInv, TypeOK, Reply, Goto, Replies, CallerSteps
<1>3. CallerRegisters'
  BY <1>1 DEF IndInv, TypeOK, CallerRegisters, Reply, Goto
<1>4. /\ \A i \in DOMAIN queue : i \in DOMAIN queue' /\ queue'[i] = queue[i]
      /\ \A i \in DOMAIN queue' : i \in DOMAIN queue \/ queue'[i] = mine[c]
      /\ sent # << >> => \E i \in DOMAIN queue' : queue'[i] = mine[c]
  <2>1. /\ queue \in Seq(Runs)
        /\ DOMAIN queue = 1..Len(queue)
        /\ DOMAIN sent = 1..Len(sent)
        /\ DOMAIN queue' = 1..(Len(queue) + Len(sent))
    BY DEF IndInv, TypeOK
  <2>2. \A i \in 1..Len(queue) : queue'[i] = queue[i]
    BY <2>1
  <2>3. \A i \in 1..(Len(queue) + Len(sent)) :
          i > Len(queue) => i - Len(queue) \in DOMAIN sent
                            /\ queue'[i] = sent[i - Len(queue)]
    BY <2>1
  <2>4. sent # << >> => Len(queue) + 1 \in DOMAIN queue'
    BY <2>1
  <2> QED
    BY <2>1, <2>2, <2>3, <2>4
<1>5. MessagesHaveRows'
  BY <1>1, <1>4 DEF IndInv, MessagesHaveRows
<1>6. RevokedIsCancelled'
  BY DEF IndInv, TypeOK, RevokedIsCancelled, Reply, Goto
<1>7. QueuedIsCarried'
  <2> SUFFICES ASSUME crashes = 0, NEW r \in Runs, status[r] = "queued",
                      r \notin misfired
               PROVE  InHandler(r)' \/ InBroker(r)'
    BY DEF QueuedIsCarried
  <2>1. InBroker(r) => InBroker(r)'
    BY <1>4 DEF InBroker, Waiting
  <2>2. ASSUME NEW d \in Callers, d # c, mine[d] = r,
               pc[d] \in {"enqueue", "unqueue", "cancel"}
        PROVE  InHandler(r)'
    BY <2>2 DEF InHandler, IndInv, TypeOK, Reply, Goto
  <2>3. CASE mine[c] = r /\ Reply(c, "created")
    <3>1. CASE r \in revoked \ misfired
      <4>1. PICK d \in Callers : mine[d] = r /\ pc[d] = "cancel"
        BY <3>1 DEF IndInv, RevokedIsCancelled
      <4> QED
        BY <2>2, <4>1
    <3>2. CASE r \notin revoked
      BY <1>4, <2>3, <3>2 DEF InBroker, Waiting, Reply, Goto, IndInv, TypeOK
    <3> QED
      BY <3>1, <3>2
  <2>4. CASE mine[c] = r /\ Goto(c, "unqueue")
    BY <2>4 DEF InHandler, Goto, IndInv, TypeOK
  <2>5. CASE mine[c] # r
    BY <2>1, <2>2, <2>5 DEF IndInv, QueuedIsCarried, InHandler
  <2> QED
    BY <2>3, <2>4, <2>5
<1> QED
  BY <1>2, <1>3, <1>5, <1>6, <1>7, RowsUnchanged DEF IndInv

\* What a publish may put into the broker.
LEMMA Messages ==
  ASSUME NEW r \in Runs
  PROVE  /\ << >> \in Seq(Runs) /\ <<r>> \in Seq(Runs) /\ <<r, r>> \in Seq(Runs)
         /\ \A i \in DOMAIN << >> : << >>[i] = r
         /\ \A i \in DOMAIN <<r>> : <<r>>[i] = r
         /\ \A i \in DOMAIN <<r, r>> : <<r, r>>[i] = r
         /\ <<r>> # << >> /\ <<r, r>> # << >>
<1>1. /\ DOMAIN << >> = {} /\ DOMAIN <<r>> = 1..1 /\ DOMAIN <<r, r>> = 1..2
      /\ Len(<< >>) = 0 /\ Len(<<r>>) = 1 /\ Len(<<r, r>>) = 2
  OBVIOUS
<1>2. /\ << >> \in Seq(Runs) /\ <<r>> \in Seq(Runs) /\ <<r, r>> \in Seq(Runs)
  OBVIOUS
<1> QED
  BY <1>1, <1>2

LEMMA EnqueueInv ==
  ASSUME IndInv, NEW c \in Callers, Enqueue(c)
  PROVE  IndInv'
<1> USE DEF Enqueue
<1>1. mine[c] \in Runs /\ queue \in Seq(Runs)
  BY DEF IndInv, TypeOK, CallerRegisters
<1> DEFINE one == <<mine[c]>>
           two == <<mine[c], mine[c]>>
<1>2. /\ one \in Seq(Runs) /\ two \in Seq(Runs)
      /\ one # << >> /\ two # << >>
      /\ \A i \in DOMAIN one : one[i] = mine[c]
      /\ \A i \in DOMAIN two : two[i] = mine[c]
  BY <1>1, Messages
<1>3. queue' = queue \o one \/ queue' = queue \o two
  BY <1>1, AppendIsConcat
<1> HIDE DEF one, two
<1> QED
  BY <1>2, <1>3, PublishInv

LEMMA EnqueueRaisesInv ==
  ASSUME IndInv, NEW c \in Callers, EnqueueRaises(c)
  PROVE  IndInv'
<1> USE DEF EnqueueRaises, OnEnqueueError
<1>1. mine[c] \in Runs /\ queue \in Seq(Runs)
  BY DEF IndInv, TypeOK, CallerRegisters
<1> DEFINE none == << >>
           one  == <<mine[c]>>
<1>2. /\ none \in Seq(Runs) /\ one \in Seq(Runs)
      /\ \A i \in DOMAIN none : none[i] = mine[c]
      /\ \A i \in DOMAIN one : one[i] = mine[c]
  BY <1>1, Messages
<1>3. queue' = queue \o none \/ queue' = queue \o one
  BY <1>1, AppendIsConcat, ConcatEmptySeq
<1> HIDE DEF none, one
<1> QED
  BY <1>2, <1>3, PublishInv

-----------------------------------------------------------------------------
(* Ending a run from its request, and cancelling.                          *)

\* The UPDATE by primary key of a handler that read the run earlier.
LEMMA WithdrawInv ==
  ASSUME IndInv, NEW c \in Callers, pc[c] \in {"unqueue", "cancel"},
         ~RowLocked(mine[c]),
         NEW outcome \in {"failed", "cancelled"},
         status' = [status EXCEPT ![mine[c]] = outcome],
         Reply(c, "raised"),
         UNCHANGED <<rowVars, progress, saves, brokerVars, workerVars, crashes>>
  PROVE  IndInv'
<1> USE DEF Reply, rowVars, brokerVars, workerVars
<1>1. mine[c] \in Runs /\ status[mine[c]] # "absent"
  BY DEF IndInv, TypeOK, CallerRegisters
<1>2. TypeOK'
  BY <1>1 DEF IndInv, TypeOK, Terminal, Failures, CallerSteps, Replies
<1>3. WorkerRegisters' /\ RunsHaveSources' /\ MessagesHaveRows'
  BY <1>1 DEF IndInv, TypeOK, WorkerRegisters, RunsHaveSources, MessagesHaveRows
<1>4. CallerRegisters'
  BY <1>1 DEF IndInv, TypeOK, CallerRegisters
<1>5. OneActivePerSource' /\ CrawledByOne' /\ SavedAtMostOnce'
  BY <1>1 DEF IndInv, TypeOK, OneActivePerSource, CrawledByOne,
              SavedAtMostOnce, Active
<1>6. ResultExists' /\ SavedIsOver' /\ ClaimedBeforeCrawled'
  BY <1>1 DEF IndInv, TypeOK, ResultExists, SavedIsOver, ClaimedBeforeCrawled,
              Successes, Failures, Terminal
<1>7. LockedRunIsRunning'
  BY <1>1 DEF IndInv, TypeOK, LockedRunIsRunning, RowLocked
<1>8. RunningIsCrawled'
  BY <1>1 DEF IndInv, TypeOK, RunningIsCrawled
<1>9. RevokedIsCancelled'
  <2> SUFFICES ASSUME crashes = 0, NEW r \in revoked \ misfired, status'[r] = "queued"
               PROVE  \E d \in Callers : mine'[d] = r /\ pc'[d] = "cancel"
    BY DEF RevokedIsCancelled
  <2>1. r # mine[c] /\ status[r] = "queued"
    BY <1>1 DEF IndInv, TypeOK
  <2>2. PICK d \in Callers : mine[d] = r /\ pc[d] = "cancel"
    BY <2>1 DEF IndInv, RevokedIsCancelled
  <2> QED
    BY <2>1, <2>2 DEF IndInv, TypeOK
<1>10. QueuedIsCarried'
  <2> SUFFICES ASSUME crashes = 0, NEW r \in Runs, status'[r] = "queued",
                      r \notin misfired
               PROVE  InHandler(r)' \/ InBroker(r)'
    BY DEF QueuedIsCarried
  <2>1. r # mine[c] /\ status[r] = "queued"
    BY <1>1 DEF IndInv, TypeOK
  <2>2. InHandler(r) => InHandler(r)'
    BY <2>1 DEF InHandler, IndInv, TypeOK
  <2> QED
    BY <2>1, <2>2 DEF IndInv, QueuedIsCarried, InBroker, Waiting
<1> QED
  BY <1>2, <1>3, <1>4, <1>5, <1>6, <1>7, <1>8, <1>9, <1>10 DEF IndInv

LEMMA MarkUnqueuedInv ==
  ASSUME IndInv, NEW c \in Callers, MarkUnqueued(c)
  PROVE  IndInv'
<1> QED
  BY WithdrawInv DEF MarkUnqueued

LEMMA CancelWriteInv ==
  ASSUME IndInv, NEW c \in Callers, CancelWrite(c)
  PROVE  IndInv'
<1> QED
  BY WithdrawInv DEF CancelWrite

LEMMA CancelRevokeInv ==
  ASSUME IndInv, NEW c \in Callers, CancelRevoke(c)
  PROVE  IndInv'
<1> USE DEF CancelRevoke
<1>1. CASE UNCHANGED <<revoked, misfired>> /\ Reply(c, "raised")
  BY <1>1, ReplyInv DEF Replies, brokerVars
<1>2. mine[c] \in Runs /\ status[mine[c]] # "absent"
  BY DEF IndInv, TypeOK, CallerRegisters
<1>3. CASE /\ Goto(c, "cancel")
           /\ revoked' \in {revoked, revoked \cup {mine[c]}}
           /\ UNCHANGED misfired
  <2> USE DEF Goto, dbVars, workerVars
  <2>1. TypeOK' /\ CallerRegisters' /\ MessagesHaveRows'
    <3>1. TypeOK'
      BY <1>2, <1>3 DEF IndInv, TypeOK, CallerSteps
    <3>2. CallerRegisters' /\ MessagesHaveRows'
      BY <1>2, <1>3 DEF IndInv, TypeOK, CallerRegisters, MessagesHaveRows
    <3> QED
      BY <3>1, <3>2
  <2>2. /\ mine'[c] = mine[c] /\ pc'[c] = "cancel"
        /\ \A d \in Callers : d # c => mine'[d] = mine[d] /\ pc'[d] = pc[d]
    BY <1>3 DEF IndInv, TypeOK
  <2>3. RevokedIsCancelled'
    <3> SUFFICES ASSUME crashes = 0, NEW r \in revoked' \ misfired,
                        status[r] = "queued"
                 PROVE  \E d \in Callers : mine'[d] = r /\ pc'[d] = "cancel"
      BY <1>3 DEF RevokedIsCancelled
    <3>1. CASE r = mine[c]
      BY <2>2, <3>1
    <3>2. CASE r # mine[c]
      BY <1>3, <2>2, <3>2 DEF IndInv, RevokedIsCancelled
    <3> QED
      BY <3>1, <3>2
  <2>4. QueuedIsCarried'
    <3> SUFFICES ASSUME crashes = 0, NEW r \in Runs, status[r] = "queued",
                        r \notin misfired
                 PROVE  InHandler(r)' \/ InBroker(r)'
      BY <1>3 DEF QueuedIsCarried
    <3>1. CASE r = mine[c]
      BY <2>2, <3>1 DEF InHandler
    <3>2. CASE r # mine[c]
      <4>1. InHandler(r) \/ InBroker(r)
        BY DEF IndInv, QueuedIsCarried
      <4>2. InHandler(r) => InHandler(r)'
        BY <2>2, <3>2 DEF InHandler
      <4>3. InBroker(r) => InBroker(r)'
        BY <1>3, <3>2 DEF InBroker, Waiting
      <4> QED
        BY <4>1, <4>2, <4>3
    <3> QED
      BY <3>1, <3>2
  <2> QED
    BY <2>1, <2>3, <2>4, RowsUnchanged DEF IndInv
<1>4. CASE /\ Reply(c, "raised")
           /\ revoked' = revoked \cup {mine[c]}
           /\ misfired' = misfired \cup {mine[c]}
  <2> USE DEF Reply, dbVars, workerVars
  <2>1. TypeOK' /\ CallerRegisters' /\ MessagesHaveRows'
    <3>1. TypeOK'
      BY <1>2, <1>4 DEF IndInv, TypeOK, CallerSteps, Replies
    <3>2. CallerRegisters' /\ MessagesHaveRows'
      BY <1>2, <1>4 DEF IndInv, TypeOK, CallerRegisters, MessagesHaveRows
    <3> QED
      BY <3>1, <3>2
  <2>2. \A d \in Callers :
          /\ pc'[d] \in {"enqueue", "unqueue", "cancel"} =>
               mine'[d] = mine[d] /\ pc'[d] = pc[d]
          /\ pc[d] \in {"enqueue", "unqueue", "cancel"} =>
               mine'[d] = mine[d] /\ pc'[d] = pc[d]
    BY <1>4 DEF IndInv, TypeOK
  <2>3. RevokedIsCancelled'
    BY <1>4, <2>2 DEF IndInv, RevokedIsCancelled
  <2>4. QueuedIsCarried'
    <3> SUFFICES ASSUME crashes = 0, NEW r \in Runs, status[r] = "queued",
                        r \notin misfired'
                 PROVE  InHandler(r)' \/ InBroker(r)'
      BY DEF QueuedIsCarried
    <3>1. r \notin misfired /\ r # mine[c]
      BY <1>4
    <3>2. InHandler(r) => InHandler(r)'
      BY <2>2 DEF InHandler
    <3>3. InBroker(r) => InBroker(r)'
      BY <1>4, <3>1 DEF InBroker, Waiting
    <3> QED
      BY <3>1, <3>2, <3>3 DEF IndInv, QueuedIsCarried
  <2> QED
    BY <2>1, <2>3, <2>4, RowsUnchanged DEF IndInv
<1> QED
  BY <1>1, <1>3, <1>4

-----------------------------------------------------------------------------
(* The workers.                                                            *)

\* What is said of requests and messages stands while no row but those a
\* worker moves out of "queued" changes.
LEMMA RequestsUnchanged ==
  ASSUME IndInv, UNCHANGED <<rowVars, brokerVars, callerVars, crashes>>,
         \A r \in Runs : (status[r] = "absent" <=> status'[r] = "absent"),
         \A r \in Runs : status'[r] = "queued" => status[r] = "queued"
  PROVE  CallerRegisters' /\ RunsHaveSources' /\ MessagesHaveRows'
         /\ RevokedIsCancelled' /\ QueuedIsCarried'
<1> USE DEF IndInv, TypeOK, rowVars, brokerVars, callerVars
<1>1. CallerRegisters' /\ RunsHaveSources' /\ MessagesHaveRows'
  BY NamesAssumption DEF CallerRegisters, RunsHaveSources, MessagesHaveRows
<1>2. RevokedIsCancelled'
  BY DEF RevokedIsCancelled
<1>3. QueuedIsCarried'
  <2>1. \A r \in Runs : (InHandler(r)' <=> InHandler(r))
                        /\ (InBroker(r)' <=> InBroker(r))
    BY DEF InHandler, InBroker, Waiting
  <2> QED
    BY <2>1 DEF QueuedIsCarried
<1> QED
  BY <1>1, <1>2, <1>3

\* A busy worker goes to another step with the run it holds.
LEMMA WorkerMovesInv ==
  ASSUME IndInv, NEW w \in Workers, wpc[w] # "idle",
         NEW step \in WorkerSteps \ {"idle"},
         NEW made \in 0..Len(Marks),
         NEW outcome \in Successes \cup Failures \cup {None},
         wpc' = [wpc EXCEPT ![w] = step],
         reports' = [reports EXCEPT ![w] = made],
         verdict' = [verdict EXCEPT ![w] = outcome],
         step \in {"save", "write"} => outcome \in Successes,
         step \in {"fail", "mark"} => outcome \in Failures,
         Runtime = "docker" /\ step \in {"write", "mark"} =>
           status[held[w]] = "running",
         wpc[w] # "fail" \/ status[held[w]] = "running",
         UNCHANGED <<held, dbVars, brokerVars, callerVars, crashes>>
  PROVE  IndInv'
<1> USE DEF dbVars, brokerVars, callerVars
<1>1. TypeOK' /\ WorkerRegisters'
  BY DEF IndInv, TypeOK, WorkerRegisters
<1>2. OneActivePerSource' /\ CrawledByOne' /\ SavedAtMostOnce'
  BY DEF IndInv, OneActivePerSource, CrawledByOne, SavedAtMostOnce
<1>3. ResultExists' /\ SavedIsOver'
  BY DEF IndInv, ResultExists, SavedIsOver
<1>4. ClaimedBeforeCrawled'
  BY DEF IndInv, TypeOK, ClaimedBeforeCrawled, Terminal, Successes, Failures
<1>5. LockedRunIsRunning' /\ RunningIsCrawled'
  BY DEF IndInv, TypeOK, LockedRunIsRunning, RunningIsCrawled
<1> QED
  BY <1>1, <1>2, <1>3, <1>4, <1>5, RequestsUnchanged DEF IndInv, rowVars

\* A worker is done with a run that is over, or that it ends now.
LEMMA ReleaseInv ==
  ASSUME IndInv, NEW w \in Workers, wpc[w] # "idle", Release(w),
         NEW outcome \in Terminal, NEW count \in {0, 1},
         outcome \in Successes => count = 1,
         status' = [status EXCEPT ![held[w]] = outcome],
         saves' = [saves EXCEPT ![held[w]] = count],
         progress' \in [Runs -> 0..100],
         UNCHANGED <<rowVars, brokerVars, callerVars, crashes>>
  PROVE  IndInv'
<1> USE DEF Release, rowVars, brokerVars, callerVars
<1>1. /\ held[w] \in Runs
      /\ status[held[w]] \notin {"absent", "queued"}
  <2>1. held[w] \in Runs /\ held[w] # None
    BY DEF IndInv, TypeOK, WorkerRegisters
  <2>2. \/ status[held[w]] \in {"running", "cancelled", "failed"}
        \/ status[held[w]] \in Terminal
    BY <2>1 DEF IndInv, ClaimedBeforeCrawled
  <2> QED
    BY <2>1, <2>2 DEF Terminal, Successes, Failures
<1>2. TypeOK'
  <2>1. /\ status' \in [Runs -> {"absent"} \cup Active \cup Terminal]
        /\ saves' \in [Runs -> Nat]
    BY <1>1 DEF IndInv, TypeOK
  <2>2. /\ wpc' \in [Workers -> WorkerSteps]
        /\ held' \in [Workers -> Runs \cup {None}]
        /\ reports' \in [Workers -> 0..Len(Marks)]
        /\ verdict' \in [Workers -> Successes \cup Failures \cup {None}]
    BY MarksAssumption DEF IndInv, TypeOK, WorkerSteps
  <2> QED
    BY <2>1, <2>2 DEF IndInv, TypeOK
<1>3. WorkerRegisters'
  BY DEF IndInv, TypeOK, WorkerRegisters
<1>4. OneActivePerSource' /\ CrawledByOne' /\ SavedAtMostOnce'
  BY <1>1 DEF IndInv, TypeOK, OneActivePerSource, CrawledByOne, SavedAtMostOnce,
              Active, Terminal, Successes, Failures
<1>5. ResultExists' /\ SavedIsOver'
  BY <1>1 DEF IndInv, TypeOK, ResultExists, SavedIsOver
<1>6. \A v \in Workers : v # w => held'[v] = held[v] /\ wpc'[v] = wpc[v]
                                   /\ held[v] # held[w]
  BY <1>1, NamesAssumption DEF IndInv, TypeOK, CrawledByOne
<1>7. ClaimedBeforeCrawled' /\ LockedRunIsRunning'
  BY <1>1, <1>6 DEF IndInv, TypeOK, WorkerRegisters, ClaimedBeforeCrawled,
                    LockedRunIsRunning
<1>8. RunningIsCrawled'
  BY <1>1, <1>6 DEF IndInv, TypeOK, RunningIsCrawled,
                    Terminal, Successes, Failures
<1>9. /\ \A r \in Runs : status[r] = "absent" <=> status'[r] = "absent"
      /\ \A r \in Runs : status'[r] = "queued" => status[r] = "queued"
  BY <1>1 DEF IndInv, TypeOK, Terminal, Successes, Failures
<1> QED
  BY <1>2, <1>3, <1>4, <1>5, <1>7, <1>8, <1>9, RequestsUnchanged DEF IndInv

LEMMA CrawlReturnsInv ==
  ASSUME IndInv, NEW w \in Workers, NEW outcome \in Successes,
         CrawlReturns(w, outcome)
  PROVE  IndInv'
<1>1. reports' = [reports EXCEPT ![w] = reports[w]]
      /\ reports[w] \in 0..Len(Marks)
  BY DEF CrawlReturns, IndInv, TypeOK
<1>2. "save" \in WorkerSteps \ {"idle"}
  BY DEF WorkerSteps
<1> QED
  BY <1>1, <1>2, WorkerMovesInv DEF CrawlReturns

LEMMA CrawlRaisesInv ==
  ASSUME IndInv, NEW w \in Workers, NEW outcome \in Failures,
         CrawlRaises(w, outcome)
  PROVE  IndInv'
<1>1. reports' = [reports EXCEPT ![w] = reports[w]]
      /\ reports[w] \in 0..Len(Marks)
  BY DEF CrawlRaises, IndInv, TypeOK
<1>2. "fail" \in WorkerSteps \ {"idle"}
  BY DEF WorkerSteps
<1> QED
  BY <1>1, <1>2, WorkerMovesInv DEF CrawlRaises

LEMMA SaveRaisesInv ==
  ASSUME IndInv, NEW w \in Workers, SaveRaises(w)
  PROVE  IndInv'
<1>1. reports' = [reports EXCEPT ![w] = reports[w]]
      /\ reports[w] \in 0..Len(Marks)
  BY DEF SaveRaises, RecordFailure, IndInv, TypeOK
<1>2. "fail" \in WorkerSteps \ {"idle"} /\ "failed" \in Failures
  BY DEF WorkerSteps, Failures
<1> QED
  BY <1>1, <1>2, WorkerMovesInv DEF SaveRaises, RecordFailure

\* SELECT ... FOR UPDATE by persist or mark_run_terminal.
LEMMA ReadInv ==
  ASSUME IndInv, NEW w \in Workers, SaveRead(w) \/ FailRead(w)
  PROVE  IndInv'
<1>1. /\ wpc[w] \in {"save", "fail"}
      /\ UNCHANGED <<dbVars, brokerVars, callerVars, crashes>>
  BY DEF SaveRead, FailRead
<1>2. /\ held[w] \in Runs
      /\ status[held[w]] \notin {"absent", "queued"}
      /\ saves[held[w]] \in {0, 1}
  BY <1>1 DEF IndInv, TypeOK, WorkerRegisters, ClaimedBeforeCrawled,
              Terminal, Successes, Failures
<1>3. CASE Closed(held[w])
  <2>1. Release(w)
    BY <1>3 DEF SaveRead, FailRead
  <2>2. status[held[w]] \in Successes => saves[held[w]] = 1
    BY <1>2 DEF IndInv, ResultExists
  <2>3. /\ status' = [status EXCEPT ![held[w]] = status[held[w]]]
        /\ saves' = [saves EXCEPT ![held[w]] = saves[held[w]]]
        /\ progress' \in [Runs -> 0..100]
    BY <1>1, <1>2 DEF IndInv, TypeOK, dbVars
  <2> QED
    BY <1>1, <1>2, <1>3, <2>1, <2>2, <2>3, ReleaseInv DEF Closed, dbVars, rowVars
<1>4. CASE ~Closed(held[w])
  <2>1. status[held[w]] = "running"
    BY <1>2, <1>4 DEF Closed, IndInv, TypeOK, Active
  <2>2. PICK step \in {"write", "mark"} :
          /\ wpc' = [wpc EXCEPT ![w] = step]
          /\ UNCHANGED <<held, reports, verdict>>
          /\ wpc[w] = IF step = "write" THEN "save" ELSE "fail"
    BY <1>4 DEF SaveRead, FailRead
  <2>3. /\ reports' = [reports EXCEPT ![w] = reports[w]]
        /\ reports[w] \in 0..Len(Marks)
        /\ verdict' = [verdict EXCEPT ![w] = verdict[w]]
        /\ verdict[w] \in Successes \cup Failures \cup {None}
    BY <2>2 DEF IndInv, TypeOK
  <2>4. /\ step \in {"save", "write"} => verdict[w] \in Successes
        /\ step \in {"fail", "mark"} => verdict[w] \in Failures
    BY <2>2 DEF IndInv, WorkerRegisters
  <2>5. step \in WorkerSteps \ {"idle"}
    BY DEF WorkerSteps
  <2>6. wpc[w] # "idle" /\ UNCHANGED <<held, dbVars, brokerVars, callerVars, crashes>>
    BY <1>1, <2>2
  <2>7. wpc' = [wpc EXCEPT ![w] = step]
    BY <2>2
  <2> QED
    BY <2>1, <2>3, <2>4, <2>5, <2>6, <2>7, WorkerMovesInv
<1> QED
  BY <1>3, <1>4

LEMMA SaveWriteInv ==
  ASSUME IndInv, NEW w \in Workers, SaveWrite(w)
  PROVE  IndInv'
<1> USE DEF SaveWrite
<1>1. /\ held[w] \in Runs
      /\ status[held[w]] \notin {"absent", "queued"}
      /\ saves[held[w]] = 0
      /\ verdict[w] \in Successes
  BY DEF IndInv, TypeOK, WorkerRegisters, ClaimedBeforeCrawled
<1>2. /\ saves' = [saves EXCEPT ![held[w]] = 1]
      /\ progress' \in [Runs -> 0..100]
  BY <1>1 DEF IndInv, TypeOK
<1>3. CASE Release(w)
  BY <1>1, <1>2, <1>3, ReleaseInv DEF Terminal
<1>4. CASE RecordFailure(w)
  <2> USE <1>4 DEF RecordFailure, rowVars, brokerVars, callerVars
  <2>1. TypeOK'
    <3>1. /\ status' \in [Runs -> {"absent"} \cup Active \cup Terminal]
          /\ saves' \in [Runs -> Nat]
      BY <1>1, <1>2 DEF IndInv, TypeOK, Terminal
    <3>2. /\ wpc' \in [Workers -> WorkerSteps]
          /\ verdict' \in [Workers -> Successes \cup Failures \cup {None}]
      BY DEF IndInv, TypeOK, WorkerSteps, Failures
    <3> QED
      BY <1>2, <3>1, <3>2 DEF IndInv, TypeOK
  <2>2. WorkerRegisters'
    BY DEF IndInv, TypeOK, WorkerRegisters, Failures
  <2>3. OneActivePerSource' /\ CrawledByOne' /\ SavedAtMostOnce'
    BY <1>1, <1>2 DEF IndInv, TypeOK, OneActivePerSource, CrawledByOne,
                      SavedAtMostOnce, Active, Successes
  <2>4. ResultExists' /\ SavedIsOver'
    BY <1>1, <1>2 DEF IndInv, TypeOK, ResultExists, SavedIsOver, Terminal
  <2>5. \A v \in Workers : v # w => wpc'[v] = wpc[v] /\ held[v] # held[w]
    BY <1>1, NamesAssumption DEF IndInv, TypeOK, CrawledByOne
  <2>6. ClaimedBeforeCrawled' /\ LockedRunIsRunning'
    BY <1>1, <1>2, <2>5 DEF IndInv, TypeOK, WorkerRegisters,
                            ClaimedBeforeCrawled, LockedRunIsRunning, Terminal
  <2>7. RunningIsCrawled'
    BY <1>1 DEF IndInv, TypeOK, RunningIsCrawled
  <2>8. /\ \A r \in Runs : status[r] = "absent" <=> status'[r] = "absent"
        /\ \A r \in Runs : status'[r] = "queued" => status[r] = "queued"
    BY <1>1 DEF IndInv, TypeOK, Successes
  <2> QED
    BY <2>1, <2>2, <2>3, <2>4, <2>6, <2>7, <2>8, RequestsUnchanged DEF IndInv
<1> QED
  BY <1>3, <1>4

LEMMA FailWriteInv ==
  ASSUME IndInv, NEW w \in Workers, FailWrite(w)
  PROVE  IndInv'
<1> USE DEF FailWrite
<1>1. /\ held[w] \in Runs
      /\ saves[held[w]] = 0
      /\ verdict[w] \in Failures
  BY DEF IndInv, TypeOK, WorkerRegisters, ClaimedBeforeCrawled
<1>2. /\ saves' = [saves EXCEPT ![held[w]] = 0]
      /\ progress' \in [Runs -> 0..100]
  BY <1>1 DEF IndInv, TypeOK
<1>3. verdict[w] \in Terminal /\ verdict[w] \notin Successes
  BY <1>1 DEF Terminal, Failures, Successes
<1> QED
  BY <1>1, <1>2, <1>3, ReleaseInv

LEMMA ReportInv ==
  ASSUME IndInv, NEW w \in Workers, Report(w)
  PROVE  IndInv'
<1> USE DEF Report
<1>1. /\ Len(Marks) \in Nat
      /\ reports[w] + 1 \in 1..Len(Marks)
      /\ reports' \in [Workers -> 0..Len(Marks)]
  BY MarksAssumption DEF IndInv, TypeOK
<1>2. Marks[reports[w] + 1] \in 0..100
  <2>1. Marks[reports[w] + 1] \in 1..100
    BY <1>1, MarksAssumption, ElementOfSeq
  <2> QED
    BY <2>1
<1>3. TypeOK'
  BY <1>1, <1>2 DEF IndInv, TypeOK, rowVars, brokerVars, callerVars
<1>4. WorkerRegisters' /\ OneActivePerSource' /\ CrawledByOne' /\ SavedAtMostOnce'
  BY DEF IndInv, WorkerRegisters, OneActivePerSource, CrawledByOne,
         SavedAtMostOnce, rowVars
<1>5. /\ ResultExists' /\ SavedIsOver' /\ ClaimedBeforeCrawled'
      /\ LockedRunIsRunning' /\ RunningIsCrawled'
  BY DEF IndInv, ResultExists, SavedIsOver, ClaimedBeforeCrawled,
         LockedRunIsRunning, RunningIsCrawled
<1> QED
  BY <1>3, <1>4, <1>5, RequestsUnchanged DEF IndInv

LEMMA ClaimInv ==
  ASSUME IndInv, NEW w \in Workers, Claim(w)
  PROVE  IndInv'
<1> USE DEF Claim, Claimable
<1> DEFINE r == Head(queue)
<1>1. /\ queue \in Seq(Runs) /\ queue # << >>
      /\ r \in Runs
      /\ queue' = Tail(queue) /\ Tail(queue) \in Seq(Runs)
      /\ \A i \in DOMAIN queue : queue[i] = r \/ \E j \in DOMAIN queue' : queue'[j] = queue[i]
      /\ \A j \in DOMAIN queue' : \E i \in DOMAIN queue : queue[i] = queue'[j]
  <2>1. queue \in Seq(Runs) /\ queue # << >> /\ queue' = Tail(queue)
    BY DEF IndInv, TypeOK
  <2>2. /\ DOMAIN queue = 1..Len(queue) /\ Len(queue) \in Nat \ {0}
        /\ r = queue[1] /\ r \in Runs
        /\ Tail(queue) \in Seq(Runs)
        /\ DOMAIN Tail(queue) = 1..(Len(queue) - 1)
        /\ \A j \in 1..(Len(queue) - 1) : Tail(queue)[j] = queue[j + 1]
    BY <2>1
  <2>3. ASSUME NEW i \in DOMAIN queue, i # 1
        PROVE  i - 1 \in DOMAIN queue' /\ queue'[i - 1] = queue[i]
    BY <2>1, <2>2, <2>3
  <2>4. ASSUME NEW j \in DOMAIN queue'
        PROVE  j + 1 \in DOMAIN queue /\ queue[j + 1] = queue'[j]
    BY <2>1, <2>2
  <2> QED
    BY <2>1, <2>2, <2>3, <2>4
<1> HIDE DEF r
<1>2. queue' \in Seq(Runs) /\ UNCHANGED <<rowVars, saves, revoked, misfired, callerVars, crashes>>
  BY <1>1
\* The rows and the workers.
<1>3. CASE /\ r \in revoked \/ status[r] # "queued"
           /\ UNCHANGED <<status, progress, workerVars>>
  <2>1. UNCHANGED <<dbVars, workerVars, crashes>>
    BY <1>2, <1>3 DEF dbVars, rowVars
  <2>2. TypeOK' /\ CallerRegisters' /\ MessagesHaveRows' /\ RevokedIsCancelled'
    <3>1. TypeOK'
      BY <1>2, <2>1 DEF IndInv, TypeOK, dbVars, workerVars, callerVars
    <3>2. CallerRegisters' /\ MessagesHaveRows' /\ RevokedIsCancelled'
      BY <1>1, <1>2, <2>1 DEF IndInv, CallerRegisters, MessagesHaveRows,
                              RevokedIsCancelled, dbVars, callerVars
    <3> QED
      BY <3>1, <3>2
  <2>3. QueuedIsCarried'
    <3> SUFFICES ASSUME crashes = 0, NEW q \in Runs, status[q] = "queued",
                        q \notin misfired
                 PROVE  InHandler(q)' \/ InBroker(q)'
      BY <1>2, <1>3 DEF QueuedIsCarried
    <3>1. CASE q \in revoked \ misfired
      BY <1>2, <3>1 DEF IndInv, RevokedIsCancelled, InHandler, callerVars
    <3>2. CASE q \notin revoked
      <4> HIDE DEF Claim, Claimable
      <4>1. q # r /\ revoked' = revoked
        BY <1>2, <1>3, <3>2
      <4>2. InBroker(q) => InBroker(q)'
        BY <1>1, <4>1 DEF InBroker, Waiting
      <4>3. InHandler(q) => InHandler(q)'
        BY <1>2 DEF InHandler, callerVars
      <4> QED
        BY <4>2, <4>3 DEF IndInv, QueuedIsCarried
    <3> QED
      BY <3>1, <3>2
  <2> QED
    BY <2>1, <2>2, <2>3, RowsUnchanged DEF IndInv
<1>4. CASE /\ r \notin revoked /\ status[r] = "queued"
           /\ status' = [status EXCEPT ![r] = "running"]
           /\ progress' = [progress EXCEPT ![r] = 1]
           /\ wpc' = [wpc EXCEPT ![w] = "crawl"]
           /\ held' = [held EXCEPT ![w] = r]
           /\ UNCHANGED <<reports, verdict>>
  <2> USE DEF rowVars, callerVars
  <2>1. TypeOK'
    <3>1. status' \in [Runs -> {"absent"} \cup Active \cup Terminal]
      BY <1>4 DEF IndInv, TypeOK, Active
    <3>2. progress' \in [Runs -> 0..100]
      <4>1. progress \in [Runs -> 0..100] /\ 1 \in 0..100
        BY DEF IndInv, TypeOK
      <4> QED
        BY <1>4, <4>1
    <3>3. /\ wpc' \in [Workers -> WorkerSteps]
          /\ held' \in [Workers -> Runs \cup {None}]
      BY <1>1, <1>4 DEF IndInv, TypeOK, WorkerSteps
    <3> QED
      BY <1>2, <1>4, <3>1, <3>2, <3>3 DEF IndInv, TypeOK
  <2>2. WorkerRegisters' /\ CallerRegisters' /\ RunsHaveSources'
    BY <1>1, <1>2, <1>4, NamesAssumption
       DEF IndInv, TypeOK, WorkerRegisters, CallerRegisters, RunsHaveSources
  <2>3. MessagesHaveRows' /\ RevokedIsCancelled'
    <3> HIDE DEF Claim, Claimable
    <3>1. \A q \in Runs : /\ status[q] # "absent" => status'[q] # "absent"
                          /\ status'[q] = "queued" => status[q] = "queued"
      BY <1>4 DEF IndInv, TypeOK
    <3>2. MessagesHaveRows'
      <4>1. ASSUME NEW j \in DOMAIN queue'
            PROVE  status'[queue'[j]] # "absent"
        <5>1. PICK i \in DOMAIN queue : queue[i] = queue'[j]
          BY <1>1
        <5>2. queue[i] \in Runs /\ status[queue[i]] # "absent"
          BY <1>1 DEF IndInv, MessagesHaveRows
        <5> QED
          BY <3>1, <5>1, <5>2
      <4>2. \A q \in revoked' \cup misfired' : status'[q] # "absent"
        BY <1>2, <3>1 DEF IndInv, TypeOK, MessagesHaveRows
      <4> QED
        BY <4>1, <4>2 DEF MessagesHaveRows
    <3>3. RevokedIsCancelled'
      BY <1>2, <3>1 DEF IndInv, TypeOK, RevokedIsCancelled
    <3> QED
      BY <3>2, <3>3
  <2>4. OneActivePerSource' /\ SavedAtMostOnce' /\ ResultExists' /\ SavedIsOver'
    BY <1>1, <1>2, <1>4 DEF IndInv, TypeOK, OneActivePerSource, SavedAtMostOnce,
                            ResultExists, SavedIsOver, Active, Terminal,
                            Successes, Failures
  <2>5. \A v \in Workers : held[v] # r
    <3> HIDE DEF Claim, Claimable
    <3> SUFFICES ASSUME NEW v \in Workers, held[v] = r PROVE FALSE
      OBVIOUS
    <3>1. r # None /\ status[r] = "queued"
      BY <1>1, <1>4, NamesAssumption
    <3> QED
      BY <3>1 DEF IndInv, ClaimedBeforeCrawled, Terminal, Successes, Failures
  <2>6. CrawledByOne'
    BY <1>1, <1>4, <2>5 DEF IndInv, TypeOK, CrawledByOne
  <2>7. ClaimedBeforeCrawled'
    <3>1. saves[r] = 0
      <4>1. saves[r] \in Nat
        BY <1>1 DEF IndInv, TypeOK
      <4>2. status[r] \notin Terminal
        BY <1>4 DEF Terminal, Successes, Failures
      <4> QED
        BY <1>1, <4>1, <4>2 DEF IndInv, SavedIsOver
    <3> QED
      BY <1>1, <1>2, <1>4, <2>5, <3>1 DEF IndInv, TypeOK, ClaimedBeforeCrawled
  <2>8. LockedRunIsRunning' /\ RunningIsCrawled'
    <3>1. \A v \in Workers : wpc'[v] \in {"write", "mark"} =>
                               held'[v] # r /\ held'[v] = held[v] /\ wpc'[v] = wpc[v]
      BY <1>4, <2>5 DEF IndInv, TypeOK
    <3>2. \A q \in Runs : status[q] = "running" => status'[q] = "running"
      BY <1>4 DEF IndInv, TypeOK
    <3>3. LockedRunIsRunning'
      <4> SUFFICES ASSUME Runtime = "docker", NEW v \in Workers,
                          wpc'[v] \in {"write", "mark"}
                   PROVE  status'[held'[v]] = "running"
        BY DEF LockedRunIsRunning
      <4>1. held'[v] = held[v] /\ wpc[v] \in {"write", "mark"}
        BY <3>1
      <4>2. held[v] \in Runs
        BY <4>1 DEF IndInv, TypeOK, WorkerRegisters
      <4>3. status[held[v]] = "running"
        BY <4>1 DEF IndInv, LockedRunIsRunning
      <4> QED
        BY <4>1, <4>2, <4>3, <3>2
    <3>4. \A v \in Workers : held[v] # None => held'[v] = held[v]
      BY <1>4 DEF IndInv, TypeOK, WorkerRegisters
    <3>5. held'[w] = r
      BY <1>4 DEF IndInv, TypeOK
    <3>6. RunningIsCrawled'
      BY <1>1, <1>2, <1>4, <3>4, <3>5, NamesAssumption
         DEF IndInv, TypeOK, RunningIsCrawled
    <3> QED
      BY <3>3, <3>6
  <2>9. QueuedIsCarried'
    <3> SUFFICES ASSUME crashes = 0, NEW q \in Runs, status'[q] = "queued",
                        q \notin misfired
                 PROVE  InHandler(q)' \/ InBroker(q)'
      BY <1>2 DEF QueuedIsCarried
    <3>1. status[q] = "queued" /\ q # r
      BY <1>1, <1>4 DEF IndInv, TypeOK
    <3>2. InHandler(q) => InHandler(q)'
      BY <1>2 DEF InHandler
    <3>3. InBroker(q) => InBroker(q)'
      BY <1>1, <1>2, <3>1 DEF InBroker, Waiting
    <3> QED
      BY <3>1, <3>2, <3>3 DEF IndInv, QueuedIsCarried
  <2> QED
    BY <2>1, <2>2, <2>3, <2>4, <2>6, <2>7, <2>8, <2>9 DEF IndInv
<1> QED
  BY <1>3, <1>4 DEF r

-----------------------------------------------------------------------------
(* Crashes.                                                                *)

\* After a crash nothing is claimed of what is under way.
LEMMA CrashInv ==
  ASSUME IndInv, Crash, UNCHANGED dbVars,
         TypeOK', WorkerRegisters', CallerRegisters', MessagesHaveRows',
         \A w \in Workers : held'[w] = None \/ /\ held'[w] = held[w]
                                               /\ wpc'[w] = wpc[w]
  PROVE  IndInv'
<1> USE DEF dbVars
<1>1. crashes' # 0
  BY NamesAssumption DEF Crash, IndInv, TypeOK
<1>2. RevokedIsCancelled' /\ QueuedIsCarried' /\ RunningIsCrawled'
  BY <1>1 DEF RevokedIsCancelled, QueuedIsCarried, RunningIsCrawled
<1>3. RunsHaveSources' /\ OneActivePerSource' /\ SavedAtMostOnce'
      /\ ResultExists' /\ SavedIsOver'
  BY DEF IndInv, RunsHaveSources, OneActivePerSource, SavedAtMostOnce,
         ResultExists, SavedIsOver
<1>4. CrawledByOne' /\ ClaimedBeforeCrawled'
  BY DEF IndInv, CrawledByOne, ClaimedBeforeCrawled
<1>5. LockedRunIsRunning'
  BY NamesAssumption DEF IndInv, TypeOK, WorkerRegisters, LockedRunIsRunning
<1> QED
  BY <1>2, <1>3, <1>4, <1>5 DEF IndInv

LEMMA ClientCrashInv ==
  ASSUME IndInv, NEW c \in Callers, ClientCrash(c)
  PROVE  IndInv'
<1> USE DEF ClientCrash, dbVars, brokerVars, workerVars
<1>1. TypeOK'
  BY NamesAssumption DEF Crash, IndInv, TypeOK, CallerSteps
<1>2. WorkerRegisters' /\ CallerRegisters' /\ MessagesHaveRows'
  BY DEF IndInv, TypeOK, WorkerRegisters, CallerRegisters, MessagesHaveRows
<1> QED
  BY <1>1, <1>2, CrashInv

LEMMA WorkerCrashInv ==
  ASSUME IndInv, NEW w \in Workers, WorkerCrash(w)
  PROVE  IndInv'
<1> USE DEF WorkerCrash, Release, dbVars, callerVars
<1>1. TypeOK'
  <2>1. crashes' \in 0..MaxCrashes
    BY NamesAssumption DEF Crash, IndInv, TypeOK
  <2>2. 0 \in 0..Len(Marks)
    BY MarksAssumption
  <2>3. /\ wpc' \in [Workers -> WorkerSteps]
        /\ held' \in [Workers -> Runs \cup {None}]
        /\ reports' \in [Workers -> 0..Len(Marks)]
        /\ verdict' \in [Workers -> Successes \cup Failures \cup {None}]
    BY <2>2 DEF IndInv, TypeOK, WorkerSteps
  <2>4. revoked' \in SUBSET Runs
    BY DEF IndInv, TypeOK
  <2> QED
    BY <2>1, <2>3, <2>4 DEF IndInv, TypeOK
<1>2. WorkerRegisters' /\ CallerRegisters' /\ MessagesHaveRows'
  BY DEF IndInv, TypeOK, WorkerRegisters, CallerRegisters, MessagesHaveRows
<1>3. \A v \in Workers : held'[v] = None \/ /\ held'[v] = held[v]
                                            /\ wpc'[v] = wpc[v]
  BY DEF IndInv, TypeOK
<1> QED
  BY <1>1, <1>2, <1>3, CrashInv

LEMMA ProcessCrashInv ==
  ASSUME IndInv, ProcessCrash
  PROVE  IndInv'
<1> USE DEF ProcessCrash, dbVars
<1>1. TypeOK'
  <2>1. << >> \in Seq(Runs) /\ 0 \in 0..Len(Marks)
    BY MarksAssumption
  <2> QED
    BY <2>1, NamesAssumption DEF Crash, IndInv, TypeOK, CallerSteps, WorkerSteps
<1>2. WorkerRegisters' /\ CallerRegisters' /\ MessagesHaveRows'
  BY DEF IndInv, WorkerRegisters, CallerRegisters, MessagesHaveRows
<1> QED
  BY <1>1, <1>2, CrashInv

-----------------------------------------------------------------------------
(* The invariant.                                                          *)

LEMMA CallerStepInv ==
  ASSUME IndInv, NEW c \in Callers, CallerStep(c)
  PROVE  IndInv'
<1>1. CASE \E r \in Runs : FlushSource(c, r) \/ InsertRun(c, r)
  BY <1>1, FlushSourceInv, InsertRunInv
<1>2. CASE LookupActive(c) \/ RequeryActive(c)
  BY <1>2, LookupActiveInv, RequeryActiveInv
<1>3. CASE Enqueue(c) \/ EnqueueRaises(c) \/ MarkUnqueued(c)
  BY <1>3, EnqueueInv, EnqueueRaisesInv, MarkUnqueuedInv
<1>4. CASE CancelRevoke(c) \/ CancelWrite(c)
  BY <1>4, CancelRevokeInv, CancelWriteInv
<1> QED
  BY <1>1, <1>2, <1>3, <1>4 DEF CallerStep

LEMMA WorkerStepInv ==
  ASSUME IndInv, NEW w \in Workers, WorkerStep(w)
  PROVE  IndInv'
<1>1. CASE Claim(w) \/ Report(w)
  BY <1>1, ClaimInv, ReportInv
<1>2. CASE \/ \E outcome \in Successes : CrawlReturns(w, outcome)
           \/ \E outcome \in Failures : CrawlRaises(w, outcome)
  BY <1>2, CrawlReturnsInv, CrawlRaisesInv
<1>3. CASE SaveRead(w) \/ SaveWrite(w) \/ SaveRaises(w)
  BY <1>3, ReadInv, SaveWriteInv, SaveRaisesInv
<1>4. CASE FailRead(w) \/ FailWrite(w)
  BY <1>4, ReadInv, FailWriteInv
<1> QED
  BY <1>1, <1>2, <1>3, <1>4 DEF WorkerStep

LEMMA StutterInv ==
  ASSUME IndInv, UNCHANGED vars
  PROVE  IndInv'
<1> USE DEF vars, callerVars, dbVars, brokerVars, workerVars
<1>1. TypeOK' /\ CallerRegisters' /\ MessagesHaveRows'
  BY DEF IndInv, TypeOK, CallerRegisters, MessagesHaveRows
<1>2. RevokedIsCancelled' /\ QueuedIsCarried'
  BY DEF IndInv, RevokedIsCancelled, QueuedIsCarried, InHandler, InBroker, Waiting
<1> QED
  BY <1>1, <1>2, RowsUnchanged DEF IndInv

\* IndInv, the conjunction of all that AnalysisRuns says of a state, holds
\* along every behaviour: type correctness, one active run of a source, one
\* worker and one saved result of a run, and, until a process crashes, a
\* carrier for every run that has not ended.
THEOREM Invariance == Spec => []IndInv
<1>1. Init => IndInv
  BY InitInv
<1>2. IndInv /\ [Next]_vars => IndInv'
  <2> SUFFICES ASSUME IndInv, [Next]_vars PROVE IndInv'
    OBVIOUS
  <2>1. CASE \E c \in Clients : ClientRequest(c) \/ CallerStep(c)
    BY <2>1, CallerStepInv, RequestAnalysisInv, CancelReadInv
       DEF ClientRequest, Callers
  <2>2. CASE \E w \in Workers : WorkerStep(w)
    BY <2>2, WorkerStepInv
  <2>3. CASE Crashes
    BY <2>3, ClientCrashInv, WorkerCrashInv, ProcessCrashInv DEF Crashes, Callers
  <2>4. CASE UNCHANGED vars
    BY <2>4, StutterInv
  <2> QED
    BY <2>1, <2>2, <2>3, <2>4 DEF Next
<1> QED
  BY <1>1, <1>2, PTL DEF Spec

\* AnalysisRuns keeps its types.
THEOREM TypeCorrect == Spec => []TypeOK
BY Invariance, PTL DEF IndInv

\* A source never has two active runs.
THEOREM ActiveRunIsUnique == Spec => []OneActivePerSource
BY Invariance, PTL DEF IndInv

\* Two workers never hold the same run.
THEOREM CrawledOnce == Spec => []CrawledByOne
BY Invariance, PTL DEF IndInv

\* The result of a run is stored at most once.
THEOREM SavedOnce == Spec => []SavedAtMostOnce
BY Invariance, PTL DEF IndInv

\* The result of a run that says completed or partial is in the database.
THEOREM ResultIsThere == Spec => []ResultExists
BY Invariance, PTL DEF IndInv

\* A run whose result is stored never becomes active again.
THEOREM SavedEndsRun == Spec => []SavedIsOver
BY Invariance, PTL DEF IndInv

\* Where SELECT ... FOR UPDATE locks, a worker writes to a running run only.
THEOREM LocksHold == Spec => []LockedRunIsRunning
BY Invariance, PTL DEF IndInv

\* Without crashes no queued run is forgotten, unless a cancel whose revoke raised
\* took its message away.
THEOREM QueuedNotForgotten == Spec => []QueuedIsCarried
BY Invariance, PTL DEF IndInv

\* Without crashes no running run is forgotten.
THEOREM RunningNotForgotten == Spec => []RunningIsCrawled
BY Invariance, PTL DEF IndInv

-----------------------------------------------------------------------------
(* The rows implement the ledger.                                          *)

LEMMA LedgerStutters ==
  ASSUME UNCHANGED <<status, source, saves>>
  PROVE  UNCHANGED Ledger!ledger
<1>1. {r \in Runs : saves[r] > 0}' = {r \in Runs : saves[r] > 0}
  OBVIOUS
<1> QED
  BY <1>1 DEF Ledger!ledger

LEMMA LedgerSubmits ==
  ASSUME IndInv, NEW c \in Callers, NEW r \in Runs,
         NEW a \in Sources \X Options, InsertQueued(c, r, a),
         \A q \in Runs : status[q] \in Active => source[q] # a[1]
  PROVE  Ledger!Next
<1>1. a[1] \in Sources
  OBVIOUS
<1>2. Ledger!Submit(r, a[1])
  BY DEF Ledger!Submit, InsertQueued, Active
<1> QED
  BY <1>1, <1>2 DEF Ledger!Next

LEMMA LedgerWithdraws ==
  ASSUME IndInv, NEW r \in Runs, status[r] # "absent",
         NEW outcome \in {"failed", "cancelled"},
         status' = [status EXCEPT ![r] = outcome],
         UNCHANGED <<source, saves>>
  PROVE  Ledger!Next
<1>1. Ledger!Withdraw(r, outcome)
  BY DEF Ledger!Withdraw
<1> QED
  BY <1>1 DEF Ledger!Next

LEMMA LedgerCaller ==
  ASSUME IndInv, NEW c \in Callers, CallerStep(c)
  PROVE  Ledger!Next \/ UNCHANGED Ledger!ledger
<1> USE DEF dbVars, rowVars
<1>1. ASSUME NEW r \in Runs, FlushSource(c, r)
      PROVE  Ledger!Next \/ UNCHANGED Ledger!ledger
  <2>1. CASE asked[c][1] \in tracked
    BY <1>1, <2>1, LedgerStutters DEF FlushSource
  <2>2. CASE asked[c][1] \notin tracked
    <3>1. asked[c] \in Sources \X Options /\ InsertQueued(c, r, asked[c])
      BY <1>1, <2>2 DEF FlushSource, IndInv, TypeOK, CallerRegisters
    <3>2. \A q \in Runs : status[q] \in Active => source[q] # asked[c][1]
      BY <2>2 DEF IndInv, RunsHaveSources, Active
    <3> QED
      BY <3>1, <3>2, LedgerSubmits
  <2> QED
    BY <2>1, <2>2
<1>2. ASSUME NEW r \in Runs, InsertRun(c, r)
      PROVE  Ledger!Next \/ UNCHANGED Ledger!ledger
  <2>1. CASE ~SlotFree(asked[c][1])
    BY <1>2, <2>1, LedgerStutters DEF InsertRun
  <2>2. CASE SlotFree(asked[c][1])
    <3>1. asked[c] \in Sources \X Options /\ InsertQueued(c, r, asked[c])
      BY <1>2, <2>2 DEF InsertRun, IndInv, TypeOK, CallerRegisters
    <3>2. \A q \in Runs : status[q] \in Active => source[q] # asked[c][1]
      BY <2>2 DEF ActiveRuns, SlotFree
    <3> QED
      BY <3>1, <3>2, LedgerSubmits
  <2> QED
    BY <2>1, <2>2
<1>3. CASE \/ LookupActive(c) \/ RequeryActive(c)
           \/ Enqueue(c) \/ EnqueueRaises(c) \/ CancelRevoke(c)
  BY <1>3, LedgerStutters
     DEF LookupActive, RequeryActive, Enqueue, EnqueueRaises, CancelRevoke
<1>4. CASE MarkUnqueued(c) \/ CancelWrite(c)
  <2>1. mine[c] \in Runs /\ status[mine[c]] # "absent"
    BY <1>4 DEF IndInv, TypeOK, CallerRegisters, MarkUnqueued, CancelWrite
  <2> QED
    BY <1>4, <2>1, LedgerWithdraws DEF MarkUnqueued, CancelWrite
<1> QED
  BY <1>1, <1>2, <1>3, <1>4 DEF CallerStep

LEMMA LedgerWorker ==
  ASSUME IndInv, NEW w \in Workers, WorkerStep(w)
  PROVE  Ledger!Next \/ UNCHANGED Ledger!ledger
<1> USE DEF dbVars, rowVars
<1>1. CASE Claim(w)
  <2>1. CASE UNCHANGED status
    BY <1>1, <2>1, LedgerStutters DEF Claim
  <2>2. CASE status' # status
    <3>1. Head(queue) \in Runs
      BY <1>1 DEF Claim, IndInv, TypeOK
    <3>2. Ledger!Start(Head(queue))
      BY <1>1, <2>2 DEF Claim, Claimable, Ledger!Start
    <3> QED
      BY <3>1, <3>2 DEF Ledger!Next
  <2> QED
    BY <2>1, <2>2
<1>2. CASE \/ Report(w) \/ SaveRead(w) \/ SaveRaises(w) \/ FailRead(w)
           \/ \E outcome \in Successes : CrawlReturns(w, outcome)
           \/ \E outcome \in Failures : CrawlRaises(w, outcome)
  BY <1>2, LedgerStutters
     DEF Report, SaveRead, SaveRaises, FailRead, CrawlReturns, CrawlRaises
<1>3. CASE SaveWrite(w) \/ FailWrite(w)
  <2>1. /\ held[w] \in Runs /\ held[w] # None
        /\ wpc[w] \in {"write", "mark"}
    BY <1>3 DEF SaveWrite, FailWrite, IndInv, TypeOK, WorkerRegisters
  <2>2. /\ saves[held[w]] = 0
        /\ status[held[w]] \in {"running", "cancelled", "failed"}
        /\ Runtime = "docker" => status[held[w]] = "running"
    BY <2>1 DEF IndInv, ClaimedBeforeCrawled, LockedRunIsRunning
  <2>3. Ledger!Unfinished(held[w])
    BY <2>1, <2>2 DEF Ledger!Unfinished
  <2>4. CASE SaveWrite(w)
    <3>1. {r \in Runs : saves[r] > 0}' = {r \in Runs : saves[r] > 0} \cup {held[w]}
      BY <2>1, <2>2, <2>4 DEF SaveWrite, IndInv, TypeOK
    <3>2. verdict[w] \in {"completed", "partial"}
      BY <2>4 DEF SaveWrite, IndInv, WorkerRegisters, Successes
    <3>3. Ledger!Finish(held[w], verdict[w])
      BY <2>3, <2>4, <3>1 DEF SaveWrite, Ledger!Finish
    <3>4. \E outcome \in {"completed", "partial"} : Ledger!Finish(held[w], outcome)
      BY <3>2, <3>3 DEF Ledger!Finish
    <3> QED
      BY <2>1, <3>4 DEF Ledger!Next
  <2>5. CASE FailWrite(w)
    <3>1. verdict[w] \in {"failed", "blocked"}
      BY <2>5 DEF FailWrite, IndInv, WorkerRegisters, Failures
    <3>2. Ledger!Fail(held[w], verdict[w])
      BY <2>3, <2>5 DEF FailWrite, Ledger!Fail
    <3> QED
      BY <2>1, <3>1, <3>2 DEF Ledger!Next
  <2> QED
    BY <1>3, <2>4, <2>5
<1> QED
  BY <1>1, <1>2, <1>3 DEF WorkerStep

\* Every behaviour of the handlers, the broker and the workers is, on the
\* rows, a behaviour the ledger allows: a run starts once, from queued, its
\* result is stored when its worker ends it, and apart from its worker only
\* the request that created or cancels it decides its status.
THEOREM LedgerImplemented == Spec => ImplementsLedger
<1>1. Init => Ledger!Init
  BY DEF Init, Ledger!Init
<1>2. IndInv /\ [Next]_vars => [Ledger!Next]_Ledger!ledger
  <2> SUFFICES ASSUME IndInv, [Next]_vars
               PROVE  Ledger!Next \/ UNCHANGED Ledger!ledger
    OBVIOUS
  <2>1. CASE \E c \in Clients : ClientRequest(c) \/ CallerStep(c)
    BY <2>1, LedgerCaller, LedgerStutters
       DEF ClientRequest, RequestAnalysis, CancelRead, Callers, dbVars
  <2>2. CASE \E w \in Workers : WorkerStep(w)
    BY <2>2, LedgerWorker
  <2>3. CASE Crashes \/ UNCHANGED vars
    BY <2>3, LedgerStutters
       DEF Crashes, ClientCrash, WorkerCrash, ProcessCrash, dbVars, vars
  <2> QED
    BY <2>1, <2>2, <2>3 DEF Next
<1> QED
  BY <1>1, <1>2, Invariance, PTL DEF Spec, ImplementsLedger, Ledger!Spec

-----------------------------------------------------------------------------
(* A worker never rewrites a run that is over.                             *)

\* A step that changes the status of an ended run is the commit of a handler: of the
\* steps of a caller two do, ...
LEMMA EndedOfCaller ==
  ASSUME IndInv, NEW c \in Callers, CallerStep(c),
         NEW r \in Runs, status[r] \in Terminal, status'[r] # status[r]
  PROVE  pc[c] \in {"cancel", "unqueue"} /\ mine[c] = r /\ pc'[c] # pc[c]
<1> USE DEF Terminal, Successes, Failures
<1>1. CASE MarkUnqueued(c) \/ CancelWrite(c)
  BY <1>1 DEF MarkUnqueued, CancelWrite, Reply, IndInv, TypeOK
<1>2. ASSUME NEW q \in Runs, FlushSource(c, q) \/ InsertRun(c, q)
      PROVE  FALSE
  BY <1>2 DEF FlushSource, InsertRun, InsertQueued, dbVars, IndInv, TypeOK
<1>3. CASE \/ LookupActive(c) \/ RequeryActive(c)
           \/ Enqueue(c) \/ EnqueueRaises(c) \/ CancelRevoke(c)
  BY <1>3 DEF LookupActive, RequeryActive, Enqueue, EnqueueRaises,
              CancelRevoke, dbVars
<1> QED
  BY <1>1, <1>2, <1>3 DEF CallerStep

\* ... and with row locks those of a worker do not.
LEMMA EndedOfWorker ==
  ASSUME Runtime = "docker", IndInv, NEW w \in Workers, WorkerStep(w),
         NEW r \in Runs, status[r] \in Terminal
  PROVE  status'[r] = status[r]
<1> USE DEF Terminal, Successes, Failures
<1>1. CASE Claim(w)
  BY <1>1 DEF Claim, Claimable, IndInv, TypeOK
<1>2. CASE SaveWrite(w) \/ FailWrite(w)
  BY <1>2 DEF SaveWrite, FailWrite, IndInv, TypeOK, LockedRunIsRunning
<1>3. CASE \/ Report(w) \/ SaveRead(w) \/ SaveRaises(w) \/ FailRead(w)
           \/ \E outcome \in Successes : CrawlReturns(w, outcome)
           \/ \E outcome \in Failures : CrawlRaises(w, outcome)
  BY <1>3 DEF Report, SaveRead, SaveRaises, FailRead, CrawlReturns,
              CrawlRaises, dbVars
<1> QED
  BY <1>1, <1>2, <1>3 DEF WorkerStep

LEMMA EndedStep ==
  ASSUME Runtime = "docker", IndInv, [Next]_vars,
         NEW r \in Runs, status[r] \in Terminal, status'[r] # status[r]
  PROVE  \E c \in Callers : /\ pc[c] \in {"cancel", "unqueue"}
                            /\ mine[c] = r
                            /\ pc'[c] # pc[c]
<1>1. CASE \E c \in Clients : CallerStep(c)
  BY <1>1, EndedOfCaller DEF Callers
<1>2. CASE \E c \in Clients : ClientRequest(c)
  BY <1>2 DEF ClientRequest, RequestAnalysis, CancelRead, dbVars
<1>3. CASE \E w \in Workers : WorkerStep(w)
  BY <1>3, EndedOfWorker
<1>4. CASE Crashes \/ UNCHANGED vars
  BY <1>4 DEF Crashes, ClientCrash, WorkerCrash, ProcessCrash, dbVars, vars
<1> QED
  BY <1>1, <1>2, <1>3, <1>4 DEF Next

\* With row locks, an ended run changes only by the commit of a handler that
\* read it before: no worker, however late it returns, rewrites it.
THEOREM WorkersRespectEnds ==
  ASSUME Runtime = "docker"
  PROVE  Spec => EndedByRequestOnly
<1>1. IndInv /\ [Next]_vars =>
        [\A r \in Runs :
           status[r] \in Terminal /\ status'[r] # status[r] =>
             \E c \in Callers : /\ pc[c] \in {"cancel", "unqueue"}
                                /\ mine[c] = r
                                /\ pc'[c] # pc[c]]_vars
  BY EndedStep
<1> QED
  BY <1>1, Invariance, PTL DEF Spec, EndedByRequestOnly

-----------------------------------------------------------------------------
(* The progress of a run.                                                  *)

\* Whoever leaves the progress alone, makes no run wait again and starts no crawl
\* leaves it as it was reported; ...
CrawlsGoOn == \A w \in Workers : wpc'[w] = "crawl" =>
  wpc[w] = "crawl" /\ held'[w] = held[w] /\ reports'[w] = reports[w]
NoneWaitsAgain == \A r \in Runs :
  status'[r] \in {"absent", "queued"} => status[r] \in {"absent", "queued"}

LEMMA ProgressKept ==
  ASSUME ProgressIsReported, progress' = progress, NoneWaitsAgain, CrawlsGoOn
  PROVE  ProgressIsReported' /\ \A r \in Runs : progress'[r] = progress[r]
BY DEF ProgressIsReported, NoneWaitsAgain, CrawlsGoOn

\* ... as do the steps of a caller, ...
LEMMA ProgressOfCaller ==
  ASSUME IndInv, ProgressIsReported, NEW c \in Callers, CallerStep(c)
  PROVE  ProgressIsReported' /\ \A r \in Runs : progress'[r] = progress[r]
<1>1. progress' = progress
  BY DEF CallerStep, FlushSource, InsertRun, InsertQueued, LookupActive, RequeryActive,
         Enqueue, EnqueueRaises, MarkUnqueued, CancelRevoke, CancelWrite, dbVars, rowVars
<1>2. NoneWaitsAgain
  BY DEF CallerStep, FlushSource, InsertRun, InsertQueued, LookupActive, RequeryActive,
         Enqueue, EnqueueRaises, MarkUnqueued, CancelRevoke, CancelWrite, dbVars, rowVars,
         IndInv, TypeOK, NoneWaitsAgain
<1>3. UNCHANGED workerVars
  BY DEF CallerStep, FlushSource, InsertRun, InsertQueued, LookupActive, RequeryActive,
         Enqueue, EnqueueRaises, MarkUnqueued, CancelRevoke, CancelWrite
<1>4. CrawlsGoOn
  BY <1>3 DEF CrawlsGoOn, workerVars
<1> QED
  BY <1>1, <1>2, <1>4, ProgressKept

\* ... a crash, and whatever leaves the rows and the workers alone.
LEMMA ProgressBeside ==
  ASSUME IndInv, ProgressIsReported,
         \/ UNCHANGED <<dbVars, workerVars>>
         \/ \E c \in Clients : ClientCrash(c)
         \/ (\E w \in Workers : WorkerCrash(w)) \/ ProcessCrash
  PROVE  ProgressIsReported' /\ \A r \in Runs : progress'[r] = progress[r]
<1>1. progress' = progress /\ status' = status
  BY DEF ClientCrash, WorkerCrash, ProcessCrash, dbVars
<1>2. CrawlsGoOn
  <2>1. CASE UNCHANGED workerVars
    BY <2>1 DEF workerVars, CrawlsGoOn
  <2>2. CASE \E v \in Workers : WorkerCrash(v)
    BY <2>2 DEF WorkerCrash, Release, IndInv, TypeOK, CrawlsGoOn
  <2>3. CASE ProcessCrash
    BY <2>3 DEF ProcessCrash, CrawlsGoOn
  <2>4. CASE \E c \in Clients : ClientCrash(c)
    BY <2>1, <2>4 DEF ClientCrash
  <2> QED
    BY <2>1, <2>2, <2>3, <2>4
<1> QED
  BY <1>1, <1>2, ProgressKept DEF NoneWaitsAgain

\* A worker moves it on: claimed, the next mark, saved.
LEMMA ProgressOfWorker ==
  ASSUME IndInv, ProgressIsReported, NEW w \in Workers, WorkerStep(w)
  PROVE  ProgressIsReported' /\ \A r \in Runs : progress[r] <= progress'[r]
<1>0. /\ progress \in [Runs -> 0..100]
      /\ wpc[w] # "idle" => held[w] \in Runs
      /\ \A i \in DOMAIN Marks : i \in Nat /\ Marks[i] \in 1..100
  BY MarksAssumption DEF IndInv, TypeOK, WorkerRegisters
<1>1. CASE Claim(w)
  <2>1. CASE \E r \in Runs :
               /\ status[r] = "queued" /\ status' = [status EXCEPT ![r] = "running"]
               /\ progress' = [progress EXCEPT ![r] = 1]
               /\ wpc' = [wpc EXCEPT ![w] = "crawl"] /\ held' = [held EXCEPT ![w] = r]
               /\ UNCHANGED reports
    <3>1. PICK r \in Runs :
               /\ status[r] = "queued" /\ status' = [status EXCEPT ![r] = "running"]
               /\ progress' = [progress EXCEPT ![r] = 1]
               /\ wpc' = [wpc EXCEPT ![w] = "crawl"] /\ held' = [held EXCEPT ![w] = r]
               /\ UNCHANGED reports
      BY <2>1
    <3>2. progress[r] = 0
      BY <3>1 DEF ProgressIsReported
    <3>3. \A v \in Workers : held[v] # r
      <4> SUFFICES ASSUME NEW v \in Workers, held[v] = r PROVE FALSE
        OBVIOUS
      <4>1. held[v] # None
        BY NamesAssumption
      <4>2. status[held[v]] \in {"running", "cancelled", "failed"} \cup Terminal
        BY <4>1 DEF IndInv, ClaimedBeforeCrawled
      <4> QED
        BY <3>1, <4>2 DEF Terminal, Successes, Failures
    <3>4. \A v \in Workers \ {w} : wpc'[v] = wpc[v] /\ held'[v] = held[v] /\ reports'[v] = reports[v]
                                  /\ progress'[held[v]] = progress[held[v]]
      BY <3>1, <3>3 DEF IndInv, TypeOK
    <3>5. held'[w] = r /\ progress'[r] = 1
      BY <1>0, <3>1 DEF IndInv, TypeOK
    <3>6. \A i \in DOMAIN Marks : progress'[held'[w]] <= Marks[i]
      BY <1>0, <3>5
    <3>7. \A q \in Runs : status'[q] \in {"absent", "queued"} => progress'[q] = 0
      BY <3>1 DEF ProgressIsReported, IndInv, TypeOK
    <3>8. \A q \in Runs : progress[q] <= progress'[q]
      BY <1>0, <3>1, <3>2
    <3>9. \A v \in Workers : wpc'[v] = "crawl" =>
            \A i \in DOMAIN Marks : i > reports'[v] => progress'[held'[v]] <= Marks[i]
      BY <3>4, <3>6 DEF ProgressIsReported
    <3> QED
      BY <3>7, <3>8, <3>9 DEF ProgressIsReported
  <2>2. CASE UNCHANGED <<status, progress, workerVars>>
    BY <1>0, <2>2 DEF workerVars, ProgressIsReported
  <2>3. Head(queue) \in Runs
    BY <1>1 DEF Claim, IndInv, TypeOK
  <2> QED
    BY <1>1, <2>1, <2>2, <2>3 DEF Claim, Claimable
<1>2. CASE Report(w)
  <2>1. /\ wpc[w] = "crawl" /\ reports[w] < Len(Marks) /\ reports[w] \in Nat
        /\ reports' = [reports EXCEPT ![w] = reports[w] + 1]
        /\ UNCHANGED <<status, wpc, held>>
    BY <1>2, MarksAssumption, LenProperties DEF Report, IndInv, TypeOK
  <2>2. reports[w] + 1 \in DOMAIN Marks
    BY <2>1, MarksAssumption, LenProperties
  <2> DEFINE h == held[w]  m == Marks[reports[w] + 1]
  <2>3. h \in Runs /\ progress[h] <= m /\ m \in 1..100
    BY <1>0, <2>1, <2>2 DEF ProgressIsReported
  <2>4. progress' = progress \/ (status[h] = "running" /\ progress' = [progress EXCEPT ![h] = m])
    BY <1>2 DEF Report
  <2>5. \A i \in DOMAIN Marks : i > reports[w] + 1 => m <= Marks[i]
    BY <1>0, <2>1, <2>2, MarksAssumption
  <2>6. progress'[h] \in {progress[h], m} /\ \A q \in Runs \ {h} : progress'[q] = progress[q]
    BY <1>0, <2>3, <2>4
  <2>7. \A i \in DOMAIN Marks : i > reports'[w] => progress'[held'[w]] <= Marks[i]
    BY <1>0, <2>1, <2>3, <2>5, <2>6 DEF IndInv, TypeOK, ProgressIsReported
  <2>8. ASSUME NEW v \in Workers \ {w}, wpc'[v] = "crawl"
        PROVE  \A i \in DOMAIN Marks : i > reports'[v] => progress'[held'[v]] <= Marks[i]
    <3>1. held[v] \in Runs /\ held[v] # h
      BY <2>1, <2>3, <2>8 DEF IndInv, TypeOK, WorkerRegisters, CrawledByOne
    <3> QED
      BY <2>1, <2>6, <2>8, <3>1 DEF IndInv, TypeOK, ProgressIsReported
  <2>9. \A q \in Runs : status'[q] \in {"absent", "queued"} => progress'[q] = 0
    <3>1. CASE status[h] = "running"
      BY <2>1, <2>3, <2>6, <3>1 DEF ProgressIsReported
    <3>2. CASE status[h] # "running"
      BY <2>1, <2>4, <3>2 DEF ProgressIsReported
    <3> QED
      BY <3>1, <3>2
  <2>10. \A q \in Runs : progress[q] <= progress'[q]
    BY <1>0, <2>3, <2>6
  <2> QED
    BY <2>7, <2>8, <2>9, <2>10 DEF ProgressIsReported
<1>3. CASE SaveWrite(w)
  <2> DEFINE h == held[w]
  <2>1. h \in Runs /\ progress' = [progress EXCEPT ![h] = 100]
    BY <1>0, <1>3 DEF SaveWrite
  <2>2. verdict[w] \in Successes /\ status' = [status EXCEPT ![h] = verdict[w]]
    BY <1>3 DEF SaveWrite, IndInv, WorkerRegisters
  <2>3. \A q \in Runs : status'[q] \in {"absent", "queued"} => progress'[q] = 0
    BY <2>1, <2>2 DEF ProgressIsReported, IndInv, TypeOK, Successes
  <2>4. ASSUME NEW v \in Workers, wpc'[v] = "crawl"
        PROVE  /\ v # w /\ wpc[v] = "crawl" /\ held'[v] = held[v] /\ reports'[v] = reports[v]
               /\ held[v] # h
    BY <1>3, <2>1, <2>4 DEF SaveWrite, Release, RecordFailure, IndInv, TypeOK, WorkerRegisters,
                            CrawledByOne
  <2>5. ASSUME NEW v \in Workers, wpc'[v] = "crawl"
        PROVE  progress'[held'[v]] = progress[held[v]]
    BY <2>1, <2>4, <2>5 DEF IndInv, TypeOK, WorkerRegisters
  <2>6. \A q \in Runs : progress[q] <= progress'[q]
    BY <1>0, <2>1
  <2> QED
    BY <2>3, <2>4, <2>5, <2>6 DEF ProgressIsReported
<1>4. CASE \/ SaveRead(w) \/ SaveRaises(w) \/ FailRead(w) \/ FailWrite(w)
           \/ \E outcome \in Successes : CrawlReturns(w, outcome)
           \/ \E outcome \in Failures : CrawlRaises(w, outcome)
  <2>1. progress' = progress
    BY <1>4 DEF SaveRead, SaveRaises, FailRead, FailWrite, CrawlReturns, CrawlRaises, dbVars
  <2>2. \A q \in Runs : status'[q] \in {"absent", "queued"} => status[q] \in {"absent", "queued"}
    BY <1>4 DEF SaveRead, SaveRaises, FailRead, FailWrite, CrawlReturns, CrawlRaises, dbVars,
                IndInv, TypeOK, WorkerRegisters, Failures
  <2>3. \A v \in Workers : wpc'[v] = "crawl" =>
          wpc[v] = "crawl" /\ held'[v] = held[v] /\ reports'[v] = reports[v]
    BY <1>4 DEF SaveRead, SaveRaises, FailRead, FailWrite, CrawlReturns, CrawlRaises,
                Release, RecordFailure, IndInv, TypeOK
  <2> QED
    BY <1>0, <2>1, <2>2, <2>3 DEF ProgressIsReported
<1> QED
  BY <1>1, <1>2, <1>3, <1>4 DEF WorkerStep

\* The progress that a client polls never goes back, however late a report arrives
\* and whatever became of its run meanwhile (_update_progress).
THEOREM ProgressGoesForward == Spec => ProgressNeverRegresses
<1>1. Init => ProgressIsReported
  BY DEF Init, ProgressIsReported
<1>2. IndInv /\ ProgressIsReported /\ [Next]_vars =>
        ProgressIsReported' /\ [\A r \in Runs : progress[r] <= progress'[r]]_vars
  <2> SUFFICES ASSUME IndInv, ProgressIsReported, [Next]_vars
               PROVE  ProgressIsReported' /\ \A r \in Runs : progress[r] <= progress'[r]
    OBVIOUS
  <2>1. progress \in [Runs -> 0..100]
    BY DEF IndInv, TypeOK
  <2>2. CASE \E w \in Workers : WorkerStep(w)
    BY <2>2, ProgressOfWorker
  <2>3. CASE \E c \in Clients : CallerStep(c)
    BY <2>1, <2>3, ProgressOfCaller DEF Callers
  <2>4. CASE Crashes \/ UNCHANGED vars \/ \E c \in Clients : ClientRequest(c)
    BY <2>1, <2>4, ProgressBeside
       DEF Crashes, vars, ClientRequest, RequestAnalysis, CancelRead
  <2> QED
    BY <2>2, <2>3, <2>4 DEF Next
<1> QED
  BY <1>1, <1>2, Invariance, PTL DEF Spec, ProgressNeverRegresses
=============================================================================
