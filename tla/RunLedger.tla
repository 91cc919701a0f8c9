------------------------------ MODULE RunLedger ------------------------------
(***************************************************************************)
(* What the table of analysis runs promises to everybody who reads it: how *)
(* the status of a run may move, and when its result is there.  It knows   *)
(* of no broker, worker, request or crash; AnalysisRuns implements it.     *)
(***************************************************************************)
CONSTANTS
  Sources,
  Runs,
  RowLocks,   \* TRUE where a row that was read for update stays as it was read
  None

VARIABLES
  status,     \* of each run
  source,     \* of each run
  stored      \* the runs whose result has been saved

ledger == <<status, source, stored>>

Init ==
  /\ status = [r \in Runs |-> "absent"]
  /\ source = [r \in Runs |-> None]
  /\ stored = {}

\* A run is accepted only while its source has no other run going.
Submit(r, s) ==
  /\ status[r] = "absent"
  /\ \A q \in Runs : status[q] \in {"queued", "running"} => source[q] # s
  /\ status' = [status EXCEPT ![r] = "queued"]
  /\ source' = [source EXCEPT ![r] = s]
  /\ UNCHANGED stored

Start(r) ==
  /\ status[r] = "queued"
  /\ status' = [status EXCEPT ![r] = "running"]
  /\ UNCHANGED <<source, stored>>

\* The worker's verdict replaces "running".  Without row locks it may also
\* replace a withdrawal it did not see.
Unfinished(r) ==
  \/ status[r] = "running"
  \/ ~RowLocks /\ status[r] \in {"cancelled", "failed"} /\ r \notin stored

Finish(r, outcome) ==
  /\ Unfinished(r)
  /\ status' = [status EXCEPT ![r] = outcome]
  /\ stored' = stored \cup {r}
  /\ UNCHANGED source

Fail(r, outcome) ==
  /\ Unfinished(r)
  /\ status' = [status EXCEPT ![r] = outcome]
  /\ UNCHANGED <<source, stored>>

\* The request that created or cancels a run has the last word on it.
Withdraw(r, outcome) ==
  /\ status[r] # "absent"
  /\ status' = [status EXCEPT ![r] = outcome]
  /\ UNCHANGED <<source, stored>>

Next ==
  \E r \in Runs :
    \/ \E s \in Sources : Submit(r, s)
    \/ Start(r)
    \/ \E outcome \in {"completed", "partial"} : Finish(r, outcome)
    \/ \E outcome \in {"failed", "blocked"} : Fail(r, outcome)
    \/ \E outcome \in {"failed", "cancelled"} : Withdraw(r, outcome)

Spec == Init /\ [][Next]_ledger
=============================================================================
