------------------------------ MODULE Accounts ------------------------------
(***************************************************************************)
(* Users and their sessions: AuthService behind the routes of auth and     *)
(* admin_users, on PostgreSQL (READ COMMITTED, row locks).                 *)
(*                                                                         *)
(* A request is a process. What it has read of a row it keeps: sessions do *)
(* not expire their objects on commit, so that the user of authenticate    *)
(* and the target of an admin's request may be stale when they are used,   *)
(* and only the columns that differ from what was read are written. A row  *)
(* is locked by SELECT ... FOR UPDATE and by UPDATE, until the transaction *)
(* ends. revoke_all_sessions flushes the user first (autoflush), and       *)
(* revokes the sessions that are committed when the statement starts.      *)
(*                                                                         *)
(* Emails are the users' names, a password hash is the number of the call  *)
(* of hash_password that made it (0 is no password), and time passes where *)
(* it matters: a lock-out ends. CSRF tokens, origins and the validation of *)
(* the input are left out: they reject a request before it does anything.  *)
(***************************************************************************)
EXTENDS Naturals, Sequences, FiniteSets, SequencesExt

CONSTANTS
  Users,        \* the emails accounts are made for
  Requests,     \* the requests that are served at a time
  None,
  LockAfter,    \* 5: consecutive failures until a user is locked
  MaxHashes,    \* bound on the passwords ever set
  MaxSessions,  \* bound on the sessions ever opened
  MaxUnlocks    \* bound on the lock-outs that end

ASSUME LockAfterAssumption == LockAfter \in Nat \ {0}
ASSUME BoundsAssumption == {MaxHashes, MaxSessions, MaxUnlocks} \subseteq Nat
ASSUME NoneAssumption ==
  /\ None \notin Users \cup Requests \cup {"admin", "member"}
  /\ None \notin BOOLEAN
  /\ None \notin Nat
ASSUME SystemAssumption == "system" \notin Users
ASSUME RowsAssumption == None \notin
  [role : {"admin", "member"}, active : BOOLEAN, hash : Nat, failed : Nat,
   locked : {"no", "yes", "over"}]

VARIABLES
  users,     \* the rows of users, without the system user
  adopted,   \* no source is left with the system user
  sessions,  \* the rows of auth_sessions, in the order they were opened
  hashes,    \* calls of hash_password so far
  unlocks,   \* lock-outs that have ended
  locks,     \* who holds the row of a user; System is the system user's
  pc, reg,   \* where each request is, and what it has read
  streak     \* history: wrong passwords in a row for each user

rows == <<users, adopted, sessions, hashes, unlocks, streak>>
vars == <<rows, locks, pc, reg>>

System == "system"
Roles  == {"admin", "member"}

UserRows == [role : Roles, active : BOOLEAN, hash : Nat, failed : Nat,
             locked : {"no", "yes", "over"}]
SessionRows == [user : Users, hash : Nat, revoked : BOOLEAN]

Places == {"idle", "bootstrap", "adopt", "login", "verify", "authenticated",
           "create", "protect", "scan", "flush", "revoke", "commit"}

Exists(u) == users[u] # None
IsAdmin(row) == row.role = "admin"
IsActiveAdmin(row) == IsAdmin(row) /\ row.active
ActiveAdmins == {u \in Users : Exists(u) /\ IsActiveAdmin(users[u])}

\* bootstrap_required
BootstrapRequired == \A u \in Users : Exists(u) => ~IsAdmin(users[u])

NewUser(role, hash) ==
  [role |-> role, active |-> TRUE, hash |-> hash, failed |-> 0, locked |-> "no"]

LiveSessions(u) == {k \in DOMAIN sessions : sessions[k].user = u /\ ~sessions[k].revoked}

-----------------------------------------------------------------------------
(* Rows and their locks                                                    *)

Free(u, p) == locks[u] \in {None, p}
Hold(U, p) == locks' = [u \in DOMAIN locks |-> IF u \in U THEN p ELSE locks[u]]
Goto(p, place) == pc' = [pc EXCEPT ![p] = place]
Note(p, r) == reg' = [reg EXCEPT ![p] = r]

Release(p) == locks' = [u \in DOMAIN locks |-> IF locks[u] = p THEN None ELSE locks[u]]

\* The answer is sent and the transaction is over, committed or rolled back.
Finish(p) == Goto(p, "idle") /\ Note(p, None) /\ Release(p)

Reject(p) == Finish(p) /\ UNCHANGED rows

\* A new password hash, made from the password of the request.
Hashed == hashes < MaxHashes /\ hashes' = hashes + 1

\* The bound on hashes leaves one for the requests that insert a user.
MayHash == hashes < MaxHashes
  - (IF \E p \in Requests : pc[p] \in {"adopt", "create"} THEN 1 ELSE 0)

\* The bound on sessions counts the requests that may still open one.
MayOpen == Len(sessions)
  + Cardinality({p \in Requests :
      pc[p] \in {"bootstrap", "adopt", "login", "verify"} /\ reg[p].guess # 0})
  < MaxSessions

\* The sessions S become revoked.
Revoked(S) == [k \in DOMAIN sessions |->
  IF k \in S THEN [sessions[k] EXCEPT !.revoked = TRUE] ELSE sessions[k]]

-----------------------------------------------------------------------------
Init ==
  /\ users = [u \in Users |-> None]
  /\ adopted = FALSE
  /\ sessions = <<>>
  /\ hashes = 0
  /\ unlocks = 0
  /\ locks = [u \in Users \cup {System} |-> None]
  /\ pc = [p \in Requests |-> "idle"]
  /\ reg = [p \in Requests |-> None]
  /\ streak = [u \in Users |-> 0]

\* A lock-out of 15 minutes is over.
LockoutEnds(u) ==
  /\ Exists(u) /\ users[u].locked = "yes" /\ unlocks < MaxUnlocks
  /\ users' = [users EXCEPT ![u].locked = "over"]
  /\ unlocks' = unlocks + 1
  /\ UNCHANGED <<adopted, sessions, hashes, streak, locks, pc, reg>>

-----------------------------------------------------------------------------
(* The first admin                                                         *)

\* bootstrap_admin waits for the row of the system user.
Bootstrap(p, u) ==
  /\ pc[p] = "idle" /\ MayOpen
  /\ Goto(p, "bootstrap")
  /\ Note(p, [user |-> u, guess |-> None])
  /\ UNCHANGED <<rows, locks>>

\* mutant: the row of the system user is read without FOR UPDATE
BootstrapReadsUnlocked(p) ==
  /\ pc[p] = "bootstrap"
  /\ \/ /\ BootstrapRequired /\ ~Exists(reg[p].user)
        /\ Goto(p, "adopt")
        /\ UNCHANGED <<rows, locks, reg>>
     \/ /\ ~BootstrapRequired \/ Exists(reg[p].user)
        /\ Reject(p)

BootstrapReads(p) ==
  /\ pc[p] = "bootstrap" /\ Free(System, p)
  /\ \/ /\ BootstrapRequired /\ ~Exists(reg[p].user)
        /\ Hold({System}, p)
        /\ Goto(p, "adopt")
        /\ UNCHANGED <<rows, reg>>
     \/ /\ ~BootstrapRequired \/ Exists(reg[p].user)
        /\ Reject(p)

\* The admin, the sources that had no owner, and the commit; the route then
\* logs the admin in with the password that was just set.
BootstrapCommits(p) == LET u == reg[p].user IN
  /\ pc[p] = "adopt" /\ ~Exists(u) /\ Hashed
  /\ users' = [users EXCEPT ![u] = NewUser("admin", hashes + 1)]
  /\ adopted' = TRUE
  /\ Release(p)
  /\ Goto(p, "login")
  /\ Note(p, [user |-> u, guess |-> hashes + 1])
  /\ UNCHANGED <<sessions, unlocks, streak>>

\* The email is unique: an insert that comes second fails.
InsertFails(p) == pc[p] \in {"adopt", "create"} /\ Exists(reg[p].user) /\ Reject(p)

-----------------------------------------------------------------------------
(* Logging in                                                              *)

\* With the password the user has at this moment, or with a wrong one.
Login(p, u, guess) ==
  /\ pc[p] = "idle" /\ (guess = 0 \/ MayOpen)
  /\ Goto(p, "login")
  /\ Note(p, [user |-> u, guess |-> guess])
  /\ UNCHANGED <<rows, locks>>

MayLogIn(u) == Exists(u) /\ users[u].locked # "yes" /\ users[u].active

\* mutant: the user is read without FOR UPDATE
LoginReadsUnlocked(p) == LET u == reg[p].user IN
  /\ pc[p] = "login"
  /\ \/ ~MayLogIn(u) /\ Reject(p)
     \/ /\ MayLogIn(u)
        /\ Goto(p, "verify")
        /\ Note(p, [user |-> u, guess |-> reg[p].guess, copy |-> users[u]])
        /\ UNCHANGED <<rows, locks>>

LoginReads(p) == LET u == reg[p].user IN
  /\ pc[p] = "login" /\ Free(u, p)
  /\ \/ ~MayLogIn(u) /\ Reject(p)
     \/ /\ MayLogIn(u)
        /\ Hold({u}, p)
        /\ Goto(p, "verify")
        /\ Note(p, [user |-> u, guess |-> reg[p].guess, copy |-> users[u]])
        /\ UNCHANGED rows

WrongPassword(p, u, copy) ==
  /\ reg[p].guess # copy.hash
  /\ users' = [users EXCEPT
       ![u].failed = copy.failed + 1,
       ![u].locked = IF copy.failed + 1 >= LockAfter THEN "yes" ELSE @]
  /\ streak' = [streak EXCEPT ![u] = @ + 1]
  /\ UNCHANGED sessions

RightPassword(p, u, copy) ==
  /\ reg[p].guess = copy.hash
  /\ users' = [users EXCEPT ![u].failed = 0, ![u].locked = "no"]
  /\ streak' = [streak EXCEPT ![u] = 0]
  /\ sessions' = Append(sessions, [user |-> u, hash |-> copy.hash, revoked |-> FALSE])

LoginCommits(p) == LET u == reg[p].user IN
  /\ pc[p] = "verify"
  /\ WrongPassword(p, u, reg[p].copy) \/ RightPassword(p, u, reg[p].copy)
  /\ Finish(p)
  /\ UNCHANGED <<adopted, hashes, unlocks>>

-----------------------------------------------------------------------------
(* What a session may do                                                   *)

\* authenticate keeps the user it has read. A session also expires: then its
\* owner does not take this step.
Authenticate(p, k) == LET u == sessions[k].user IN
  /\ pc[p] = "idle" /\ ~sessions[k].revoked /\ users[u].active
  /\ Goto(p, "authenticated")
  /\ Note(p, [session |-> k, user |-> u, copy |-> users[u]])
  /\ UNCHANGED <<rows, locks>>

\* A query, or an input that is not valid: nothing is changed.
Answer(p) == pc[p] = "authenticated" /\ Reject(p)

Logout(p) ==
  /\ pc[p] = "authenticated"
  /\ sessions' = Revoked({reg[p].session})
  /\ Finish(p)
  /\ UNCHANGED <<users, adopted, hashes, unlocks, streak>>

\* The columns an operation has set on its copy of a user and that differ from
\* what was read, and what remains to be done before its commit; of the scan of
\* _protect_last_admin the row it is at, those left, and the admins it has found.
Work(u, changes, removes, revokes) ==
  [user |-> u, changes |-> changes, removes |-> removes, revokes |-> revokes,
   live |-> {}, at |-> None, left |-> {}, found |-> {}]

Works == [user : Users,
          changes : [role : Roles \cup {None}, active : BOOLEAN \cup {None},
                     hash : Nat \cup {None}],
          removes : BOOLEAN, revokes : BOOLEAN, live : SUBSET Nat,
          at : Users \cup {None}, left : SUBSET Users, found : SUBSET Users]

Columns(role, active, hash) == [role |-> role, active |-> active, hash |-> hash]
Untouched == Columns(None, None, None)

\* The password given as the current one is compared with the copy.
ChangePassword(p) == LET u == reg[p].user IN
  /\ pc[p] = "authenticated" /\ MayHash /\ Hashed
  /\ Goto(p, "flush")
  /\ Note(p, Work(u, Columns(None, None, hashes + 1), FALSE, TRUE))
  /\ UNCHANGED <<users, adopted, sessions, unlocks, streak, locks>>

\* current_admin: the role is the one that was read.
AsAdmin(p) == pc[p] = "authenticated" /\ IsAdmin(reg[p].copy)

\* get_human_user: a user that was read before, the admin's own one, is not
\* read again.
Loaded(p, u) == IF u = reg[p].user THEN reg[p].copy ELSE users[u]

CreateUser(p, u, role) ==
  /\ AsAdmin(p) /\ ~Exists(u) /\ hashes < MaxHashes
  /\ Goto(p, "create")
  /\ Note(p, [user |-> u, role |-> role])
  /\ UNCHANGED <<rows, locks>>

CreateCommits(p) == LET u == reg[p].user IN
  /\ pc[p] = "create" /\ ~Exists(u) /\ Hashed
  /\ users' = [users EXCEPT ![u] = NewUser(reg[p].role, hashes + 1)]
  /\ Finish(p)
  /\ UNCHANGED <<adopted, sessions, unlocks, streak>>

SetTemporaryPassword(p, u) ==
  /\ AsAdmin(p) /\ Exists(u) /\ MayHash /\ Hashed
  /\ Goto(p, "flush")
  /\ Note(p, Work(u, Columns(None, None, hashes + 1), FALSE, TRUE))
  /\ UNCHANGED <<users, adopted, sessions, unlocks, streak, locks>>

Changed(old, new) == IF new = old THEN None ELSE new

\* mutant: the guard also runs for an update that takes nothing from an admin
UpdateUserGuardsAll(p, u, role, active) ==
  LET copy    == Loaded(p, u)
      removes == IsActiveAdmin(copy) /\ (role = "member" \/ active = FALSE)
      changes == Columns(Changed(copy.role, role), Changed(copy.active, active), None)
  IN /\ AsAdmin(p) /\ Exists(u)
     /\ Goto(p, IF IsActiveAdmin(copy) THEN "protect" ELSE "flush")
     /\ Note(p, Work(u, changes, removes, active = FALSE))
     /\ UNCHANGED <<rows, locks>>

\* update_user with a role, a state or both (None: not given).
UpdateUser(p, u, role, active) ==
  LET copy    == Loaded(p, u)
      removes == IsActiveAdmin(copy) /\ (role = "member" \/ active = FALSE)
      changes == Columns(Changed(copy.role, role), Changed(copy.active, active), None)
  IN /\ AsAdmin(p) /\ Exists(u)
     /\ Goto(p, IF removes THEN "protect" ELSE "flush")
     /\ Note(p, Work(u, changes, removes, active = FALSE))
     /\ UNCHANGED <<rows, locks>>

\* _protect_last_admin: SELECT ... FOR UPDATE takes the active admins of this
\* moment in an order of its own, as it has no ORDER BY.
ScanStarts(p) ==
  /\ pc[p] = "protect"
  /\ \/ \E a \in ActiveAdmins :
          /\ Goto(p, "scan")
          /\ Note(p, [reg[p] EXCEPT !.at = a, !.left = ActiveAdmins \ {a}, !.found = {}])
          /\ UNCHANGED <<rows, locks>>
     \/ ActiveAdmins = {} /\ Reject(p)

\* mutant: the admins are read without FOR UPDATE
LockRowUnlocked(p) ==
  LET w     == reg[p]
      found == w.found \cup ({w.at} \cap ActiveAdmins)
  IN /\ pc[p] = "scan"
     /\ \/ /\ w.left # {}
           /\ \E a \in w.left :
                Note(p, [w EXCEPT !.at = a, !.left = @ \ {a}, !.found = found])
           /\ UNCHANGED <<rows, locks, pc>>
        \/ /\ w.left = {} /\ found \ {w.user} # {}
           /\ Goto(p, "flush")
           /\ Note(p, [w EXCEPT !.at = None, !.found = found])
           /\ UNCHANGED <<rows, locks>>
        \/ /\ w.left = {} /\ found \subseteq {w.user}
           /\ Reject(p)

\* The scan waits for the row it is at while it holds those before. A row that
\* was changed meanwhile is looked at again, and stays locked even if it is no
\* active admin's any more. At the end another admin must have been found.
LockRow(p) ==
  LET w     == reg[p]
      found == w.found \cup ({w.at} \cap ActiveAdmins)
  IN /\ pc[p] = "scan" /\ Free(w.at, p)
     /\ \/ /\ \E a \in w.left :
                Note(p, [w EXCEPT !.at = a, !.left = @ \ {a}, !.found = found])
           /\ Hold({w.at}, p)
           /\ UNCHANGED <<rows, pc>>
        \/ /\ w.left = {} /\ found \ {w.user} # {}
           /\ Goto(p, "flush")
           /\ Note(p, [w EXCEPT !.at = None, !.found = found])
           /\ Hold({w.at}, p)
           /\ UNCHANGED rows
        \/ /\ w.left = {} /\ found \subseteq {w.user}
           /\ Reject(p)

\* mutant: the sessions are revoked before the user is flushed
FlushLater(p) == LET w == reg[p] IN
  /\ pc[p] = "flush"
  /\ Goto(p, IF w.revokes THEN "revoke" ELSE "commit")
  /\ UNCHANGED <<rows, locks, reg>>

\* The UPDATE of the user waits for its row; there is none if nothing changed.
Flush(p) == LET w == reg[p] IN
  /\ pc[p] = "flush"
  /\ \/ /\ w.changes # Untouched
        /\ Free(w.user, p)
        /\ Hold({w.user}, p)
     \/ /\ w.changes = Untouched
        /\ UNCHANGED locks
  /\ Goto(p, IF w.revokes THEN "revoke" ELSE "commit")
  /\ UNCHANGED <<rows, reg>>

\* revoke_all_sessions.
Revoke(p) ==
  /\ pc[p] = "revoke"
  /\ Note(p, [reg[p] EXCEPT !.live = LiveSessions(reg[p].user)])
  /\ Goto(p, "commit")
  /\ UNCHANGED <<rows, locks>>

Written(row, changes) == LET New(old, new) == IF new = None THEN old ELSE new IN
  [row EXCEPT !.role = New(@, changes.role), !.active = New(@, changes.active),
              !.hash = New(@, changes.hash)]

Commit(p) == LET w == reg[p] IN
  /\ pc[p] = "commit"
  /\ users' = [users EXCEPT ![w.user] = Written(@, w.changes)]
  /\ sessions' = Revoked(w.live)
  /\ Finish(p)
  /\ UNCHANGED <<adopted, hashes, unlocks, streak>>

\* The row a request waits for, the requests that hold it, and the circles that
\* arise when they wait in turn.
Needs(p) == CASE pc[p] = "bootstrap" -> {System}
              [] pc[p] = "login" -> {reg[p].user}
              [] pc[p] = "scan" -> {reg[p].at}
              [] pc[p] = "flush" /\ reg[p].changes # Untouched -> {reg[p].user}
              [] OTHER -> {}

WaitsFor(p) == {q \in Requests \ {p} : \E u \in Needs(p) : locks[u] = q}

InCircle(p) == \E C \in SUBSET Requests :
  /\ p \in C
  /\ \A q \in C : WaitsFor(q) \cap C # {} /\ \E r \in C : q \in WaitsFor(r)

\* PostgreSQL ends one of the transactions of a circle with an error.
DeadlockAborts(p) == InCircle(p) /\ Reject(p)

-----------------------------------------------------------------------------
\* A request is sent.
Send(p) ==
  \/ \E u \in Users : Bootstrap(p, u)
  \/ \E u \in Users : Login(p, u, 0) \/ (Exists(u) /\ Login(p, u, users[u].hash))
  \/ \E k \in DOMAIN sessions : Authenticate(p, k)

\* An operation of a session begins.
Operate(p) ==
  \/ Answer(p)
  \/ Logout(p)
  \/ ChangePassword(p)
  \/ \E u \in Users :
       \/ \E role \in Roles : CreateUser(p, u, role)
       \/ SetTemporaryPassword(p, u)
       \/ \E role \in Roles \cup {None}, active \in BOOLEAN \cup {None} :
            <<role, active>> # <<None, None>> /\ UpdateUser(p, u, role, active)

\* A request goes on.
Serve(p) ==
  \/ BootstrapReads(p) \/ BootstrapCommits(p)
  \/ LoginReads(p) \/ LoginCommits(p)
  \/ Operate(p)
  \/ CreateCommits(p) \/ InsertFails(p)
  \/ ScanStarts(p) \/ LockRow(p) \/ Flush(p) \/ Revoke(p) \/ Commit(p)
  \/ DeadlockAborts(p)

Next ==
  \/ \E p \in Requests : Send(p) \/ Serve(p)
  \/ \E u \in Users : LockoutEnds(u)

Spec == Init /\ [][Next]_vars

-----------------------------------------------------------------------------
(* Properties                                                              *)

\* The rows, the locks and the places of the requests are of their kinds.
AccountsTypeOK ==
  /\ users \in [Users -> UserRows \cup {None}]
  /\ adopted \in BOOLEAN
  /\ sessions \in Seq(SessionRows)
  /\ hashes \in Nat /\ unlocks \in Nat
  /\ locks \in [Users \cup {System} -> Requests \cup {None}]
  /\ pc \in [Requests -> Places]
  /\ streak \in [Users -> Nat]

\* A session that still works was opened with the password its user has now:
\* a change or reset of the password ends those opened before it, and also those
\* that a login was opening meanwhile.
SessionsFollowPassword == \A k \in DOMAIN sessions :
  ~sessions[k].revoked => sessions[k].hash = users[sessions[k].user].hash

\* A user who is switched off has no session that works again when the user is
\* switched on: deactivation ended them all, and no login slipped in.
InactiveHasNoSession == \A u \in Users :
  Exists(u) /\ ~users[u].active => LiveSessions(u) = {}

\* Logins that fail at the same time are all counted, and LockAfter of them in a
\* row have locked the user.
NoFailureForgotten == \A u \in Users : Exists(u) =>
  /\ users[u].failed = streak[u]
  /\ streak[u] >= LockAfter <=> users[u].locked # "no"

\* Requests may wait for rows in a circle, as two removals take the rows of the
\* admins in different orders: but nobody else is ever in one. No login, bootstrap,
\* password change, reset or grant dies in a deadlock.
OnlyRemovalsDeadlock == \A p \in Requests : InCircle(p) =>
  pc[p] \in {"scan", "flush"} /\ reg[p].removes

\* What holds the promises above: the kind of what each request has in hand ...
InHand(p) ==
  /\ pc[p] \in {"bootstrap", "adopt", "create", "login", "verify", "authenticated"} =>
       reg[p].user \in Users
  /\ pc[p] = "create" => reg[p].role \in Roles
  /\ pc[p] \in {"verify", "authenticated"} =>
       reg[p].copy \in UserRows /\ Exists(reg[p].user)
  /\ pc[p] \in {"protect", "scan"} => reg[p].removes
  /\ pc[p] = "scan" => reg[p].at \in Users /\ \A u \in {reg[p].at} \cup reg[p].left : Exists(u)
  /\ pc[p] \in {"protect", "scan", "flush", "revoke", "commit"} =>
       /\ reg[p] \in Works /\ Exists(reg[p].user)
       /\ reg[p].changes.hash # None \/ reg[p].changes.active = FALSE => reg[p].revokes

Registers == DOMAIN reg = Requests /\ \A p \in Requests : InHand(p)

Removes(p) == pc[p] \in {"scan", "flush", "revoke", "commit"} /\ reg[p].removes
Writes(p) == pc[p] \in {"revoke", "commit"} /\ reg[p].changes # Untouched

\* ... a login holds the row it has read, and a commit the row it writes with all
\* of its sessions; a removal holds the active admins it has found, and once its
\* scan is over there is one among them who stays ...
Held(p) ==
  /\ pc[p] = "verify" =>
       /\ locks[reg[p].user] = p /\ users[reg[p].user].active
       /\ users[reg[p].user].hash = reg[p].copy.hash
       /\ users[reg[p].user].failed = reg[p].copy.failed
  /\ Writes(p) => locks[reg[p].user] = p
  /\ Writes(p) /\ pc[p] = "commit" /\ reg[p].revokes =>
       LiveSessions(reg[p].user) \subseteq reg[p].live
  /\ Removes(p) => reg[p].found \subseteq {a \in ActiveAdmins : locks[a] = p}
  /\ Removes(p) /\ pc[p] # "scan" => reg[p].found \ {reg[p].user} # {}

LocksAreHeld == \A p \in Requests : Held(p)

\* ... and only a removal may wait for a row while it holds others.
HoldersGoOn == \A p \in Requests, u \in Users \cup {System} : locks[u] = p =>
  pc[p] \in {"adopt", "verify", "revoke", "commit"} \/ Removes(p)

\* Nothing is known of a user who does not exist.
UnknownHasNothing == \A u \in Users : ~Exists(u) =>
  streak[u] = 0 /\ \A k \in DOMAIN sessions : sessions[k].user # u

\* The inductive invariant.
AccountsInv ==
  /\ AccountsTypeOK
  /\ Registers
  /\ LocksAreHeld
  /\ HoldersGoOn
  /\ UnknownHasNothing
  /\ SessionsFollowPassword
  /\ InactiveHasNoSession
  /\ NoFailureForgotten

\* The bootstrap that commits first makes the first user, and every old source has an
\* owner from then on: while one has found no admin and is yet to make its own, no
\* other one has looked. (That there is no admin either at the moment of the commit
\* holds until the last admin is lost, and not after that.)
NobodyIsThere == \A u \in Users : ~Exists(u)

BootstrapIsFirst == [][\A p \in Requests : BootstrapCommits(p) =>
  adopted' /\ (adopted \/ NobodyIsThere) /\ \A q \in Requests \ {p} : pc[q] # "adopt"]_vars

\* ... because the one that has looked holds the row of the system user, and because
\* before it nobody is there to make a user.
NoneIsCreating == \A p \in Requests : pc[p] # "create"

FirstBootstrap ==
  /\ \A p \in Requests : pc[p] = "adopt" => locks[System] = p
  /\ ~adopted => NobodyIsThere /\ NoneIsCreating

\* Two admins who remove each other at the same time: what was read as an active
\* admin is demoted or switched off only if another one is left at that moment.
RemovalLeavesAnAdmin == [][\A p \in Requests :
  Commit(p) /\ reg[p].removes => ActiveAdmins' \ {reg[p].user} # {}]_vars

=============================================================================
