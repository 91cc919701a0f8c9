--------------------------- MODULE AccountsProofs ---------------------------
(* What holds of Accounts for every set of users, requests and bounds. *)
EXTENDS Accounts, SequenceTheorems, TLAPS

\* The promises about the rows.
RowsKeepPromises ==
  /\ UnknownHasNothing
  /\ SessionsFollowPassword
  /\ InactiveHasNoSession
  /\ NoFailureForgotten

\* A row is never None.
LEMMA RowsExist ==
  /\ None \notin UserRows
  /\ AccountsTypeOK => \A u \in Users : Exists(u) <=> users[u] \in UserRows
<1>1. None \notin UserRows
  BY RowsAssumption DEF UserRows, Roles
<1> QED BY <1>1 DEF AccountsTypeOK, Exists

\* A session belongs to a user who exists.
LEMMA SessionsHaveUsers ==
  ASSUME AccountsInv, NEW k \in DOMAIN sessions
  PROVE  /\ sessions[k] \in SessionRows
         /\ sessions[k].user \in Users /\ Exists(sessions[k].user)
<1>1. sessions[k] \in SessionRows
  BY ElementOfSeq, LenProperties DEF AccountsInv, AccountsTypeOK
<1>2. sessions[k].user \in Users
  BY <1>1 DEF SessionRows
<1> QED BY <1>1, <1>2 DEF AccountsInv, UnknownHasNothing

\* A step of the request p leaves another request what it has in hand and holds, if
\* it keeps the rows and the sessions of the users whose row the other one holds.
LEMMA OthersKeep ==
  ASSUME AccountsTypeOK, NEW q \in Requests, InHand(q), Held(q),
         pc'[q] = pc[q], reg'[q] = reg[q],
         \A u \in Users : Exists(u) => Exists(u)',
         \A u \in Users : Exists(u) /\ locks[u] = q =>
           locks'[u] = q /\ users'[u] = users[u] /\ LiveSessions(u)' \subseteq LiveSessions(u)
  PROVE  InHand(q)' /\ Held(q)'
<1>1. InHand(q)'
  <2>1. CASE pc[q] \in {"protect", "scan", "flush", "revoke", "commit"}
    BY <2>1 DEF InHand, Works
  <2>2. CASE pc[q] \in {"verify", "authenticated"}
    BY <2>2 DEF InHand
  <2>3. CASE pc[q] \notin {"protect", "scan", "flush", "revoke", "commit",
                           "verify", "authenticated"}
    BY <2>3 DEF InHand
  <2> QED BY <2>1, <2>2, <2>3
<1>2. Held(q)'
  <2>1. CASE pc[q] = "verify"
    BY <2>1 DEF InHand, Held, Writes, Removes
  <2>2. ASSUME Writes(q) PROVE reg[q].user \in Users /\ Exists(reg[q].user)
    BY <2>2 DEF InHand, Works, Writes
  <2>3. ASSUME Writes(q)' PROVE Writes(q) /\ locks'[reg[q].user] = q
    BY <2>2, <2>3 DEF Writes, Held
  <2>4. ASSUME Writes(q)', pc[q] = "commit", reg[q].revokes
        PROVE  LiveSessions(reg[q].user)' \subseteq reg[q].live
    BY <2>2, <2>3, <2>4 DEF Held
  <2>5. ASSUME Removes(q), NEW a \in reg[q].found
        PROVE  a \in ActiveAdmins' /\ locks'[a] = q
    <3>1. a \in ActiveAdmins /\ locks[a] = q
      BY <2>5 DEF Held
    <3>2. a \in Users /\ Exists(a)' /\ users'[a] = users[a] /\ locks'[a] = q
      BY <3>1 DEF ActiveAdmins
    <3> QED BY <3>1, <3>2 DEF ActiveAdmins
  <2>6. Removes(q)' <=> Removes(q)
    BY DEF Removes
  <2>7. Removes(q)' => reg'[q].found \subseteq {a \in ActiveAdmins' : locks'[a] = q}
    BY <2>5, <2>6
  <2>8. Removes(q)' /\ pc'[q] # "scan" => reg'[q].found \ {reg'[q].user} # {}
    BY <2>6 DEF Held
  <2> QED BY <2>1, <2>3, <2>4, <2>7, <2>8 DEF Held, Writes
<1> QED BY <1>1, <1>2

\* What a step of p has to show for itself.
LEMMA OwnStep ==
  ASSUME AccountsInv, AccountsTypeOK', RowsKeepPromises', NEW p \in Requests,
         DOMAIN reg' = Requests,
         \A q \in Requests \ {p} : pc'[q] = pc[q] /\ reg'[q] = reg[q],
         \A u \in Users : Exists(u) => Exists(u)',
         \A u \in Users : Exists(u) /\ locks[u] \in Requests \ {p} =>
           users'[u] = users[u] /\ LiveSessions(u)' \subseteq LiveSessions(u),
         \A u \in Users \cup {System}, q \in Requests \ {p} : locks'[u] = q <=> locks[u] = q,
         InHand(p)', Held(p)',
         \A u \in Users \cup {System} : locks'[u] = p =>
           pc'[p] \in {"adopt", "verify", "revoke", "commit"} \/ Removes(p)'
  PROVE  AccountsInv'
<1>1. \A q \in Requests \ {p} : InHand(q)' /\ Held(q)'
  BY OthersKeep DEF AccountsInv, Registers, LocksAreHeld
<1>2. \A q \in Requests \ {p} : Removes(q)' <=> Removes(q)
  BY DEF Removes
<1>3. HoldersGoOn'
  BY <1>2 DEF AccountsInv, HoldersGoOn
<1> QED BY <1>1, <1>3
        DEF AccountsInv, Registers, LocksAreHeld, RowsKeepPromises

-----------------------------------------------------------------------------
(* Steps that change no row                                                *)

\* If only the numbers of hashes and the registers move, the rows keep what they promise.
LEMMA RowsStay ==
  ASSUME AccountsInv, UNCHANGED <<users, sessions, streak>>
  PROVE  /\ RowsKeepPromises'
         /\ \A u \in Users : Exists(u)' <=> Exists(u)
         /\ \A u \in Users : LiveSessions(u)' = LiveSessions(u)
         /\ ActiveAdmins' = ActiveAdmins
BY DEF AccountsInv, RowsKeepPromises, UnknownHasNothing, SessionsFollowPassword,
       InactiveHasNoSession, NoFailureForgotten, LiveSessions, Exists, ActiveAdmins

\* A request that goes on without asking for a row.
LEMMA GoesOn ==
  ASSUME AccountsInv, NEW p \in Requests,
         UNCHANGED <<users, adopted, sessions, unlocks, streak, locks>>,
         hashes' \in Nat, pc'[p] \in Places,
         pc' = [pc EXCEPT ![p] = pc'[p]], reg' = [reg EXCEPT ![p] = reg'[p]],
         InHand(p)', ~Writes(p)', pc'[p] # "verify", ~Removes(p)',
         \A u \in Users \cup {System} : locks[u] # p
  PROVE  AccountsInv'
<1>1. AccountsTypeOK' /\ DOMAIN reg' = Requests
      /\ \A q \in Requests \ {p} : pc'[q] = pc[q] /\ reg'[q] = reg[q]
  BY DEF AccountsInv, AccountsTypeOK, Goto, Note, Registers
<1>2. Held(p)'
  BY DEF Held
<1> QED BY <1>1, <1>2, RowsStay, OwnStep

\* Who waits for its first row, or is idle, holds none.
LEMMA HoldsNothing ==
  ASSUME AccountsInv, NEW p \in Requests,
         pc[p] \in {"idle", "bootstrap", "login", "authenticated", "create", "protect"}
  PROVE  \A u \in Users \cup {System} : locks[u] # p
BY DEF AccountsInv, HoldersGoOn, Removes

LEMMA BootstrapStep ==
  ASSUME AccountsInv, NEW p \in Requests, NEW u \in Users, Bootstrap(p, u)
  PROVE  AccountsInv'
<1>1. pc'[p] = "bootstrap" /\ reg'[p] = [user |-> u, guess |-> None]
  BY DEF AccountsInv, AccountsTypeOK, Registers, Bootstrap, Goto, Note
<1>2. InHand(p)' /\ ~Writes(p)' /\ ~Removes(p)'
  BY <1>1 DEF InHand, Writes, Removes
<1> QED BY <1>1, <1>2, GoesOn, HoldsNothing
        DEF Bootstrap, Goto, Note, rows, AccountsInv, AccountsTypeOK, Places

LEMMA LoginStep ==
  ASSUME AccountsInv, NEW p \in Requests, NEW u \in Users, NEW guess, Login(p, u, guess)
  PROVE  AccountsInv'
<1>1. pc'[p] = "login" /\ reg'[p] = [user |-> u, guess |-> guess]
  BY DEF AccountsInv, AccountsTypeOK, Registers, Login, Goto, Note
<1>2. InHand(p)' /\ ~Writes(p)' /\ ~Removes(p)'
  BY <1>1 DEF InHand, Writes, Removes
<1> QED BY <1>1, <1>2, GoesOn, HoldsNothing
        DEF Login, Goto, Note, rows, AccountsInv, AccountsTypeOK, Places

LEMMA AuthenticateStep ==
  ASSUME AccountsInv, NEW p \in Requests, NEW k \in DOMAIN sessions, Authenticate(p, k)
  PROVE  AccountsInv'
<1> DEFINE u == sessions[k].user
<1>1. /\ pc'[p] = "authenticated"
      /\ reg'[p] = [session |-> k, user |-> u, copy |-> users[u]]
  BY DEF AccountsInv, AccountsTypeOK, Registers, Authenticate, Goto, Note
<1>2. u \in Users /\ Exists(u)
  BY SessionsHaveUsers
<1>3. users[u] \in UserRows
  BY <1>2, RowsExist DEF AccountsInv, Exists
<1>4. InHand(p)'
  BY <1>1, <1>2, <1>3 DEF InHand, Exists, Authenticate, rows
<1> QED BY <1>1, <1>4, GoesOn, HoldsNothing
        DEF Authenticate, Goto, Note, rows, AccountsInv, AccountsTypeOK, Places, Writes, Removes

\* An operation with well formed work, that revokes the sessions it has to end.
LEMMA WorkBegins ==
  ASSUME AccountsInv, NEW p \in Requests, pc[p] = "authenticated",
         UNCHANGED <<users, adopted, sessions, unlocks, streak, locks>>, hashes' \in Nat,
         pc' = [pc EXCEPT ![p] = pc'[p]], reg' = [reg EXCEPT ![p] = reg'[p]],
         NEW u \in Users, Exists(u), reg'[p] \in Works, reg'[p].user = u,
         reg'[p].changes.hash # None \/ reg'[p].changes.active = FALSE => reg'[p].revokes = TRUE,
         \/ pc'[p] = "flush" /\ reg'[p].removes = FALSE
         \/ pc'[p] = "protect" /\ reg'[p].removes = TRUE
  PROVE  AccountsInv'
<1>1. InHand(p)' /\ ~Writes(p)' /\ ~Removes(p)' /\ pc'[p] # "verify" /\ pc'[p] \in Places
  BY DEF InHand, Writes, Removes, Exists, Places
<1> QED BY <1>1, GoesOn, HoldsNothing

LEMMA ChangePasswordStep ==
  ASSUME AccountsInv, NEW p \in Requests, ChangePassword(p)
  PROVE  AccountsInv'
<1> DEFINE u == reg[p].user
           changes == Columns(None, None, hashes + 1)
<1>1. pc[p] = "authenticated" /\ hashes \in Nat /\ hashes' \in Nat /\ u \in Users /\ Exists(u)
  BY DEF AccountsInv, AccountsTypeOK, Registers, InHand, ChangePassword, Hashed
<1>2. pc'[p] = "flush" /\ reg'[p] = Work(u, changes, FALSE, TRUE)
  BY DEF AccountsInv, AccountsTypeOK, Registers, ChangePassword, Goto, Note
<1>3. /\ reg'[p] \in Works /\ reg'[p].user = u
      /\ reg'[p].revokes = TRUE /\ reg'[p].removes = FALSE
  BY <1>1, <1>2 DEF Work, Works, Columns
<1>4. /\ UNCHANGED <<users, adopted, sessions, unlocks, streak, locks>>
      /\ pc' = [pc EXCEPT ![p] = pc'[p]] /\ reg' = [reg EXCEPT ![p] = reg'[p]]
  BY <1>2 DEF Goto, Note, ChangePassword
<1>5. /\ reg'[p].changes.hash # None \/ reg'[p].changes.active = FALSE => reg'[p].revokes = TRUE
      /\ \/ pc'[p] = "flush" /\ reg'[p].removes = FALSE
         \/ pc'[p] = "protect" /\ reg'[p].removes = TRUE
  BY <1>2, <1>3
<1> HIDE DEF changes
<1> QED BY <1>1, <1>3, <1>4, <1>5, WorkBegins, Zenon

LEMMA SetTemporaryPasswordStep ==
  ASSUME AccountsInv, NEW p \in Requests, NEW u \in Users, SetTemporaryPassword(p, u)
  PROVE  AccountsInv'
<1> DEFINE changes == Columns(None, None, hashes + 1)
<1>1. pc[p] = "authenticated" /\ hashes \in Nat /\ hashes' \in Nat /\ Exists(u)
  BY DEF AccountsInv, AccountsTypeOK, SetTemporaryPassword, AsAdmin, Hashed
<1>2. pc'[p] = "flush" /\ reg'[p] = Work(u, changes, FALSE, TRUE)
  BY DEF AccountsInv, AccountsTypeOK, Registers, SetTemporaryPassword, Goto, Note
<1>3. /\ reg'[p] \in Works /\ reg'[p].user = u
      /\ reg'[p].revokes = TRUE /\ reg'[p].removes = FALSE
  BY <1>1, <1>2 DEF Work, Works, Columns
<1>4. /\ UNCHANGED <<users, adopted, sessions, unlocks, streak, locks>>
      /\ pc' = [pc EXCEPT ![p] = pc'[p]] /\ reg' = [reg EXCEPT ![p] = reg'[p]]
  BY <1>2 DEF Goto, Note, SetTemporaryPassword
<1>5. /\ reg'[p].changes.hash # None \/ reg'[p].changes.active = FALSE => reg'[p].revokes = TRUE
      /\ \/ pc'[p] = "flush" /\ reg'[p].removes = FALSE
         \/ pc'[p] = "protect" /\ reg'[p].removes = TRUE
  BY <1>2, <1>3
<1> HIDE DEF changes
<1> QED BY <1>1, <1>3, <1>4, <1>5, WorkBegins, Zenon

LEMMA CreateUserStep ==
  ASSUME AccountsInv, NEW p \in Requests, NEW u \in Users, NEW role \in Roles,
         CreateUser(p, u, role)
  PROVE  AccountsInv'
<1>1. pc[p] = "authenticated" /\ pc'[p] = "create" /\ reg'[p] = [user |-> u, role |-> role]
  BY DEF AccountsInv, AccountsTypeOK, Registers, CreateUser, AsAdmin, Goto, Note
<1>2. InHand(p)' /\ ~Writes(p)' /\ ~Removes(p)'
  BY <1>1 DEF InHand, Writes, Removes
<1> QED BY <1>1, <1>2, GoesOn, HoldsNothing
        DEF CreateUser, Goto, Note, rows, AccountsInv, AccountsTypeOK, Places

LEMMA UpdateUserStep ==
  ASSUME AccountsInv, NEW p \in Requests, NEW u \in Users,
         NEW role \in Roles \cup {None}, NEW active \in BOOLEAN \cup {None},
         UpdateUser(p, u, role, active)
  PROVE  AccountsInv'
<1> DEFINE copy == Loaded(p, u)
           removes == IsActiveAdmin(copy) /\ (role = "member" \/ active = FALSE)
           changes == Columns(Changed(copy.role, role), Changed(copy.active, active), None)
           revokes == active = FALSE
<1>1. /\ pc[p] = "authenticated" /\ Exists(u)
      /\ pc'[p] = IF removes THEN "protect" ELSE "flush"
      /\ reg'[p] = Work(u, changes, removes, revokes)
  BY DEF AccountsInv, AccountsTypeOK, Registers, UpdateUser, AsAdmin, Goto, Note
<1>2. Changed(copy.role, role) \in Roles \cup {None}
  BY DEF Changed
<1>3. Changed(copy.active, active) \in BOOLEAN \cup {None}
  BY DEF Changed
<1>4. /\ changes \in [role : Roles \cup {None}, active : BOOLEAN \cup {None},
                      hash : Nat \cup {None}]
      /\ changes.hash = None /\ changes.active = Changed(copy.active, active)
  BY <1>2, <1>3 DEF Columns
<1>5. changes.active = FALSE => revokes
  BY <1>4, NoneAssumption DEF Changed
<1>6. removes \in BOOLEAN /\ revokes \in BOOLEAN
  BY DEF IsActiveAdmin
<1> HIDE DEF changes, removes, revokes, copy
<1>7. /\ reg'[p] \in Works /\ reg'[p].user = u /\ reg'[p].changes = changes
      /\ reg'[p].removes = removes /\ reg'[p].revokes = revokes
  BY <1>1, <1>4, <1>6 DEF Work, Works
<1>8. reg'[p].changes.hash # None \/ reg'[p].changes.active = FALSE => reg'[p].revokes = TRUE
  BY <1>4, <1>5, <1>7
<1>9. \/ pc'[p] = "flush" /\ reg'[p].removes = FALSE
      \/ pc'[p] = "protect" /\ reg'[p].removes = TRUE
  <2>1. removes = TRUE \/ removes = FALSE
    BY <1>6
  <2>2. removes = TRUE => pc'[p] = "protect"
    BY <1>1
  <2>3. removes = FALSE => pc'[p] = "flush"
    BY <1>1
  <2> QED BY <1>7, <2>1, <2>2, <2>3
<1>10. /\ UNCHANGED <<users, adopted, sessions, unlocks, streak, locks>> /\ hashes' \in Nat
       /\ pc' = [pc EXCEPT ![p] = pc'[p]] /\ reg' = [reg EXCEPT ![p] = reg'[p]]
  BY <1>1 DEF Goto, Note, UpdateUser, rows, AccountsInv, AccountsTypeOK, copy, removes, changes, revokes
<1> QED BY <1>1, <1>7, <1>8, <1>9, <1>10, WorkBegins

-----------------------------------------------------------------------------
(* Steps that take or give back rows                                       *)

\* The rows of the others are left alone when p gives its own back.
LEMMA Released ==
  ASSUME AccountsInv, NEW p \in Requests, Release(p)
  PROVE  /\ locks' \in [Users \cup {System} -> Requests \cup {None}]
         /\ \A u \in Users \cup {System} : locks'[u] # p
         /\ \A u \in Users \cup {System}, q \in Requests \ {p} : locks'[u] = q <=> locks[u] = q
BY NoneAssumption DEF AccountsInv, AccountsTypeOK, Release

\* ... and when it takes rows that are free.
LEMMA Taken ==
  ASSUME AccountsInv, NEW p \in Requests, NEW U \in SUBSET (Users \cup {System}),
         Hold(U, p), \A u \in U : Free(u, p)
  PROVE  /\ locks' \in [Users \cup {System} -> Requests \cup {None}]
         /\ \A u \in Users \cup {System} : locks'[u] = p <=> u \in U \/ locks[u] = p
         /\ \A u \in Users \cup {System}, q \in Requests \ {p} : locks'[u] = q <=> locks[u] = q
BY NoneAssumption DEF AccountsInv, AccountsTypeOK, Hold, Free

LEMMA RejectStep ==
  ASSUME AccountsInv, NEW p \in Requests, Reject(p)
  PROVE  AccountsInv'
<1>1. /\ UNCHANGED <<users, adopted, sessions, hashes, unlocks, streak>>
      /\ pc' = [pc EXCEPT ![p] = "idle"] /\ reg' = [reg EXCEPT ![p] = None] /\ Release(p)
  BY DEF Reject, rows, Finish, Goto, Note
<1>2. pc'[p] = "idle" /\ DOMAIN reg' = Requests
      /\ \A q \in Requests \ {p} : pc'[q] = pc[q] /\ reg'[q] = reg[q]
  BY <1>1 DEF AccountsInv, AccountsTypeOK, Registers
<1>3. AccountsTypeOK'
  BY <1>1, Released DEF AccountsInv, AccountsTypeOK, Places
<1>4. InHand(p)' /\ Held(p)' /\ ~Removes(p)'
  BY <1>2 DEF InHand, Held, Writes, Removes
<1> QED BY <1>1, <1>2, <1>3, <1>4, Released, RowsStay, OwnStep

LEMMA BootstrapReadsStep ==
  ASSUME AccountsInv, NEW p \in Requests, BootstrapReads(p)
  PROVE  AccountsInv'
<1>1. CASE Reject(p)
  BY <1>1, RejectStep
<1>2. CASE ~Reject(p)
  <2>1. /\ UNCHANGED <<users, adopted, sessions, hashes, unlocks, streak>> /\ reg' = reg
        /\ pc[p] = "bootstrap" /\ pc' = [pc EXCEPT ![p] = "adopt"]
        /\ Hold({System}, p) /\ Free(System, p)
    BY <1>2 DEF BootstrapReads, rows, Goto
  <2>2. pc'[p] = "adopt" /\ DOMAIN reg' = Requests
        /\ \A q \in Requests \ {p} : pc'[q] = pc[q] /\ reg'[q] = reg[q]
    BY <2>1 DEF AccountsInv, AccountsTypeOK, Registers
  <2>3. /\ locks' \in [Users \cup {System} -> Requests \cup {None}]
        /\ \A u \in Users \cup {System}, q \in Requests \ {p} : locks'[u] = q <=> locks[u] = q
    <3>1. {System} \in SUBSET (Users \cup {System}) /\ \A v \in {System} : Free(v, p)
      BY <2>1
    <3> QED BY <3>1, <2>1, Taken
  <2>4. InHand(p)' /\ Held(p)' /\ ~Removes(p)'
    BY <2>1, <2>2 DEF InHand, Held, Writes, Removes, AccountsInv, Registers
  <2>5. AccountsTypeOK'
    BY <2>1, <2>3 DEF AccountsInv, AccountsTypeOK, Places
  <2> QED BY <2>1, <2>2, <2>3, <2>4, <2>5, RowsStay, OwnStep
<1> QED BY <1>1, <1>2

LEMMA LoginReadsStep ==
  ASSUME AccountsInv, NEW p \in Requests, LoginReads(p)
  PROVE  AccountsInv'
<1>1. CASE Reject(p)
  BY <1>1, RejectStep
<1>2. CASE ~Reject(p)
  <2> DEFINE u == reg[p].user
  <2>1. /\ UNCHANGED <<users, adopted, sessions, hashes, unlocks, streak>>
        /\ pc[p] = "login" /\ pc' = [pc EXCEPT ![p] = "verify"]
        /\ reg' = [reg EXCEPT ![p] = [user |-> u, guess |-> reg[p].guess, copy |-> users[u]]]
        /\ MayLogIn(u) /\ Hold({u}, p) /\ Free(u, p)
    BY <1>2 DEF LoginReads, rows, Goto, Note
  <2>2. /\ pc'[p] = "verify" /\ DOMAIN reg' = Requests
        /\ reg'[p].user = u /\ reg'[p].copy = users[u]
        /\ \A q \in Requests \ {p} : pc'[q] = pc[q] /\ reg'[q] = reg[q]
    BY <2>1 DEF AccountsInv, AccountsTypeOK, Registers
  <2>3. u \in Users /\ Exists(u) /\ users[u] \in UserRows /\ users[u].active
    BY <2>1, RowsExist DEF AccountsInv, Registers, InHand, MayLogIn
  <2>4. locks' \in [Users \cup {System} -> Requests \cup {None}] /\ locks'[u] = p
        /\ \A v \in Users \cup {System}, q \in Requests \ {p} : locks'[v] = q <=> locks[v] = q
    <3>1. {u} \in SUBSET (Users \cup {System}) /\ \A v \in {u} : Free(v, p)
      BY <2>1, <2>3
    <3> QED BY <3>1, <2>1, <2>3, Taken
  <2>5. AccountsTypeOK'
    BY <2>1, <2>4 DEF AccountsInv, AccountsTypeOK, Places
  <2>6. InHand(p)' /\ Held(p)' /\ ~Removes(p)'
    BY <2>1, <2>2, <2>3, <2>4 DEF InHand, Held, Writes, Removes, Exists
  <2> QED BY <2>1, <2>2, <2>4, <2>5, <2>6, RowsStay, OwnStep
<1> QED BY <1>1, <1>2

\* Where the scan of a removal stands, p holds the admins it has found.
LEMMA ScanHolds ==
  ASSUME AccountsInv, NEW p \in Requests, pc'[p] = "scan",
         reg'[p].found \subseteq {a \in ActiveAdmins' : locks'[a] = p}
  PROVE  Held(p)'
BY DEF Held, Writes, Removes

LEMMA ScanStartsStep ==
  ASSUME AccountsInv, NEW p \in Requests, ScanStarts(p)
  PROVE  AccountsInv'
<1>1. CASE Reject(p)
  BY <1>1, RejectStep
<1>2. ASSUME NEW a \in ActiveAdmins, Goto(p, "scan"), UNCHANGED <<rows, locks>>,
             Note(p, [reg[p] EXCEPT !.at = a, !.left = ActiveAdmins \ {a}, !.found = {}])
      PROVE  AccountsInv'
  <2>1. /\ pc[p] = "protect" /\ reg[p] \in Works /\ reg[p].removes /\ Exists(reg[p].user)
        /\ reg[p].changes.hash # None \/ reg[p].changes.active = FALSE => reg[p].revokes
    BY DEF ScanStarts, AccountsInv, Registers, InHand
  <2>2. a \in Users /\ Exists(a) /\ ActiveAdmins \ {a} \in SUBSET Users
        /\ \A v \in ActiveAdmins : Exists(v)
    BY DEF ActiveAdmins
  <2>3. /\ UNCHANGED <<users, adopted, sessions, hashes, unlocks, streak, locks>>
        /\ pc'[p] = "scan" /\ DOMAIN reg' = Requests
        /\ \A q \in Requests \ {p} : pc'[q] = pc[q] /\ reg'[q] = reg[q]
        /\ reg'[p] = [reg[p] EXCEPT !.at = a, !.left = ActiveAdmins \ {a}, !.found = {}]
    BY <1>2 DEF Goto, Note, rows, AccountsInv, AccountsTypeOK, Registers
  <2>4. reg'[p] \in Works /\ reg'[p].at = a /\ reg'[p].left = ActiveAdmins \ {a}
        /\ reg'[p].user = reg[p].user
        /\ reg'[p].removes = reg[p].removes /\ reg'[p].revokes = reg[p].revokes
        /\ reg'[p].changes = reg[p].changes /\ reg'[p].found = {}
    <3> DEFINE w == reg[p]
               l == ActiveAdmins \ {a}
               v == reg'[p]
    <3>1. w \in Works /\ l \in SUBSET Users /\ {} \in SUBSET Users /\ a \in Users \cup {None}
          /\ v = [w EXCEPT !.at = a, !.left = l, !.found = {}]
      BY <2>1, <2>2, <2>3
    <3> HIDE DEF w, l, v
    <3>2. /\ v \in Works /\ v.at = a /\ v.left = l /\ v.user = w.user
          /\ v.removes = w.removes /\ v.revokes = w.revokes
          /\ v.changes = w.changes /\ v.found = {}
      BY <3>1 DEF Works
    <3> QED BY <3>2 DEF w, l, v
  <2>5. AccountsTypeOK'
    BY <1>2, <2>3 DEF AccountsInv, AccountsTypeOK, Places, Goto
  <2>6. InHand(p)'
    BY <2>1, <2>2, <2>3, <2>4 DEF InHand, Exists
  <2>7. Held(p)'
    BY <2>3, <2>4, ScanHolds
  <2>8. /\ RowsKeepPromises' /\ \A u \in Users : Exists(u) => Exists(u)'
        /\ \A u \in Users : LiveSessions(u)' = LiveSessions(u)
        /\ \A u \in Users \cup {System} : locks[u] # p
    BY <2>1, <2>3, RowsStay, HoldsNothing
  <2> QED BY <2>3, <2>5, <2>6, <2>7, <2>8, OwnStep
<1> QED BY <1>1, <1>2 DEF ScanStarts

\* A row that p takes for its scan: the admins found stay as they are, and so does
\* what the others have found.
LEMMA LockRowStep ==
  ASSUME AccountsInv, NEW p \in Requests, LockRow(p)
  PROVE  AccountsInv'
<1> DEFINE w == reg[p]
           found == w.found \cup ({w.at} \cap ActiveAdmins)
<1>1. CASE Reject(p)
  BY <1>1, RejectStep
<1>2. CASE ~Reject(p)
  <2>1. /\ pc[p] = "scan" /\ w \in Works /\ w.removes /\ Exists(w.user)
        /\ w.at \in Users /\ Exists(w.at) /\ \A v \in w.left : Exists(v)
        /\ w.changes.hash # None \/ w.changes.active = FALSE => w.revokes
        /\ w.found \subseteq {a \in ActiveAdmins : locks[a] = p}
    BY DEF LockRow, AccountsInv, Registers, InHand, LocksAreHeld, Held, Removes
  <2>2. found \in SUBSET Users /\ w.left \in SUBSET Users /\ found \subseteq ActiveAdmins
    BY <2>1 DEF Works, ActiveAdmins
  <2>3. /\ UNCHANGED <<users, adopted, sessions, hashes, unlocks, streak>>
        /\ Hold({w.at}, p) /\ Free(w.at, p)
    BY <1>2 DEF LockRow, rows
  <2>4. \/ /\ pc' = pc
           /\ \E a \in w.left :
                reg' = [reg EXCEPT ![p] =
                         [w EXCEPT !.at = a, !.left = @ \ {a}, !.found = found]]
        \/ /\ pc' = [pc EXCEPT ![p] = "flush"] /\ found \ {w.user} # {}
           /\ reg' = [reg EXCEPT ![p] = [w EXCEPT !.at = None, !.found = found]]
    BY <1>2 DEF LockRow, Goto, Note
  <2>5. /\ DOMAIN reg' = Requests /\ pc' \in [Requests -> Places]
        /\ \A q \in Requests \ {p} : pc'[q] = pc[q] /\ reg'[q] = reg[q]
        /\ \/ /\ pc'[p] = "scan"
              /\ \E a \in w.left :
                   reg'[p] = [w EXCEPT !.at = a, !.left = @ \ {a}, !.found = found]
           \/ /\ pc'[p] = "flush" /\ found \ {w.user} # {}
              /\ reg'[p] = [w EXCEPT !.at = None, !.found = found]
    <3> HIDE DEF found, w
    <3>1. pc \in [Requests -> Places] /\ DOMAIN reg = Requests /\ "flush" \in Places
      BY DEF AccountsInv, AccountsTypeOK, Registers, Places
    <3>2. DOMAIN reg' = Requests /\ pc' \in [Requests -> Places]
          /\ \A q \in Requests \ {p} : pc'[q] = pc[q] /\ reg'[q] = reg[q]
      BY <2>4, <3>1
    <3> QED BY <2>1, <2>4, <3>1, <3>2
  <2>6. /\ reg'[p] \in Works /\ reg'[p].user = w.user /\ reg'[p].changes = w.changes
        /\ reg'[p].removes = w.removes /\ reg'[p].revokes = w.revokes
        /\ reg'[p].found = found
        /\ pc'[p] = "scan" => reg'[p].at \in w.left /\ reg'[p].left \subseteq w.left
    <3> HIDE DEF found, w
    <3>1. CASE pc'[p] = "flush"
      <4>1. reg'[p] = [w EXCEPT !.at = None, !.found = found] /\ None \in Users \cup {None}
        BY <2>5, <3>1
      <4>2. w \in Works /\ found \in SUBSET Users
        BY <2>1, <2>2
      <4> QED BY <3>1, <4>1, <4>2 DEF Works
    <3>2. CASE pc'[p] = "scan"
      <4>1. PICK a \in w.left :
              reg'[p] = [w EXCEPT !.at = a, !.left = w.left \ {a}, !.found = found]
        BY <2>5, <3>2
      <4> DEFINE l == w.left \ {a}
      <4>2. a \in Users \cup {None} /\ l \in SUBSET Users /\ l \subseteq w.left
        BY <2>2, <4>1
      <4>3. w \in Works /\ found \in SUBSET Users
        BY <2>1, <2>2
      <4>4. reg'[p] = [w EXCEPT !.at = a, !.left = l, !.found = found]
        BY <4>1
      <4> HIDE DEF l
      <4>5. /\ reg'[p] \in Works /\ reg'[p].user = w.user /\ reg'[p].changes = w.changes
            /\ reg'[p].removes = w.removes /\ reg'[p].revokes = w.revokes
            /\ reg'[p].found = found /\ reg'[p].at = a /\ reg'[p].left = l
        BY <4>2, <4>3, <4>4 DEF Works
      <4> QED BY <4>1, <4>2, <4>5
    <3> QED BY <2>5, <3>1, <3>2
  <2>7. /\ locks' \in [Users \cup {System} -> Requests \cup {None}]
        /\ \A v \in Users \cup {System} : locks'[v] = p <=> v = w.at \/ locks[v] = p
        /\ \A v \in Users \cup {System}, q \in Requests \ {p} : locks'[v] = q <=> locks[v] = q
    <3>1. {w.at} \in SUBSET (Users \cup {System}) /\ \A v \in {w.at} : Free(v, p)
      BY <2>1, <2>3
    <3> QED BY <3>1, <2>3, Taken
  <2>8. AccountsTypeOK'
    BY <2>3, <2>5, <2>7 DEF AccountsInv, AccountsTypeOK
  <2>9. InHand(p)' /\ Removes(p)'
    <3>1. pc'[p] = "scan" => /\ reg'[p].at \in Users
                             /\ \A v \in {reg'[p].at} \cup reg'[p].left : Exists(v)'
      BY <2>1, <2>2, <2>3, <2>6 DEF Exists
    <3>2. users'[reg'[p].user] # None
      BY <2>1, <2>3, <2>6 DEF Exists
    <3> HIDE DEF found
    <3> QED BY <2>1, <2>5, <2>6, <3>1, <3>2 DEF InHand, Removes, Exists
  <2>10. Held(p)'
    <3>1. found \subseteq {a \in ActiveAdmins' : locks'[a] = p}
      BY <2>1, <2>2, <2>3, <2>7, RowsStay
    <3>2. pc'[p] # "scan" => found \ {w.user} # {}
      BY <2>5
    <3> HIDE DEF found
    <3> QED BY <2>5, <2>6, <3>1, <3>2 DEF Held, Writes, Removes
  <2> QED BY <2>3, <2>5, <2>7, <2>8, <2>9, <2>10, RowsStay, OwnStep
<1> QED BY <1>1, <1>2

LEMMA FlushStep ==
  ASSUME AccountsInv, NEW p \in Requests, Flush(p)
  PROVE  AccountsInv'
<1> DEFINE u == reg[p].user
<1>1. /\ UNCHANGED <<users, adopted, sessions, hashes, unlocks, streak>> /\ reg' = reg
      /\ pc[p] = "flush"
      /\ pc' = [pc EXCEPT ![p] = IF reg[p].revokes THEN "revoke" ELSE "commit"]
  BY DEF Flush, rows, Goto
<1>2. u \in Users
  BY <1>1 DEF AccountsInv, Registers, InHand, Works
<1>3. /\ pc'[p] \in {"revoke", "commit"} /\ DOMAIN reg' = Requests
      /\ reg[p].revokes => pc'[p] = "revoke"
      /\ \A q \in Requests \ {p} : pc'[q] = pc[q] /\ reg'[q] = reg[q]
  BY <1>1 DEF AccountsInv, AccountsTypeOK, Registers
<1>4. /\ locks' \in [Users \cup {System} -> Requests \cup {None}]
      /\ reg[p].changes # Untouched => locks'[u] = p
      /\ \A v \in Users \cup {System} : locks[v] = p => locks'[v] = p
      /\ \A v \in Users \cup {System}, q \in Requests \ {p} : locks'[v] = q <=> locks[v] = q
  BY <1>2, Taken DEF Flush, AccountsInv, AccountsTypeOK
<1>5. AccountsTypeOK'
  BY <1>1, <1>3, <1>4 DEF AccountsInv, AccountsTypeOK, Places
<1>6. InHand(p)'
  BY <1>1, <1>3 DEF InHand, AccountsInv, Registers, Exists
<1>7. Removes(p)' <=> Removes(p)
  BY <1>1, <1>3 DEF Removes
<1>8. ActiveAdmins' = ActiveAdmins /\ \A a \in ActiveAdmins : a \in Users
  BY <1>1, RowsStay DEF ActiveAdmins
<1>9. Held(p)'
  BY <1>1, <1>3, <1>4, <1>7, <1>8 DEF Held, Writes, AccountsInv, LocksAreHeld
<1> QED BY <1>1, <1>3, <1>4, <1>5, <1>6, <1>7, <1>9, RowsStay, OwnStep

LEMMA RevokeStep ==
  ASSUME AccountsInv, NEW p \in Requests, Revoke(p)
  PROVE  AccountsInv'
<1> DEFINE u == reg[p].user
           live == LiveSessions(u)
<1>1. /\ UNCHANGED <<users, adopted, sessions, hashes, unlocks, streak, locks>>
      /\ pc[p] = "revoke" /\ pc' = [pc EXCEPT ![p] = "commit"]
      /\ reg' = [reg EXCEPT ![p] = [reg[p] EXCEPT !.live = live]]
  BY DEF Revoke, rows, Goto, Note
<1>2. reg[p] \in Works /\ Exists(u) /\ DOMAIN reg = Requests
      /\ (reg[p].changes.hash # None \/ reg[p].changes.active = FALSE => reg[p].revokes)
  BY <1>1 DEF AccountsInv, Registers, InHand
<1>3. live \in SUBSET Nat
  BY DEF LiveSessions, AccountsInv, AccountsTypeOK
<1>4. /\ pc'[p] = "commit" /\ DOMAIN reg' = Requests
      /\ \A q \in Requests \ {p} : pc'[q] = pc[q] /\ reg'[q] = reg[q]
  BY <1>1, <1>2 DEF AccountsInv, AccountsTypeOK
<1>5. /\ reg'[p] \in Works /\ reg'[p].user = u /\ reg'[p].changes = reg[p].changes
      /\ reg'[p].removes = reg[p].removes /\ reg'[p].revokes = reg[p].revokes
      /\ reg'[p].live = live
  BY <1>1, <1>2, <1>3 DEF Works
<1>6. AccountsTypeOK'
  BY <1>1 DEF AccountsInv, AccountsTypeOK, Places
<1>7. InHand(p)'
  BY <1>1, <1>2, <1>4, <1>5 DEF InHand, Exists
<1>8. Removes(p)' <=> Removes(p)
  BY <1>1, <1>4, <1>5 DEF Removes
<1>9. Held(p)'
  <2>1. ActiveAdmins' = ActiveAdmins /\ u \in Users /\ LiveSessions(u)' = live
    BY <1>1, <1>2, RowsStay DEF Works
  <2>2. Held(p)
    BY DEF AccountsInv, LocksAreHeld
  <2> QED BY <2>1, <2>2, <1>1, <1>4, <1>5, <1>8 DEF Held, Writes
<1> QED BY <1>1, <1>4, <1>6, <1>7, <1>8, <1>9, RowsStay, OwnStep

-----------------------------------------------------------------------------
(* Commits                                                                 *)

\* Revoking changes nothing else of the sessions.
LEMMA RevokedSessions ==
  ASSUME AccountsTypeOK, NEW S, sessions' = Revoked(S)
  PROVE  /\ sessions' \in Seq(SessionRows) /\ DOMAIN sessions' = DOMAIN sessions
         /\ \A k \in DOMAIN sessions : /\ sessions'[k].user = sessions[k].user
                                       /\ sessions'[k].hash = sessions[k].hash
                                       /\ ~sessions'[k].revoked => ~sessions[k].revoked /\ k \notin S
         /\ \A u \in Users : LiveSessions(u)' \subseteq LiveSessions(u) \ S
<1> DEFINE Ended(k) == IF k \in S THEN [sessions[k] EXCEPT !.revoked = TRUE] ELSE sessions[k]
<1>1. Len(sessions) \in Nat /\ DOMAIN sessions = 1 .. Len(sessions)
      /\ \A k \in DOMAIN sessions : sessions[k] \in SessionRows
  BY LenProperties, ElementOfSeq DEF AccountsTypeOK
<1>2. sessions' = [k \in DOMAIN sessions |-> Ended(k)]
  BY DEF Revoked
<1>3. \A k \in DOMAIN sessions :
        /\ Ended(k) \in SessionRows /\ Ended(k).user = sessions[k].user
        /\ Ended(k).hash = sessions[k].hash
        /\ ~Ended(k).revoked => ~sessions[k].revoked /\ k \notin S
  BY <1>1 DEF SessionRows
<1> HIDE DEF Ended
<1>4. sessions' \in [1 .. Len(sessions) -> SessionRows]
  BY <1>1, <1>2, <1>3
<1>5. sessions' \in Seq(SessionRows)
  BY <1>1, <1>4, SeqDef
<1>6. DOMAIN sessions' = DOMAIN sessions
      /\ \A k \in DOMAIN sessions : /\ sessions'[k].user = sessions[k].user
                                    /\ sessions'[k].hash = sessions[k].hash
                                    /\ ~sessions'[k].revoked => ~sessions[k].revoked /\ k \notin S
  BY <1>2, <1>3
<1>7. \A u \in Users : LiveSessions(u)' \subseteq LiveSessions(u) \ S
  BY <1>6 DEF LiveSessions
<1> QED BY <1>5, <1>6, <1>7

\* The end of a request that commits.
LEMMA CommitStep ==
  ASSUME AccountsInv, NEW p \in Requests, Finish(p),
         users' \in [Users -> UserRows \cup {None}], adopted' \in BOOLEAN,
         sessions' \in Seq(SessionRows), hashes' \in Nat, unlocks' \in Nat,
         streak' \in [Users -> Nat], RowsKeepPromises',
         \A u \in Users : Exists(u) => Exists(u)',
         \A u \in Users : Exists(u) /\ locks[u] \in Requests \ {p} =>
           users'[u] = users[u] /\ LiveSessions(u)' \subseteq LiveSessions(u)
  PROVE  AccountsInv'
<1>1. pc' = [pc EXCEPT ![p] = "idle"] /\ reg' = [reg EXCEPT ![p] = None] /\ Release(p)
  BY DEF Finish, Goto, Note
<1>2. pc'[p] = "idle" /\ DOMAIN reg' = Requests
      /\ \A q \in Requests \ {p} : pc'[q] = pc[q] /\ reg'[q] = reg[q]
  BY <1>1 DEF AccountsInv, AccountsTypeOK, Registers
<1>3. AccountsTypeOK'
  BY <1>1, Released DEF AccountsInv, AccountsTypeOK, Places
<1>4. InHand(p)' /\ Held(p)' /\ ~Removes(p)'
  BY <1>2 DEF InHand, Held, Writes, Removes
<1>5. /\ \A u \in Users \cup {System} : locks'[u] # p
      /\ \A u \in Users \cup {System}, q \in Requests \ {p} : locks'[u] = q <=> locks[u] = q
  BY <1>1, Released
<1> QED BY <1>2, <1>3, <1>4, <1>5, OwnStep

LEMMA LogoutStep ==
  ASSUME AccountsInv, NEW p \in Requests, Logout(p)
  PROVE  AccountsInv'
<1>1. /\ sessions' = Revoked({reg[p].session}) /\ Finish(p)
      /\ UNCHANGED <<users, adopted, hashes, unlocks, streak>>
  BY DEF Logout
<1>2. /\ sessions' \in Seq(SessionRows) /\ DOMAIN sessions' = DOMAIN sessions
      /\ \A k \in DOMAIN sessions : /\ sessions'[k].user = sessions[k].user
                                    /\ sessions'[k].hash = sessions[k].hash
                                    /\ ~sessions'[k].revoked => ~sessions[k].revoked
      /\ \A u \in Users : LiveSessions(u)' \subseteq LiveSessions(u)
  BY <1>1, RevokedSessions DEF AccountsInv
<1>3. \A k \in DOMAIN sessions : sessions[k].user \in Users
  BY SessionsHaveUsers
<1>4. UnknownHasNothing' /\ SessionsFollowPassword'
  <2>1. UnknownHasNothing'
    BY <1>1, <1>2 DEF AccountsInv, UnknownHasNothing, Exists
  <2>2. SessionsFollowPassword'
    BY <1>1, <1>2, <1>3 DEF AccountsInv, SessionsFollowPassword
  <2> QED BY <2>1, <2>2
<1>5. InactiveHasNoSession' /\ NoFailureForgotten'
  BY <1>1, <1>2 DEF AccountsInv, InactiveHasNoSession, NoFailureForgotten, Exists
<1> QED BY <1>1, <1>2, <1>4, <1>5, CommitStep
        DEF RowsKeepPromises, AccountsInv, AccountsTypeOK, Exists

\* A user who is new has no session and no failure.
LEMMA NewUserKeeps ==
  ASSUME AccountsInv, NEW u \in Users, ~Exists(u), NEW role \in Roles,
         hashes \in Nat, users' = [users EXCEPT ![u] = NewUser(role, hashes + 1)],
         UNCHANGED <<sessions, streak>>
  PROVE  /\ RowsKeepPromises' /\ users' \in [Users -> UserRows \cup {None}]
         /\ \A v \in Users : Exists(v) => Exists(v)' /\ users'[v] = users[v]
         /\ \A v \in Users : LiveSessions(v)' = LiveSessions(v)
<1>1. /\ NewUser(role, hashes + 1) \in UserRows
      /\ NewUser(role, hashes + 1).active /\ NewUser(role, hashes + 1).failed = 0
      /\ NewUser(role, hashes + 1).locked = "no"
  BY DEF NewUser, UserRows
<1>2. /\ users' \in [Users -> UserRows \cup {None}] /\ users'[u] = NewUser(role, hashes + 1)
      /\ \A v \in Users \ {u} : users'[v] = users[v]
  BY <1>1 DEF AccountsInv, AccountsTypeOK
<1>3. \A v \in Users : Exists(v) => v # u /\ Exists(v)' /\ users'[v] = users[v]
  BY <1>2 DEF Exists
<1>4. streak[u] = 0 /\ \A k \in DOMAIN sessions : sessions[k].user # u /\ sessions[k].user \in Users
  BY SessionsHaveUsers DEF AccountsInv, UnknownHasNothing
<1>5. \A v \in Users : LiveSessions(v)' = LiveSessions(v)
  BY DEF LiveSessions
<1>6. UnknownHasNothing' /\ SessionsFollowPassword'
  BY <1>2, <1>3, <1>4 DEF AccountsInv, UnknownHasNothing, SessionsFollowPassword
<1>7. InactiveHasNoSession'
  BY <1>1, <1>2, <1>5 DEF AccountsInv, InactiveHasNoSession, Exists
<1>8. NoFailureForgotten'
  BY <1>1, <1>2, <1>4, LockAfterAssumption DEF AccountsInv, NoFailureForgotten, Exists
<1> QED BY <1>2, <1>3, <1>5, <1>6, <1>7, <1>8 DEF RowsKeepPromises

LEMMA CreateCommitsStep ==
  ASSUME AccountsInv, NEW p \in Requests, CreateCommits(p)
  PROVE  AccountsInv'
<1> DEFINE u == reg[p].user
<1>1. /\ pc[p] = "create" /\ ~Exists(u) /\ hashes' = hashes + 1 /\ Finish(p)
      /\ users' = [users EXCEPT ![u] = NewUser(reg[p].role, hashes + 1)]
      /\ UNCHANGED <<adopted, sessions, unlocks, streak>>
  BY DEF CreateCommits, Hashed
<1>2. u \in Users /\ reg[p].role \in Roles
  BY <1>1 DEF AccountsInv, Registers, InHand
<1>3. hashes \in Nat /\ hashes' \in Nat /\ adopted \in BOOLEAN /\ unlocks \in Nat
      /\ sessions \in Seq(SessionRows) /\ streak \in [Users -> Nat]
  BY <1>1 DEF AccountsInv, AccountsTypeOK
<1>4. /\ RowsKeepPromises' /\ users' \in [Users -> UserRows \cup {None}]
      /\ \A v \in Users : Exists(v) => Exists(v)' /\ users'[v] = users[v]
      /\ \A v \in Users : LiveSessions(v)' = LiveSessions(v)
  BY <1>1, <1>2, <1>3, NewUserKeeps
<1> QED BY <1>1, <1>3, <1>4, CommitStep

\* The admin that was just made logs in next.
LEMMA BootstrapCommitsStep ==
  ASSUME AccountsInv, NEW p \in Requests, BootstrapCommits(p)
  PROVE  AccountsInv'
<1> DEFINE u == reg[p].user
<1>1. /\ pc[p] = "adopt" /\ ~Exists(u) /\ hashes' = hashes + 1 /\ Release(p)
      /\ users' = [users EXCEPT ![u] = NewUser("admin", hashes + 1)] /\ adopted' = TRUE
      /\ pc' = [pc EXCEPT ![p] = "login"]
      /\ reg' = [reg EXCEPT ![p] = [user |-> u, guess |-> hashes + 1]]
      /\ UNCHANGED <<sessions, unlocks, streak>>
  BY DEF BootstrapCommits, Hashed, Goto, Note
<1>2. u \in Users /\ "admin" \in Roles
  BY <1>1 DEF AccountsInv, Registers, InHand, Roles
<1>3. hashes \in Nat /\ hashes' \in Nat
  BY <1>1 DEF AccountsInv, AccountsTypeOK
<1>4. /\ RowsKeepPromises' /\ users' \in [Users -> UserRows \cup {None}]
      /\ \A v \in Users : Exists(v) => Exists(v)' /\ users'[v] = users[v]
      /\ \A v \in Users : LiveSessions(v)' = LiveSessions(v)
  BY <1>1, <1>2, <1>3, NewUserKeeps
<1>5. /\ pc'[p] = "login" /\ reg'[p].user = u /\ DOMAIN reg' = Requests
      /\ \A q \in Requests \ {p} : pc'[q] = pc[q] /\ reg'[q] = reg[q]
  BY <1>1 DEF AccountsInv, AccountsTypeOK, Registers
<1>6. AccountsTypeOK'
  BY <1>1, <1>3, <1>4, Released DEF AccountsInv, AccountsTypeOK, Places
<1>7. InHand(p)' /\ Held(p)' /\ ~Removes(p)'
  BY <1>2, <1>5 DEF InHand, Held, Writes, Removes
<1>8. /\ \A v \in Users \cup {System} : locks'[v] # p
      /\ \A v \in Users \cup {System}, q \in Requests \ {p} : locks'[v] = q <=> locks[v] = q
  BY <1>1, Released
<1> QED BY <1>4, <1>5, <1>6, <1>7, <1>8, OwnStep

\* A failure is noted in a row of the same kind.
LEMMA FailureIsNoted ==
  \A row \in UserRows, f \in Nat, l \in {"no", "yes", "over"} :
    [row EXCEPT !.failed = f, !.locked = l] \in UserRows
BY DEF UserRows

\* The row of a login is its own until it commits.
LEMMA LoginCommitsStep ==
  ASSUME AccountsInv, NEW p \in Requests, LoginCommits(p)
  PROVE  AccountsInv'
<1> DEFINE u == reg[p].user
           copy == reg[p].copy
<1>1. /\ pc[p] = "verify" /\ Finish(p) /\ UNCHANGED <<adopted, hashes, unlocks>>
      /\ WrongPassword(p, u, copy) \/ RightPassword(p, u, copy)
  BY DEF LoginCommits
<1>2. /\ u \in Users /\ Exists(u) /\ users[u] \in UserRows
      /\ locks[u] = p /\ users[u].active
      /\ users[u].hash = copy.hash /\ users[u].failed = copy.failed
  BY <1>1, RowsExist DEF AccountsInv, Registers, InHand, LocksAreHeld, Held
<1>3. users[u].failed = streak[u] /\ (streak[u] >= LockAfter <=> users[u].locked # "no")
      /\ streak[u] \in Nat
  BY <1>2 DEF AccountsInv, NoFailureForgotten, AccountsTypeOK
<1>4. adopted \in BOOLEAN /\ hashes \in Nat /\ unlocks \in Nat
      /\ users \in [Users -> UserRows \cup {None}] /\ sessions \in Seq(SessionRows)
      /\ streak \in [Users -> Nat]
  BY DEF AccountsInv, AccountsTypeOK
<1>5. CASE WrongPassword(p, u, copy)
  <2>1. /\ users' = [users EXCEPT ![u] = users'[u]] /\ UNCHANGED sessions
        /\ users'[u] \in UserRows /\ users'[u].active
        /\ users'[u].hash = users[u].hash /\ users'[u].failed = streak[u] + 1
        /\ users'[u].locked = IF streak[u] + 1 >= LockAfter THEN "yes" ELSE users[u].locked
    <3> DEFINE failed == copy.failed + 1
               locked == IF failed >= LockAfter THEN "yes" ELSE users[u].locked
    <3>1. users' = [users EXCEPT ![u] = [users[u] EXCEPT !.failed = failed, !.locked = locked]]
      BY <1>2, <1>4, <1>5 DEF WrongPassword
    <3>2. failed = streak[u] + 1 /\ failed \in Nat /\ locked \in {"no", "yes", "over"}
      BY <1>2, <1>3 DEF UserRows
    <3> HIDE DEF failed, locked
    <3>3. users'[u] = [users[u] EXCEPT !.failed = failed, !.locked = locked]
          /\ users' = [users EXCEPT ![u] = users'[u]]
      BY <1>2, <1>4, <3>1
    <3>4. users'[u] \in UserRows /\ users'[u].active = users[u].active
          /\ users'[u].hash = users[u].hash /\ users'[u].failed = failed
          /\ users'[u].locked = locked
      <4>1. users'[u].active = users[u].active /\ users'[u].hash = users[u].hash
        BY <1>2, <3>3 DEF UserRows
      <4>2. users'[u].failed = failed
        BY <1>2, <3>3 DEF UserRows
      <4>3. users'[u].locked = locked
        BY <1>2, <3>3 DEF UserRows
      <4>4. users'[u] \in UserRows
        <5>1. users[u] \in UserRows
          BY <1>2
        <5>2. failed \in Nat
          BY <3>2
        <5>3. locked \in {"no", "yes", "over"}
          BY <3>2
        <5>4. [users[u] EXCEPT !.failed = failed, !.locked = locked] \in UserRows
          BY <5>1, <5>2, <5>3, FailureIsNoted
        <5> QED BY <5>4, <3>3
      <4> QED BY <4>1, <4>2, <4>4, <4>3
    <3> QED BY <1>2, <1>5, <3>2, <3>3, <3>4 DEF WrongPassword, locked
  <2>2. streak' = [streak EXCEPT ![u] = streak[u] + 1]
    BY <1>5 DEF WrongPassword
  <2>3. users' \in [Users -> UserRows \cup {None}] /\ streak' \in [Users -> Nat]
        /\ streak'[u] = streak[u] + 1
        /\ \A v \in Users \ {u} : users'[v] = users[v] /\ streak'[v] = streak[v]
    <3>1. streak[u] + 1 \in Nat
      BY <1>3
    <3> QED BY <1>2, <1>4, <2>1, <2>2, <3>1
  <2>4. \A v \in Users : (Exists(v)' <=> Exists(v)) /\ LiveSessions(v)' = LiveSessions(v)
    BY <1>2, <2>1, <2>3, RowsExist DEF Exists, LiveSessions
  <2>5. UnknownHasNothing'
    BY <1>2, <2>1, <2>3, <2>4 DEF AccountsInv, UnknownHasNothing
  <2>6. SessionsFollowPassword'
    BY <2>1, <2>3, SessionsHaveUsers DEF AccountsInv, SessionsFollowPassword
  <2>7. InactiveHasNoSession'
    BY <2>1, <2>3, <2>4 DEF AccountsInv, InactiveHasNoSession
  <2>8. users'[u].failed = streak'[u]
        /\ (streak'[u] >= LockAfter <=> users'[u].locked # "no")
    BY <1>3, <2>1, <2>3, LockAfterAssumption
  <2>9. NoFailureForgotten'
    BY <2>3, <2>4, <2>8 DEF AccountsInv, NoFailureForgotten
  <2> QED BY <1>1, <1>2, <1>4, <2>1, <2>3, <2>4, <2>5, <2>6, <2>7, <2>9, CommitStep
          DEF RowsKeepPromises
<1>6. CASE RightPassword(p, u, copy)
  <2> DEFINE new == [user |-> u, hash |-> copy.hash, revoked |-> FALSE]
  <2>1. /\ users' = [users EXCEPT ![u] = users'[u]]
        /\ users'[u] \in UserRows /\ users'[u].active
        /\ users'[u].hash = users[u].hash /\ users'[u].failed = 0 /\ users'[u].locked = "no"
    BY <1>2, <1>4, <1>6 DEF RightPassword, UserRows
  <2>2. streak' = [streak EXCEPT ![u] = 0] /\ sessions' = Append(sessions, new)
    BY <1>6 DEF RightPassword
  <2>3. users' \in [Users -> UserRows \cup {None}] /\ streak' \in [Users -> Nat]
        /\ streak'[u] = 0
        /\ \A v \in Users \ {u} : users'[v] = users[v] /\ streak'[v] = streak[v]
    BY <1>2, <1>4, <2>1, <2>2
  <2>4. new \in SessionRows /\ new.user = u /\ new.hash = users[u].hash
    BY <1>2 DEF SessionRows, UserRows
  <2>5. /\ sessions' \in Seq(SessionRows)
        /\ DOMAIN sessions' = DOMAIN sessions \cup {Len(sessions) + 1}
        /\ sessions'[Len(sessions) + 1] = new
        /\ \A k \in DOMAIN sessions : sessions'[k] = sessions[k]
    <3> HIDE DEF new
    <3> QED BY <1>4, <2>2, <2>4, AppendProperties, LenProperties
  <2>6. /\ \A v \in Users : Exists(v)' <=> Exists(v)
        /\ \A v \in Users \ {u} : LiveSessions(v)' = LiveSessions(v)
    <3>1. \A v \in Users : Exists(v)' <=> Exists(v)
      BY <1>2, <2>1, <2>3, RowsExist DEF Exists
    <3>2. \A v \in Users \ {u} : LiveSessions(v)' = LiveSessions(v)
      BY <2>4, <2>5 DEF LiveSessions
    <3> QED BY <3>1, <3>2
  <2>7. UnknownHasNothing'
    BY <1>2, <2>3, <2>4, <2>5, <2>6 DEF AccountsInv, UnknownHasNothing
  <2>8. SessionsFollowPassword'
    <3>1. \A k \in DOMAIN sessions : ~sessions[k].revoked =>
            sessions[k].hash = users'[sessions[k].user].hash
      BY <2>1, <2>3, SessionsHaveUsers DEF AccountsInv, SessionsFollowPassword
    <3> HIDE DEF new
    <3> QED BY <3>1, <2>1, <2>4, <2>5 DEF SessionsFollowPassword
  <2>9. InactiveHasNoSession'
    BY <2>1, <2>3, <2>6 DEF AccountsInv, InactiveHasNoSession
  <2>10. NoFailureForgotten'
    BY <2>1, <2>3, <2>6, LockAfterAssumption DEF AccountsInv, NoFailureForgotten
  <2>11. \A v \in Users : Exists(v) /\ locks[v] \in Requests \ {p} =>
           users'[v] = users[v] /\ LiveSessions(v)' \subseteq LiveSessions(v)
    BY <1>2, <2>3, <2>6
  <2> QED BY <1>1, <1>4, <2>3, <2>5, <2>6, <2>7, <2>8, <2>9, <2>10, <2>11, CommitStep
          DEF RowsKeepPromises
<1> QED BY <1>1, <1>5, <1>6

\* The commit of an operation writes a row it holds, or none; if it sets the password
\* or switches the user off, all sessions of the user end with it.
LEMMA CommitsStep ==
  ASSUME AccountsInv, NEW p \in Requests, Commit(p)
  PROVE  AccountsInv'
<1> DEFINE u == reg[p].user
           changes == reg[p].changes
           live == reg[p].live
           row == Written(users[u], changes)
<1>1. /\ pc[p] = "commit" /\ Finish(p)
      /\ users' = [users EXCEPT ![u] = row] /\ sessions' = Revoked(live)
      /\ UNCHANGED <<adopted, hashes, unlocks, streak>>
  BY DEF Commit
<1>2. /\ u \in Users /\ Exists(u) /\ users[u] \in UserRows
      /\ changes \in [role : Roles \cup {None}, active : BOOLEAN \cup {None},
                      hash : Nat \cup {None}]
      /\ changes.hash # None \/ changes.active = FALSE => reg[p].revokes
  BY <1>1, RowsExist DEF AccountsInv, Registers, InHand, Works
<1>3. /\ changes # Untouched => locks[u] = p
      /\ changes # Untouched /\ reg[p].revokes => LiveSessions(u) \subseteq live
  BY <1>1 DEF AccountsInv, LocksAreHeld, Held, Writes
<1>4. /\ row \in UserRows /\ row.failed = users[u].failed /\ row.locked = users[u].locked
      /\ row.hash = IF changes.hash = None THEN users[u].hash ELSE changes.hash
      /\ row.active = IF changes.active = None THEN users[u].active ELSE changes.active
  BY <1>2 DEF Written, UserRows
<1>5. changes = Untouched => row = users[u]
  <2> SUFFICES ASSUME changes = Untouched PROVE row = users[u]
    OBVIOUS
  <2>1. /\ row \in UserRows /\ row.role = users[u].role /\ row.active = users[u].active
        /\ row.hash = users[u].hash /\ row.failed = users[u].failed
        /\ row.locked = users[u].locked
    BY <1>2, <1>4 DEF Written, UserRows, Untouched, Columns
  <2> HIDE DEF row
  <2> QED BY <1>2, <2>1 DEF UserRows
<1>6. /\ changes.hash # None => changes # Untouched
      /\ changes.active # None => changes # Untouched
  BY DEF Untouched, Columns
<1> HIDE DEF row
<1>7. /\ users' \in [Users -> UserRows \cup {None}] /\ users'[u] = row
      /\ \A v \in Users \ {u} : users'[v] = users[v]
  BY <1>1, <1>2, <1>4 DEF AccountsInv, AccountsTypeOK
<1>8. /\ sessions' \in Seq(SessionRows) /\ DOMAIN sessions' = DOMAIN sessions
      /\ \A k \in DOMAIN sessions : /\ sessions'[k].user = sessions[k].user
                                    /\ sessions'[k].hash = sessions[k].hash
                                    /\ ~sessions'[k].revoked => ~sessions[k].revoked /\ k \notin live
      /\ \A v \in Users : LiveSessions(v)' \subseteq LiveSessions(v) \ live
  BY <1>1, RevokedSessions DEF AccountsInv
<1>9. \A v \in Users : Exists(v)' <=> Exists(v)
  BY <1>2, <1>4, <1>7, RowsExist DEF Exists
<1>10. UnknownHasNothing'
  BY <1>1, <1>8, <1>9 DEF AccountsInv, UnknownHasNothing
<1>11. SessionsFollowPassword'
  <2> SUFFICES ASSUME NEW k \in DOMAIN sessions, ~sessions'[k].revoked
               PROVE  sessions[k].hash = users'[sessions[k].user].hash
    BY <1>8 DEF SessionsFollowPassword
  <2>1. /\ ~sessions[k].revoked /\ k \notin live /\ sessions[k].user \in Users
        /\ sessions[k].hash = users[sessions[k].user].hash
    BY <1>8, SessionsHaveUsers DEF AccountsInv, SessionsFollowPassword
  <2>2. CASE sessions[k].user = u /\ changes.hash # None
    BY <1>2, <1>3, <1>6, <2>1, <2>2 DEF LiveSessions
  <2>3. CASE sessions[k].user # u \/ changes.hash = None
    BY <1>4, <1>7, <2>1, <2>3
  <2> QED BY <2>2, <2>3
<1>12. InactiveHasNoSession'
  <2> SUFFICES ASSUME NEW v \in Users, Exists(v), ~users'[v].active
               PROVE  LiveSessions(v)' = {}
    BY <1>9 DEF InactiveHasNoSession
  <2>1. CASE users[v].active
    <3>1. v = u /\ changes.active = FALSE
      BY <1>2, <1>4, <1>7, <2>1 DEF UserRows
    <3> QED BY <1>2, <1>3, <1>6, <1>8, <3>1, NoneAssumption
  <2>2. CASE ~users[v].active
    BY <1>8, <2>2 DEF AccountsInv, InactiveHasNoSession
  <2> QED BY <2>1, <2>2
<1>13. NoFailureForgotten'
  BY <1>1, <1>4, <1>7, <1>9 DEF AccountsInv, NoFailureForgotten
<1>14. \A v \in Users : Exists(v) /\ locks[v] \in Requests \ {p} =>
         users'[v] = users[v] /\ LiveSessions(v)' \subseteq LiveSessions(v)
  BY <1>3, <1>5, <1>7, <1>8
<1> QED BY <1>1, <1>7, <1>8, <1>9, <1>10, <1>11, <1>12, <1>13, <1>14, CommitStep
        DEF RowsKeepPromises, AccountsInv, AccountsTypeOK

\* A lock-out that ends is not seen by those who hold the row.
LEMMA LockoutEndsStep ==
  ASSUME AccountsInv, NEW u \in Users, LockoutEnds(u)
  PROVE  AccountsInv'
<1>1. /\ users' = [users EXCEPT ![u] = users'[u]]
      /\ users' \in [Users -> UserRows \cup {None}]
      /\ \A v \in Users \ {u} : users'[v] = users[v]
      /\ users[u] \in UserRows /\ users'[u] \in UserRows
      /\ users'[u].role = users[u].role /\ users'[u].active = users[u].active
      /\ users'[u].hash = users[u].hash /\ users'[u].failed = users[u].failed
      /\ users[u].locked = "yes" /\ users'[u].locked = "over"
  BY RowsExist DEF LockoutEnds, AccountsInv, AccountsTypeOK, UserRows
<1>2. /\ unlocks' = unlocks + 1
      /\ UNCHANGED <<adopted, sessions, hashes, streak, locks, pc, reg>>
  BY DEF LockoutEnds
<1>3. AccountsTypeOK'
  BY <1>1, <1>2 DEF AccountsInv, AccountsTypeOK
<1>4. /\ \A v \in Users : (Exists(v)' <=> Exists(v)) /\ LiveSessions(v)' = LiveSessions(v)
      /\ \A v \in Users : /\ users'[v].active = users[v].active
                          /\ users'[v].hash = users[v].hash
                          /\ users'[v].failed = users[v].failed
      /\ ActiveAdmins' = ActiveAdmins
  BY <1>1, <1>2, RowsExist DEF Exists, LiveSessions, ActiveAdmins, IsActiveAdmin, IsAdmin
<1>5. Registers'
  BY <1>2, <1>4 DEF AccountsInv, Registers, InHand, Works
<1>6. LocksAreHeld'
  BY <1>2, <1>4 DEF AccountsInv, LocksAreHeld, Held, Writes, Removes, Registers, InHand, Works
<1>7. HoldersGoOn'
  BY <1>2 DEF AccountsInv, HoldersGoOn, Removes
<1>8. UnknownHasNothing' /\ InactiveHasNoSession'
  BY <1>2, <1>4 DEF AccountsInv, UnknownHasNothing, InactiveHasNoSession
<1>9. SessionsFollowPassword'
  BY <1>2, <1>4, SessionsHaveUsers DEF AccountsInv, SessionsFollowPassword
<1>10. NoFailureForgotten'
  BY <1>1, <1>2, <1>4 DEF AccountsInv, NoFailureForgotten
<1> QED BY <1>3, <1>5, <1>6, <1>7, <1>8, <1>9, <1>10 DEF AccountsInv

-----------------------------------------------------------------------------
(* The theorems                                                            *)

LEMMA InitHolds ==
  ASSUME Init
  PROVE  AccountsInv
<1>1. AccountsTypeOK
  BY EmptySeq DEF Init, AccountsTypeOK, Places
<1>2. DOMAIN sessions = {} /\ \A u \in Users : ~Exists(u) /\ streak[u] = 0
  BY EmptySeq, LenProperties DEF Init, Exists
<1>3. Registers /\ LocksAreHeld /\ HoldersGoOn
  BY NoneAssumption DEF Init, Registers, InHand, LocksAreHeld, Held, Writes, Removes,
                        HoldersGoOn
<1>4. UnknownHasNothing /\ SessionsFollowPassword /\ InactiveHasNoSession /\ NoFailureForgotten
  BY <1>2 DEF UnknownHasNothing, SessionsFollowPassword, InactiveHasNoSession,
              NoFailureForgotten
<1> QED BY <1>1, <1>3, <1>4 DEF AccountsInv

LEMMA StepHolds ==
  ASSUME AccountsInv, [Next]_vars
  PROVE  AccountsInv'
<1>1. CASE UNCHANGED vars
  <2>1. UNCHANGED <<users, adopted, sessions, hashes, unlocks, streak, locks, pc, reg>>
    BY <1>1 DEF vars, rows
  <2>2. RowsKeepPromises' /\ AccountsTypeOK'
    BY <2>1, RowsStay DEF AccountsInv, AccountsTypeOK
  <2>3. \A q \in Requests : InHand(q)' /\ Held(q)'
    BY <2>1, RowsStay, OthersKeep DEF AccountsInv, Registers, LocksAreHeld
  <2>4. HoldersGoOn'
    BY <2>1 DEF AccountsInv, HoldersGoOn, Removes
  <2> QED BY <2>1, <2>2, <2>3, <2>4
          DEF AccountsInv, RowsKeepPromises, Registers, LocksAreHeld
<1>2. ASSUME NEW p \in Requests, Send(p) PROVE AccountsInv'
  BY <1>2, BootstrapStep, LoginStep, AuthenticateStep DEF Send
<1>3. ASSUME NEW p \in Requests, Operate(p) PROVE AccountsInv'
  <2>1. CASE Answer(p)
    BY <2>1, RejectStep DEF Answer
  <2>2. CASE Logout(p)
    BY <2>2, LogoutStep
  <2>3. CASE ChangePassword(p)
    BY <2>3, ChangePasswordStep
  <2>4. CASE \E u \in Users, role \in Roles : CreateUser(p, u, role)
    BY <2>4, CreateUserStep
  <2>5. CASE \E u \in Users : SetTemporaryPassword(p, u)
    BY <2>5, SetTemporaryPasswordStep
  <2>6. CASE \E u \in Users, role \in Roles \cup {None}, active \in BOOLEAN \cup {None} :
               UpdateUser(p, u, role, active)
    BY <2>6, UpdateUserStep
  <2> QED BY <1>3, <2>1, <2>2, <2>3, <2>4, <2>5, <2>6 DEF Operate
<1>4. ASSUME NEW p \in Requests, Serve(p) PROVE AccountsInv'
  <2>1. CASE BootstrapReads(p) \/ BootstrapCommits(p)
    BY <2>1, BootstrapReadsStep, BootstrapCommitsStep
  <2>2. CASE LoginReads(p) \/ LoginCommits(p)
    BY <2>2, LoginReadsStep, LoginCommitsStep
  <2>3. CASE CreateCommits(p)
    BY <2>3, CreateCommitsStep
  <2>4. CASE InsertFails(p)
    BY <2>4, RejectStep DEF InsertFails
  <2>5. CASE ScanStarts(p) \/ LockRow(p) \/ Flush(p)
    BY <2>5, ScanStartsStep, LockRowStep, FlushStep
  <2>6. CASE Revoke(p) \/ Commit(p)
    BY <2>6, RevokeStep, CommitsStep
  <2>7. CASE DeadlockAborts(p)
    BY <2>7, RejectStep DEF DeadlockAborts
  <2> QED BY <1>3, <1>4, <2>1, <2>2, <2>3, <2>4, <2>5, <2>6, <2>7 DEF Serve
<1> QED BY <1>1, <1>2, <1>4, LockoutEndsStep DEF Next

\* Whatever requests are served at a time, in whatever order their statements come:
\* the registers, the locks and the promises about the rows hold together.
THEOREM AccountsHold == Spec => []AccountsInv
<1>1. Init => AccountsInv
  BY InitHolds
<1>2. AccountsInv /\ [Next]_vars => AccountsInv'
  BY StepHolds
<1> QED BY <1>1, <1>2, PTL DEF Spec

\* revoke_all_sessions and the row lock of login: no session outlives the password
\* it was opened with.
THEOREM PasswordsEndSessions == Spec => []SessionsFollowPassword
<1>1. AccountsInv => SessionsFollowPassword
  BY DEF AccountsInv
<1> QED BY <1>1, AccountsHold, PTL

\* update_user: a user who is switched off has no session left.
THEOREM SwitchedOffIsOut == Spec => []InactiveHasNoSession
<1>1. AccountsInv => InactiveHasNoSession
  BY DEF AccountsInv
<1> QED BY <1>1, AccountsHold, PTL

\* login counts every failure, and locks the user at the LockAfter-th in a row.
THEOREM FailuresCount == Spec => []NoFailureForgotten
<1>1. AccountsInv => NoFailureForgotten
  BY DEF AccountsInv
<1> QED BY <1>1, AccountsHold, PTL

\* However many requests wait for rows, a circle of them consists of removals that
\* scan the admins or write the user: whoever else holds a row goes on.
THEOREM OnlyRemovalsMeet == Spec => []OnlyRemovalsDeadlock
<1>1. ASSUME AccountsInv, NEW p \in Requests, InCircle(p)
      PROVE  pc[p] \in {"scan", "flush"} /\ reg[p].removes
  <2>1. PICK C \in SUBSET Requests :
          p \in C /\ \A q \in C : WaitsFor(q) \cap C # {} /\ \E r \in C : q \in WaitsFor(r)
    BY <1>1 DEF InCircle
  <2>2. PICK r \in C : p \in WaitsFor(r)
    BY <2>1
  <2>3. PICK u \in Needs(r) : locks[u] = p
    BY <2>2 DEF WaitsFor
  <2>4. u \in Users \cup {System}
    BY <1>1, <2>1, <2>3 DEF Needs, AccountsInv, Registers, InHand, Works
  <2>5. pc[p] \in {"adopt", "verify", "revoke", "commit"} \/ Removes(p)
    BY <1>1, <2>3, <2>4 DEF AccountsInv, HoldersGoOn
  <2>6. Needs(p) # {}
    BY <2>1 DEF WaitsFor
  <2>7. pc[p] \in {"bootstrap", "login", "scan", "flush"}
    BY <2>6 DEF Needs
  <2> QED BY <2>5, <2>7 DEF Removes
<1>2. AccountsInv => OnlyRemovalsDeadlock
  BY <1>1 DEF OnlyRemovalsDeadlock
<1> QED BY <1>2, AccountsHold, PTL

\* _protect_last_admin: when an operation that removes what it read as an active admin
\* commits, another active admin stays.
THEOREM AnAdminStays == Spec => RemovalLeavesAnAdmin
<1>1. ASSUME AccountsInv, AccountsInv', [Next]_vars, NEW p \in Requests,
             Commit(p), reg[p].removes
      PROVE  ActiveAdmins' \ {reg[p].user} # {}
  <2>1. PICK a \in ActiveAdmins : a # reg[p].user /\ locks[a] = p
    BY <1>1 DEF AccountsInv, LocksAreHeld, Held, Removes, Commit
  <2>2. users'[a] = users[a]
    BY <1>1, <2>1 DEF Commit, ActiveAdmins, AccountsInv, AccountsTypeOK
  <2> QED BY <2>1, <2>2 DEF ActiveAdmins, Exists
<1>2. AccountsInv /\ AccountsInv' /\ [Next]_vars =>
        [\A p \in Requests : Commit(p) /\ reg[p].removes =>
           ActiveAdmins' \ {reg[p].user} # {}]_vars
  BY <1>1
<1> QED BY <1>2, AccountsHold, PTL DEF Spec, RemovalLeavesAnAdmin

-----------------------------------------------------------------------------
(* The first admin                                                         *)

\* A step of one request leaves another one its place and its rows.
LEMMA OthersStay ==
  ASSUME AccountsInv, NEW p \in Requests, Send(p) \/ Serve(p), NEW q \in Requests \ {p}
  PROVE  pc'[q] = pc[q] /\ \A u \in Users \cup {System} : locks'[u] = q <=> locks[u] = q
<1>1. pc'[q] = pc[q]
  <2>1. UNCHANGED pc \/ \E place : Goto(p, place)
    BY DEF Send, Serve, Operate, Bootstrap, Login, Authenticate, BootstrapReads,
      BootstrapCommits, LoginReads, LoginCommits, Answer, Logout, ChangePassword, CreateUser,
      SetTemporaryPassword, UpdateUser, CreateCommits, InsertFails, ScanStarts, LockRow, Flush, Revoke,
      Commit, DeadlockAborts, Reject, Finish
  <2> QED BY <2>1 DEF Goto, AccountsInv, AccountsTypeOK
<1>2. CASE Release(p)
  BY <1>1, <1>2, Released
<1>3. CASE UNCHANGED locks
  BY <1>1, <1>3
<1>4. CASE \E U \in SUBSET (Users \cup {System}) : Hold(U, p) /\ \A u \in U : Free(u, p)
  BY <1>1, <1>4, Taken
<1>5. Release(p) \/ UNCHANGED locks
      \/ BootstrapReads(p) \/ LoginReads(p) \/ LockRow(p) \/ Flush(p)
  BY DEF Send, Serve, Operate, Bootstrap, Login, Authenticate, BootstrapCommits, LoginCommits,
    Answer, Logout, ChangePassword, CreateUser, SetTemporaryPassword, UpdateUser,
    CreateCommits, InsertFails, ScanStarts, Revoke, Commit, DeadlockAborts, Reject, Finish
<1>6. CASE BootstrapReads(p)
  <2>1. Release(p) \/ (Hold({System}, p) /\ \A u \in {System} : Free(u, p))
    BY <1>6 DEF BootstrapReads, Reject, Finish
  <2> QED BY <1>2, <1>4, <2>1
<1>7. CASE LoginReads(p)
  <2>1. Release(p) \/ (Hold({reg[p].user}, p) /\ \A u \in {reg[p].user} : Free(u, p))
    BY <1>7 DEF LoginReads, Reject, Finish
  <2>2. {reg[p].user} \in SUBSET (Users \cup {System})
    BY <1>7 DEF LoginReads, AccountsInv, Registers, InHand
  <2> QED BY <1>2, <1>4, <2>1, <2>2
<1>8. CASE LockRow(p)
  <2>1. Release(p) \/ (Hold({reg[p].at}, p) /\ \A u \in {reg[p].at} : Free(u, p))
    BY <1>8 DEF LockRow, Reject, Finish
  <2>2. {reg[p].at} \in SUBSET (Users \cup {System})
    BY <1>8 DEF LockRow, AccountsInv, Registers, InHand
  <2> QED BY <1>2, <1>4, <2>1, <2>2
<1>9. CASE Flush(p)
  <2>1. UNCHANGED locks \/ (Hold({reg[p].user}, p) /\ \A u \in {reg[p].user} : Free(u, p))
    BY <1>9 DEF Flush
  <2>2. {reg[p].user} \in SUBSET (Users \cup {System})
    BY <1>9 DEF Flush, AccountsInv, Registers, InHand, Works
  <2> QED BY <1>3, <1>4, <2>1, <2>2
<1> QED BY <1>1, <1>2, <1>3, <1>5, <1>6, <1>7, <1>8, <1>9

\* Who looks for an admin, and who is about to create a user, has just begun to; and
\* only commits write the users.
LEMMA WhatAStepDoes ==
  ASSUME AccountsInv, NEW p \in Requests, Send(p) \/ Serve(p)
  PROVE  /\ pc'[p] = "adopt" => /\ pc[p] = "bootstrap" /\ Free(System, p) /\ locks'[System] = p
                                /\ BootstrapRequired /\ UNCHANGED rows
         /\ pc'[p] = "create" => pc[p] = "authenticated"
         /\ \/ users' = users
            \/ BootstrapCommits(p) \/ pc[p] \in {"create", "verify", "commit"}
         /\ adopted' = adopted \/ BootstrapCommits(p)
<1>1. pc'[p] = "adopt" => BootstrapReads(p) /\ ~Reject(p)
  BY DEF Send, Serve, Operate, Bootstrap, Login, Authenticate, BootstrapReads,
    BootstrapCommits, LoginReads, LoginCommits, Answer, Logout, ChangePassword, CreateUser,
    SetTemporaryPassword, UpdateUser, CreateCommits, InsertFails, ScanStarts, LockRow, Flush, Revoke,
    Commit, DeadlockAborts, Reject, Finish, Goto, AccountsInv, AccountsTypeOK
<1>2. pc'[p] = "create" => pc[p] = "authenticated"
  BY DEF Send, Serve, Operate, Bootstrap, Login, Authenticate, BootstrapReads,
    BootstrapCommits, LoginReads, LoginCommits, Answer, Logout, ChangePassword, CreateUser,
    SetTemporaryPassword, UpdateUser, CreateCommits, InsertFails, ScanStarts, LockRow, Flush, Revoke,
    Commit, DeadlockAborts, Reject, Finish, Goto, AsAdmin, AccountsInv, AccountsTypeOK
<1>3. /\ \/ users' = users
         \/ BootstrapCommits(p) \/ pc[p] \in {"create", "verify", "commit"}
      /\ adopted' = adopted \/ BootstrapCommits(p)
  BY DEF Send, Serve, Operate, Bootstrap, Login, Authenticate, BootstrapReads, LoginReads,
    LoginCommits, Answer, Logout, ChangePassword, CreateUser, SetTemporaryPassword,
    UpdateUser, CreateCommits, InsertFails, ScanStarts, LockRow, Flush, Revoke, Commit,
    DeadlockAborts, Reject, rows
<1>4. BootstrapReads(p) /\ ~Reject(p) =>
        /\ pc[p] = "bootstrap" /\ Free(System, p) /\ locks'[System] = p
        /\ BootstrapRequired /\ UNCHANGED rows
  <2> SUFFICES ASSUME BootstrapReads(p), ~Reject(p)
               PROVE  /\ pc[p] = "bootstrap" /\ Free(System, p) /\ locks'[System] = p
                      /\ BootstrapRequired /\ UNCHANGED rows
    OBVIOUS
  <2>1. /\ pc[p] = "bootstrap" /\ Free(System, p) /\ Hold({System}, p)
        /\ BootstrapRequired /\ UNCHANGED rows
    BY DEF BootstrapReads
  <2>2. locks'[System] = p
    BY <2>1 DEF Hold, AccountsInv, AccountsTypeOK
  <2> QED BY <2>1, <2>2
<1> QED BY <1>1, <1>2, <1>3, <1>4

\* Where nobody is there, nobody is let in.
LEMMA NobodyIsLetIn ==
  ASSUME AccountsInv, NobodyIsThere, NEW p \in Requests
  PROVE  pc[p] \notin {"authenticated", "verify", "commit"}
BY DEF AccountsInv, Registers, InHand, Works, NobodyIsThere

LEMMA FirstBootstrapStep ==
  ASSUME AccountsInv, FirstBootstrap, [Next]_vars
  PROVE  FirstBootstrap'
<1>1. CASE UNCHANGED vars
  BY <1>1 DEF vars, rows, FirstBootstrap, NobodyIsThere, NoneIsCreating, Exists
<1>2. CASE \E u \in Users : LockoutEnds(u)
  BY <1>2 DEF LockoutEnds, FirstBootstrap, NobodyIsThere, NoneIsCreating
<1>3. ASSUME NEW p \in Requests, Send(p) \/ Serve(p)
      PROVE  FirstBootstrap'
  <2>1. ASSUME NEW q \in Requests, pc'[q] = "adopt" PROVE locks'[System] = q
    <3>1. CASE q = p
      BY <1>3, <2>1, <3>1, WhatAStepDoes
    <3>2. CASE q # p
      <4>1. pc[q] = "adopt" /\ (locks'[System] = q <=> locks[System] = q)
        BY <1>3, <2>1, <3>2, OthersStay
      <4> QED BY <4>1 DEF FirstBootstrap
    <3> QED BY <3>1, <3>2
  <2>2. ASSUME ~adopted' PROVE NobodyIsThere' /\ NoneIsCreating'
    <3>1. ~BootstrapCommits(p) /\ adopted' = adopted
      BY <1>3, <2>2, WhatAStepDoes DEF BootstrapCommits
    <3>2. NobodyIsThere /\ NoneIsCreating
      BY <2>2, <3>1 DEF FirstBootstrap
    <3>3. users' = users
      BY <1>3, <3>1, <3>2, WhatAStepDoes, NobodyIsLetIn DEF NoneIsCreating
    <3>4. \A q \in Requests : pc'[q] # "create"
      <4>1. pc'[p] # "create"
        BY <1>3, <3>2, WhatAStepDoes, NobodyIsLetIn
      <4>2. \A q \in Requests \ {p} : pc'[q] # "create"
        BY <1>3, <3>2, OthersStay DEF NoneIsCreating
      <4> QED BY <4>1, <4>2
    <3> QED BY <3>2, <3>3, <3>4 DEF NobodyIsThere, NoneIsCreating, Exists
  <2> QED BY <2>1, <2>2 DEF FirstBootstrap
<1> QED BY <1>1, <1>2, <1>3 DEF Next

\* bootstrap_admin: the row of the system user is held from the look for an admin to
\* the commit, so that of the bootstraps that come together one makes the first user
\* and the others find it.
THEOREM OneMakesTheFirstUser == Spec => BootstrapIsFirst
<1>1. Init => FirstBootstrap
  BY DEF Init, FirstBootstrap, NobodyIsThere, NoneIsCreating, Exists
<1>2. AccountsInv /\ FirstBootstrap /\ [Next]_vars => FirstBootstrap'
  BY FirstBootstrapStep
<1>3. AccountsInv /\ FirstBootstrap /\ [Next]_vars =>
        [\A p \in Requests : BootstrapCommits(p) =>
           adopted' /\ (adopted \/ NobodyIsThere) /\ \A q \in Requests \ {p} : pc[q] # "adopt"]_vars
  <2> SUFFICES ASSUME FirstBootstrap, NEW p \in Requests, BootstrapCommits(p)
               PROVE  /\ adopted' /\ (adopted \/ NobodyIsThere)
                      /\ \A q \in Requests \ {p} : pc[q] # "adopt"
    OBVIOUS
  <2>1. adopted'
    BY DEF BootstrapCommits
  <2>2. adopted \/ NobodyIsThere
    BY DEF FirstBootstrap
  <2>3. pc[p] = "adopt"
    BY DEF BootstrapCommits
  <2>4. \A q \in Requests \ {p} : pc[q] # "adopt"
    BY <2>3 DEF FirstBootstrap
  <2> QED BY <2>1, <2>2, <2>4
<1> QED BY <1>1, <1>2, <1>3, AccountsHold, PTL DEF Spec, BootstrapIsFirst
=============================================================================
