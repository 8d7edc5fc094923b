------------------------------ MODULE Accounts ------------------------------
(***************************************************************************)
(* Users, their sessions and their lock-out, as the handlers of            *)
(* backend/app/api/auth.py and api/users.py keep them.                     *)
(*                                                                         *)
(* The server is one uvicorn process (Dockerfile) and these handlers are   *)
(* coroutines without an await, so a handler is one step against the       *)
(* others.  It is a sequence of SQLite transactions, though, and may fail, *)
(* or the process may die, between two of them: the actions that write     *)
(* more than once take a parameter that says how far the handler came.     *)
(* Both tables are on disk and access tokens are signed, not stored, so    *)
(* nothing is lost with the process.                                       *)
(*                                                                         *)
(* Left out: names and addresses (a conflict is refused without effect),   *)
(* the audit log (best effort, never read), the rate limits (a refusal     *)
(* without effect), the contents of passwords (a version per change).      *)
(***************************************************************************)
EXTENDS RefreshTokens

CONSTANTS
    MaxAttempts,   \* Settings.max_failed_attempts
    MaxPassword,   \* bound: changes of password per user
    OpenAdmin      \* X-Admin-Token is configured, or METATRACE_ALLOW_UNAUTH=true

ASSUME UsersAssumption == IsFiniteSet(Users)
ASSUME AttemptsAssumption == MaxAttempts \in Nat \ {0}
ASSUME PasswordAssumption == MaxPassword \in Nat
ASSUME OpenAdminAssumption == OpenAdmin \in BOOLEAN

VARIABLES
    users,      \* the table users
    access,     \* users who hold an access token that has not expired
    born,       \* observer: for a family, the password its sign-in was checked against
    unsettled,  \* observer: users whose last revocation a failure cut short
    tries       \* observer: wrong passwords since the last success or lock-out

vars == <<tokens, users, access, born, unsettled, tries>>

UserRow == [there : {"never", "yes", "deleted"}, role : {"admin", "other"},
            active : BOOLEAN, mustChange : BOOLEAN, pw : 0..MaxPassword,
            failed : 0..MaxAttempts, lock : {"none", "on", "over"}]

NewUser(role, mustChange) ==
    [there |-> "yes", role |-> role, active |-> TRUE, mustChange |-> mustChange,
     pw |-> 0, failed |-> 0, lock |-> "none"]

NoRow(there) == [NewUser("other", FALSE) EXCEPT !.there = there, !.active = FALSE]

Exists(u) == users[u].there = "yes"

ActiveAdmins == {u \in Users : Exists(u) /\ users[u].role = "admin" /\ users[u].active}

-----------------------------------------------------------------------------
(* Who may call.                                                           *)

(* _decode_user_row for a path of the password-change white list. *)
SignedIn(u) == u \in access /\ Exists(u) /\ users[u].active

(* require_role("admin"): a signed-in administrator without the temporary   *)
(* password, or the virtual administrator of the legacy token and of        *)
(* trusted-LAN mode.  The role is the row's, not the token's.              *)
MayAdminister ==
    \/ OpenAdmin
    \/ \E c \in Users :
        SignedIn(c) /\ ~users[c].mustChange /\ users[c].role = "admin"

-----------------------------------------------------------------------------
(* Start-up and user administration.                                       *)

(* _seed_admin_if_needed at a start of the process: only an empty table is  *)
(* seeded.  A failure there is logged and the process starts without it.    *)
SeedAdmin(u) ==
    /\ \A v \in Users : ~Exists(v)
    /\ users[u].there = "never"
    /\ users' = [users EXCEPT ![u] = NewUser("admin", TRUE)]
    /\ UNCHANGED <<tokens, access, born, unsettled, tries>>

(* POST /api/users and POST /api/auth/register. *)
CreateUser(u, role) ==
    /\ MayAdminister
    /\ users[u].there = "never"
    /\ users' = [users EXCEPT ![u] = NewUser(role, FALSE)]
    /\ UNCHANGED <<tokens, access, born, unsettled, tries>>

(* Mutant: the guard counts the disabled administrators too. *)
LastAdminOfAnyState(u) ==
    /\ u \in ActiveAdmins
    /\ Cardinality({v \in Users : Exists(v) /\ users[v].role = "admin"}) <= 1

(* The guard of PATCH and DELETE counts the administrators that are active. *)
LastAdmin(u) == u \in ActiveAdmins /\ Cardinality(ActiveAdmins) <= 1

(* A body gives a role, an is_active, or both; Unset is an absent field. *)
Unset == "unset"

Patched(row, role, active) ==
    [row EXCEPT !.role = IF role = Unset THEN @ ELSE role,
                !.active = IF active = Unset THEN @ ELSE active = "yes"]

WouldLapse(role, active) == role \notin {Unset, "admin"} \/ active = "no"

(* revoke_all_user_tokens(u), or a failure before it. *)
EndSessions(u, done) ==
    IF done THEN /\ tokens' = Revoked(tokens, OfUser(u))
                 /\ unsettled' = unsettled \ {u}
            ELSE /\ unsettled' = unsettled \cup {u}
                 /\ UNCHANGED tokens

(* PATCH /api/users/{id}: the row first, then the tokens of a disabled user. *)
UpdateUser(u, role, active, done) ==
    /\ MayAdminister /\ Exists(u)
    /\ ~(LastAdmin(u) /\ WouldLapse(role, active))
    /\ role # Unset \/ active # Unset
    /\ active # "no" => done
    /\ users' = [users EXCEPT ![u] = Patched(@, role, active)]
    /\ IF active = "no" THEN EndSessions(u, done) ELSE UNCHANGED <<tokens, unsettled>>
    /\ UNCHANGED <<access, born, tries>>

(* Mutant: the tokens of a deleted user are left to ON DELETE CASCADE. *)
DeleteUserByCascade(u, done) ==
    /\ MayAdminister /\ Exists(u)
    /\ ~LastAdmin(u)
    /\ users' = IF done THEN [users EXCEPT ![u] = NoRow("deleted")] ELSE users
    /\ UNCHANGED <<tokens, access, born, unsettled, tries>>

(* DELETE /api/users/{id}: the tokens first, then the row. *)
DeleteUser(u, done) ==
    /\ MayAdminister /\ Exists(u)
    /\ ~LastAdmin(u)
    /\ EndSessions(u, TRUE)
    /\ users' = IF done THEN [users EXCEPT ![u] = NoRow("deleted")] ELSE users
    /\ UNCHANGED <<access, born, tries>>

WithPassword(row) == [row EXCEPT !.pw = @ + 1]

(* Mutant: a reset leaves the sessions of the old password alone. *)
ResetPasswordOnly(u, done) ==
    /\ MayAdminister /\ Exists(u)
    /\ users[u].pw < MaxPassword
    /\ users' = [users EXCEPT ![u] = WithPassword(@)]
    /\ done
    /\ UNCHANGED <<tokens, access, born, unsettled, tries>>

(* POST /api/users/{id}/reset-password *)
ResetPassword(u, done) ==
    /\ MayAdminister /\ Exists(u)
    /\ users[u].pw < MaxPassword
    /\ users' = [users EXCEPT ![u] = WithPassword(@)]
    /\ EndSessions(u, done)
    /\ UNCHANGED <<access, born, tries>>

ChangedPassword(row, flag) == [row EXCEPT !.pw = @ + 1, !.mustChange = @ /\ ~flag]

(* POST /api/auth/change-password with the right current password: the      *)
(* hash, the flag and the tokens are three transactions.                    *)
ChangePassword(u, flag, done) ==
    /\ SignedIn(u)
    /\ users[u].pw < MaxPassword
    /\ done => flag
    /\ users' = [users EXCEPT ![u] = ChangedPassword(@, flag)]
    /\ EndSessions(u, done)
    /\ UNCHANGED <<access, born, tries>>

-----------------------------------------------------------------------------
(* Sessions.                                                               *)

(* record_login_success *)
Cleared(row) == [row EXCEPT !.failed = 0, !.lock = "none"]

(* Mutant: the attempt that reaches the limit does not lock yet. *)
MissedLate(row) ==
    [row EXCEPT !.failed = @ + 1,
                !.lock = IF row.failed >= MaxAttempts THEN "on" ELSE @]

(* record_login_failure on a row whose lock, if it had one, was cleared. *)
Missed(row) ==
    [row EXCEPT !.failed = @ + 1,
                !.lock = IF row.failed + 1 >= MaxAttempts THEN "on" ELSE @]

(* Mutant: the lock is looked at after the password. *)
PasswordCheckedFirst(u) == Exists(u) /\ users[u].failed < 2 * MaxAttempts

(* login looks at the lock before it looks at the password. *)
PasswordChecked(u) == Exists(u) /\ users[u].lock # "on"

(* A login with the right password of an active user opens a family. *)
Login(u, t) ==
    /\ PasswordChecked(u) /\ users[u].active
    /\ IsNext(t)
    /\ users' = [users EXCEPT ![u] = Cleared(@)]
    /\ tokens' = Stored(tokens, t, u, t)
    /\ access' = access \cup {u}
    /\ born' = [born EXCEPT ![t] = users[u].pw]
    /\ tries' = [tries EXCEPT ![u] = 0]
    /\ UNCHANGED unsettled

(* A login that ends after record_login_success: the lock-out had passed    *)
(* and the account is disabled, or a later transaction fails.               *)
LoginBroken(u) ==
    /\ PasswordChecked(u)
    /\ users[u].active \/ users[u].lock = "over"
    /\ users' = [users EXCEPT ![u] = Cleared(@)]
    /\ tries' = [tries EXCEPT ![u] = IF users[u].active THEN 0 ELSE @]
    /\ UNCHANGED <<tokens, access, born, unsettled>>

LoginFailed(u) ==
    /\ PasswordChecked(u)
    /\ users' = [users EXCEPT ![u] = Missed(IF @.lock = "over" THEN Cleared(@) ELSE @)]
    /\ tries' = [tries EXCEPT ![u] = @ + 1]
    /\ UNCHANGED <<tokens, access, born, unsettled>>

(* Mutant: revoked_at is not looked at. *)
RotateRevoked(t, n, done) ==
    /\ tokens[t].status \in {"live", "revoked"} /\ IsNext(n)
    /\ LET u == tokens[t].user
           left == Revoked(tokens, {t})
       IN /\ tokens' = IF done THEN Stored(left, n, u, tokens[t].family) ELSE left
          /\ access' = IF done /\ Exists(u) /\ users[u].active THEN access \cup {u}
                                                               ELSE access
    /\ UNCHANGED <<users, born, unsettled, tries>>

(* POST /api/auth/refresh with a live token: the old row is revoked, the    *)
(* new one stored, and only then is the owner looked up.                    *)
Rotate(t, n, done) ==
    /\ Live(t) /\ IsNext(n)
    /\ LET u == tokens[t].user
           left == Revoked(tokens, {t})
       IN /\ tokens' = IF done THEN Stored(left, n, u, tokens[t].family) ELSE left
          /\ access' = IF done /\ Exists(u) /\ users[u].active THEN access \cup {u}
                                                               ELSE access
    /\ UNCHANGED <<users, born, unsettled, tries>>

(* The same with a revoked one: it was used before, the family is revoked. *)
Replay(t) ==
    /\ tokens[t].status = "revoked"
    /\ tokens' = Revoked(tokens, OfFamily(tokens[t].family))
    /\ UNCHANGED <<users, access, born, unsettled, tries>>

(* POST /api/auth/logout by a client that sends the refresh cookie along. *)
Logout(u, t) ==
    /\ SignedIn(u)
    /\ Unrevoked(tokens[t])
    /\ tokens' = Revoked(tokens, {t})
    /\ UNCHANGED <<users, access, born, unsettled, tries>>

(* Time passes: a refresh token, an access token, a lock-out. *)
TokenExpires(t) ==
    /\ Live(t)
    /\ tokens' = Expired(t)
    /\ UNCHANGED <<users, access, born, unsettled, tries>>

AccessExpires(u) ==
    /\ u \in access
    /\ access' = access \ {u}
    /\ UNCHANGED <<tokens, users, born, unsettled, tries>>

LockExpires(u) ==
    /\ users[u].lock = "on"
    /\ users' = [users EXCEPT ![u].lock = "over"]
    /\ tries' = [tries EXCEPT ![u] = 0]
    /\ UNCHANGED <<tokens, access, born, unsettled>>

-----------------------------------------------------------------------------
Init ==
    /\ tokens = EmptyTable
    /\ users = [u \in Users |-> NoRow("never")]
    /\ access = {}
    /\ born = [t \in TokenIds |-> 0]
    /\ unsettled = {}
    /\ tries = [u \in Users |-> 0]

Administration(u) ==
    \/ SeedAdmin(u)
    \/ \E role \in {"admin", "other"} : CreateUser(u, role)
    \/ \E role \in {Unset, "admin", "other"}, active \in {Unset, "yes", "no"}, done \in BOOLEAN :
        UpdateUser(u, role, active, done)
    \/ \E done \in BOOLEAN : DeleteUser(u, done) \/ ResetPassword(u, done)

SignIn(u) ==
    \/ \E t \in TokenIds : Login(u, t)
    \/ LoginBroken(u)
    \/ LoginFailed(u)
    \/ \E flag, done \in BOOLEAN : ChangePassword(u, flag, done)
    \/ \E t \in TokenIds : Logout(u, t)
    \/ AccessExpires(u)
    \/ LockExpires(u)

Presented(t) ==
    \/ \E n \in TokenIds, done \in BOOLEAN : Rotate(t, n, done)
    \/ Replay(t)
    \/ TokenExpires(t)

Next ==
    \/ \E u \in Users : Administration(u) \/ SignIn(u)
    \/ \E t \in TokenIds : Presented(t)

Spec == Init /\ [][Next]_vars

-----------------------------------------------------------------------------
(* Properties.                                                             *)

TypeOK ==
    /\ TokensTyped
    /\ users \in [Users -> UserRow]
    /\ access \subseteq Users
    /\ born \in [TokenIds -> 0..MaxPassword]
    /\ unsettled \subseteq Users
    /\ tries \in [Users -> Nat]

(* No sequence of demotions, deactivations and deletions, by however many   *)
(* administrators, leaves the system without an active one (the guards of   *)
(* update_user and delete_user in api/users.py).                            *)
AdminRemains == [][ActiveAdmins # {} => ActiveAdmins' # {}]_vars

(* A session that can still be refreshed was opened with the password its   *)
(* owner has now, unless the handler that changed it failed half-way: a     *)
(* change or a reset signs the user out everywhere.                         *)
SessionsFollowPassword ==
    \A t \in TokenIds :
        Live(t) /\ tokens[t].user \notin unsettled
            => born[tokens[t].family] = users[tokens[t].user].pw

(* ... and its owner exists and is active, although rows of refresh_tokens  *)
(* outlive their user and rotation looks at the owner last.                 *)
SessionsHaveActiveOwners ==
    \A t \in TokenIds :
        Live(t) /\ tokens[t].user \notin unsettled
            => Exists(tokens[t].user) /\ users[tokens[t].user].active

(* Between two successes, or two lock-outs that were sat out, at most       *)
(* max_failed_attempts wrong passwords are checked, whatever else happens   *)
(* to the account in between.                                               *)
LockoutBoundsGuesses == \A u \in Users : tries[u] <= MaxAttempts

(* A family is open while it has a live token. *)
Session ==
    [f \in TokenIds |->
        IF tokens[f].family # f THEN "new"
        ELSE IF \E t \in OfFamily(f) : Live(t) THEN "open"
        ELSE "closed"]

Family == INSTANCE TokenFamilies WITH Families <- TokenIds, session <- Session

(* The handlers keep the promise of TokenFamilies: a session that was ended *)
(* stays ended, whatever tokens are presented later.                        *)
SessionsStayEnded == Family!Spec
=============================================================================
