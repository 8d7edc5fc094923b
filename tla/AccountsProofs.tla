--------------------------- MODULE AccountsProofs ---------------------------
(***************************************************************************)
(* Proofs about Accounts for any finite set of users and any bounds: the   *)
(* lock-out, the last administrator, and the sessions that end with the    *)
(* password or the account they belong to.                                 *)
(***************************************************************************)
EXTENDS Accounts, RefreshTokensProofs, FiniteSetTheorems

-----------------------------------------------------------------------------
(* The inductive invariant.                                                *)

(* A family is named by its first row; only rows that exist have one. *)
RowsOK ==
    \A t \in TokenIds :
        /\ tokens[t].status = "free" <=> tokens[t].family = 0
        /\ tokens[t].family # 0 => tokens[tokens[t].family].family = tokens[t].family

(* A token belongs to somebody who is, or was, in the table. *)
OwnersOK ==
    \A t \in TokenIds :
        tokens[t].status # "free" => /\ tokens[t].user \in Users
                                     /\ users[tokens[t].user].there # "never"

(* What the lock says of the attempts counted in the row and observed. *)
LocksOK ==
    \A u \in Users :
        /\ tries[u] <= MaxAttempts
        /\ users[u].there = "never" => tries[u] = 0
        /\ Exists(u) /\ users[u].lock = "none" =>
                users[u].failed < MaxAttempts /\ tries[u] <= users[u].failed
        /\ Exists(u) /\ users[u].lock = "over" => tries[u] = 0

SessionsOK == RowsOK /\ OwnersOK /\ SessionsFollowPassword /\ SessionsHaveActiveOwners

IInv == TypeOK /\ LocksOK /\ SessionsOK

-----------------------------------------------------------------------------
(* Lemmas.                                                                 *)

(* A step that opens no session, and ends those of a user whose password or  *)
(* standing it changes, or notes that it did not.                            *)
LEMMA SessionsKept ==
    ASSUME IInv, TypeOK', born' = born,
           \A t \in TokenIds :
             /\ tokens'[t].family = tokens[t].family
             /\ tokens'[t].user = tokens[t].user
             /\ tokens'[t].status = "free" <=> tokens[t].status = "free"
             /\ tokens'[t].status = "live" => tokens[t].status = "live",
           \A t \in TokenIds :
             LET u == tokens[t].user
             IN  tokens'[t].status = "live" /\ u \notin unsettled' =>
                   /\ u \notin unsettled
                   /\ users'[u].pw = users[u].pw
                   /\ users'[u].there = users[u].there
                   /\ users[u].active => users'[u].active,
           \A u \in Users : users[u].there # "never" => users'[u].there # "never"
    PROVE  SessionsOK'
<1> USE DEF IInv, SessionsOK
<1>1. RowsOK'
    BY DEF RowsOK, TypeOK, TokensTyped, Row
<1>2. OwnersOK'
    BY DEF OwnersOK
<1>3. SessionsFollowPassword'
    BY DEF SessionsFollowPassword, Live
<1>4. SessionsHaveActiveOwners'
    BY DEF SessionsHaveActiveOwners, Live, Exists
<1> QED
    BY <1>1, <1>2, <1>3, <1>4

(* The same when the table of tokens is left alone. *)
LEMMA UsersChange ==
    ASSUME IInv, TypeOK', UNCHANGED <<tokens, born, unsettled>>,
           \A u \in Users :
             users[u].there # "never" => /\ users'[u].there = users[u].there
                                         /\ users'[u].pw = users[u].pw
                                         /\ users[u].active => users'[u].active
    PROVE  SessionsOK'
<1>1. \A t \in TokenIds : tokens[t].status = "live" =>
        tokens[t].user \in Users /\ users[tokens[t].user].there # "never"
    BY DEF IInv, SessionsOK, OwnersOK
<1> QED
    BY <1>1, SessionsKept

(* The end of all the sessions of one user whose row may change at will. *)
LEMMA SessionsEnd ==
    ASSUME IInv, TypeOK', born' = born, NEW u \in Users, NEW done, EndSessions(u, done),
           \A v \in Users \ {u} : users'[v] = users[v],
           users[u].there # "never" => users'[u].there # "never"
    PROVE  SessionsOK'
<1>1. CASE done
    <2>1. tokens' = Revoked(tokens, OfUser(u)) /\ unsettled' = unsettled \ {u}
        BY <1>1 DEF EndSessions
    <2>2. \A t \in TokenIds :
            /\ tokens'[t].family = tokens[t].family
            /\ tokens'[t].user = tokens[t].user
            /\ tokens'[t].status = "free" <=> tokens[t].status = "free"
            /\ tokens'[t].status = "live" <=> tokens[t].status = "live" /\ t \notin OfUser(u)
        BY <2>1, RevokedRows DEF IInv, TypeOK, TokensTyped
    <2>3. \A t \in TokenIds : tokens'[t].status = "live" =>
            tokens[t].user \in Users \ {u}
        BY <2>2 DEF OfUser, IInv, SessionsOK, OwnersOK
    <2> QED
        BY <2>1, <2>2, <2>3, SessionsKept
<1>2. CASE ~done
    <2>1. tokens' = tokens /\ unsettled' = unsettled \cup {u}
        BY <1>2 DEF EndSessions
    <2>2. \A t \in TokenIds : tokens[t].status = "live" => tokens[t].user \in Users
        BY DEF IInv, SessionsOK, OwnersOK
    <2> QED
        BY <2>1, <2>2, SessionsKept
<1> QED
    BY <1>1, <1>2

(* Rows of the table tokens that a statement leaves typed. *)
LEMMA EndSessionsTyped ==
    ASSUME TypeOK, NEW u \in Users, NEW done, EndSessions(u, done)
    PROVE  TokensTyped' /\ unsettled' \subseteq Users
BY RevokedRows DEF TypeOK, TokensTyped, EndSessions

(* What the handlers make of a row of the table users. *)
LEMMA NewUserRow ==
    ASSUME NEW role \in {"admin", "other"}, NEW flag \in BOOLEAN
    PROVE  /\ NewUser(role, flag) \in UserRow
           /\ NewUser(role, flag).there = "yes"
           /\ NewUser(role, flag).failed = 0 /\ NewUser(role, flag).lock = "none"
<1>1. NewUser(role, flag) \in UserRow
    BY AttemptsAssumption, PasswordAssumption DEF NewUser, UserRow
<1> QED
    BY <1>1 DEF NewUser

LEMMA NoRowRow ==
    ASSUME NEW there \in {"never", "deleted"}
    PROVE  NoRow(there) \in UserRow /\ NoRow(there).there = there
<1>1. NewUser("other", FALSE) \in UserRow
    BY NewUserRow
<1> QED
    BY <1>1 DEF NoRow, UserRow

LEMMA ClearedRow ==
    ASSUME NEW row \in UserRow
    PROVE  /\ Cleared(row) \in UserRow
           /\ Cleared(row).there = row.there /\ Cleared(row).pw = row.pw
           /\ Cleared(row).active = row.active
           /\ Cleared(row).failed = 0 /\ Cleared(row).lock = "none"
<1>1. 0 \in 0..MaxAttempts
    BY AttemptsAssumption
<1>2. Cleared(row) \in UserRow
    BY <1>1 DEF Cleared, UserRow
<1>3. Cleared(row).there = row.there /\ Cleared(row).pw = row.pw
    BY DEF Cleared, UserRow
<1>4. Cleared(row).active = row.active
    BY DEF Cleared, UserRow
<1>5. Cleared(row).failed = 0 /\ Cleared(row).lock = "none"
    BY DEF Cleared, UserRow
<1> QED
    BY <1>2, <1>3, <1>4, <1>5

LEMMA MissedRow ==
    ASSUME NEW row \in UserRow, row.failed < MaxAttempts, row.lock = "none"
    PROVE  /\ Missed(row) \in UserRow
           /\ Missed(row).there = row.there /\ Missed(row).pw = row.pw
           /\ Missed(row).active = row.active
           /\ Missed(row).failed = row.failed + 1
           /\ Missed(row).lock = IF row.failed + 1 >= MaxAttempts THEN "on" ELSE "none"
<1>1. row.failed + 1 \in 0..MaxAttempts
    BY AttemptsAssumption DEF UserRow
<1>2. Missed(row) \in UserRow
    BY <1>1 DEF Missed, UserRow
<1>3. Missed(row).there = row.there /\ Missed(row).pw = row.pw
    BY DEF Missed, UserRow
<1>4. Missed(row).active = row.active
    BY DEF Missed, UserRow
<1>5. Missed(row).failed = row.failed + 1
    BY DEF Missed, UserRow
<1>6. Missed(row).lock = IF row.failed + 1 >= MaxAttempts THEN "on" ELSE "none"
    BY DEF Missed, UserRow
<1> QED
    BY <1>2, <1>3, <1>4, <1>5, <1>6

LEMMA PasswordRow ==
    ASSUME NEW row \in UserRow, row.pw < MaxPassword
    PROVE  /\ WithPassword(row) \in UserRow
           /\ WithPassword(row).there = row.there
           /\ WithPassword(row).failed = row.failed /\ WithPassword(row).lock = row.lock
BY PasswordAssumption DEF WithPassword, UserRow

LEMMA ChangedRow ==
    ASSUME NEW row \in UserRow, row.pw < MaxPassword, NEW flag \in BOOLEAN
    PROVE  /\ ChangedPassword(row, flag) \in UserRow
           /\ ChangedPassword(row, flag).there = row.there
           /\ ChangedPassword(row, flag).failed = row.failed
           /\ ChangedPassword(row, flag).lock = row.lock
<1>1. row.pw + 1 \in 0..MaxPassword
    BY PasswordAssumption DEF UserRow
<1>2. \A m \in BOOLEAN : [row EXCEPT !.pw = row.pw + 1, !.mustChange = m] \in UserRow
    BY <1>1 DEF UserRow
<1>3. (row.mustChange /\ ~flag) \in BOOLEAN
    OBVIOUS
<1>4. ChangedPassword(row, flag) \in UserRow
    BY <1>2, <1>3 DEF ChangedPassword
<1>5. /\ ChangedPassword(row, flag).there = row.there
      /\ ChangedPassword(row, flag).failed = row.failed
      /\ ChangedPassword(row, flag).lock = row.lock
    BY DEF ChangedPassword, UserRow
<1> QED
    BY <1>4, <1>5

-----------------------------------------------------------------------------
(* One lemma per handler.                                                  *)

LEMMA InitOK == Init => IInv
<1> SUFFICES ASSUME Init PROVE IInv
    OBVIOUS
<1>1. TypeOK
    <2>1. TokensTyped
        BY DEF Init, TokensTyped, EmptyTable, Row, Status
    <2>2. users \in [Users -> UserRow]
        BY NoRowRow DEF Init
    <2> QED
        BY <2>1, <2>2, PasswordAssumption DEF Init, TypeOK
<1>2. LocksOK
    BY NoRowRow, AttemptsAssumption DEF Init, LocksOK, Exists
<1>3. SessionsOK
    BY DEF Init, EmptyTable, SessionsOK, RowsOK, OwnersOK, SessionsFollowPassword,
           SessionsHaveActiveOwners, Live
<1> QED
    BY <1>1, <1>2, <1>3 DEF IInv

LEMMA SeedAdminOK ==
    ASSUME IInv, NEW u \in Users, SeedAdmin(u)
    PROVE  IInv'
<1> DEFINE row == NewUser("admin", TRUE)
<1>1. /\ users \in [Users -> UserRow]
      /\ row \in UserRow /\ row.there = "yes" /\ row.failed = 0 /\ row.lock = "none"
    BY NewUserRow DEF IInv, TypeOK
<1>2. /\ users' = [users EXCEPT ![u] = row]
      /\ users[u].there = "never"
      /\ UNCHANGED <<tokens, access, born, unsettled, tries>>
    BY DEF SeedAdmin
<1> HIDE DEF row
<1>3. TypeOK'
    BY <1>1, <1>2 DEF IInv, TypeOK, TokensTyped
<1>4. LocksOK'
    BY <1>1, <1>2, AttemptsAssumption DEF IInv, LocksOK, Exists
<1>5. SessionsOK'
    BY <1>1, <1>2, <1>3, UsersChange
<1> QED
    BY <1>3, <1>4, <1>5 DEF IInv

LEMMA CreateUserOK ==
    ASSUME IInv, NEW u \in Users, NEW role \in {"admin", "other"}, CreateUser(u, role)
    PROVE  IInv'
<1> DEFINE row == NewUser(role, FALSE)
<1>1. /\ users \in [Users -> UserRow]
      /\ row \in UserRow /\ row.there = "yes" /\ row.failed = 0 /\ row.lock = "none"
    BY NewUserRow DEF IInv, TypeOK
<1>2. /\ users' = [users EXCEPT ![u] = row]
      /\ users[u].there = "never"
      /\ UNCHANGED <<tokens, access, born, unsettled, tries>>
    BY DEF CreateUser
<1> HIDE DEF row
<1>3. TypeOK'
    BY <1>1, <1>2 DEF IInv, TypeOK, TokensTyped
<1>4. LocksOK'
    BY <1>1, <1>2, AttemptsAssumption DEF IInv, LocksOK, Exists
<1>5. SessionsOK'
    BY <1>1, <1>2, <1>3, UsersChange
<1> QED
    BY <1>3, <1>4, <1>5 DEF IInv

(* What a PATCH makes of a row. *)
LEMMA PatchedRow ==
    ASSUME NEW row \in UserRow, NEW role \in {Unset, "admin", "other"},
           NEW active \in {Unset, "yes", "no"}
    PROVE  /\ Patched(row, role, active) \in UserRow
           /\ Patched(row, role, active).there = row.there
           /\ Patched(row, role, active).pw = row.pw
           /\ Patched(row, role, active).failed = row.failed
           /\ Patched(row, role, active).lock = row.lock
           /\ active # "no" => (row.active => Patched(row, role, active).active)
           /\ ~WouldLapse(role, active) =>
                /\ row.role = "admin" => Patched(row, role, active).role = "admin"
                /\ row.active => Patched(row, role, active).active
BY DEF Patched, UserRow, Unset, WouldLapse

LEMMA UpdateUserOK ==
    ASSUME IInv, NEW u \in Users, NEW role \in {Unset, "admin", "other"},
           NEW active \in {Unset, "yes", "no"}, NEW done \in BOOLEAN,
           UpdateUser(u, role, active, done)
    PROVE  IInv'
<1>1. /\ users' = [users EXCEPT ![u] = Patched(users[u], role, active)]
      /\ users \in [Users -> UserRow]
      /\ users' \in [Users -> UserRow]
      /\ users'[u] = Patched(users[u], role, active)
      /\ \A v \in Users \ {u} : users'[v] = users[v]
    BY PatchedRow DEF UpdateUser, IInv, TypeOK
<1>2. /\ users'[u].there = users[u].there /\ users'[u].pw = users[u].pw
      /\ users'[u].failed = users[u].failed /\ users'[u].lock = users[u].lock
      /\ active # "no" => (users[u].active => users'[u].active)
    BY <1>1, PatchedRow
<1>3. TypeOK'
    BY <1>1, EndSessionsTyped DEF UpdateUser, IInv, TypeOK, TokensTyped
<1>4. LocksOK'
    BY <1>1, <1>2 DEF UpdateUser, IInv, LocksOK, Exists
<1>5. CASE active = "no"
    <2>1. EndSessions(u, done) /\ born' = born
        BY <1>5 DEF UpdateUser
    <2>2. SessionsOK'
        BY <1>1, <1>2, <1>3, <2>1, SessionsEnd
    <2> QED
        BY <1>3, <1>4, <2>2 DEF IInv
<1>6. CASE active # "no"
    <2>1. UNCHANGED <<tokens, born, unsettled>>
        BY <1>6 DEF UpdateUser
    <2>2. \A v \in Users : /\ users'[v].there = users[v].there
                           /\ users'[v].pw = users[v].pw
                           /\ users[v].active => users'[v].active
        BY <1>1, <1>2, <1>6
    <2>3. SessionsOK'
        BY <1>3, <2>1, <2>2, UsersChange
    <2> QED
        BY <1>3, <1>4, <2>3 DEF IInv
<1> QED
    BY <1>5, <1>6

LEMMA DeleteUserOK ==
    ASSUME IInv, NEW u \in Users, NEW done \in BOOLEAN, DeleteUser(u, done)
    PROVE  IInv'
<1> DEFINE row == NoRow("deleted")
<1>1. /\ users \in [Users -> UserRow]
      /\ row \in UserRow /\ row.there = "deleted"
    BY NoRowRow DEF IInv, TypeOK
<1>2. /\ users' = IF done THEN [users EXCEPT ![u] = row] ELSE users
      /\ EndSessions(u, TRUE)
      /\ UNCHANGED <<access, born, tries>>
    BY DEF DeleteUser
<1> HIDE DEF row
<1>3. TypeOK'
    BY <1>1, <1>2, EndSessionsTyped DEF IInv, TypeOK
<1>4. LocksOK'
    BY <1>1, <1>2 DEF IInv, LocksOK, Exists
<1>5. SessionsOK'
    BY <1>1, <1>2, <1>3, SessionsEnd
<1> QED
    BY <1>3, <1>4, <1>5 DEF IInv

LEMMA ResetPasswordOK ==
    ASSUME IInv, NEW u \in Users, NEW done \in BOOLEAN, ResetPassword(u, done)
    PROVE  IInv'
<1> DEFINE row == WithPassword(users[u])
<1>1. /\ users \in [Users -> UserRow]
      /\ row \in UserRow /\ row.there = users[u].there
      /\ row.failed = users[u].failed /\ row.lock = users[u].lock
    BY PasswordRow DEF ResetPassword, IInv, TypeOK
<1>2. /\ users' = [users EXCEPT ![u] = row]
      /\ EndSessions(u, done)
      /\ UNCHANGED <<access, born, tries>>
    BY DEF ResetPassword
<1> HIDE DEF row
<1>3. TypeOK'
    BY <1>1, <1>2, EndSessionsTyped DEF IInv, TypeOK
<1>4. LocksOK'
    BY <1>1, <1>2 DEF IInv, LocksOK, Exists
<1>5. SessionsOK'
    BY <1>1, <1>2, <1>3, SessionsEnd
<1> QED
    BY <1>3, <1>4, <1>5 DEF IInv

LEMMA ChangePasswordOK ==
    ASSUME IInv, NEW u \in Users, NEW flag \in BOOLEAN, NEW done \in BOOLEAN,
           ChangePassword(u, flag, done)
    PROVE  IInv'
<1> DEFINE row == ChangedPassword(users[u], flag)
<1>1. /\ users \in [Users -> UserRow]
      /\ row \in UserRow /\ row.there = users[u].there
      /\ row.failed = users[u].failed /\ row.lock = users[u].lock
    BY ChangedRow DEF ChangePassword, IInv, TypeOK
<1>2. /\ users' = [users EXCEPT ![u] = row]
      /\ EndSessions(u, done)
      /\ UNCHANGED <<access, born, tries>>
    BY DEF ChangePassword
<1> HIDE DEF row
<1>3. TypeOK'
    BY <1>1, <1>2, EndSessionsTyped DEF IInv, TypeOK
<1>4. LocksOK'
    BY <1>1, <1>2 DEF IInv, LocksOK, Exists
<1>5. SessionsOK'
    BY <1>1, <1>2, <1>3, SessionsEnd
<1> QED
    BY <1>3, <1>4, <1>5 DEF IInv

(* Exactly the attempts since the last success are in the row. *)
LEMMA LoginFailedOK ==
    ASSUME IInv, NEW u \in Users, LoginFailed(u)
    PROVE  IInv'
<1>1. /\ users \in [Users -> UserRow] /\ tries \in [Users -> Nat]
      /\ Exists(u) /\ users[u].lock \in {"none", "over"}
      /\ users[u].lock = "none" => users[u].failed < MaxAttempts /\ tries[u] <= users[u].failed
      /\ users[u].lock = "over" => tries[u] = 0
    BY DEF LoginFailed, PasswordChecked, IInv, TypeOK, UserRow, LocksOK
<1> DEFINE row == IF users[u].lock = "over" THEN Cleared(users[u]) ELSE users[u]
<1>2. /\ row \in UserRow /\ row.failed < MaxAttempts /\ row.lock = "none"
      /\ row.there = users[u].there /\ row.pw = users[u].pw /\ row.active = users[u].active
      /\ tries[u] <= row.failed
    <2>1. CASE users[u].lock = "over"
        BY <1>1, <2>1, ClearedRow, AttemptsAssumption
    <2>2. CASE users[u].lock = "none"
        BY <1>1, <2>2
    <2> QED
        BY <1>1, <2>1, <2>2
<1>3. /\ Missed(row) \in UserRow
      /\ Missed(row).there = row.there /\ Missed(row).pw = row.pw
      /\ Missed(row).active = row.active
      /\ Missed(row).failed = row.failed + 1
      /\ Missed(row).lock = IF row.failed + 1 >= MaxAttempts THEN "on" ELSE "none"
    BY <1>2, MissedRow
<1>4. /\ users' = [users EXCEPT ![u] = Missed(row)]
      /\ tries' = [tries EXCEPT ![u] = tries[u] + 1]
      /\ UNCHANGED <<tokens, access, born, unsettled>>
    BY DEF LoginFailed
<1> HIDE DEF row
<1>5. TypeOK'
    BY <1>1, <1>3, <1>4 DEF IInv, TypeOK, TokensTyped
<1>6. LocksOK'
    BY <1>1, <1>2, <1>3, <1>4, AttemptsAssumption DEF IInv, LocksOK, Exists, UserRow
<1>7. SessionsOK'
    BY <1>1, <1>2, <1>3, <1>4, <1>5, UsersChange
<1> QED
    BY <1>5, <1>6, <1>7 DEF IInv

LEMMA LoginBrokenOK ==
    ASSUME IInv, NEW u \in Users, LoginBroken(u)
    PROVE  IInv'
<1> DEFINE row == Cleared(users[u])
<1>1. /\ users \in [Users -> UserRow]
      /\ row \in UserRow
      /\ row.there = users[u].there /\ row.pw = users[u].pw /\ row.active = users[u].active
      /\ row.failed = 0 /\ row.lock = "none"
      /\ Exists(u)
      /\ users[u].active \/ users[u].lock = "over"
    BY ClearedRow DEF LoginBroken, PasswordChecked, IInv, TypeOK
<1>2. /\ users' = [users EXCEPT ![u] = row]
      /\ tries' = [tries EXCEPT ![u] = IF users[u].active THEN 0 ELSE @]
      /\ UNCHANGED <<tokens, access, born, unsettled>>
    BY DEF LoginBroken
<1> HIDE DEF row
<1>3. TypeOK'
    BY <1>1, <1>2 DEF IInv, TypeOK, TokensTyped
<1>4. LocksOK'
    BY <1>1, <1>2, AttemptsAssumption DEF IInv, TypeOK, LocksOK, Exists
<1>5. SessionsOK'
    BY <1>1, <1>2, <1>3, UsersChange
<1> QED
    BY <1>3, <1>4, <1>5 DEF IInv

LEMMA LoginOK ==
    ASSUME IInv, NEW u \in Users, NEW t \in TokenIds, Login(u, t)
    PROVE  IInv'
<1> DEFINE row == Cleared(users[u])
<1>1. /\ tokens' \in [TokenIds -> Row]
      /\ tokens'[t] = [status |-> "live", user |-> u, family |-> t]
      /\ \A s \in TokenIds \ {t} : tokens'[s] = tokens[s]
    BY StoredRows DEF Login, IInv, TypeOK, TokensTyped
<1>2. /\ tokens[t].status = "free" /\ tokens[t].family = 0
      /\ \A s \in TokenIds : tokens[s].family # t
    BY DEF Login, IsNext, IInv, SessionsOK, RowsOK, TokenIds
<1>3. /\ users' = [users EXCEPT ![u] = row]
      /\ users \in [Users -> UserRow]
      /\ row \in UserRow
      /\ row.pw = users[u].pw /\ row.there = "yes" /\ row.active = users[u].active
      /\ row.failed = 0 /\ row.lock = "none"
      /\ users[u].there = "yes" /\ users[u].active
    BY ClearedRow DEF Login, PasswordChecked, Exists, IInv, TypeOK
<1>4. /\ born' = [born EXCEPT ![t] = users[u].pw]
      /\ tries' = [tries EXCEPT ![u] = 0]
      /\ access' = access \cup {u}
      /\ UNCHANGED unsettled
    BY DEF Login
<1> HIDE DEF row
<1>5. TypeOK'
    BY <1>1, <1>3, <1>4 DEF IInv, TypeOK, TokensTyped, UserRow
<1>6. LocksOK'
    BY <1>3, <1>4, AttemptsAssumption DEF IInv, TypeOK, LocksOK, Exists
<1>7. \A v \in Users : /\ users'[v].there = users[v].there
                       /\ users'[v].pw = users[v].pw
                       /\ users'[v].active = users[v].active
    BY <1>3
<1>8. RowsOK'
    <2>1. \A s \in TokenIds \ {t} :
            /\ tokens'[s].family = tokens[s].family
            /\ tokens[s].family # 0 => tokens[s].family \in TokenIds \ {t}
        BY <1>1, <1>2 DEF IInv, TypeOK, TokensTyped, Row
    <2>2. t # 0
        BY DEF TokenIds
    <2> QED
        BY <1>1, <1>2, <2>1, <2>2 DEF IInv, SessionsOK, RowsOK
<1>9. OwnersOK'
    BY <1>1, <1>3, <1>7 DEF IInv, SessionsOK, OwnersOK
<1>10. \A s \in TokenIds \ {t} : tokens[s].status = "live" =>
            tokens[s].user \in Users /\ born'[tokens[s].family] = born[tokens[s].family]
    BY <1>2, <1>4 DEF IInv, SessionsOK, OwnersOK, TypeOK
<1>11. SessionsFollowPassword'
    BY <1>1, <1>3, <1>4, <1>7, <1>10
    DEF IInv, SessionsOK, SessionsFollowPassword, Live, TypeOK
<1>12. SessionsHaveActiveOwners'
    BY <1>1, <1>3, <1>4, <1>7, <1>10
    DEF IInv, SessionsOK, SessionsHaveActiveOwners, Live, Exists
<1> QED
    BY <1>5, <1>6, <1>8, <1>9, <1>11, <1>12 DEF IInv, SessionsOK

(* Handlers that leave the users alone and open no session. *)
LEMMA TokensEndOK ==
    ASSUME IInv, TokensTyped', access' \subseteq Users,
           UNCHANGED <<users, born, unsettled, tries>>,
           \A t \in TokenIds :
             /\ tokens'[t].family = tokens[t].family
             /\ tokens'[t].user = tokens[t].user
             /\ tokens'[t].status = "free" <=> tokens[t].status = "free"
             /\ tokens'[t].status = "live" => tokens[t].status = "live"
    PROVE  IInv'
<1>1. TypeOK'
    BY DEF IInv, TypeOK
<1>2. LocksOK'
    BY DEF IInv, LocksOK, Exists
<1>3. SessionsOK'
    BY <1>1, SessionsKept
<1> QED
    BY <1>1, <1>2, <1>3 DEF IInv

LEMMA RevokeOK ==
    ASSUME IInv, NEW S, tokens' = Revoked(tokens, S), access' \subseteq Users,
           UNCHANGED <<users, born, unsettled, tries>>
    PROVE  IInv'
BY RevokedRows, TokensEndOK DEF IInv, TypeOK, TokensTyped

LEMMA TokenExpiresOK ==
    ASSUME IInv, NEW t \in TokenIds, TokenExpires(t)
    PROVE  IInv'
<1>1. /\ Live(t) /\ tokens' = Expired(t)
      /\ UNCHANGED <<users, access, born, unsettled, tries>>
    BY DEF TokenExpires
<1>0. TokensTyped
    BY DEF IInv, TypeOK
<1>2. /\ tokens' \in [TokenIds -> Row]
      /\ \A s \in TokenIds :
            /\ tokens'[s].family = tokens[s].family
            /\ tokens'[s].user = tokens[s].user
            /\ tokens'[s].status = "free" <=> tokens[s].status = "free"
            /\ tokens'[s].status = "live" => tokens[s].status = "live"
    BY <1>0, <1>1, ExpiredRows
<1> QED
    BY <1>1, <1>2, TokensEndOK DEF IInv, TypeOK, TokensTyped

LEMMA RotateOK ==
    ASSUME IInv, NEW t \in TokenIds, NEW n \in TokenIds, NEW done \in BOOLEAN,
           Rotate(t, n, done)
    PROVE  IInv'
<1> DEFINE u == tokens[t].user
           f == tokens[t].family
           left == Revoked(tokens, {t})
<1>1. /\ tokens[t].status = "live" /\ u \in Users
      /\ f \in TokenIds /\ tokens[f].family = f
      /\ tokens[n].status = "free" /\ tokens[n].family = 0 /\ n # t /\ n # f
    BY DEF Rotate, Live, IsNext, IInv, TypeOK, TokensTyped, Row, SessionsOK, RowsOK,
           OwnersOK, TokenIds
<1>2. /\ left \in [TokenIds -> Row]
      /\ \A s \in TokenIds :
            /\ left[s].family = tokens[s].family
            /\ left[s].user = tokens[s].user
            /\ left[s].status = "free" <=> tokens[s].status = "free"
            /\ left[s].status = "live" => tokens[s].status = "live"
    BY RevokedRows DEF IInv, TypeOK, TokensTyped
<1>3. /\ access' \subseteq Users
      /\ UNCHANGED <<users, born, unsettled, tries>>
    BY <1>1 DEF Rotate, IInv, TypeOK
<1>4. CASE ~done
    BY <1>3, <1>4, RevokeOK DEF Rotate
<1>5. CASE done
    <2>1. tokens' = Stored(left, n, u, f)
        BY <1>5 DEF Rotate
    <2> HIDE DEF left
    <2>2. /\ tokens' \in [TokenIds -> Row]
          /\ tokens'[n] = [status |-> "live", user |-> u, family |-> f]
          /\ \A s \in TokenIds \ {n} : tokens'[s] = left[s]
        BY <1>1, <1>2, <2>1, StoredRows
    <2>3. TypeOK'
        BY <1>3, <2>2 DEF IInv, TypeOK, TokensTyped
    <2>4. LocksOK'
        BY <1>3 DEF IInv, LocksOK, Exists
    <2>5. \A s \in TokenIds \ {n} :
            /\ tokens'[s].family = tokens[s].family
            /\ tokens'[s].user = tokens[s].user
            /\ tokens'[s].status = "free" <=> tokens[s].status = "free"
            /\ tokens'[s].status = "live" => tokens[s].status = "live"
        BY <1>2, <2>2
    <2>6. RowsOK'
        <3>1. \A s \in TokenIds :
                tokens[s].family # 0 => tokens[s].family \in TokenIds \ {n}
            BY <1>1 DEF IInv, TypeOK, TokensTyped, Row, SessionsOK, RowsOK, TokenIds
        <3>2. tokens'[n].family = f /\ tokens'[n].status = "live" /\ f # 0
            BY <1>1, <2>2 DEF TokenIds
        <3> QED
            BY <1>1, <2>5, <3>1, <3>2 DEF IInv, SessionsOK, RowsOK
    <2>7. OwnersOK'
        BY <1>1, <1>3, <2>2, <2>5 DEF IInv, SessionsOK, OwnersOK
    <2>8. SessionsFollowPassword'
        BY <1>1, <1>3, <2>2, <2>5 DEF IInv, SessionsOK, SessionsFollowPassword, Live
    <2>9. SessionsHaveActiveOwners'
        BY <1>1, <1>3, <2>2, <2>5 DEF IInv, SessionsOK, SessionsHaveActiveOwners, Live, Exists
    <2> QED
        BY <2>3, <2>4, <2>6, <2>7, <2>8, <2>9 DEF IInv, SessionsOK
<1> QED
    BY <1>4, <1>5

LEMMA AccessExpiresOK ==
    ASSUME IInv, NEW u \in Users, AccessExpires(u)
    PROVE  IInv'
BY TokensEndOK DEF AccessExpires, IInv, TypeOK, TokensTyped

LEMMA LockExpiresOK ==
    ASSUME IInv, NEW u \in Users, LockExpires(u)
    PROVE  IInv'
<1> DEFINE row == [users[u] EXCEPT !.lock = "over"]
<1>1. /\ users \in [Users -> UserRow]
      /\ row \in UserRow
      /\ row.there = users[u].there /\ row.pw = users[u].pw /\ row.active = users[u].active
      /\ row.lock = "over"
    <2>1. users[u] \in UserRow
        BY DEF IInv, TypeOK
    <2>2. row \in UserRow
        BY <2>1 DEF UserRow
    <2>3. row.there = users[u].there /\ row.pw = users[u].pw /\ row.lock = "over"
        BY <2>1 DEF UserRow
    <2>4. row.active = users[u].active
        BY <2>1 DEF UserRow
    <2> QED
        BY <2>2, <2>3, <2>4 DEF IInv, TypeOK
<1>2. /\ users' = [users EXCEPT ![u] = row]
      /\ tries' = [tries EXCEPT ![u] = 0]
      /\ UNCHANGED <<tokens, access, born, unsettled>>
    BY DEF LockExpires
<1> HIDE DEF row
<1>3. TypeOK'
    BY <1>1, <1>2 DEF IInv, TypeOK, TokensTyped
<1>4. LocksOK'
    BY <1>1, <1>2, AttemptsAssumption DEF IInv, TypeOK, LocksOK, Exists
<1>5. SessionsOK'
    BY <1>1, <1>2, <1>3, UsersChange
<1> QED
    BY <1>3, <1>4, <1>5 DEF IInv

LEMMA UnchangedOK ==
    ASSUME IInv, UNCHANGED vars
    PROVE  IInv'
BY TokensEndOK DEF vars, IInv, TypeOK, TokensTyped

LEMMA StepOK == IInv /\ [Next]_vars => IInv'
<1> SUFFICES ASSUME IInv, [Next]_vars PROVE IInv'
    OBVIOUS
<1>1. ASSUME NEW u \in Users, Administration(u) PROVE IInv'
    BY <1>1, SeedAdminOK, CreateUserOK, UpdateUserOK, DeleteUserOK, ResetPasswordOK
    DEF Administration
<1>2. ASSUME NEW u \in Users, SignIn(u) PROVE IInv'
    <2>1. ASSUME NEW t \in TokenIds, Logout(u, t) PROVE IInv'
        BY <2>1, RevokeOK DEF Logout, IInv, TypeOK
    <2> QED
        BY <1>2, <2>1, LoginOK, LoginBrokenOK, LoginFailedOK, ChangePasswordOK,
           AccessExpiresOK, LockExpiresOK DEF SignIn
<1>3. ASSUME NEW t \in TokenIds, Presented(t) PROVE IInv'
    <2>1. ASSUME Replay(t) PROVE IInv'
        BY <2>1, RevokeOK DEF Replay, IInv, TypeOK
    <2> QED
        BY <1>3, <2>1, RotateOK, TokenExpiresOK DEF Presented
<1> QED
    BY <1>1, <1>2, <1>3, UnchangedOK DEF Next

(* The inductive invariant holds in every reachable state. *)
THEOREM Inductive == Spec => []IInv
BY InitOK, StepOK, PTL DEF Spec

(* Every variable keeps the kind of value the code gives it; the count of   *)
(* failed logins never passes the limit.                                    *)
THEOREM TypeCorrect == Spec => []TypeOK
BY Inductive, PTL DEF IInv

(* Between two successes, or two lock-outs that were sat out, at most       *)
(* max_failed_attempts wrong passwords are checked (login).                 *)
THEOREM Lockout == Spec => []LockoutBoundsGuesses
<1>1. IInv => LockoutBoundsGuesses
    BY DEF IInv, LocksOK, LockoutBoundsGuesses
<1> QED
    BY <1>1, Inductive, PTL

(* A session that can still be refreshed was opened with the password its   *)
(* owner has now, unless the handler that changed it failed half-way.       *)
THEOREM PasswordEndsSessions == Spec => []SessionsFollowPassword
<1>1. IInv => SessionsFollowPassword
    BY DEF IInv, SessionsOK
<1> QED
    BY <1>1, Inductive, PTL

(* Whoever can refresh exists and is active, unless the handler that ended  *)
(* the account failed half-way.                                             *)
THEOREM AccountEndsSessions == Spec => []SessionsHaveActiveOwners
<1>1. IInv => SessionsHaveActiveOwners
    BY DEF IInv, SessionsOK
<1> QED
    BY <1>1, Inductive, PTL

-----------------------------------------------------------------------------
(* The last administrator.                                                 *)

(* Somebody else is left when an administrator who is not the last goes. *)
LEMMA AnotherAdmin ==
    ASSUME NEW u \in ActiveAdmins, ~LastAdmin(u)
    PROVE  \E a \in ActiveAdmins : a # u
<1>1. IsFiniteSet(ActiveAdmins)
    BY UsersAssumption, FS_Subset DEF ActiveAdmins
<1>2. SUFFICES ASSUME ActiveAdmins = {u} PROVE FALSE
    OBVIOUS
<1>3. Cardinality({u}) = 1
    BY FS_Singleton
<1> QED
    BY <1>2, <1>3 DEF LastAdmin

(* An administrator whose row is left alone stays one. *)
LEMMA AdminStays ==
    ASSUME NEW a \in ActiveAdmins, users'[a] = users[a]
    PROVE  a \in ActiveAdmins'
BY DEF ActiveAdmins, Exists

(* Nothing but PATCH and DELETE touches what makes an administrator. *)
LEMMA StandingKept ==
    ASSUME NEW row \in UserRow, NEW flag \in BOOLEAN,
           NEW new \in {WithPassword(row), ChangedPassword(row, flag), Cleared(row),
                        Missed(row), [row EXCEPT !.lock = "over"]}
    PROVE  new.there = row.there /\ new.role = row.role /\ new.active = row.active
<1>1. new.there = row.there /\ new.role = row.role
    BY DEF WithPassword, ChangedPassword, Cleared, Missed, UserRow
<1>2. new.active = row.active
    BY DEF WithPassword, ChangedPassword, Cleared, Missed, UserRow
<1> QED
    BY <1>1, <1>2

LEMMA RowKept ==
    ASSUME NEW a \in ActiveAdmins, NEW u \in Users, NEW row, users \in [Users -> UserRow],
           users' = [users EXCEPT ![u] = row],
           row.there = users[u].there, row.role = users[u].role, row.active = users[u].active
    PROVE  ActiveAdmins' # {}
<1>1. CASE a = u
    <2>1. users'[a] = row
        BY <1>1
    <2> QED
        BY <1>1, <2>1 DEF ActiveAdmins, Exists
<1>2. CASE a # u
    BY <1>2, AdminStays DEF ActiveAdmins
<1> QED
    BY <1>1, <1>2

LEMMA AdminStep == IInv /\ [Next]_vars => (ActiveAdmins # {} => ActiveAdmins' # {})
<1> SUFFICES ASSUME IInv, [Next]_vars, NEW a \in ActiveAdmins PROVE ActiveAdmins' # {}
    OBVIOUS
<1>0. /\ a \in Users /\ users[a].there = "yes" /\ users[a].role = "admin" /\ users[a].active
      /\ users \in [Users -> UserRow]
    BY DEF ActiveAdmins, Exists, IInv, TypeOK
<1>1. ASSUME NEW u \in Users, NEW role \in {Unset, "admin", "other"},
             NEW active \in {Unset, "yes", "no"}, NEW done \in BOOLEAN,
             UpdateUser(u, role, active, done)
      PROVE  ActiveAdmins' # {}
    <2>1. /\ ~(LastAdmin(u) /\ WouldLapse(role, active))
          /\ users' = [users EXCEPT ![u] = Patched(users[u], role, active)]
        BY <1>1 DEF UpdateUser
    <2>2. CASE u \notin ActiveAdmins
        BY <1>0, <2>1, <2>2, AdminStays
    <2>3. CASE u \in ActiveAdmins /\ ~LastAdmin(u)
        <3>1. PICK b \in ActiveAdmins : b # u
            BY <2>3, AnotherAdmin
        <3>2. users'[b] = users[b]
            BY <1>0, <2>1, <3>1 DEF ActiveAdmins
        <3> QED
            BY <3>1, <3>2, AdminStays
    <2>4. CASE u \in ActiveAdmins /\ ~WouldLapse(role, active)
        <3>1. users[u].there = "yes" /\ users[u].role = "admin" /\ users[u].active
            BY <2>4 DEF ActiveAdmins, Exists
        <3>2. users'[u] = Patched(users[u], role, active)
            BY <1>0, <2>1
        <3>3. users'[u].there = "yes" /\ users'[u].role = "admin" /\ users'[u].active
            BY <1>0, <2>4, <3>1, <3>2, PatchedRow
        <3> QED
            BY <3>3 DEF ActiveAdmins, Exists
    <2> QED
        BY <2>1, <2>2, <2>3, <2>4
<1>2. ASSUME NEW u \in Users, NEW done \in BOOLEAN, DeleteUser(u, done)
      PROVE  ActiveAdmins' # {}
    <2>1. /\ ~LastAdmin(u)
          /\ \A b \in Users \ {u} : users'[b] = users[b]
        BY <1>0, <1>2 DEF DeleteUser
    <2>2. CASE u \notin ActiveAdmins
        BY <1>0, <2>1, <2>2, AdminStays
    <2>3. CASE u \in ActiveAdmins
        BY <2>1, <2>3, AnotherAdmin, AdminStays DEF ActiveAdmins
    <2> QED
        BY <2>2, <2>3
<1>3. ASSUME NEW u \in Users, SeedAdmin(u) \/ (\E role \in {"admin", "other"} : CreateUser(u, role))
      PROVE  ActiveAdmins' # {}
    <2>1. users'[a] = users[a]
        BY <1>0, <1>3 DEF SeedAdmin, CreateUser
    <2> QED
        BY <2>1, AdminStays
<1>4. ASSUME NEW u \in Users,
             \/ \E done \in BOOLEAN : ResetPassword(u, done)
             \/ \E flag, done \in BOOLEAN : ChangePassword(u, flag, done)
             \/ LoginBroken(u)
             \/ \E t \in TokenIds : Login(u, t)
             \/ LockExpires(u)
      PROVE  ActiveAdmins' # {}
    <2>0. ASSUME NEW flag \in BOOLEAN,
                 NEW row \in {WithPassword(users[u]), ChangedPassword(users[u], flag),
                              Cleared(users[u]), Missed(users[u]),
                              [users[u] EXCEPT !.lock = "over"]},
                 users' = [users EXCEPT ![u] = row]
          PROVE  ActiveAdmins' # {}
        <3>1. users[u] \in UserRow
            BY <1>0
        <3>2. /\ row.there = users[u].there /\ row.role = users[u].role
              /\ row.active = users[u].active
            BY <3>1, StandingKept
        <3> QED
            BY <1>0, <2>0, <3>2, RowKept
    <2>1. CASE \E done \in BOOLEAN : ResetPassword(u, done)
        <3>1. users' = [users EXCEPT ![u] = WithPassword(users[u])]
            BY <2>1 DEF ResetPassword
        <3> QED
            BY <2>0, <3>1, TRUE \in BOOLEAN
    <2>2. CASE \E flag, done \in BOOLEAN : ChangePassword(u, flag, done)
        <3>1. PICK flag \in BOOLEAN : users' = [users EXCEPT ![u] = ChangedPassword(users[u], flag)]
            BY <2>2 DEF ChangePassword
        <3> QED
            BY <2>0, <3>1
    <2>3. CASE LoginBroken(u) \/ \E t \in TokenIds : Login(u, t)
        <3>1. users' = [users EXCEPT ![u] = Cleared(users[u])]
            BY <2>3 DEF LoginBroken, Login
        <3> QED
            BY <2>0, <3>1, TRUE \in BOOLEAN
    <2>4. CASE LockExpires(u)
        <3>1. users' = [users EXCEPT ![u] = [users[u] EXCEPT !.lock = "over"]]
            BY <2>4 DEF LockExpires
        <3> QED
            BY <2>0, <3>1, TRUE \in BOOLEAN
    <2> QED
        BY <1>4, <2>1, <2>2, <2>3, <2>4
<1>5. ASSUME NEW u \in Users, LoginFailed(u) PROVE ActiveAdmins' # {}
    <2> DEFINE old == IF users[u].lock = "over" THEN Cleared(users[u]) ELSE users[u]
    <2>1. users' = [users EXCEPT ![u] = Missed(old)]
        BY <1>5 DEF LoginFailed
    <2>2. /\ old \in UserRow
          /\ old.there = users[u].there /\ old.role = users[u].role
          /\ old.active = users[u].active
        BY <1>0, ClearedRow, StandingKept
    <2> HIDE DEF old
    <2>3. /\ Missed(old).there = old.there /\ Missed(old).role = old.role
          /\ Missed(old).active = old.active
        BY <2>2, StandingKept
    <2> QED
        BY <1>0, <2>1, <2>2, <2>3, RowKept
<1>6. ASSUME UNCHANGED users PROVE ActiveAdmins' # {}
    BY <1>6, AdminStays
<1>7. ASSUME NEW u \in Users, Administration(u) PROVE ActiveAdmins' # {}
    BY <1>1, <1>2, <1>3, <1>4, <1>7 DEF Administration
<1>8. ASSUME NEW u \in Users, SignIn(u) PROVE ActiveAdmins' # {}
    BY <1>4, <1>5, <1>6, <1>8 DEF SignIn, Logout, AccessExpires
<1>9. ASSUME NEW t \in TokenIds, Presented(t) PROVE ActiveAdmins' # {}
    BY <1>6, <1>9 DEF Presented, Rotate, Replay, TokenExpires
<1> QED
    BY <1>6, <1>7, <1>8, <1>9 DEF Next, vars

(* No sequence of demotions, deactivations and deletions leaves the system  *)
(* without an active administrator (update_user and delete_user).           *)
THEOREM AdministratorRemains == Spec => AdminRemains
<1>1. IInv /\ [Next]_vars => [ActiveAdmins # {} => ActiveAdmins' # {}]_vars
    BY AdminStep
<1> QED
    BY <1>1, Inductive, PTL DEF Spec, AdminRemains

-----------------------------------------------------------------------------
(* Sessions.                                                               *)

IsOpen(f) == \E t \in OfFamily(f) : Live(t)

(* A step that opens no family and names none is a step of TokenFamilies. *)
LEMMA OnlyCloses ==
    ASSUME \A f \in TokenIds : tokens'[f].family = f <=> tokens[f].family = f,
           \A f \in TokenIds : IsOpen(f)' => IsOpen(f)
    PROVE  Family!Next
<1> DEFINE F == {f \in TokenIds : Session[f] = "open" /\ Session'[f] # "open"}
<1>1. \A f \in TokenIds :
        /\ Session[f] = IF tokens[f].family # f THEN "new"
                        ELSE IF IsOpen(f) THEN "open" ELSE "closed"
        /\ Session'[f] = IF tokens'[f].family # f THEN "new"
                         ELSE IF IsOpen(f)' THEN "open" ELSE "closed"
    BY DEF Session, IsOpen
<1>2. \A f \in TokenIds : Session'[f] = IF f \in F THEN "closed" ELSE Session[f]
    BY <1>1
<1>3. Session' = [f \in TokenIds |-> IF f \in F THEN "closed" ELSE Session[f]]
    BY <1>2 DEF Session
<1>4. F \in SUBSET TokenIds /\ \A f \in F : Session[f] = "open"
    OBVIOUS
<1> QED
    BY <1>3, <1>4 DEF Family!Next, Family!Close

LEMMA RowsEnd ==
    ASSUME \A t \in TokenIds : /\ tokens'[t].family = tokens[t].family
                               /\ tokens'[t].status = "live" => tokens[t].status = "live"
    PROVE  Family!Next
<1>1. \A f \in TokenIds : IsOpen(f)' => IsOpen(f)
    BY DEF IsOpen, OfFamily, Live
<1> QED
    BY <1>1, OnlyCloses

LEMMA RevokeEnds ==
    ASSUME IInv, NEW S, tokens' = Revoked(tokens, S)
    PROVE  Family!Next
BY RevokedRows, RowsEnd DEF IInv, TypeOK, TokensTyped

LEMMA LoginOpens ==
    ASSUME IInv, NEW u \in Users, NEW t \in TokenIds, Login(u, t)
    PROVE  Family!Next
<1>1. /\ tokens'[t] = [status |-> "live", user |-> u, family |-> t]
      /\ \A s \in TokenIds \ {t} : tokens'[s] = tokens[s]
    BY StoredRows DEF Login, IInv, TypeOK, TokensTyped
<1>2. \A s \in TokenIds : tokens[s].family # t
    BY DEF Login, IsNext, IInv, SessionsOK, RowsOK, TokenIds
<1>3. ASSUME NEW f \in TokenIds \ {t} PROVE IsOpen(f)' <=> IsOpen(f)
    <2>1. \A s \in TokenIds : tokens'[s].family = f <=> tokens[s].family = f
        <3>1. IsNext(t)
            BY DEF Login
        <3>2. tokens[t].family = 0
            BY <3>1 DEF IsNext, IInv, SessionsOK, RowsOK
        <3> QED
            BY <1>1, <3>2 DEF TokenIds
    <2>2. \A s \in TokenIds : tokens'[s].family = f => tokens'[s].status = tokens[s].status
        BY <1>1, <2>1
    <2>3. OfFamily(f)' = OfFamily(f)
        BY <2>1 DEF OfFamily
    <2>4. \A s \in OfFamily(f) : tokens'[s].status = tokens[s].status
        BY <2>1, <2>2 DEF OfFamily
    <2> QED
        BY <2>3, <2>4 DEF IsOpen, Live
<1>4. IsOpen(t)'
    BY <1>1 DEF IsOpen, OfFamily, Live
<1>5. Session[t] = "new"
    BY <1>2 DEF Session
<1>6. \A f \in TokenIds : Session'[f] = IF f = t THEN "open" ELSE Session[f]
    BY <1>1, <1>3, <1>4 DEF Session, IsOpen
<1>7. Session' = [Session EXCEPT ![t] = "open"]
    BY <1>6 DEF Session
<1> QED
    BY <1>5, <1>7 DEF Family!Next, Family!Open

(* Rotation hands an open session on; it opens none. *)
LEMMA RotateKeeps ==
    ASSUME IInv, NEW t \in TokenIds, NEW n \in TokenIds, NEW done \in BOOLEAN,
           Rotate(t, n, done)
    PROVE  Family!Next
<1> DEFINE f == tokens[t].family
           left == Revoked(tokens, {t})
<1>1. /\ tokens[t].status = "live" /\ tokens[t].user \in Users
      /\ f \in TokenIds
      /\ tokens[n].family = 0 /\ tokens[f].family = f
    BY DEF Rotate, Live, IsNext, IInv, TypeOK, TokensTyped, Row, SessionsOK, RowsOK,
           OwnersOK, TokenIds
<1>2. /\ left \in [TokenIds -> Row]
      /\ \A s \in TokenIds : /\ left[s].family = tokens[s].family
                             /\ left[s].status = "live" => tokens[s].status = "live"
    BY RevokedRows DEF IInv, TypeOK, TokensTyped
<1>3. CASE ~done
    BY <1>3, RevokeEnds DEF Rotate
<1>4. CASE done
    <2>1. tokens' = Stored(left, n, tokens[t].user, f)
        BY <1>4 DEF Rotate
    <2> HIDE DEF left
    <2>2. /\ tokens'[n] = [status |-> "live", user |-> tokens[t].user, family |-> f]
          /\ \A s \in TokenIds \ {n} : tokens'[s] = left[s]
        BY <1>1, <1>2, <2>1, StoredRows
    <2>3. tokens'[n].family = f
        BY <2>2
    <2>4. \A g \in TokenIds : tokens'[g].family = g <=> tokens[g].family = g
        BY <1>1, <1>2, <2>2, <2>3 DEF TokenIds
    <2>5. IsOpen(f)
        BY <1>1 DEF IsOpen, OfFamily, Live
    <2>6. \A g \in TokenIds : IsOpen(g)' => IsOpen(g)
        BY <1>2, <2>2, <2>3, <2>5 DEF IsOpen, OfFamily, Live
    <2> QED
        BY <2>4, <2>6, OnlyCloses
<1> QED
    BY <1>3, <1>4

LEMMA SessionStep == IInv /\ [Next]_vars => [Family!Next]_Session
<1> SUFFICES ASSUME IInv, [Next]_vars PROVE Family!Next \/ UNCHANGED Session
    OBVIOUS
<1>1. ASSUME UNCHANGED tokens PROVE UNCHANGED Session
    BY <1>1 DEF Session, OfFamily, Live
<1>2. ASSUME NEW u \in Users, NEW done, EndSessions(u, done)
      PROVE  Family!Next \/ UNCHANGED Session
    BY <1>1, <1>2, RevokeEnds DEF EndSessions
<1>3. ASSUME NEW u \in Users, Administration(u)
      PROVE  Family!Next \/ UNCHANGED Session
    BY <1>1, <1>2, <1>3
    DEF Administration, SeedAdmin, CreateUser, UpdateUser, DeleteUser, ResetPassword
<1>4. ASSUME NEW u \in Users, SignIn(u)
      PROVE  Family!Next \/ UNCHANGED Session
    BY <1>1, <1>2, <1>4, LoginOpens, RevokeEnds
    DEF SignIn, LoginBroken, LoginFailed, ChangePassword, Logout, AccessExpires, LockExpires
<1>5. ASSUME NEW t \in TokenIds, Presented(t)
      PROVE  Family!Next \/ UNCHANGED Session
    <2>1. ASSUME TokenExpires(t) PROVE Family!Next
        <3>1. Live(t) /\ tokens' = Expired(t)
            BY <2>1 DEF TokenExpires
        <3> QED
            BY <3>1, ExpiredRows, RowsEnd DEF IInv, TypeOK
    <2> QED
        BY <1>5, <2>1, RotateKeeps, RevokeEnds DEF Presented, Replay
<1> QED
    BY <1>1, <1>3, <1>4, <1>5 DEF Next, vars

LEMMA SessionInit == Init => Family!Init
BY DEF Init, EmptyTable, Family!Init, Session, TokenIds

(* The handlers keep the promise of TokenFamilies: a session that was ended *)
(* stays ended, whatever tokens are presented later.                        *)
THEOREM SessionsEndForGood == Spec => SessionsStayEnded
<1>1. Spec => Family!Spec
    BY Inductive, SessionInit, SessionStep, PTL DEF Spec, Family!Spec
<1> QED
    BY <1>1 DEF SessionsStayEnded
=============================================================================
