---------------------------- MODULE RefreshTokens ----------------------------
(***************************************************************************)
(* The table refresh_tokens of backend/app/db.py and the statements run on *)
(* it.  A row's id is its AUTOINCREMENT key; a family is named by the id   *)
(* of its first row (the code draws a UUID).  Rows are never deleted: the  *)
(* foreign key's ON DELETE CASCADE is not enforced, because no connection  *)
(* sets PRAGMA foreign_keys.  The hash, the addresses, the user agent and  *)
(* rotation_counter, which nothing reads, are left out.                    *)
(***************************************************************************)
EXTENDS Naturals, FiniteSets

CONSTANTS
    Users,      \* ids of users
    NoUser,     \* the owner of a row that does not exist yet
    MaxTokens   \* bound: rows the table may hold

ASSUME MaxTokensAssumption == MaxTokens \in Nat
ASSUME NoUserAssumption == NoUser \notin Users

VARIABLE tokens

TokenIds == 1..MaxTokens

(* "expired" is a row past expires_at with revoked_at still NULL. *)
Status == {"free", "live", "expired", "revoked"}

Row == [status : Status, user : Users \cup {NoUser}, family : TokenIds \cup {0}]

EmptyTable == [t \in TokenIds |-> [status |-> "free", user |-> NoUser, family |-> 0]]

(* The key the next INSERT draws. *)
IsNext(t) ==
    /\ tokens[t].status = "free"
    /\ \A s \in TokenIds : s < t => tokens[s].status # "free"

Stored(table, t, u, f) ==
    [table EXCEPT ![t] = [status |-> "live", user |-> u, family |-> f]]

(* UPDATE ... SET revoked_at = now WHERE <row in S> AND revoked_at IS NULL *)
Unrevoked(row) == row.status \in {"live", "expired"}

Revoked(table, S) ==
    [t \in TokenIds |->
        IF t \in S /\ Unrevoked(table[t]) THEN [table[t] EXCEPT !.status = "revoked"]
                                          ELSE table[t]]

(* The WHERE clauses of revoke_all_user_tokens and revoke_token_family. *)
OfUser(u) == {t \in TokenIds : tokens[t].user = u}
OfFamily(f) == {t \in TokenIds : tokens[t].family = f}

Live(t) == tokens[t].status = "live"

TokensTyped == tokens \in [TokenIds -> Row]

(* expires_at passes. *)
Expired(t) == [tokens EXCEPT ![t].status = "expired"]

(* A family never has two tokens that are not revoked: rotation hands the   *)
(* session on, it does not copy it (auth.rotate_refresh_token).             *)
OneLiveToken ==
    \A s, t \in TokenIds :
        /\ Unrevoked(tokens[s]) /\ Unrevoked(tokens[t])
        /\ tokens[s].family = tokens[t].family
        => s = t
=============================================================================
