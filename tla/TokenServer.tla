----------------------------- MODULE TokenServer -----------------------------
(***************************************************************************)
(* Refresh requests step by step, as rotate_refresh_token of               *)
(* backend/app/auth.py runs them: each access to the table is a            *)
(* transaction of its own, and nothing holds a lock from the SELECT to the *)
(* INSERT.  With one uvicorn process the steps of a request follow each    *)
(* other directly; with several workers, which the comments of the         *)
(* function allow for, any number of requests interleave here.  A step     *)
(* that is never taken stands for an exception or the death of a worker.   *)
(*                                                                         *)
(* The other handlers that write the table do it in one transaction.       *)
(***************************************************************************)
EXTENDS RefreshTokens

CONSTANT Requests   \* the refresh requests under way at one time

VARIABLE job        \* what each request is about to do, on which row

svars == <<tokens, job>>

Steps == {"idle", "select", "update", "insert", "kill", "done"}

(* tok is the row of the token that was presented, 0 for none; new is the   *)
(* row of the token the answer carries, 0 for a refusal.                    *)
Job == [step : Steps, tok : TokenIds \cup {0}, new : TokenIds \cup {0}]

NoJob == [step |-> "idle", tok |-> 0, new |-> 0]

GoOn(r, step) == job' = [job EXCEPT ![r].step = step]

(* POST /api/auth/refresh arrives, with the refresh cookie or without. *)
Arrive(r, t) ==
    /\ job[r].step = "idle"
    /\ t # 0 => tokens[t].status # "free"
    /\ job' = [job EXCEPT ![r] = [step |-> "select", tok |-> t, new |-> 0]]
    /\ UNCHANGED tokens

(* Mutant: the status of the row is taken for the next step. *)
VerdictRaw(row) == IF row.status = "live" THEN "update" ELSE row.status

Verdict(row) ==
    CASE row.status = "live" -> "update"
      [] row.status = "revoked" -> "kill"
      [] OTHER -> "done"

Select(r) ==
    /\ job[r].step = "select"
    /\ GoOn(r, IF job[r].tok = 0 THEN "done" ELSE Verdict(tokens[job[r].tok]))
    /\ UNCHANGED tokens

(* Mutant: the count of the rows that were changed is not looked at. *)
UpdateUnchecked(r) ==
    /\ job[r].step = "update"
    /\ tokens' = Revoked(tokens, {job[r].tok})
    /\ GoOn(r, "insert")

(* Mutant: the old token stays good. *)
UpdateNothing(r) ==
    /\ job[r].step = "update"
    /\ GoOn(r, IF Unrevoked(tokens[job[r].tok]) THEN "insert" ELSE "kill")
    /\ UNCHANGED tokens

(* Revoke the token if nobody has since the SELECT; else it was reused. *)
Update(r) ==
    /\ job[r].step = "update"
    /\ tokens' = Revoked(tokens, {job[r].tok})
    /\ GoOn(r, IF Unrevoked(tokens[job[r].tok]) THEN "insert" ELSE "kill")

Insert(r, n) ==
    /\ job[r].step = "insert"
    /\ IsNext(n)
    /\ LET old == tokens[job[r].tok]
       IN tokens' = Stored(tokens, n, old.user, old.family)
    /\ job' = [job EXCEPT ![r].step = "done", ![r].new = n]

Kill(r) ==
    /\ job[r].step = "kill"
    /\ tokens' = Revoked(tokens, OfFamily(tokens[job[r].tok].family))
    /\ GoOn(r, "done")

(* The answer leaves, or the request has died at whatever step it was. *)
Leave(r) ==
    /\ job[r].step # "idle"
    /\ job' = [job EXCEPT ![r] = NoJob]
    /\ UNCHANGED tokens

(* login; revoke_all_user_tokens; logout; expires_at passes. *)
SignIn(u, t) ==
    /\ IsNext(t)
    /\ tokens' = Stored(tokens, t, u, t)
    /\ UNCHANGED job

SignOutEverywhere(u) ==
    /\ tokens' = Revoked(tokens, OfUser(u))
    /\ UNCHANGED job

SignOut(t) ==
    /\ tokens' = Revoked(tokens, {t})
    /\ UNCHANGED job

Expire(t) ==
    /\ Live(t)
    /\ tokens' = Expired(t)
    /\ UNCHANGED job

ServerInit ==
    /\ tokens = EmptyTable
    /\ job = [r \in Requests |-> NoJob]

Handle(r) ==
    \/ Select(r)
    \/ Update(r)
    \/ \E n \in TokenIds : Insert(r, n)
    \/ Kill(r)

ServerNext ==
    \/ \E r \in Requests :
        (\E t \in TokenIds \cup {0} : Arrive(r, t)) \/ Handle(r) \/ Leave(r)
    \/ \E u \in Users : SignOutEverywhere(u) \/ \E t \in TokenIds : SignIn(u, t)
    \/ \E t \in TokenIds : SignOut(t) \/ Expire(t)

ServerSpec == ServerInit /\ [][ServerNext]_svars

-----------------------------------------------------------------------------
ServerTypeOK ==
    /\ TokensTyped
    /\ job \in [Requests -> Job]

(* A rotation that has passed its SELECT holds the family open: the INSERT  *)
(* looks at nothing, and the UPDATE not at expires_at.                      *)
Holds(r, f) ==
    /\ job[r].tok # 0 /\ tokens[job[r].tok].family = f
    /\ \/ job[r].step = "insert"
       \/ job[r].step = "update" /\ Unrevoked(tokens[job[r].tok])

ServerSession ==
    [f \in TokenIds |->
        IF tokens[f].family # f THEN "new"
        ELSE IF (\E t \in OfFamily(f) : Live(t)) \/ (\E r \in Requests : Holds(r, f))
             THEN "open" ELSE "closed"]

ServedFamily ==
    INSTANCE TokenFamilies WITH Families <- TokenIds, session <- ServerSession

(* Whatever requests interleave, in however many workers, a session that    *)
(* is over stays over.                                                      *)
SessionsEndForGood == ServedFamily!Spec
=============================================================================
