--------------------------- MODULE WebClientProofs ---------------------------
(***************************************************************************)
(* Proofs about TokenServer and about WebClient, which is composed with it *)
(* and inherits its theorems.  First the server alone, for any number of   *)
(* requests, users and tokens: a family never has two tokens that are      *)
(* good, and a session that is over stays over.                            *)
(***************************************************************************)
EXTENDS WebClient, RefreshTokensProofs

-----------------------------------------------------------------------------
(* The inductive invariant.                                                *)

(* A family is named by its first row; only rows that exist have one. *)
RowsOK ==
    \A t \in TokenIds :
        /\ tokens[t].status = "free" <=> tokens[t].family = 0
        /\ tokens[t].family # 0 => tokens[tokens[t].family].family = tokens[t].family

(* A request works on a row that exists, or on none until its SELECT. *)
JobsOK ==
    \A r \in Requests :
        /\ job[r].tok # 0 => tokens[job[r].tok].status # "free"
        /\ job[r].step \in {"update", "insert", "kill"} => job[r].tok # 0

(* Who is about to insert has revoked the one good token of the family, and *)
(* is alone in that.                                                        *)
InsertsOK ==
    \A r \in Requests :
        job[r].step = "insert" =>
            /\ \A t \in TokenIds :
                 tokens[t].family = tokens[job[r].tok].family => ~Unrevoked(tokens[t])
            /\ \A q \in Requests :
                 job[q].step = "insert"
                   /\ tokens[job[q].tok].family = tokens[job[r].tok].family => q = r

SInv == ServerTypeOK /\ RowsOK /\ JobsOK /\ OneLiveToken /\ InsertsOK

-----------------------------------------------------------------------------
(* Revoking and expiring keep the invariant, whoever does it, as long as no  *)
(* request comes to its insert by it.                                        *)
LEMMA Weakened ==
    ASSUME SInv, ServerTypeOK',
           \A t \in TokenIds :
             /\ tokens'[t].family = tokens[t].family
             /\ tokens'[t].status = "free" <=> tokens[t].status = "free"
             /\ Unrevoked(tokens'[t]) => Unrevoked(tokens[t]),
           \A r \in Requests :
             /\ job'[r].tok = job[r].tok \/ job'[r].tok = 0
                  \/ tokens[job'[r].tok].status # "free"
             /\ job'[r].step \in {"update", "insert", "kill"} => job'[r].tok # 0
             /\ job'[r].step = "insert" => job[r].step = "insert" /\ job'[r].tok = job[r].tok
    PROVE  SInv'
<1> USE DEF SInv
<1>1. RowsOK'
    BY DEF RowsOK, ServerTypeOK, TokensTyped, Row
<1>2. JobsOK'
    BY DEF JobsOK, ServerTypeOK, Job
<1>3. OneLiveToken'
    BY DEF OneLiveToken
<1>4. InsertsOK'
    <2>1. \A r \in Requests :
            job'[r].step = "insert" =>
                /\ job[r].step = "insert" /\ job'[r].tok = job[r].tok
                /\ job[r].tok \in TokenIds
                /\ tokens'[job'[r].tok].family = tokens[job[r].tok].family
        BY DEF JobsOK, ServerTypeOK, Job
    <2> QED
        BY <2>1 DEF InsertsOK
<1> QED
    BY <1>1, <1>2, <1>3, <1>4

-----------------------------------------------------------------------------
(* One lemma per step of a request, and one for each other handler.        *)

LEMMA InitOK == ServerInit => SInv
<1> SUFFICES ASSUME ServerInit PROVE SInv
    OBVIOUS
<1> USE DEF ServerInit, EmptyTable, NoJob
<1>1. ServerTypeOK
    BY DEF ServerTypeOK, TokensTyped, Row, Status, Job, Steps
<1> QED
    BY <1>1 DEF SInv, RowsOK, JobsOK, OneLiveToken, InsertsOK, Unrevoked

LEMMA ArriveOK ==
    ASSUME SInv, NEW r \in Requests, NEW t \in TokenIds \cup {0}, Arrive(r, t)
    PROVE  SInv'
<1>1. ServerTypeOK'
    BY DEF SInv, Arrive, ServerTypeOK, TokensTyped, Job, Steps
<1> QED
    BY <1>1, Weakened DEF SInv, Arrive, ServerTypeOK, Job, JobsOK

LEMMA SelectOK ==
    ASSUME SInv, NEW r \in Requests, Select(r)
    PROVE  SInv'
<1>1. ServerTypeOK'
    BY DEF SInv, Select, GoOn, Verdict, ServerTypeOK, TokensTyped, Job, Steps
<1>2. \A q \in Requests :
        /\ job'[q].tok = job[q].tok
        /\ job'[q].step \in {"update", "insert", "kill"} => job'[q].tok # 0
        /\ job'[q].step = "insert" => job[q].step = "insert" /\ job'[q].tok = job[q].tok
    BY DEF SInv, Select, GoOn, Verdict, ServerTypeOK, Job, JobsOK
<1>3. tokens' = tokens
    BY DEF Select
<1> QED
    BY <1>1, <1>2, <1>3, Weakened

LEMMA UpdateOK ==
    ASSUME SInv, NEW r \in Requests, Update(r)
    PROVE  SInv'
<1> DEFINE t == job[r].tok
<1>1. t \in TokenIds /\ TokensTyped
    BY DEF SInv, Update, ServerTypeOK, Job, JobsOK
<1>2. tokens' = Revoked(tokens, {t})
    BY DEF Update
<1>3. /\ tokens' \in [TokenIds -> Row]
      /\ \A s \in TokenIds :
            /\ tokens'[s].family = tokens[s].family
            /\ tokens'[s].status = "free" <=> tokens[s].status = "free"
            /\ Unrevoked(tokens'[s]) <=> Unrevoked(tokens[s]) /\ s # t
    BY <1>1, <1>2, RevokedRows DEF TokensTyped
<1>4. ServerTypeOK'
    <2>1. PICK step \in Steps : job' = [job EXCEPT ![r].step = step]
        BY DEF Update, GoOn, Steps
    <2> QED
        BY <1>3, <2>1 DEF SInv, ServerTypeOK, TokensTyped, Job
<1>5. CASE ~Unrevoked(tokens[t])
    BY <1>3, <1>4, <1>5, Weakened DEF SInv, Update, GoOn, ServerTypeOK, Job, JobsOK
<1>6. CASE Unrevoked(tokens[t])
    <2>1. /\ job' = [job EXCEPT ![r].step = "insert"]
          /\ job \in [Requests -> Job]
        BY <1>6 DEF SInv, Update, GoOn, ServerTypeOK
    <2>2. RowsOK'
        BY <1>3 DEF SInv, RowsOK, ServerTypeOK, TokensTyped, Row
    <2>3. JobsOK'
        BY <1>1, <1>3, <2>1 DEF SInv, JobsOK, Job, Update
    <2>4. OneLiveToken'
        BY <1>3 DEF SInv, OneLiveToken
    <2>5. \A s \in TokenIds : tokens[s].family = tokens[t].family => ~Unrevoked(tokens'[s])
        BY <1>1, <1>3, <1>6 DEF SInv, OneLiveToken
    <2>6. \A q \in Requests :
            job[q].step = "insert" => /\ job[q].tok \in TokenIds
                                      /\ tokens[job[q].tok].family # tokens[t].family
        BY <1>1, <1>6 DEF SInv, InsertsOK, JobsOK, ServerTypeOK, Job
    <2>7. InsertsOK'
        BY <1>1, <1>3, <2>1, <2>5, <2>6 DEF SInv, InsertsOK, Job
    <2> QED
        BY <1>4, <2>2, <2>3, <2>4, <2>7 DEF SInv
<1> QED
    BY <1>5, <1>6

(* What an insert finds, and the row it writes. *)
LEMMA Inserted ==
    ASSUME SInv, NEW r \in Requests, NEW n \in TokenIds, Insert(r, n)
    PROVE  LET t == job[r].tok
               f == tokens[t].family
           IN /\ t \in TokenIds /\ f \in TokenIds /\ tokens[f].family = f
              /\ tokens[n].status = "free" /\ tokens[n].family = 0
              /\ tokens[t].status # "free"
              /\ tokens' \in [TokenIds -> Row]
              /\ tokens'[n] = [status |-> "live", user |-> tokens[t].user, family |-> f]
              /\ \A s \in TokenIds \ {n} : tokens'[s] = tokens[s]
<1> DEFINE t == job[r].tok
           f == tokens[t].family
<1>1. /\ t \in TokenIds /\ f \in TokenIds /\ tokens[f].family = f
      /\ tokens[n].status = "free" /\ tokens[n].family = 0
      /\ tokens[t].status # "free" /\ tokens[t].user \in Users \cup {NoUser}
    BY DEF SInv, Insert, IsNext, ServerTypeOK, TokensTyped, Job, Row, JobsOK, RowsOK, TokenIds
<1>2. /\ tokens' \in [TokenIds -> Row]
      /\ tokens'[n] = [status |-> "live", user |-> tokens[t].user, family |-> f]
      /\ \A s \in TokenIds \ {n} : tokens'[s] = tokens[s]
    BY <1>1, StoredRows DEF Insert, SInv, ServerTypeOK, TokensTyped
<1> QED
    BY <1>1, <1>2

LEMMA InsertOK ==
    ASSUME SInv, NEW r \in Requests, NEW n \in TokenIds, Insert(r, n)
    PROVE  SInv'
<1> DEFINE t == job[r].tok
           f == tokens[t].family
<1>1. /\ t \in TokenIds /\ f \in TokenIds /\ tokens[f].family = f
      /\ tokens[n].status = "free" /\ tokens[n].family = 0
    BY Inserted
<1>2. /\ tokens' \in [TokenIds -> Row]
      /\ tokens'[n] = [status |-> "live", user |-> tokens[t].user, family |-> f]
      /\ \A s \in TokenIds \ {n} : tokens'[s] = tokens[s]
    BY Inserted
<1>3. \A q \in Requests : /\ job'[q].tok = job[q].tok
                          /\ job'[q].step = IF q = r THEN "done" ELSE job[q].step
                          /\ job'[q] \in Job
    BY DEF Insert, SInv, ServerTypeOK, Job, Steps
<1>4. ServerTypeOK'
    <2>1. job' = [q \in Requests |-> job'[q]]
        BY DEF Insert, SInv, ServerTypeOK
    <2>2. job' \in [Requests -> Job]
        BY <1>3, <2>1
    <2> QED
        BY <1>2, <2>2 DEF ServerTypeOK, TokensTyped
<1>5. RowsOK'
    BY <1>1, <1>2 DEF SInv, RowsOK, ServerTypeOK, TokensTyped, Row, TokenIds
<1>6. JobsOK'
    <2>1. \A q \in Requests : job[q].tok \in TokenIds \cup {0}
        BY DEF SInv, ServerTypeOK, Job
    <2>2. \A q \in Requests : job[q].tok # 0 => tokens'[job[q].tok].status # "free"
        BY <1>2, <2>1 DEF SInv, JobsOK
    <2>3. \A q \in Requests :
            job'[q].step \in {"update", "insert", "kill"} => job[q].tok # 0
        BY <1>3 DEF SInv, JobsOK
    <2> QED
        BY <1>3, <2>2, <2>3 DEF JobsOK
<1>7. \A s \in TokenIds : tokens[s].family = f => ~Unrevoked(tokens[s])
    BY DEF SInv, InsertsOK, Insert
<1>8. OneLiveToken'
    BY <1>1, <1>2, <1>7 DEF SInv, OneLiveToken, Unrevoked
<1>9. \A q \in Requests \ {r} :
        job[q].step = "insert" => /\ job[q].tok \in TokenIds \ {n}
                                  /\ tokens[job[q].tok].family # f
    BY <1>1 DEF SInv, InsertsOK, Insert, JobsOK, ServerTypeOK, Job
<1>10. InsertsOK'
    BY <1>1, <1>2, <1>3, <1>9 DEF SInv, InsertsOK
<1> QED
    BY <1>4, <1>5, <1>6, <1>8, <1>10 DEF SInv

LEMMA KillOK ==
    ASSUME SInv, NEW r \in Requests, Kill(r)
    PROVE  SInv'
<1> DEFINE S == OfFamily(tokens[job[r].tok].family)
<1>1. tokens' = Revoked(tokens, S)
    BY DEF Kill
<1>2. /\ tokens' \in [TokenIds -> Row]
      /\ \A t \in TokenIds :
            /\ tokens'[t].family = tokens[t].family
            /\ tokens'[t].status = "free" <=> tokens[t].status = "free"
            /\ Unrevoked(tokens'[t]) => Unrevoked(tokens[t])
    BY <1>1, RevokedRows DEF SInv, ServerTypeOK, TokensTyped
<1>3. /\ ServerTypeOK'
      /\ \A q \in Requests :
            /\ job'[q].tok = job[q].tok
            /\ job'[q].step \in {"update", "insert", "kill"} => job'[q].tok # 0
            /\ job'[q].step = "insert" => job[q].step = "insert" /\ job'[q].tok = job[q].tok
    BY <1>2 DEF Kill, GoOn, SInv, ServerTypeOK, TokensTyped, Job, Steps, JobsOK
<1> QED
    BY <1>2, <1>3, Weakened

LEMMA LeaveOK ==
    ASSUME SInv, NEW r \in Requests, Leave(r)
    PROVE  SInv'
<1>1. /\ ServerTypeOK'
      /\ \A q \in Requests :
            /\ job'[q].tok = job[q].tok \/ job'[q].tok = 0
            /\ job'[q].step \in {"update", "insert", "kill"} => job'[q].tok # 0
            /\ job'[q].step = "insert" => job[q].step = "insert" /\ job'[q].tok = job[q].tok
    BY DEF Leave, NoJob, SInv, ServerTypeOK, TokensTyped, Job, Steps, JobsOK
<1>2. tokens' = tokens
    BY DEF Leave
<1> QED
    BY <1>1, <1>2, Weakened

LEMMA SignInOK ==
    ASSUME SInv, NEW u \in Users, NEW t \in TokenIds, SignIn(u, t)
    PROVE  SInv'
<1>1. /\ tokens' \in [TokenIds -> Row]
      /\ tokens'[t] = [status |-> "live", user |-> u, family |-> t]
      /\ \A s \in TokenIds \ {t} : tokens'[s] = tokens[s]
    BY StoredRows DEF SignIn, SInv, ServerTypeOK, TokensTyped
<1>2. \A s \in TokenIds : tokens[s].family # t
    BY DEF SignIn, IsNext, SInv, RowsOK, TokenIds
<1>3. tokens[t].status = "free" /\ tokens[t].family = 0
    BY DEF SignIn, IsNext, SInv, RowsOK
<1>4. ServerTypeOK'
    BY <1>1 DEF SignIn, SInv, ServerTypeOK, TokensTyped
<1>5. RowsOK'
    BY <1>1, <1>2, <1>3 DEF SInv, RowsOK, ServerTypeOK, TokensTyped, Row, TokenIds
<1>6. JobsOK'
    BY <1>1, <1>3 DEF SignIn, SInv, JobsOK, ServerTypeOK, Job
<1>7. OneLiveToken'
    BY <1>1, <1>2, <1>3 DEF SInv, OneLiveToken
<1>8. \A q \in Requests :
        job[q].step = "insert" => /\ job[q].tok \in TokenIds \ {t}
                                  /\ tokens[job[q].tok].family # t
    BY <1>2, <1>3 DEF SInv, JobsOK, ServerTypeOK, Job
<1>9. InsertsOK'
    BY <1>1, <1>2, <1>8 DEF SignIn, SInv, InsertsOK
<1> QED
    BY <1>4, <1>5, <1>6, <1>7, <1>9 DEF SInv

(* revoke_refresh_token and revoke_all_user_tokens, for any set of rows. *)
LEMMA SignOutOK ==
    ASSUME SInv, NEW S, tokens' = Revoked(tokens, S), UNCHANGED job
    PROVE  SInv'
<1>1. /\ tokens' \in [TokenIds -> Row]
      /\ \A s \in TokenIds :
            /\ tokens'[s].family = tokens[s].family
            /\ tokens'[s].status = "free" <=> tokens[s].status = "free"
            /\ Unrevoked(tokens'[s]) => Unrevoked(tokens[s])
    BY RevokedRows DEF SInv, ServerTypeOK, TokensTyped
<1>2. ServerTypeOK'
    BY <1>1 DEF SInv, ServerTypeOK, TokensTyped
<1> QED
    BY <1>1, <1>2, Weakened DEF SInv, JobsOK

LEMMA ExpireOK ==
    ASSUME SInv, NEW t \in TokenIds, Expire(t)
    PROVE  SInv'
<1>1. /\ tokens' \in [TokenIds -> Row]
      /\ \A s \in TokenIds :
            /\ tokens'[s].family = tokens[s].family
            /\ tokens'[s].status = "free" <=> tokens[s].status = "free"
            /\ Unrevoked(tokens'[s]) => Unrevoked(tokens[s])
    BY ExpiredRows DEF Expire, SInv, ServerTypeOK
<1>2. ServerTypeOK'
    BY <1>1 DEF Expire, SInv, ServerTypeOK, TokensTyped
<1> QED
    BY <1>1, <1>2, Weakened DEF Expire, SInv, JobsOK

LEMMA StepOK == SInv /\ [ServerNext]_svars => SInv'
<1> SUFFICES ASSUME SInv, [ServerNext]_svars PROVE SInv'
    OBVIOUS
<1>1. CASE UNCHANGED svars
    BY <1>1 DEF svars, SInv, ServerTypeOK, TokensTyped, RowsOK, JobsOK, OneLiveToken,
                InsertsOK, Unrevoked
<1>2. ASSUME NEW r \in Requests, Handle(r) PROVE SInv'
    BY <1>2, SelectOK, UpdateOK, InsertOK, KillOK DEF Handle
<1>3. ASSUME NEW u \in Users, SignOutEverywhere(u) PROVE SInv'
    BY <1>3, SignOutOK DEF SignOutEverywhere
<1>4. ASSUME NEW t \in TokenIds, SignOut(t) PROVE SInv'
    BY <1>4, SignOutOK DEF SignOut
<1> QED
    BY <1>1, <1>2, <1>3, <1>4, ArriveOK, LeaveOK, SignInOK, ExpireOK DEF ServerNext

(* The inductive invariant holds in every reachable state. *)
THEOREM ServerInductive == ServerSpec => []SInv
BY InitOK, StepOK, PTL DEF ServerSpec

(* Every variable of the token server keeps the kind of value the code      *)
(* gives it.                                                                *)
THEOREM ServerTyped == ServerSpec => []ServerTypeOK
BY ServerInductive, PTL DEF SInv

(* However many refreshes interleave, a family never has two tokens that    *)
(* are not revoked (rotate_refresh_token).                                  *)
THEOREM Rotation == ServerSpec => []OneLiveToken
BY ServerInductive, PTL DEF SInv

-----------------------------------------------------------------------------
(* Sessions.                                                               *)

(* The session of family f can still be refreshed, or will be. *)
IsOpen(f) == (\E t \in OfFamily(f) : Live(t)) \/ (\E r \in Requests : Holds(r, f))

(* A step that opens no family and names none is a step of TokenFamilies. *)
LEMMA OnlyCloses ==
    ASSUME SInv,
           \A f \in TokenIds : tokens'[f].family = f <=> tokens[f].family = f,
           \A f \in TokenIds : IsOpen(f)' => IsOpen(f)
    PROVE  ServedFamily!Next
<1> DEFINE F == {f \in TokenIds : ServerSession[f] = "open" /\ ServerSession'[f] # "open"}
<1>1. \A f \in TokenIds :
        ServerSession[f] = IF tokens[f].family # f THEN "new"
                           ELSE IF IsOpen(f) THEN "open" ELSE "closed"
    BY DEF ServerSession, IsOpen
<1>2. \A f \in TokenIds :
        ServerSession'[f] = IF tokens'[f].family # f THEN "new"
                            ELSE IF IsOpen(f)' THEN "open" ELSE "closed"
    BY DEF ServerSession, IsOpen
<1>3. \A f \in TokenIds :
        ServerSession'[f] = IF f \in F THEN "closed" ELSE ServerSession[f]
    BY <1>1, <1>2
<1>4. ServerSession' = [f \in TokenIds |-> IF f \in F THEN "closed" ELSE ServerSession[f]]
    BY <1>3 DEF ServerSession
<1>5. F \in SUBSET TokenIds /\ \A f \in F : ServerSession[f] = "open"
    OBVIOUS
<1> QED
    BY <1>4, <1>5 DEF ServedFamily!Next, ServedFamily!Close


(* A step that changes no row and brings no request to hold a family that    *)
(* is not open.                                                              *)
LEMMA RequestMoves ==
    ASSUME SInv, UNCHANGED tokens,
           \A r \in Requests, f \in TokenIds : Holds(r, f)' => IsOpen(f)
    PROVE  ServedFamily!Next
<1>1. \A f \in TokenIds : IsOpen(f)' => IsOpen(f)
    BY DEF IsOpen, OfFamily, Live
<1> QED
    BY <1>1, OnlyCloses

(* A step that only revokes or expires rows. *)
LEMMA TokensEnd ==
    ASSUME SInv, UNCHANGED job,
           \A t \in TokenIds :
             /\ tokens'[t].family = tokens[t].family
             /\ tokens'[t].status = "live" => tokens[t].status = "live"
             /\ Unrevoked(tokens'[t]) => Unrevoked(tokens[t])
    PROVE  ServedFamily!Next
<1>1. ASSUME NEW r \in Requests, NEW f \in TokenIds, Holds(r, f)' PROVE Holds(r, f)
    BY <1>1 DEF Holds, SInv, ServerTypeOK, Job
<1>2. \A f \in TokenIds : IsOpen(f)' => IsOpen(f)
    BY <1>1 DEF IsOpen, OfFamily, Live
<1> QED
    BY <1>2, OnlyCloses

LEMMA SelectCloses ==
    ASSUME SInv, NEW r \in Requests, Select(r)
    PROVE  ServedFamily!Next
<1> SUFFICES ASSUME NEW q \in Requests, NEW f \in TokenIds, Holds(q, f)' PROVE IsOpen(f)
    BY RequestMoves DEF Select
<1>1. /\ tokens' = tokens
      /\ job'[q].tok = job[q].tok
      /\ job[q].tok \in TokenIds
      /\ q # r => job'[q] = job[q]
      /\ q = r => job'[q].step = Verdict(tokens[job[q].tok])
    BY DEF Select, GoOn, Holds, SInv, ServerTypeOK, Job, Verdict
<1>2. CASE q = r
    BY <1>1, <1>2 DEF Holds, Verdict, IsOpen, Live, OfFamily
<1>3. CASE q # r
    BY <1>1, <1>3 DEF Holds, IsOpen
<1> QED
    BY <1>2, <1>3

LEMMA UpdateCloses ==
    ASSUME SInv, NEW r \in Requests, Update(r)
    PROVE  ServedFamily!Next
<1>1. /\ job[r].tok \in TokenIds
      /\ \A t \in TokenIds :
            /\ tokens'[t].family = tokens[t].family
            /\ tokens'[t].status = "live" => tokens[t].status = "live"
            /\ Unrevoked(tokens'[t]) => Unrevoked(tokens[t])
    BY RevokedRows DEF Update, SInv, ServerTypeOK, TokensTyped, JobsOK, Job
<1>2. ASSUME NEW q \in Requests, NEW f \in TokenIds, Holds(q, f)' PROVE Holds(q, f)
    <2>1. /\ job'[q].tok = job[q].tok
          /\ q # r => job'[q] = job[q]
          /\ q = r => job'[q].step = IF Unrevoked(tokens[job[r].tok]) THEN "insert" ELSE "kill"
        BY DEF Update, GoOn, SInv, ServerTypeOK, Job
    <2>2. job[q].tok \in TokenIds
        BY <1>2, <2>1 DEF Holds, SInv, ServerTypeOK, Job
    <2> QED
        BY <1>1, <1>2, <2>1, <2>2 DEF Holds, Update
<1>3. \A f \in TokenIds : IsOpen(f)' => IsOpen(f)
    BY <1>1, <1>2 DEF IsOpen, OfFamily, Live
<1> QED
    BY <1>1, <1>3, OnlyCloses

(* The family of the new token is held open until its row is there. *)
LEMMA InsertOpensNothing ==
    ASSUME SInv, NEW r \in Requests, NEW n \in TokenIds, Insert(r, n)
    PROVE  ServedFamily!Next
<1> DEFINE t == job[r].tok
           f == tokens[t].family
<1>1. /\ t \in TokenIds /\ f \in TokenIds /\ tokens[f].family = f
      /\ tokens[n].status = "free" /\ tokens[n].family = 0
    BY Inserted
<1>2. /\ tokens'[n].family = f
      /\ \A s \in TokenIds \ {n} : tokens'[s] = tokens[s]
    <2>1. tokens'[n] = [status |-> "live", user |-> tokens[t].user, family |-> f]
        BY Inserted
    <2> QED
        BY <2>1, Inserted
<1>3. \A g \in TokenIds : tokens'[g].family = g <=> tokens[g].family = g
    BY <1>1, <1>2 DEF TokenIds
<1>4. IsOpen(f)
    BY <1>1 DEF IsOpen, Holds, Insert, TokenIds
<1>5. ASSUME NEW q \in Requests, NEW g \in TokenIds, Holds(q, g)' PROVE Holds(q, g)
    <2>1. q # r /\ job'[q] = job[q]
        BY <1>5 DEF Holds, Insert, SInv, ServerTypeOK, Job
    <2>2. job[q].tok \in TokenIds /\ tokens[job[q].tok].status # "free"
        BY <1>5, <2>1 DEF Holds, SInv, ServerTypeOK, Job, JobsOK
    <2> QED
        BY <1>1, <1>2, <1>5, <2>1, <2>2 DEF Holds
<1>6. \A g \in TokenIds : IsOpen(g)' => IsOpen(g)
    BY <1>2, <1>4, <1>5 DEF IsOpen, OfFamily, Live
<1> QED
    BY <1>3, <1>6, OnlyCloses

LEMMA KillCloses ==
    ASSUME SInv, NEW r \in Requests, Kill(r)
    PROVE  ServedFamily!Next
<1>1. \A t \in TokenIds :
            /\ tokens'[t].family = tokens[t].family
            /\ tokens'[t].status = "live" => tokens[t].status = "live"
            /\ Unrevoked(tokens'[t]) => Unrevoked(tokens[t])
    BY RevokedRows DEF Kill, SInv, ServerTypeOK, TokensTyped
<1>2. ASSUME NEW q \in Requests, NEW f \in TokenIds, Holds(q, f)' PROVE Holds(q, f)
    <2>1. /\ job'[q].tok = job[q].tok
          /\ q # r => job'[q] = job[q]
          /\ q = r => job'[q].step = "done"
        BY DEF Kill, GoOn, SInv, ServerTypeOK, Job
    <2>2. job[q].tok \in TokenIds
        BY <1>2, <2>1 DEF Holds, SInv, ServerTypeOK, Job
    <2> QED
        BY <1>1, <1>2, <2>1, <2>2 DEF Holds
<1>3. \A f \in TokenIds : IsOpen(f)' => IsOpen(f)
    BY <1>1, <1>2 DEF IsOpen, OfFamily, Live
<1> QED
    BY <1>1, <1>3, OnlyCloses

LEMMA ComeAndGo ==
    ASSUME SInv, NEW r \in Requests,
           (\E t \in TokenIds \cup {0} : Arrive(r, t)) \/ Leave(r)
    PROVE  ServedFamily!Next
<1>1. /\ tokens' = tokens
      /\ \A q \in Requests : q # r => job'[q] = job[q]
      /\ job'[r].step \in {"idle", "select"}
    BY DEF Arrive, Leave, NoJob, SInv, ServerTypeOK
<1> QED
    BY <1>1, RequestMoves DEF Holds, IsOpen

LEMMA SignInOpens ==
    ASSUME SInv, NEW u \in Users, NEW t \in TokenIds, SignIn(u, t)
    PROVE  ServedFamily!Next
<1>1. /\ tokens'[t] = [status |-> "live", user |-> u, family |-> t]
      /\ \A s \in TokenIds \ {t} : tokens'[s] = tokens[s]
    BY StoredRows DEF SignIn, SInv, ServerTypeOK, TokensTyped
<1>2. \A s \in TokenIds : tokens[s].family # t
    BY DEF SignIn, IsNext, SInv, RowsOK, TokenIds
<1>3. job' = job /\ tokens[t].status = "free"
    BY DEF SignIn, IsNext
<1>4. \A f \in TokenIds \ {t}, q \in Requests : Holds(q, f)' <=> Holds(q, f)
    BY <1>1, <1>2, <1>3 DEF Holds, SInv, ServerTypeOK, Job, JobsOK, Unrevoked
<1>5. \A f \in TokenIds \ {t} : IsOpen(f)' <=> IsOpen(f)
    BY <1>1, <1>2, <1>3, <1>4 DEF IsOpen, OfFamily, Live
<1>6. IsOpen(t)'
    BY <1>1 DEF IsOpen, OfFamily, Live
<1>7. ServerSession[t] = "new"
    BY <1>2 DEF ServerSession
<1>8. \A f \in TokenIds :
        ServerSession'[f] = IF f = t THEN "open" ELSE ServerSession[f]
    BY <1>1, <1>5, <1>6 DEF ServerSession, IsOpen
<1>9. ServerSession' = [ServerSession EXCEPT ![t] = "open"]
    BY <1>8 DEF ServerSession
<1> QED
    BY <1>7, <1>9 DEF ServedFamily!Next, ServedFamily!Open

LEMMA OthersClose ==
    ASSUME SInv,
           \/ \E u \in Users : SignOutEverywhere(u)
           \/ \E t \in TokenIds : SignOut(t) \/ Expire(t)
    PROVE  ServedFamily!Next
<1>1. ASSUME NEW S, tokens' = Revoked(tokens, S), UNCHANGED job PROVE ServedFamily!Next
    <2>1. \A t \in TokenIds :
            /\ tokens'[t].family = tokens[t].family
            /\ tokens'[t].status = "live" => tokens[t].status = "live"
            /\ Unrevoked(tokens'[t]) => Unrevoked(tokens[t])
        BY <1>1, RevokedRows DEF SInv, ServerTypeOK, TokensTyped
    <2> QED
        BY <1>1, <2>1, TokensEnd
<1>2. ASSUME NEW t \in TokenIds, Expire(t) PROVE ServedFamily!Next
    <2>1. \A s \in TokenIds :
            /\ tokens'[s].family = tokens[s].family
            /\ tokens'[s].status = "live" => tokens[s].status = "live"
            /\ Unrevoked(tokens'[s]) => Unrevoked(tokens[s])
        BY <1>2, ExpiredRows DEF Expire, SInv, ServerTypeOK
    <2> QED
        BY <1>2, <2>1, TokensEnd DEF Expire
<1> QED
    BY <1>1, <1>2 DEF SignOutEverywhere, SignOut

LEMMA SessionInit == ServerInit => ServedFamily!Init
BY DEF ServerInit, EmptyTable, ServedFamily!Init, ServerSession, TokenIds

LEMMA SessionStep == SInv /\ [ServerNext]_svars => [ServedFamily!Next]_ServerSession
<1> SUFFICES ASSUME SInv, [ServerNext]_svars
             PROVE  ServedFamily!Next \/ UNCHANGED ServerSession
    OBVIOUS
<1>1. CASE UNCHANGED svars
    BY <1>1 DEF svars, ServerSession, OfFamily, Live, Holds, Unrevoked
<1>2. ASSUME NEW r \in Requests, Handle(r) PROVE ServedFamily!Next
    BY <1>2, SelectCloses, UpdateCloses, InsertOpensNothing, KillCloses DEF Handle
<1> QED
    BY <1>1, <1>2, ComeAndGo, SignInOpens, OthersClose DEF ServerNext

(* The token server keeps the promise of TokenFamilies: whatever requests   *)
(* interleave, in however many workers, a session that is over stays over.  *)
THEOREM SessionsEnd == ServerSpec => SessionsEndForGood
<1>1. ServerSpec => ServedFamily!Spec
    BY ServerInductive, SessionInit, SessionStep, PTL DEF ServerSpec, ServedFamily!Spec
<1> QED
    BY <1>1 DEF SessionsEndForGood

-----------------------------------------------------------------------------
(***************************************************************************)
(* What WebClient promises for any number of tabs, requests and tokens: it *)
(* drives the token server only through its handlers, a tab refreshes once *)
(* for all its calls, and the server takes a token for reused only when    *)
(* the browser really sent it twice.                                       *)
(***************************************************************************)

-----------------------------------------------------------------------------
(* The inductive invariant.                                                *)

ClientTyped ==
    /\ jar \in TokenIds \cup {0}
    /\ memory \in [Tabs -> {"none", "good", "old"}]
    /\ ui \in [Tabs -> {"loading", "in", "out"}]
    /\ flight \in [Tabs -> Requests \cup {NoRequest}]
    /\ origin \in [Requests -> [tab : Tabs \cup {NoTab}, kind : {"boot", "flight"},
                                cancelled : BOOLEAN]]
    /\ excused \subseteq TokenIds

(* A refresh that was sent for calls is the one its tab waits for. *)
FlightsKnown ==
    \A r \in Requests :
        origin[r].kind = "flight" => /\ origin[r].tab \in Tabs
                                     /\ flight[origin[r].tab] = r

(* No other token of the family is good or about to be stored. *)
FreshIn(table, jobs, t) ==
    /\ \A s \in TokenIds :
         table[s].family = table[t].family /\ Unrevoked(table[s]) => s = t
    /\ \A q \in Requests :
         jobs[q].step = "insert" => table[jobs[q].tok].family # table[t].family

Fresh(t) == FreshIn(tokens, job, t)

(* The answer a request has, if any, is on its way to the cookie alone. *)
AnswersOK ==
    \A r \in Requests :
        /\ job[r].step = "idle" => job[r].tok = 0
        /\ job[r].new # 0 => /\ job[r].step = "done" /\ job[r].tok # 0
                             /\ job[r].new # jar
                             /\ tokens[job[r].new].status # "free"
                             /\ Fresh(job[r].new)
                             /\ \A q \in Requests :
                                  /\ job[q].tok # job[r].new
                                  /\ job[q].new = job[r].new => q = r

(* A token that was presented and gave nothing is still its family's last;  *)
(* only one that is excused is in two requests.                             *)
PresentedOK ==
    \A r \in Requests :
        /\ job[r].step = "kill" => ~Unrevoked(tokens[job[r].tok])
        /\ job[r].tok \notin excused \cup {0} =>
             /\ \A q \in Requests : job[q].tok = job[r].tok => q = r
             /\ job[r].step # "insert" /\ job[r].new = 0 => Fresh(job[r].tok)

(* And so is the browser's, unless a request is under way with it. *)
JarOK ==
    jar # 0 =>
        /\ tokens[jar].status # "free"
        /\ jar \in excused \/ Fresh(jar) \/ \E r \in Requests : job[r].tok = jar

ClientOK == AnswersOK /\ PresentedOK /\ JarOK

CInv == ClientTyped /\ FlightIsUnderWay /\ FlightsKnown /\ ClientOK

-----------------------------------------------------------------------------
(* The browser's tokens.  What ends tokens and moves requests on, short of   *)
(* an INSERT, keeps ClientOK.                                                *)

LEMMA StillFresh ==
    ASSUME SInv,
           \A s \in TokenIds : /\ tokens'[s].family = tokens[s].family
                               /\ Unrevoked(tokens'[s]) => Unrevoked(tokens[s]),
           \A q \in Requests :
             job'[q].step = "insert" => job[q].step = "insert" /\ job'[q].tok = job[q].tok
    PROVE  \A t \in TokenIds : FreshIn(tokens, job, t) => FreshIn(tokens', job', t)
<1>1. \A q \in Requests : job[q].step = "insert" => job[q].tok \in TokenIds
    BY DEF SInv, JobsOK, ServerTypeOK, Job
<1> QED
    BY <1>1 DEF FreshIn

LEMMA Quiet ==
    ASSUME SInv, ClientTyped, ClientOK,
           \A s \in TokenIds : /\ tokens'[s].family = tokens[s].family
                               /\ tokens'[s].status = "free" <=> tokens[s].status = "free"
                               /\ Unrevoked(tokens'[s]) => Unrevoked(tokens[s]),
           \A q \in Requests : /\ job'[q].tok = job[q].tok /\ job'[q].new = job[q].new
                               /\ job'[q].step = "idle" => job[q].step = "idle"
                               /\ job'[q].step = "insert" <=> job[q].step = "insert"
                               /\ job'[q].step = "kill" => ~Unrevoked(tokens'[job[q].tok])
                               /\ job[q].step = "done" => job'[q].step = "done",
           jar' \in {jar, 0}, excused' = excused
    PROVE  ClientOK'
<1>1. \A t \in TokenIds : FreshIn(tokens, job, t) => FreshIn(tokens', job', t)
    BY StillFresh
<1>2. \A q \in Requests : job[q].tok \in TokenIds \cup {0} /\ job[q].new \in TokenIds \cup {0}
    BY DEF SInv, ServerTypeOK, Job
<1>3. AnswersOK'
    BY <1>1, <1>2 DEF ClientOK, AnswersOK, Fresh
<1>4. PresentedOK'
    BY <1>1, <1>2 DEF ClientOK, PresentedOK, Fresh
<1>5. JarOK'
    BY <1>1, <1>2 DEF ClientOK, JarOK, Fresh, ClientTyped
<1> QED
    BY <1>3, <1>4, <1>5 DEF ClientOK

(* A request that leaves takes its token with it. *)
LEMMA Left ==
    ASSUME SInv, ClientTyped, ClientOK, NEW r \in Requests, Leave(r),
           \/ jar' = jar /\ job[r].new = 0 /\ excused' = excused
           \/ jar' = jar /\ job[r].new # 0 /\ excused' = excused \cup {job[r].tok}
           \/ jar' = job[r].new /\ job[r].new # 0 /\ excused' = excused
    PROVE  ClientOK'
<1>1. /\ tokens' = tokens
      /\ job'[r] = NoJob
      /\ \A q \in Requests \ {r} : job'[q] = job[q]
      /\ job[r].step # "idle"
    BY DEF Leave, SInv, ServerTypeOK
<1>2. \A q \in Requests : /\ job'[q].step = "insert" => job[q].step = "insert" /\ job'[q].tok = job[q].tok
                          /\ job'[q].tok \in {job[q].tok, 0}
                          /\ job'[q].new \in {job[q].new, 0}
    BY <1>1 DEF NoJob
<1>3. \A t \in TokenIds : FreshIn(tokens, job, t) => FreshIn(tokens', job', t)
    BY <1>1, <1>2, StillFresh
<1>4. \A q \in Requests : job[q].tok \in TokenIds \cup {0} /\ job[q].new \in TokenIds \cup {0}
    BY DEF SInv, ServerTypeOK, Job
<1>5. AnswersOK'
    BY <1>1, <1>2, <1>3, <1>4 DEF ClientOK, AnswersOK, Fresh, NoJob
<1>6. PresentedOK'
    BY <1>1, <1>2, <1>3, <1>4 DEF ClientOK, PresentedOK, Fresh, NoJob
<1>7. JarOK'
    <2>1. CASE jar' = jar /\ job[r].new = 0 /\ excused' = excused
        <3>1. CASE job[r].tok # jar \/ jar \in excused
            BY <1>1, <1>3, <2>1, <3>1 DEF ClientOK, JarOK, ClientTyped, Fresh
        <3>2. CASE job[r].tok = jar /\ jar \notin excused /\ jar # 0
            <4>1. job[r].step # "insert" => FreshIn(tokens', job', jar)
                BY <1>3, <2>1, <3>2 DEF ClientOK, PresentedOK, ClientTyped, Fresh
            <4>2. job[r].step = "insert" => FreshIn(tokens', job', jar)
                BY <1>1, <3>2 DEF SInv, InsertsOK, FreshIn, NoJob
            <4> QED
                BY <1>1, <2>1, <4>1, <4>2 DEF JarOK, Fresh, ClientOK
        <3> QED
            BY <2>1, <3>1, <3>2 DEF JarOK
    <2>2. CASE jar' = jar /\ job[r].new # 0 /\ excused' = excused \cup {job[r].tok}
        BY <1>1, <1>3, <2>2 DEF ClientOK, JarOK, ClientTyped, Fresh
    <2>3. CASE jar' = job[r].new /\ job[r].new # 0 /\ excused' = excused
        BY <1>1, <1>3, <1>4, <2>3 DEF ClientOK, JarOK, AnswersOK, Fresh
    <2> QED
        BY <2>1, <2>2, <2>3
<1> QED
    BY <1>5, <1>6, <1>7 DEF ClientOK

(* A request that revokes the token it was sent with goes on to store the   *)
(* next one.                                                                *)
LEMMA Updated ==
    ASSUME SInv, ClientTyped, ClientOK, NEW r \in Requests, Update(r),
           Unrevoked(tokens[job[r].tok]), jar' = jar, excused' = excused
    PROVE  ClientOK'
<1> DEFINE t == job[r].tok
<1>1. /\ t \in TokenIds /\ tokens \in [TokenIds -> Row]
      /\ \A q \in Requests : job[q].tok \in TokenIds \cup {0} /\ job[q].new \in TokenIds \cup {0}
    BY DEF SInv, Update, ServerTypeOK, TokensTyped, Job, JobsOK
<1>2. tokens' = Revoked(tokens, {t})
    BY DEF Update
<1>3. \A s \in TokenIds :
        /\ tokens'[s].family = tokens[s].family
        /\ tokens'[s].status = "free" <=> tokens[s].status = "free"
        /\ Unrevoked(tokens'[s]) <=> Unrevoked(tokens[s]) /\ s # t
    BY <1>1, <1>2, RevokedRows
<1>4. /\ job[r].step = "update"
      /\ job'[r].step = "insert" /\ job'[r].tok = t /\ job'[r].new = job[r].new
      /\ \A q \in Requests \ {r} : job'[q] = job[q]
    BY DEF Update, GoOn, SInv, ServerTypeOK, Job
<1>5. \A u \in TokenIds : u # t /\ FreshIn(tokens, job, u) => FreshIn(tokens', job', u)
    <2> SUFFICES ASSUME NEW u \in TokenIds, u # t, FreshIn(tokens, job, u)
                 PROVE  FreshIn(tokens', job', u)
        OBVIOUS
    <2>1. tokens[t].family # tokens[u].family
        BY <1>1 DEF FreshIn
    <2>2. \A q \in Requests : job[q].step = "insert" => job[q].tok \in TokenIds
        BY <1>1 DEF SInv, JobsOK
    <2>3. \A s \in TokenIds :
            tokens'[s].family = tokens'[u].family /\ Unrevoked(tokens'[s]) => s = u
        BY <1>3 DEF FreshIn
    <2>4. ASSUME NEW q \in Requests, job'[q].step = "insert"
          PROVE  tokens'[job'[q].tok].family # tokens'[u].family
        <3>1. CASE q = r
            BY <1>1, <1>3, <1>4, <2>1, <3>1
        <3>2. CASE q # r
            <4>1. /\ job[q].step = "insert" /\ job'[q].tok = job[q].tok
                  /\ job[q].tok \in TokenIds
                BY <1>4, <2>2, <2>4, <3>2
            <4> QED
                BY <1>3, <4>1, FreshIn(tokens, job, u) DEF FreshIn
        <3> QED
            BY <3>1, <3>2
    <2> QED
        BY <2>3, <2>4 DEF FreshIn
<1>6. AnswersOK'
    BY <1>1, <1>3, <1>4, <1>5 DEF ClientOK, AnswersOK, Fresh
<1>7. PresentedOK'
    <2>1. ASSUME NEW q \in Requests, job'[q].tok \notin excused \cup {0}
          PROVE  /\ \A p \in Requests : job'[p].tok = job'[q].tok => p = q
                 /\ job'[q].step # "insert" /\ job'[q].new = 0 => FreshIn(tokens', job', job'[q].tok)
        <3>1. /\ job'[q].tok = job[q].tok
              /\ \A p \in Requests : job'[p].tok = job[p].tok
            BY <1>4
        <3>2. \A p \in Requests : job[p].tok = job[q].tok => p = q
            BY <2>1, <3>1 DEF ClientOK, PresentedOK
        <3>3. CASE q = r
            BY <1>4, <3>1, <3>2, <3>3
        <3>4. CASE q # r
            <4>1. job[q].tok # t /\ job[q].tok \in TokenIds
                BY <1>1, <2>1, <3>1, <3>2, <3>4
            <4>2. job[q].step # "insert" /\ job[q].new = 0 => FreshIn(tokens, job, job[q].tok)
                BY <2>1, <3>1 DEF ClientOK, PresentedOK, Fresh
            <4> QED
                BY <1>4, <1>5, <3>1, <3>2, <3>4, <4>1, <4>2
        <3> QED
            BY <3>3, <3>4
    <2>2. \A q \in Requests : job'[q].step = "kill" => ~Unrevoked(tokens'[job'[q].tok])
        <3> SUFFICES ASSUME NEW q \in Requests, job'[q].step = "kill"
                     PROVE  ~Unrevoked(tokens'[job'[q].tok])
            OBVIOUS
        <3>1. q # r /\ job'[q] = job[q]
            BY <1>4
        <3>2. ~Unrevoked(tokens[job[q].tok]) /\ job[q].tok \in TokenIds
            BY <1>1, <3>1 DEF ClientOK, PresentedOK, SInv, JobsOK
        <3> QED
            BY <1>3, <3>1, <3>2
    <2> QED
        BY <2>1, <2>2 DEF PresentedOK, Fresh
<1>8. JarOK'
    <2>1. CASE jar = t
        BY <1>1, <1>3, <1>4, <2>1 DEF ClientOK, JarOK
    <2>2. CASE jar # t
        <3>1. jar # 0 => /\ tokens'[jar].status # "free"
                         /\ \/ jar \in excused \/ FreshIn(tokens', job', jar)
                            \/ \E q \in Requests : job[q].tok = jar
            BY <1>3, <1>5, <2>2 DEF ClientOK, JarOK, Fresh, ClientTyped
        <3>2. \A q \in Requests : job'[q].tok = job[q].tok
            BY <1>4
        <3> QED
            BY <3>1, <3>2 DEF JarOK, Fresh
    <2> QED
        BY <2>1, <2>2
<1> QED
    BY <1>6, <1>7, <1>8 DEF ClientOK

(* Nobody knows the row that the next INSERT will write. *)
LEMMA NextUnknown ==
    ASSUME SInv, ClientTyped, ClientOK, NEW n \in TokenIds, IsNext(n)
    PROVE  /\ tokens[n].family = 0 /\ n # jar
           /\ \A q \in Requests : job[q].tok # n /\ job[q].new # n
           /\ \A t \in TokenIds : tokens[t].family # n
<1>1. tokens[n].status = "free" /\ n # 0
    BY DEF IsNext, TokenIds
<1> QED
    BY <1>1 DEF SInv, RowsOK, JobsOK, ClientOK, AnswersOK, JarOK

LEMMA InsertedOK ==
    ASSUME SInv, ClientTyped, ClientOK, NEW r \in Requests, NEW n \in TokenIds, Insert(r, n),
           jar' = jar, excused' = excused
    PROVE  ClientOK'
<1> DEFINE f == tokens[job[r].tok].family
<1>1. /\ job[r].tok \in TokenIds \ {0} /\ tokens \in [TokenIds -> Row] /\ IsNext(n) /\ n # 0
      /\ job[r].step = "insert"
      /\ \A q \in Requests : job[q].tok \in TokenIds \cup {0} /\ job[q].new \in TokenIds \cup {0}
    BY DEF SInv, Insert, ServerTypeOK, TokensTyped, Job, JobsOK, TokenIds
<1>2. /\ f \in TokenIds /\ tokens[job[r].tok].user \in Users \cup {NoUser}
    BY <1>1 DEF SInv, RowsOK, JobsOK, Row
<1>3. tokens' = Stored(tokens, n, tokens[job[r].tok].user, f)
    BY DEF Insert
<1>4. /\ tokens'[n] = [status |-> "live", user |-> tokens[job[r].tok].user, family |-> f]
      /\ \A s \in TokenIds \ {n} : tokens'[s] = tokens[s]
    BY <1>1, <1>2, <1>3, StoredRows
<1>5. /\ job'[r].step = "done" /\ job'[r].new = n /\ job'[r].tok = job[r].tok
      /\ \A q \in Requests \ {r} : job'[q] = job[q]
    BY DEF Insert, SInv, ServerTypeOK, Job
<1>6. /\ n # jar
      /\ \A q \in Requests : job[q].tok # n /\ job[q].new # n
    BY <1>1, NextUnknown
<1>7. \A q \in Requests : job[q].step = "insert" => job[q].tok \in TokenIds \ {n}
    BY <1>1, <1>6 DEF SInv, JobsOK
<1>8. \A u \in TokenIds \ {n} : FreshIn(tokens, job, u) => FreshIn(tokens', job', u)
    <2> SUFFICES ASSUME NEW u \in TokenIds \ {n}, FreshIn(tokens, job, u)
                 PROVE  FreshIn(tokens', job', u)
        OBVIOUS
    <2>1. f # tokens[u].family
        BY <1>1 DEF FreshIn
    <2> QED
        BY <1>4, <1>5, <1>7, <2>1 DEF FreshIn
<1>9. FreshIn(tokens', job', n)
    <2>1. \A s \in TokenIds \ {n} : tokens'[s].family = f => ~Unrevoked(tokens'[s])
        BY <1>1, <1>4 DEF SInv, InsertsOK
    <2>2. \A q \in Requests : job'[q].step = "insert" => tokens'[job'[q].tok].family # f
        BY <1>1, <1>4, <1>5, <1>7 DEF SInv, InsertsOK
    <2> QED
        BY <1>4, <2>1, <2>2 DEF FreshIn
<1>10. AnswersOK'
    BY <1>1, <1>4, <1>5, <1>6, <1>8, <1>9 DEF ClientOK, AnswersOK, Fresh
<1>11. \A q \in Requests : job'[q].tok = job[q].tok
    BY <1>5
<1>12. PresentedOK'
    <2>1. ASSUME NEW q \in Requests, job'[q].tok \notin excused \cup {0}
          PROVE  /\ \A p \in Requests : job'[p].tok = job'[q].tok => p = q
                 /\ job'[q].step # "insert" /\ job'[q].new = 0 => FreshIn(tokens', job', job'[q].tok)
        <3>1. \A p \in Requests : job'[p].tok = job'[q].tok => p = q
            BY <1>11, <2>1 DEF ClientOK, PresentedOK
        <3>2. CASE q = r
            BY <1>1, <1>5, <3>1, <3>2
        <3>3. CASE q # r
            <4>1. job[q].step # "insert" /\ job[q].new = 0 => FreshIn(tokens, job, job[q].tok)
                BY <1>11, <2>1 DEF ClientOK, PresentedOK, Fresh
            <4>2. job[q].tok \in TokenIds \ {n}
                BY <1>1, <1>6, <1>11, <2>1
            <4> QED
                BY <1>5, <1>8, <1>11, <3>1, <3>3, <4>1, <4>2
        <3> QED
            BY <3>2, <3>3
    <2>2. \A q \in Requests : job'[q].step = "kill" => ~Unrevoked(tokens'[job'[q].tok])
        <3> SUFFICES ASSUME NEW q \in Requests, job'[q].step = "kill"
                     PROVE  ~Unrevoked(tokens'[job'[q].tok])
            OBVIOUS
        <3>1. job'[q] = job[q]
            BY <1>5
        <3>2. ~Unrevoked(tokens[job[q].tok]) /\ job[q].tok \in TokenIds \ {n}
            BY <1>1, <1>6, <3>1 DEF ClientOK, PresentedOK, SInv, JobsOK
        <3> QED
            BY <1>4, <3>1, <3>2
    <2> QED
        BY <2>1, <2>2 DEF PresentedOK, Fresh
<1>13. JarOK'
    <2>1. jar # 0 => /\ tokens'[jar].status # "free"
                     /\ \/ jar \in excused \/ FreshIn(tokens', job', jar)
                        \/ \E q \in Requests : job[q].tok = jar
        BY <1>4, <1>6, <1>8 DEF ClientOK, JarOK, Fresh, ClientTyped
    <2> QED
        BY <1>11, <2>1 DEF JarOK, Fresh
<1> QED
    BY <1>10, <1>12, <1>13 DEF ClientOK

(* A request is sent with the cookie of the moment. *)
LEMMA Sent ==
    ASSUME SInv, CInv, NEW r \in Requests, NEW b \in Tabs, NEW kind,
           Send(r, b, kind), kind = "flight" => flight[b] = NoRequest, jar' = jar
    PROVE  ClientOK'
<1> USE DEF CInv
<1>1. /\ tokens' = tokens /\ jar \in TokenIds \cup {0}
      /\ job[r].step = "idle"
      /\ job'[r].step = "select" /\ job'[r].tok = jar /\ job'[r].new = 0
      /\ \A q \in Requests \ {r} : job'[q] = job[q]
    BY DEF Send, Arrive, SInv, ServerTypeOK, Job, ClientTyped
<1>2. \A q \in Requests : job[q].tok \in TokenIds \cup {0} /\ job[q].new \in TokenIds \cup {0}
    BY DEF SInv, ServerTypeOK, Job
<1>3. \A t \in TokenIds : FreshIn(tokens, job, t) => FreshIn(tokens', job', t)
    BY <1>1, StillFresh
<1>4. ASSUME NEW q \in Requests, job[q].tok = jar, jar # 0
      PROVE  jar \in excused'
    <2>1. ~Idle(q)
        BY <1>4 DEF Idle, ClientOK, AnswersOK
    <2>2. ~(kind = "flight" /\ origin[q].kind = "flight" /\ origin[q].tab = b)
        BY RequestsAssumption DEF FlightsKnown
    <2> QED
        BY <1>4, <2>1, <2>2 DEF Send, Overlaps
<1>5. excused \subseteq excused'
    BY DEF Send
<1>6. AnswersOK'
    BY <1>1, <1>2, <1>3 DEF ClientOK, AnswersOK, Fresh
<1>7. PresentedOK'
    <2>1. ASSUME NEW q \in Requests, job'[q].tok \notin excused' \cup {0}
          PROVE  /\ \A p \in Requests : job'[p].tok = job'[q].tok => p = q
                 /\ job'[q].step # "insert" /\ job'[q].new = 0 => FreshIn(tokens', job', job'[q].tok)
        <3>1. CASE q = r
            <4>1. \A p \in Requests : job[p].tok # jar
                BY <1>1, <1>4, <2>1, <3>1
            <4>2. FreshIn(tokens, job, jar)
                BY <1>1, <1>5, <2>1, <3>1, <4>1 DEF ClientOK, JarOK, Fresh
            <4> QED
                BY <1>1, <1>3, <2>1, <3>1, <4>1, <4>2
        <3>2. CASE q # r
            <4>1. job[q].tok # jar
                BY <1>1, <1>4, <2>1, <3>2
            <4> QED
                BY <1>1, <1>2, <1>3, <1>5, <2>1, <3>2, <4>1 DEF ClientOK, PresentedOK, Fresh
        <3> QED
            BY <3>1, <3>2
    <2>2. \A q \in Requests : job'[q].step = "kill" => ~Unrevoked(tokens'[job'[q].tok])
        BY <1>1 DEF ClientOK, PresentedOK
    <2> QED
        BY <2>1, <2>2 DEF PresentedOK, Fresh
<1>8. JarOK'
    BY <1>1 DEF ClientOK, JarOK
<1> QED
    BY <1>6, <1>7, <1>8 DEF ClientOK

(* A sign-in starts a family with a token nobody has seen. *)
LEMMA SignedInOK ==
    ASSUME SInv, ClientTyped, ClientOK, NEW u \in Users, NEW t \in TokenIds, SignIn(u, t),
           jar' \in {jar, t}, excused' = excused
    PROVE  ClientOK'
<1>1. /\ tokens \in [TokenIds -> Row] /\ IsNext(t) /\ t # 0 /\ job' = job
      /\ tokens' = Stored(tokens, t, u, t)
      /\ \A q \in Requests : job[q].tok \in TokenIds \cup {0} /\ job[q].new \in TokenIds \cup {0}
    BY DEF SInv, SignIn, ServerTypeOK, TokensTyped, Job, TokenIds
<1>2. /\ tokens'[t] = [status |-> "live", user |-> u, family |-> t]
      /\ \A s \in TokenIds \ {t} : tokens'[s] = tokens[s]
    BY <1>1, StoredRows
<1>3. /\ t # jar
      /\ \A q \in Requests : job[q].tok # t /\ job[q].new # t
      /\ \A s \in TokenIds : tokens[s].family # t
    BY <1>1, NextUnknown
<1>4. \A q \in Requests : job[q].step = "insert" => job[q].tok \in TokenIds \ {t}
    BY <1>1, <1>3 DEF SInv, JobsOK
<1>5. \A s \in TokenIds \ {t} : FreshIn(tokens, job, s) => FreshIn(tokens', job', s)
    BY <1>1, <1>2, <1>3, <1>4 DEF FreshIn
<1>6. FreshIn(tokens', job', t)
    BY <1>1, <1>2, <1>3, <1>4 DEF FreshIn
<1>7. AnswersOK'
    BY <1>1, <1>2, <1>3, <1>5, <1>6 DEF ClientOK, AnswersOK, Fresh
<1>8. PresentedOK'
    <2>1. ASSUME NEW q \in Requests, job[q].tok \notin excused \cup {0}
          PROVE  /\ \A p \in Requests : job[p].tok = job[q].tok => p = q
                 /\ job[q].step # "insert" /\ job[q].new = 0 => FreshIn(tokens', job', job[q].tok)
        <3>1. job[q].tok \in TokenIds \ {t}
            BY <1>1, <1>3, <2>1
        <3> QED
            BY <1>5, <2>1, <3>1 DEF ClientOK, PresentedOK, Fresh
    <2>2. ASSUME NEW q \in Requests, job[q].step = "kill"
          PROVE  ~Unrevoked(tokens'[job[q].tok])
        <3>1. ~Unrevoked(tokens[job[q].tok]) /\ job[q].tok \in TokenIds \ {t}
            BY <1>1, <1>3, <2>2 DEF ClientOK, PresentedOK, SInv, JobsOK
        <3> QED
            BY <1>2, <3>1
    <2> QED
        BY <1>1, <2>1, <2>2 DEF PresentedOK, Fresh
<1>9. JarOK'
    BY <1>1, <1>2, <1>3, <1>5, <1>6 DEF ClientOK, JarOK, Fresh, ClientTyped
<1> QED
    BY <1>7, <1>8, <1>9 DEF ClientOK

-----------------------------------------------------------------------------
(* The flights of the tabs.                                                *)

LEMMA FlightsKept ==
    ASSUME FlightIsUnderWay, FlightsKnown, flight' = flight, origin' = origin,
           \A q \in Requests : job'[q].step = "idle" => job[q].step = "idle",
           ClientTyped
    PROVE  FlightIsUnderWay' /\ FlightsKnown'
<1>1. \A b \in Tabs : flight[b] \in Requests \cup {NoRequest}
    BY DEF ClientTyped
<1> QED
    BY <1>1 DEF FlightIsUnderWay, FlightsKnown, Idle

(* A request that is answered or fails is nobody's flight any more. *)
LEMMA FlightEnds ==
    ASSUME FlightIsUnderWay, FlightsKnown, ClientTyped, NEW r \in Requests,
           origin' = [origin EXCEPT ![r] = NoOrigin],
           origin[r].kind = "flight" => EndFlight(origin[r].tab),
           origin[r].kind # "flight" => flight' = flight,
           \A q \in Requests \ {r} : job'[q].step = "idle" => job[q].step = "idle"
    PROVE  FlightIsUnderWay' /\ FlightsKnown'
<1>1. /\ \A b \in Tabs : flight[b] \in Requests \cup {NoRequest}
      /\ flight \in [Tabs -> Requests \cup {NoRequest}]
      /\ origin'[r] = NoOrigin
      /\ \A q \in Requests \ {r} : origin'[q] = origin[q]
    BY DEF ClientTyped
<1>2. \A b \in Tabs : /\ flight'[b] \in {flight[b], NoRequest}
                      /\ flight[b] = r => flight'[b] = NoRequest
    BY <1>1 DEF EndFlight, FlightIsUnderWay
<1>3. \A q \in Requests \ {r} :
        origin[q].kind = "flight" => flight'[origin[q].tab] = flight[origin[q].tab]
    BY <1>1 DEF EndFlight, FlightsKnown
<1>4. FlightIsUnderWay'
    <2> SUFFICES ASSUME NEW b \in Tabs, flight'[b] # NoRequest
                 PROVE  /\ job'[flight'[b]].step # "idle"
                        /\ origin'[flight'[b]].tab = b
                        /\ origin'[flight'[b]].kind = "flight"
        BY DEF FlightIsUnderWay, Idle
    <2>1. flight'[b] = flight[b] /\ flight[b] \in Requests \ {r}
        BY <1>1, <1>2
    <2> QED
        BY <1>1, <2>1 DEF FlightIsUnderWay, Idle
<1>5. FlightsKnown'
    <2> SUFFICES ASSUME NEW q \in Requests, origin'[q].kind = "flight"
                 PROVE  origin'[q].tab \in Tabs /\ flight'[origin'[q].tab] = q
        BY DEF FlightsKnown
    <2>1. q # r
        BY <1>1 DEF NoOrigin
    <2> QED
        BY <1>1, <1>3, <2>1 DEF FlightsKnown
<1> QED
    BY <1>4, <1>5

-----------------------------------------------------------------------------
(* One lemma per action.                                                   *)

LEMMA ClientInit == Init => CInv
<1> SUFFICES ASSUME Init PROVE CInv
    OBVIOUS
<1> USE DEF Init, ServerInit, EmptyTable, NoJob, NoOrigin
<1>1. ClientTyped
    BY DEF ClientTyped
<1>2. FlightIsUnderWay /\ FlightsKnown
    BY DEF FlightIsUnderWay, FlightsKnown
<1>3. ClientOK
    BY DEF ClientOK, AnswersOK, PresentedOK, JarOK
<1> QED
    BY <1>1, <1>2, <1>3 DEF CInv

(* A step that touches neither the requests nor who sent them. *)
LEMMA Ashore ==
    ASSUME SInv, CInv, UNCHANGED <<tokens, job, flight, origin, excused>>, jar' \in {jar, 0}
    PROVE  ClientOK' /\ FlightIsUnderWay' /\ FlightsKnown'
<1>1. FlightIsUnderWay' /\ FlightsKnown'
    BY FlightsKept DEF CInv
<1>2. ClientOK'
    <2>1. tokens' = tokens /\ job' = job /\ excused' = excused
        OBVIOUS
    <2>2. \A q \in Requests : job[q].step = "kill" => ~Unrevoked(tokens[job[q].tok])
        BY DEF CInv, ClientOK, PresentedOK
    <2> QED
        BY <2>1, <2>2, Quiet DEF CInv
<1> QED
    BY <1>1, <1>2

LEMMA DeliverOK ==
    ASSUME SInv, CInv, NEW r \in Requests, Deliver(r)
    PROVE  CInv'
<1> DEFINE b == origin[r].tab
<1>1. /\ b \in Tabs
      /\ Granted(r, b) \/ Denied(r, b)
      /\ Leave(r) /\ excused' = excused
      /\ origin' = [origin EXCEPT ![r] = NoOrigin]
      /\ job[r].new \in TokenIds \cup {0}
      /\ \A q \in Requests \ {r} : job'[q] = job[q]
    BY DEF Deliver, CInv, ClientTyped, SInv, ServerTypeOK, Job, Leave
<1>2. ClientTyped'
    <2>1. origin' \in [Requests -> [tab : Tabs \cup {NoTab}, kind : {"boot", "flight"},
                                    cancelled : BOOLEAN]]
        BY <1>1 DEF CInv, ClientTyped, NoOrigin
    <2>2. CASE Granted(r, b)
        BY <1>1, <2>1, <2>2 DEF CInv, ClientTyped, Granted, EndFlight
    <2>3. CASE Denied(r, b)
        BY <1>1, <2>1, <2>3 DEF CInv, ClientTyped, Denied, EndFlight
    <2> QED
        BY <1>1, <2>2, <2>3
<1>3. FlightIsUnderWay' /\ FlightsKnown'
    <2>1. /\ origin[r].kind = "flight" => EndFlight(b)
          /\ origin[r].kind # "flight" => flight' = flight
        BY <1>1 DEF Granted, Denied
    <2> QED
        BY <1>1, <2>1, FlightEnds DEF CInv
<1>4. ClientOK'
    BY <1>1, Left DEF CInv, Granted, Denied
<1> QED
    BY <1>2, <1>3, <1>4 DEF CInv

LEMMA DropOK ==
    ASSUME SInv, CInv, NEW r \in Requests, Drop(r)
    PROVE  CInv'
<1> DEFINE b == origin[r].tab
<1>1. /\ b \in Tabs
      /\ origin[r].kind = "flight" => EndFlight(b)
      /\ origin[r].kind # "flight" => flight' = flight
      /\ origin' = [origin EXCEPT ![r] = NoOrigin]
      /\ tokens' = tokens /\ job' = job /\ excused' = excused /\ jar' = jar
      /\ memory' = memory /\ ui' = ui
    BY DEF Drop, CInv, ClientTyped
<1>2. ClientTyped'
    BY <1>1 DEF CInv, ClientTyped, NoOrigin, EndFlight
<1>3. FlightIsUnderWay' /\ FlightsKnown'
    BY <1>1, FlightEnds DEF CInv
<1>4. ClientOK'
    <2>1. \A q \in Requests : job[q].step = "kill" => ~Unrevoked(tokens[job[q].tok])
        BY DEF CInv, ClientOK, PresentedOK
    <2> QED
        BY <1>1, <2>1, Quiet DEF CInv
<1> QED
    BY <1>2, <1>3, <1>4 DEF CInv

LEMMA ForgetOK ==
    ASSUME SInv, CInv, NEW r \in Requests, Forget(r)
    PROVE  CInv'
<1>1. /\ origin[r].tab \notin Tabs /\ Leave(r)
      /\ jar' = jar /\ memory' = memory /\ ui' = ui /\ flight' = flight /\ origin' = origin
      /\ \A q \in Requests \ {r} : job'[q] = job[q]
      /\ job[r].tok \in TokenIds \cup {0}
    BY TabsAssumption DEF Forget, Leave, SInv, ServerTypeOK, Job
<1>2. ClientTyped'
    <2>1. job[r].new # 0 => job[r].tok # 0
        BY DEF CInv, ClientOK, AnswersOK
    <2> QED
        BY <1>1, <2>1 DEF CInv, ClientTyped, Forget
<1>3. FlightIsUnderWay' /\ FlightsKnown'
    BY <1>1 DEF CInv, FlightIsUnderWay, FlightsKnown, Idle, ClientTyped
<1>4. ClientOK'
    BY <1>1, Left DEF CInv, Forget
<1> QED
    BY <1>2, <1>3, <1>4 DEF CInv

LEMMA ServeOK ==
    ASSUME SInv, CInv, NEW r \in Requests, Serve(r)
    PROVE  CInv'
<1>1. /\ UNCHANGED <<jar, memory, ui, flight, origin, excused>>
      /\ jar' \in {jar, 0} /\ excused' = excused
      /\ tokens \in [TokenIds -> Row] /\ job[r] \in Job
    BY DEF Serve, cvars, SInv, ServerTypeOK, TokensTyped
<1>2. ClientTyped'
    BY <1>1 DEF CInv, ClientTyped
<1>3. /\ \A q \in Requests \ {r} : job'[q] = job[q]
      /\ job'[r].tok = job[r].tok
      /\ job'[r].step # "idle"
    BY DEF Serve, Handle, Select, Update, Insert, Kill, GoOn, Verdict, SInv, ServerTypeOK, Job
<1>4. FlightIsUnderWay' /\ FlightsKnown'
    <2>1. \A q \in Requests : job'[q].step = "idle" => job[q].step = "idle"
        BY <1>3
    <2>2. flight' = flight /\ origin' = origin
        BY <1>1
    <2> QED
        BY <2>1, <2>2, FlightsKept DEF CInv
<1>5. \A q \in Requests : job[q].step = "kill" => /\ ~Unrevoked(tokens[job[q].tok])
                                                  /\ job[q].tok \in TokenIds
    BY DEF CInv, ClientOK, PresentedOK, SInv, JobsOK, ServerTypeOK, Job
<1>6. CASE Select(r)
    <2>1. tokens' = tokens /\ job[r].step = "select"
        BY <1>6 DEF Select
    <2>2. job'[r].new = job[r].new /\ job'[r].step \in {"update", "kill", "done"}
        BY <1>6 DEF Select, GoOn, Verdict, SInv, ServerTypeOK
    <2>3. job'[r].step = "kill" => ~Unrevoked(tokens[job[r].tok])
        BY <1>6 DEF Select, GoOn, Verdict, SInv, ServerTypeOK, Unrevoked
    <2>4. \A q \in Requests : /\ job'[q].tok = job[q].tok /\ job'[q].new = job[q].new
                              /\ job'[q].step = "idle" => job[q].step = "idle"
                              /\ job'[q].step = "insert" <=> job[q].step = "insert"
                              /\ job'[q].step = "kill" => ~Unrevoked(tokens'[job[q].tok])
                              /\ job[q].step = "done" => job'[q].step = "done"
        BY <1>3, <1>5, <2>1, <2>2, <2>3
    <2>5. \A s \in TokenIds : /\ tokens'[s].family = tokens[s].family
                              /\ tokens'[s].status = "free" <=> tokens[s].status = "free"
                              /\ Unrevoked(tokens'[s]) => Unrevoked(tokens[s])
        BY <2>1
    <2>6. ClientOK'
        BY <1>1, <2>4, <2>5, Quiet DEF CInv
    <2> QED
        BY <1>2, <1>4, <2>6 DEF CInv
<1>7. CASE Update(r) /\ Unrevoked(tokens[job[r].tok])
    BY <1>1, <1>2, <1>4, <1>7, Updated DEF CInv
<1>8. CASE (Update(r) /\ ~Unrevoked(tokens[job[r].tok])) \/ Kill(r)
    <2>1. PICK S \in SUBSET TokenIds : tokens' = Revoked(tokens, S)
        <3>1. {job[r].tok} \in SUBSET TokenIds
            BY <1>8 DEF Update, Kill, SInv, JobsOK, ServerTypeOK, Job
        <3> QED
            BY <1>8, <3>1 DEF Update, Kill, OfFamily
    <2>2. \A s \in TokenIds : /\ tokens'[s].family = tokens[s].family
                              /\ tokens'[s].status = "free" <=> tokens[s].status = "free"
                              /\ Unrevoked(tokens'[s]) => Unrevoked(tokens[s])
        <3>1. \A s \in TokenIds : /\ tokens'[s].family = tokens[s].family
                                  /\ tokens'[s].status = "free" <=> tokens[s].status = "free"
                                  /\ Unrevoked(tokens'[s]) <=> Unrevoked(tokens[s]) /\ s \notin S
            BY <1>1, <2>1, RevokedRows
        <3> QED
            BY <3>1
    <2>3. /\ job[r].step \in {"update", "kill"} /\ job'[r].new = job[r].new
          /\ job'[r].step = (IF job[r].step = "kill" THEN "done" ELSE "kill")
          /\ job[r].step = "update" => ~Unrevoked(tokens[job[r].tok])
          /\ job[r].tok \in TokenIds
        BY <1>8 DEF Update, Kill, GoOn, SInv, JobsOK, ServerTypeOK, Job
    <2>4. \A q \in Requests : /\ job'[q].tok = job[q].tok /\ job'[q].new = job[q].new
                              /\ job'[q].step = "idle" => job[q].step = "idle"
                              /\ job'[q].step = "insert" <=> job[q].step = "insert"
                              /\ job'[q].step = "kill" => ~Unrevoked(tokens'[job[q].tok])
                              /\ job[q].step = "done" => job'[q].step = "done"
        BY <1>3, <1>5, <2>2, <2>3
    <2>5. ClientOK'
        BY <1>1, <2>2, <2>4, Quiet DEF CInv
    <2> QED
        BY <1>2, <1>4, <2>5 DEF CInv
<1>9. ASSUME NEW n \in TokenIds, Insert(r, n) PROVE CInv'
    BY <1>1, <1>2, <1>4, <1>9, InsertedOK DEF CInv
<1> QED
    BY <1>6, <1>7, <1>8, <1>9 DEF Serve, Handle

LEMMA ReloadOK ==
    ASSUME SInv, CInv, NEW b \in Tabs, Reload(b)
    PROVE  CInv'
<1>1. /\ tokens' = tokens /\ job' = job /\ jar' = jar /\ excused' = excused
      /\ ui' = [ui EXCEPT ![b] = "loading"]
      /\ memory' = [memory EXCEPT ![b] = "none"]
      /\ flight' = [flight EXCEPT ![b] = NoRequest]
      /\ origin' = [q \in Requests |-> IF origin[q].tab = b THEN NoOrigin ELSE origin[q]]
    BY DEF Reload, EndFlight, Orphaned
<1>2. ClientTyped'
    BY <1>1 DEF CInv, ClientTyped, NoOrigin
<1>3. FlightIsUnderWay' /\ FlightsKnown'
    BY <1>1 DEF CInv, FlightIsUnderWay, FlightsKnown, ClientTyped, Idle, NoOrigin
<1>4. ClientOK'
    <2>1. \A q \in Requests : job[q].step = "kill" => ~Unrevoked(tokens[job[q].tok])
        BY DEF CInv, ClientOK, PresentedOK
    <2> QED
        BY <1>1, <2>1, Quiet DEF CInv
<1> QED
    BY <1>2, <1>3, <1>4 DEF CInv

LEMMA SendOK ==
    ASSUME SInv, CInv, NEW r \in Requests, NEW b \in Tabs,
           BootRefresh(r, b) \/ CallRefreshes(r, b)
    PROVE  CInv'
<1> DEFINE kind == IF BootRefresh(r, b) THEN "boot" ELSE "flight"
<1>1. /\ kind \in {"boot", "flight"} /\ Send(r, b, kind)
      /\ tokens' = tokens /\ jar' = jar /\ memory' = memory /\ ui' = ui
      /\ kind = "flight" => flight[b] = NoRequest /\ flight' = [flight EXCEPT ![b] = r]
      /\ kind = "boot" => flight' = flight
    BY DEF BootRefresh, CallRefreshes
<1> HIDE DEF kind
<1>2. /\ job[r].step = "idle" /\ job'[r].step = "select"
      /\ \A q \in Requests \ {r} : job'[q] = job[q]
      /\ origin' = [q \in Requests |->
                        IF q = r THEN [tab |-> b, kind |-> kind, cancelled |-> FALSE]
                        ELSE IF kind = "boot" /\ origin[q].tab = b /\ origin[q].kind = "boot"
                             THEN [origin[q] EXCEPT !.cancelled = TRUE]
                        ELSE origin[q]]
      /\ excused' = excused \cup Overlaps(b, kind)
    BY <1>1 DEF Send, Arrive, SInv, ServerTypeOK, Job
<1>3. /\ \A q \in Requests \ {r} : /\ origin'[q].tab = origin[q].tab
                                   /\ origin'[q].kind = origin[q].kind
      /\ origin'[r].tab = b /\ origin'[r].kind = kind
    BY <1>2 DEF CInv, ClientTyped
<1>4. ClientTyped'
    <2>1. Overlaps(b, kind) \subseteq TokenIds
        BY DEF Overlaps, SInv, ServerTypeOK, Job
    <2>2. origin' \in [Requests -> [tab : Tabs \cup {NoTab}, kind : {"boot", "flight"},
                                    cancelled : BOOLEAN]]
        BY <1>1, <1>2 DEF CInv, ClientTyped
    <2> QED
        BY <1>1, <1>2, <2>1, <2>2 DEF CInv, ClientTyped
<1>5. \A c \in Tabs : flight[c] \in (Requests \ {r}) \cup {NoRequest}
    BY <1>2 DEF CInv, ClientTyped, FlightIsUnderWay, Idle
<1>6. FlightIsUnderWay'
    <2> SUFFICES ASSUME NEW c \in Tabs, flight'[c] # NoRequest
                 PROVE  /\ job'[flight'[c]].step # "idle"
                        /\ origin'[flight'[c]].tab = c
                        /\ origin'[flight'[c]].kind = "flight"
        BY DEF FlightIsUnderWay, Idle
    <2>1. CASE flight'[c] = flight[c]
        BY <1>2, <1>3, <1>5, <2>1 DEF CInv, FlightIsUnderWay, Idle
    <2>2. CASE flight'[c] # flight[c]
        <3>1. kind = "flight" /\ c = b /\ flight'[c] = r
            BY <1>1, <2>2 DEF CInv, ClientTyped
        <3> QED
            BY <1>2, <1>3, <3>1
    <2> QED
        BY <2>1, <2>2
<1>7. FlightsKnown'
    <2> SUFFICES ASSUME NEW q \in Requests, origin'[q].kind = "flight"
                 PROVE  origin'[q].tab \in Tabs /\ flight'[origin'[q].tab] = q
        BY DEF FlightsKnown
    <2>1. CASE q = r
        BY <1>1, <1>3, <2>1 DEF CInv, ClientTyped
    <2>2. CASE q # r
        <3>1. origin[q].tab \in Tabs /\ flight[origin[q].tab] = q /\ q # NoRequest
            BY <1>3, <2>2, RequestsAssumption DEF CInv, FlightsKnown
        <3> QED
            BY <1>1, <1>3, <2>2, <3>1 DEF CInv, ClientTyped
    <2> QED
        BY <2>1, <2>2
<1>8. ClientOK'
    BY <1>1, Sent
<1> QED
    BY <1>4, <1>6, <1>7, <1>8 DEF CInv

LEMMA LoginOK ==
    ASSUME SInv, CInv, NEW b \in Tabs, NEW u \in Users, NEW t \in TokenIds, Login(b, u, t)
    PROVE  CInv'
<1>1. /\ SignIn(u, t) /\ jar' \in {jar, t} /\ excused' = excused
      /\ flight' = flight /\ origin' = origin /\ job' = job
    BY DEF Login, SignIn
<1>2. ClientTyped'
    BY <1>1 DEF CInv, ClientTyped, Login
<1>3. FlightIsUnderWay' /\ FlightsKnown'
    BY <1>1, FlightsKept DEF CInv
<1>4. ClientOK'
    BY <1>1, SignedInOK DEF CInv
<1> QED
    BY <1>2, <1>3, <1>4 DEF CInv

LEMMA TabOK ==
    ASSUME SInv, CInv, NEW b \in Tabs, BootMe(b) \/ Logout(b) \/ AccessExpires(b)
    PROVE  CInv'
<1>1. UNCHANGED <<tokens, job, flight, origin, excused>> /\ jar' \in {jar, 0}
    BY DEF BootMe, Logout, AccessExpires
<1>2. ClientTyped'
    BY <1>1 DEF CInv, ClientTyped, BootMe, Logout, AccessExpires
<1> QED
    BY <1>1, <1>2, Ashore DEF CInv

LEMMA ElsewhereOK ==
    ASSUME SInv, CInv, EndedElsewhere
    PROVE  CInv'
<1>1. /\ job' = job /\ excused' = excused
      /\ UNCHANGED <<jar, memory, ui, flight, origin>>
    BY DEF EndedElsewhere, SignOutEverywhere, cvars
<1>2. PICK S \in SUBSET TokenIds : tokens' = Revoked(tokens, S)
    BY DEF EndedElsewhere, SignOutEverywhere, OfUser
<1>3. tokens \in [TokenIds -> Row]
    BY DEF SInv, ServerTypeOK, TokensTyped
<1>4. \A s \in TokenIds : /\ tokens'[s].family = tokens[s].family
                          /\ tokens'[s].status = "free" <=> tokens[s].status = "free"
                          /\ Unrevoked(tokens'[s]) => Unrevoked(tokens[s])
    <2>1. \A s \in TokenIds : /\ tokens'[s].family = tokens[s].family
                              /\ tokens'[s].status = "free" <=> tokens[s].status = "free"
                              /\ Unrevoked(tokens'[s]) <=> Unrevoked(tokens[s]) /\ s \notin S
        BY <1>2, <1>3, RevokedRows
    <2> QED
        BY <2>1
<1>5. \A q \in Requests : job[q].step = "kill" => ~Unrevoked(tokens'[job[q].tok])
    BY <1>4 DEF CInv, ClientOK, PresentedOK, SInv, JobsOK, ServerTypeOK, Job
<1>6. ClientOK'
    BY <1>1, <1>4, <1>5, Quiet DEF CInv
<1>7. ClientTyped' /\ FlightIsUnderWay' /\ FlightsKnown'
    BY <1>1, FlightsKept DEF CInv, ClientTyped
<1> QED
    BY <1>6, <1>7 DEF CInv

-----------------------------------------------------------------------------
(* The composition.                                                        *)

(* Whatever the tabs do, the server takes steps of its own. *)
LEMMA Driven == SInv /\ CInv /\ [Next]_vars => [ServerNext]_svars
<1> SUFFICES ASSUME SInv, CInv, [Next]_vars PROVE [ServerNext]_svars
    OBVIOUS
<1>1. jar \in TokenIds \cup {0}
    BY DEF CInv, ClientTyped
<1>2. ASSUME NEW r \in Requests, Request(r) PROVE [ServerNext]_svars
    <2>1. CASE Serve(r)
        BY <2>1 DEF Serve, ServerNext
    <2>2. CASE Deliver(r) \/ Forget(r)
        BY <2>2 DEF Deliver, Forget, ServerNext
    <2>3. CASE Drop(r)
        BY <2>3 DEF Drop, svars
    <2>4. CASE \E b \in Tabs : BootRefresh(r, b) \/ CallRefreshes(r, b)
        BY <1>1, <2>4 DEF BootRefresh, CallRefreshes, Send, ServerNext
    <2> QED
        BY <1>2, <2>1, <2>2, <2>3, <2>4 DEF Request
<1>3. ASSUME NEW b \in Tabs, Tab(b) PROVE [ServerNext]_svars
    <2>1. CASE Reload(b) \/ BootMe(b) \/ Logout(b) \/ AccessExpires(b)
        BY <2>1 DEF Reload, BootMe, Logout, AccessExpires, svars
    <2>2. CASE \E u \in Users, t \in TokenIds : Login(b, u, t)
        BY <2>2 DEF Login, ServerNext
    <2> QED
        BY <1>3, <2>1, <2>2 DEF Tab
<1>4. CASE EndedElsewhere
    BY <1>4 DEF EndedElsewhere, ServerNext
<1>5. CASE UNCHANGED vars
    BY <1>5 DEF vars, svars
<1> QED
    BY <1>2, <1>3, <1>4, <1>5 DEF Next

LEMMA ClientStep == SInv /\ CInv /\ [Next]_vars => SInv' /\ CInv'
<1> SUFFICES ASSUME SInv, CInv, [Next]_vars PROVE SInv' /\ CInv'
    OBVIOUS
<1>1. SInv'
    BY Driven, StepOK
<1>2. ASSUME NEW r \in Requests, Request(r) PROVE CInv'
    BY <1>2, ServeOK, DeliverOK, DropOK, ForgetOK, SendOK DEF Request
<1>3. ASSUME NEW b \in Tabs, Tab(b) PROVE CInv'
    BY <1>3, ReloadOK, TabOK, LoginOK DEF Tab
<1>4. CASE EndedElsewhere
    BY <1>1, <1>4, ElsewhereOK
<1>5. CASE UNCHANGED vars
    <2>1. UNCHANGED <<tokens, job, flight, origin, excused>> /\ jar' \in {jar, 0}
        BY <1>5 DEF vars, cvars
    <2>2. ClientTyped'
        BY <1>5 DEF vars, cvars, CInv, ClientTyped
    <2> QED
        BY <1>1, <2>1, <2>2, Ashore DEF CInv
<1> QED
    BY <1>1, <1>2, <1>3, <1>4, <1>5 DEF Next

(* The inductive invariant of the composition: a token that was presented    *)
(* and not excused is in one request only, and nobody else's token of its   *)
(* family is good.                                                          *)
THEOREM ClientInductive == Spec => [](SInv /\ CInv)
<1>1. Init => SInv /\ CInv
    BY ClientInit, InitOK DEF Init
<1> QED
    BY <1>1, ClientStep, PTL DEF Spec

(* The tabs and the server keep the kinds of values the code gives them. *)
THEOREM ClientTypeCorrect == Spec => []TypeOK
<1>1. SInv /\ CInv => TypeOK
    BY DEF SInv, CInv, ClientTyped, TypeOK
<1> QED
    BY <1>1, ClientInductive, PTL

(* Calls that wait for a refresh wait for one that is under way, which only *)
(* their tab waits for (refresh in AuthContext.tsx).                        *)
THEOREM OneFlight == Spec => []FlightIsUnderWay
<1>1. SInv /\ CInv => FlightIsUnderWay
    BY DEF CInv
<1> QED
    BY <1>1, ClientInductive, PTL

(* The tabs drive the token server through its handlers only, so that what   *)
(* is proved of it holds of the browser's sessions too.                      *)
THEOREM ClientDrivesServer == Spec => ServerSpec
<1>1. Init => ServerInit
    BY DEF Init
<1> QED
    BY <1>1, Driven, ClientInductive, PTL DEF Spec, ServerSpec

(* However the tabs' refreshes interleave, a family has one good token. *)
THEOREM ClientRotation == Spec => []OneLiveToken
BY ClientDrivesServer, Rotation, PTL

(* A session that a sign-out elsewhere, a logout or a reuse has ended is not *)
(* brought back by any answer that arrives late.                             *)
THEOREM ClientSessionsEnd == Spec => SessionsEndForGood
BY ClientDrivesServer, SessionsEnd, PTL

(* When the server ends a session because a token was used again, the        *)
(* browser did send it twice, or lost the answer to it.                      *)
LEMMA KillHasACause ==
    ASSUME SInv, CInv, [Next]_vars, NEW r \in Requests,
           job[r].step = "kill", job'[r].step = "done", tokens' # tokens
    PROVE  job[r].tok \in excused
<1>1. Kill(r)
    <2>1. \A q \in Requests, n \in TokenIds \cup {0} :
            Arrive(q, n) \/ Leave(q) => tokens' = tokens
        BY DEF Arrive, Leave
    <2>2. ASSUME NEW q \in Requests, Handle(q), q # r PROVE job'[r] = job[r]
        BY <2>2 DEF Handle, Select, Update, Insert, Kill, GoOn, SInv, ServerTypeOK
    <2>3. ASSUME Handle(r) PROVE Kill(r)
        BY <2>3 DEF Handle, Select, Update, Insert
    <2>4. ASSUME NEW u \in Users, NEW t \in TokenIds,
                 SignOutEverywhere(u) \/ SignIn(u, t) PROVE job' = job
        BY <2>4 DEF SignOutEverywhere, SignIn
    <2>5. ASSUME NEW t \in TokenIds, SignOut(t) \/ Expire(t) PROVE job' = job
        BY <2>5 DEF SignOut, Expire
    <2>6. ServerNext
        BY Driven DEF svars
    <2>7. \A u \in Users : SignOutEverywhere(u) => job' = job
        BY DEF SignOutEverywhere
    <2> QED
        BY <2>1, <2>2, <2>3, <2>4, <2>5, <2>6, <2>7 DEF ServerNext
<1>2. job[r].tok \in TokenIds /\ tokens \in [TokenIds -> Row]
    BY DEF SInv, JobsOK, ServerTypeOK, TokensTyped, Job
<1>3. SUFFICES ASSUME job[r].tok \notin excused PROVE tokens' = tokens
    OBVIOUS
<1>4. Fresh(job[r].tok) /\ ~Unrevoked(tokens[job[r].tok])
    <2>1. job[r].new = 0 /\ job[r].tok # 0
        BY DEF CInv, ClientOK, AnswersOK, SInv, JobsOK
    <2> QED
        BY <1>3, <2>1 DEF CInv, ClientOK, PresentedOK
<1>5. \A t \in OfFamily(tokens[job[r].tok].family) : ~Unrevoked(tokens[t])
    BY <1>4 DEF Fresh, FreshIn, OfFamily
<1>6. tokens' = Revoked(tokens, OfFamily(tokens[job[r].tok].family))
    BY <1>1 DEF Kill
<1> QED
    BY <1>2, <1>5, <1>6 DEF Revoked

(* The server never takes a token for reused that the browser sent once and  *)
(* got the answer to: a tab's 401s share one refresh (inflightRefresh).      *)
THEOREM ReplayCause == Spec => ReplayHasACause
<1>1. SInv /\ CInv /\ [Next]_vars =>
        [\A r \in Requests :
            job[r].step = "kill" /\ job'[r].step = "done" /\ tokens' # tokens
                => job[r].tok \in excused]_vars
    BY KillHasACause
<1> QED
    BY <1>1, ClientInductive, PTL DEF Spec, ReplayHasACause
=============================================================================
