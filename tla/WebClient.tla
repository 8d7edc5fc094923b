------------------------------ MODULE WebClient ------------------------------
(***************************************************************************)
(* The tabs of one browser and the token server: AuthContext.tsx,          *)
(* lib/authStorage.ts and features/auth/api.ts composed with TokenServer.  *)
(*                                                                         *)
(* The tabs share the browser's refresh cookie, which a request carries as *)
(* it was when the request left and an answer replaces when it arrives.    *)
(* Each tab keeps its access token in memory.  Requests and answers take   *)
(* any time and may be lost; a failure, a 429 and a 5xx look alike to a    *)
(* tab and are one action, Drop, after which the server may still go on    *)
(* with the request.  A page that is reloaded forgets everything but the   *)
(* cookie.                                                                 *)
(***************************************************************************)
EXTENDS TokenServer

CONSTANTS
    Tabs,
    NoTab,      \* the sender of a request nobody waits for
    NoRequest

ASSUME TabsAssumption == NoTab \notin Tabs
ASSUME RequestsAssumption == Requests \subseteq Nat /\ NoRequest \notin Requests

VARIABLES
    jar,        \* the row of the browser's refresh cookie, 0 without one
    memory,     \* the access token a tab holds: none, good or old (expired)
    ui,         \* AuthState.status
    flight,     \* inflightRefresh, which is also authStorage.pendingRefresh:
                \* the refresh that the calls which met a 401 wait for
    origin,     \* the tab a request came from, the code that sent it, and
                \* whether the boot that sent it was superseded (cancelled)
    excused     \* observer: tokens presented while a request with them was open,
                \* or rotated without the browser hearing of it

cvars == <<jar, memory, ui, flight, origin>>
vars == <<tokens, job, cvars, excused>>

NoOrigin == [tab |-> NoTab, kind |-> "boot", cancelled |-> FALSE]

Idle(r) == job[r].step = "idle"

-----------------------------------------------------------------------------
(* Sending and receiving.                                                  *)

(* The single flight of a tab never meets itself; every other pair of       *)
(* requests with one token is noted.                                        *)
Overlaps(b, kind) ==
    {job[r].tok : r \in {q \in Requests : /\ ~Idle(q)
                                          /\ job[q].tok = jar
                                          /\ ~(kind = "flight" /\ origin[q].kind = "flight"
                                               /\ origin[q].tab = b)}} \ {0}

(* POST /api/auth/refresh with the cookie of the moment; the lowest free     *)
(* number will do for it.                                                   *)
Send(r, b, kind) ==
    /\ \A q \in Requests : q < r => ~Idle(q)
    /\ Arrive(r, jar)
    /\ origin' = [q \in Requests |->
                    IF q = r THEN [tab |-> b, kind |-> kind, cancelled |-> FALSE]
                    ELSE IF kind = "boot" /\ origin[q].tab = b /\ origin[q].kind = "boot"
                         THEN [origin[q] EXCEPT !.cancelled = TRUE]
                    ELSE origin[q]]
    /\ excused' = excused \cup Overlaps(b, kind)

(* What refresh() does with its answer: the calls that waited go on. *)
EndFlight(b) == flight' = [flight EXCEPT ![b] = NoRequest]

(* A new access token and a new cookie.  After a boot, /me answers or not. *)
Granted(r, b) ==
    /\ job[r].new # 0
    /\ jar' = job[r].new
    /\ memory' = [memory EXCEPT ![b] = "good"]
    /\ IF origin[r].kind = "flight"
       THEN EndFlight(b) /\ UNCHANGED ui
       ELSE /\ IF origin[r].cancelled THEN UNCHANGED ui
               ELSE \E s \in {"in", "loading"} : ui' = [ui EXCEPT ![b] = s]
            /\ UNCHANGED flight

(* Mutant: a refusal leaves the flight registered. *)
DeniedKeepsFlight(r, b) ==
    /\ job[r].new = 0
    /\ ui' = [ui EXCEPT ![b] = "out"]
    /\ memory' = [memory EXCEPT ![b] = "none"]
    /\ UNCHANGED <<jar, flight>>

(* 401: the tab shows the login page. *)
Denied(r, b) ==
    /\ job[r].new = 0
    /\ IF origin[r].kind = "flight"
       THEN /\ EndFlight(b)
            /\ memory' = [memory EXCEPT ![b] = "none"]
            /\ ui' = [ui EXCEPT ![b] = "out"]
       ELSE /\ ui' = IF origin[r].cancelled THEN ui ELSE [ui EXCEPT ![b] = "out"]
            /\ UNCHANGED <<memory, flight>>
    /\ UNCHANGED jar

Deliver(r) ==
    /\ job[r].step = "done" /\ origin[r].tab # NoTab
    /\ Granted(r, origin[r].tab) \/ Denied(r, origin[r].tab)
    /\ Leave(r)
    /\ origin' = [origin EXCEPT ![r] = NoOrigin]
    /\ UNCHANGED excused

(* Mutant: a failed refresh stays registered. *)
DropKeepsFlight(r) ==
    /\ ~Idle(r) /\ origin[r].tab # NoTab
    /\ origin' = [origin EXCEPT ![r] = NoOrigin]
    /\ UNCHANGED <<flight, tokens, job, jar, memory, ui, excused>>

(* The fetch fails: the calls that waited get the error, the tab keeps its  *)
(* state, a boot stays on the loading screen.                               *)
Drop(r) ==
    /\ ~Idle(r) /\ origin[r].tab # NoTab
    /\ LET b == origin[r].tab
       IN IF origin[r].kind = "flight" THEN EndFlight(b) ELSE UNCHANGED flight
    /\ origin' = [origin EXCEPT ![r] = NoOrigin]
    /\ UNCHANGED <<tokens, job, jar, memory, ui, excused>>

(* Nobody waits for the answer of a dropped request. *)
Forget(r) ==
    /\ origin[r].tab = NoTab
    /\ Leave(r)
    /\ excused' = IF job[r].new # 0 THEN excused \cup {job[r].tok} ELSE excused
    /\ UNCHANGED <<jar, memory, ui, flight, origin>>

-----------------------------------------------------------------------------
(* The boot effect, the Retry button, API calls, login and logout.         *)

(* The page is loaded again: what it had sent is nobody's any more. *)
Orphaned(b) ==
    [q \in Requests |-> IF origin[q].tab = b THEN NoOrigin ELSE origin[q]]

Reload(b) ==
    /\ ui' = [ui EXCEPT ![b] = "loading"]
    /\ memory' = [memory EXCEPT ![b] = "none"]
    /\ EndFlight(b)
    /\ origin' = Orphaned(b)
    /\ UNCHANGED <<tokens, job, jar, excused>>

(* Without an access token in memory a boot refreshes. *)
BootRefresh(r, b) ==
    /\ ui[b] = "loading" /\ memory[b] = "none"
    /\ Send(r, b, "boot")
    /\ UNCHANGED <<tokens, jar, memory, ui, flight>>

(* With one it asks /me, which knows an expired one. *)
BootMe(b) ==
    /\ ui[b] = "loading"
    /\ \/ memory[b] = "good" /\ ui' = [ui EXCEPT ![b] = "in"] /\ UNCHANGED memory
       \/ /\ memory[b] = "old"
          /\ ui' = [ui EXCEPT ![b] = "out"]
          /\ memory' = [memory EXCEPT ![b] = "none"]
    /\ UNCHANGED <<tokens, job, jar, flight, origin, excused>>

(* Mutant: each 401 sends a refresh of its own. *)
CallRefreshesAnyway(r, b) ==
    /\ ui[b] = "in" /\ memory[b] = "old"
    /\ Send(r, b, "flight")
    /\ flight' = [flight EXCEPT ![b] = r]
    /\ UNCHANGED <<tokens, jar, memory, ui>>

(* A call meets a 401: withAuthRetry sends a refresh and registers it.  To   *)
(* join the one that is under way, as fetchWithAuth does too, changes nothing. *)
CallRefreshes(r, b) ==
    /\ ui[b] = "in" /\ memory[b] = "old"
    /\ flight[b] = NoRequest
    /\ Send(r, b, "flight")
    /\ flight' = [flight EXCEPT ![b] = r]
    /\ UNCHANGED <<tokens, jar, memory, ui>>

(* The answer to a login arrives or is lost; the family is open either way. *)
Login(b, u, t) ==
    /\ ui[b] = "out"
    /\ SignIn(u, t)
    /\ \/ /\ jar' = t
          /\ memory' = [memory EXCEPT ![b] = "good"]
          /\ ui' = [ui EXCEPT ![b] = "in"]
       \/ UNCHANGED <<jar, memory, ui>>
    /\ UNCHANGED <<flight, origin, excused>>

(* The refresh cookie's path is /api/auth/refresh: a browser does not send  *)
(* it to /api/auth/logout, whose handler then has nothing to revoke and     *)
(* only clears the cookie.  With an old access token, or on a failure, it   *)
(* does not even come to that; the tab signs out all the same.  A refresh   *)
(* that is under way goes on.                                               *)
Logout(b) ==
    /\ ui[b] = "in"
    /\ jar' \in {jar} \cup (IF memory[b] = "good" THEN {0} ELSE {})
    /\ memory' = [memory EXCEPT ![b] = "none"]
    /\ ui' = [ui EXCEPT ![b] = "out"]
    /\ UNCHANGED <<tokens, job, flight, origin, excused>>

AccessExpires(b) ==
    /\ memory[b] = "good"
    /\ memory' = [memory EXCEPT ![b] = "old"]
    /\ UNCHANGED <<tokens, job, jar, ui, flight, origin, excused>>

-----------------------------------------------------------------------------
(* The server's steps.                                                     *)

Serve(r) ==
    /\ Handle(r)
    /\ UNCHANGED <<cvars, excused>>

(* A change of password in another browser.  Tokens do not expire here: the *)
(* cookie has their max_age, so a browser drops it when its token expires.  *)
EndedElsewhere ==
    /\ \E u \in Users : SignOutEverywhere(u)
    /\ UNCHANGED <<cvars, excused>>

Init ==
    /\ ServerInit
    /\ jar = 0
    /\ memory = [b \in Tabs |-> "none"]
    /\ ui = [b \in Tabs |-> "loading"]
    /\ flight = [b \in Tabs |-> NoRequest]
    /\ origin = [r \in Requests |-> NoOrigin]
    /\ excused = {}

Request(r) ==
    \/ Serve(r) \/ Deliver(r) \/ Drop(r) \/ Forget(r)
    \/ \E b \in Tabs : BootRefresh(r, b) \/ CallRefreshes(r, b)

Tab(b) ==
    \/ Reload(b) \/ BootMe(b) \/ Logout(b) \/ AccessExpires(b)
    \/ \E u \in Users, t \in TokenIds : Login(b, u, t)

Next ==
    \/ \E r \in Requests : Request(r)
    \/ \E b \in Tabs : Tab(b)
    \/ EndedElsewhere

Spec == Init /\ [][Next]_vars

(* A fetch settles: it is answered, or the connection fails. *)
Settles(r) == Deliver(r) \/ Drop(r)

FairSpec == Spec /\ \A r \in Requests : WF_vars(Settles(r))

-----------------------------------------------------------------------------
(* Properties.                                                             *)

TypeOK ==
    /\ ServerTypeOK
    /\ jar \in TokenIds \cup {0}
    /\ memory \in [Tabs -> {"none", "good", "old"}]
    /\ ui \in [Tabs -> {"loading", "in", "out"}]
    /\ flight \in [Tabs -> Requests \cup {NoRequest}]
    /\ origin \in [Requests -> [tab : Tabs \cup {NoTab}, kind : {"boot", "flight"},
                                cancelled : BOOLEAN]]
    /\ excused \subseteq TokenIds

(* When the server takes a token for reused and ends the session with it,   *)
(* the browser had lost the answer that replaced the token, or a boot or    *)
(* another tab sent it at the same time: any number of 401s in one tab lead *)
(* to one refresh and never end the session (inflightRefresh and            *)
(* setPendingRefresh in AuthContext.tsx).                                   *)
ReplayHasACause ==
    [][\A r \in Requests :
        job[r].step = "kill" /\ job'[r].step = "done" /\ tokens' # tokens
            => job[r].tok \in excused]_vars

(* A call that waits for a refresh waits for one that is under way, of its  *)
(* own tab, and two tabs never wait for the same one.                       *)
FlightIsUnderWay ==
    \A b \in Tabs :
        flight[b] # NoRequest => /\ ~Idle(flight[b])
                                 /\ origin[flight[b]].tab = b
                                 /\ origin[flight[b]].kind = "flight"

(* Every call that met a 401 is repeated or fails in the end: a refresh     *)
(* that fails lets its waiters go (the finally of refresh).                 *)
WaitingCallsEnd ==
    \A b \in Tabs : flight[b] # NoRequest ~> flight[b] = NoRequest
=============================================================================
