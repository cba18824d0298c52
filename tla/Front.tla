------------------------------- MODULE Front --------------------------------
(***************************************************************************)
(* A signed request from the client to its handler: the client's signing   *)
(* editor (cli/client/client.go), the chain RateLimitByIP and RequireAuth  *)
(* of the server (server/middleware), and the handlers that read for the   *)
(* user the chain has found.  The users, keys and profiles are Access's,   *)
(* the server that may not be up yet is Bootstrap's.                       *)
(*                                                                         *)
(* RequireAuth aborts without returning at three places.  An aborted chain *)
(* calls no later handler, and the status that is written first is the one *)
(* the client gets, whatever is written after it.                          *)
(***************************************************************************)
EXTENDS Access

CONSTANTS
    Requests,
    Window,             \* 15 minutes, in ticks
    Skew,               \* how far the clocks of client and server may be apart
    RateLimit,          \* MAX_TOKEN_SIZE requests in a TIME_INTERVAL, one tick here
    MaxTime             \* bound: ticks in a behaviour

ASSUME FrontAssumption ==
    /\ Window \in Nat /\ Skew \in Nat /\ RateLimit \in Nat /\ MaxTime \in Nat
    /\ None \notin Keys \cup Users

VARIABLES
    now,
    hits,               \* requests of this client's address in this interval
    req,                \* per request: what was sent, and how far it has come
    found               \* per request: the row GetAuthKey has returned

vars == <<bootVars, envKek, faults, accessVars, now, hits, req, found>>
sharedVars == <<bootVars, envKek, accessVars>>

(***************************************************************************)
(* new:   not sent            wire:   on its way                           *)
(* dated: headers looked at   known:  the key has been looked up           *)
(* run:   in the handler      answered                                     *)
(***************************************************************************)
ReqStages == {"new", "wire", "dated", "known", "run", "answered"}
NoAnswer == 0
NoOne == [user |-> None, secret |-> None]

Req == [at : ReqStages, auth : Keys \cup {Typo, None}, secret : Keys \cup {Typo, None},
        date : 0 .. MaxTime, answer : {NoAnswer, 200, 401, 429, 500},
        aborted : BOOLEAN, late : BOOLEAN,
        open : BOOLEAN]             \* for a route that asks for no signature

TypeOK ==
    /\ BootTypeOK /\ AccessTypeOK
    /\ now \in 0 .. MaxTime
    /\ hits \in Nat
    /\ req \in [Requests -> Req]
    /\ found \in [Requests -> [user : Users \cup {None}, secret : Keys \cup {None}]]

Init ==
    /\ BootInit /\ AccessInit
    /\ now = 0 /\ hits = 0
    /\ req = [r \in Requests |->
                [at |-> "new", auth |-> None, secret |-> None, date |-> 0,
                 answer |-> NoAnswer, aborted |-> FALSE, late |-> FALSE, open |-> FALSE]]
    /\ found = [r \in Requests |-> NoOne]

\* An interval of the rate limiter passes; others at the address may be earlier.
Tick ==
    /\ now < MaxTime
    /\ now' = now + 1
    /\ hits' \in 0 .. RateLimit
    /\ UNCHANGED <<sharedVars, faults, req, found>>

\* The first status that is written is the one that is sent.
Answered(q, status) == IF q.answer = NoAnswer THEN [q EXCEPT !.answer = status] ELSE q

\* Mutant of Abort: the status is written, and the chain goes on.
WriteStatusOnly(q, status) == Answered(q, status)

Abort(q, status) == [Answered(q, status) EXCEPT !.aborted = TRUE]
At(q, stage) == [q EXCEPT !.at = stage]

Apart(a, b) == IF a < b THEN b - a ELSE a - b

\* A command loads the profile, and signs what it sends with the time of its own
\* clock; whoever calls the API without a profile sends no signature, to whichever
\* route.
Send(r) ==
    /\ req[r].at = "new"
    /\ \/ /\ profile # None /\ profile.text \in Profile
          /\ \E date \in {t \in 0 .. MaxTime : Apart(t, now) <= Skew} :
               req' = [req EXCEPT ![r] = [@ EXCEPT !.at = "wire", !.date = date,
                                            !.auth = profile.text.auth,
                                            !.secret = profile.text.secret]]
       \/ \E open \in BOOLEAN :
             req' = [req EXCEPT ![r] = [@ EXCEPT !.at = "wire", !.open = open]]
    /\ Suffer("send")
    /\ UNCHANGED <<sharedVars, now, hits, found>>

\* isPublic: /health and /execute/ are for anybody.
NeedsUser(q) == ~ q.open

\* parseAuthHeader: credential and signature have to be there.
Unsigned(q) == q.auth = None

\* A signature is that of the request as it was sent, under one secret.
SignedWith(q, secret) == q.secret = secret

\* RateLimitByIP, and then the two headers; neither of their errors returns.
CheckHeaders(r) ==
    LET q == req[r]
        stale == Apart(now, q.date) > Window
    IN
    /\ q.at = "wire"
    /\ server = "listening"
    /\ hits' = hits + 1
    /\ req' = [req EXCEPT ![r] =
                 IF hits >= RateLimit THEN At(Abort(q, 429), "answered")
                 ELSE IF ~ NeedsUser(q) THEN At(q, "run")
                 ELSE IF Unsigned(q) \/ stale
                      THEN At(Abort([q EXCEPT !.late = stale], 401), "dated")
                      ELSE At(q, "dated")]
    /\ UNCHANGED <<sharedVars, faults, now, found>>

HasRow(q) == q.auth \in Keys /\ owner[q.auth] # None

\* A secret is had back under the key encryption key it was stored under, and
\* under another one decrypt fails.
Decrypts(k) == under[k] = serverKek

\* Mutant of LookUpKey: every error of the store is taken for an unknown key.
LookUpKeyOrRefuse(r) ==
    LET q == req[r] IN
    /\ q.at = "dated"
    /\ server = "listening"
    /\ IF HasRow(q) /\ Decrypts(q.auth)
       THEN /\ found' = [found EXCEPT ![r] = [user |-> owner[q.auth], secret |-> q.auth]]
            /\ req' = [req EXCEPT ![r] = At(q, "known")]
       ELSE /\ req' = [req EXCEPT ![r] = At(Abort(q, 401), "answered")]
            /\ UNCHANGED found
    /\ UNCHANGED <<sharedVars, faults, now, hits>>

\* GetAuthKey: no row is 401, an error of Postgres or of the decryption 500.
LookUpKey(r) ==
    LET q == req[r] IN
    /\ q.at = "dated"
    /\ server = "listening"
    /\ \/ /\ HasRow(q) /\ Decrypts(q.auth)
          /\ found' = [found EXCEPT ![r] = [user |-> owner[q.auth], secret |-> q.auth]]
          /\ req' = [req EXCEPT ![r] = At(q, "known")]
          /\ UNCHANGED faults
       \/ /\ ~ HasRow(q)
          /\ req' = [req EXCEPT ![r] = At(Abort(q, 401), "answered")]
          /\ UNCHANGED <<found, faults>>
       \/ /\ \/ HasRow(q) /\ ~ Decrypts(q.auth) /\ UNCHANGED faults
             \/ Suffer("db")
          /\ req' = [req EXCEPT ![r] = At(Abort(q, 500), "answered")]
          /\ UNCHANGED found
    /\ UNCHANGED <<sharedVars, now, hits>>

\* c.Next() calls the handler unless the chain is aborted.
CallHandler(q) == IF q.aborted THEN At(q, "answered") ELSE At(q, "run")

\* The signatures are compared; a difference aborts, and does not return.
CompareSignatures(r) ==
    LET q == req[r] IN
    /\ q.at = "known"
    /\ server = "listening"
    /\ req' = [req EXCEPT ![r] =
                 CallHandler(IF ~ SignedWith(q, found[r].secret) THEN Abort(q, 401) ELSE q)]
    /\ UNCHANGED <<sharedVars, faults, now, hits, found>>

\* The handler reads the rows of the user in found[r], or fails to.
Handle(r) ==
    /\ req[r].at = "run"
    /\ server = "listening"
    /\ \/ req' = [req EXCEPT ![r] = At(Answered(@, 200), "answered")] /\ UNCHANGED faults
       \/ req' = [req EXCEPT ![r] = At(Answered(@, 500), "answered")] /\ Suffer("db")
    /\ UNCHANGED <<sharedVars, now, hits, found>>

\* Nobody listens where the request is sent to.
Refused(r) ==
    /\ server # "listening"
    /\ req[r].at = "wire"
    /\ req' = [req EXCEPT ![r] = At(@, "answered")]
    /\ UNCHANGED <<sharedVars, faults, now, hits, found>>

\* The connections end with the process, and its limiter forgets.
ServerDies ==
    /\ CrashServer
    /\ hits' = 0
    /\ req' = [r \in Requests |->
                 IF req[r].at \in {"dated", "known", "run"} THEN At(req[r], "answered")
                 ELSE req[r]]
    /\ UNCHANGED <<accessVars, now, found>>

RequestStep(r) ==
    \/ CheckHeaders(r) \/ LookUpKey(r) \/ CompareSignatures(r) \/ Handle(r)
    \/ Refused(r)

requestVars == <<now, req, found>>

Boots == BootStep /\ UNCHANGED <<accessVars, requestVars, hits>>

Next ==
    \/ Boots
    \/ ServerDies
    \/ AccessStep /\ UNCHANGED <<requestVars, hits>>
    \/ Tick
    \/ \E r \in Requests : Send(r) \/ RequestStep(r)

\* The server is started again, and its start goes on.
Fairness == WF_vars(Boots)

Spec == Init /\ [][Next]_vars /\ Fairness

-----------------------------------------------------------------------------
(***************************************************************************)
(* A handler that wants a user runs only for a request that the owner of a *)
(* key has signed with its secret, in time, and it runs as that owner:     *)
(* none of the three aborts without a return lets the chain go on,         *)
(* whatever of users, keys, profiles and the server changes meanwhile      *)
(* (auth.go:31-69).                                                        *)
(***************************************************************************)
HandledIsSigned ==
    \A r \in Requests : NeedsUser(req[r]) /\ (req[r].at = "run" \/ req[r].answer = 200) =>
        /\ req[r].auth \in Keys /\ req[r].secret = req[r].auth
        /\ ~ req[r].late
        /\ found[r].user # None /\ found[r].user = owner[req[r].auth]

(***************************************************************************)
(* Who sends what create-key has shown, and in time, is never told that it *)
(* is unauthorized: 401 has a cause on the client's side, and what fails   *)
(* on the server's side is 500, though two statuses are written for some   *)
(* requests (auth.go:39-46, authkey/store.go:36-47).                       *)
(***************************************************************************)
UnauthorizedForCause ==
    \A r \in Requests : req[r].answer = 401 =>
        req[r].late \/ ~ (req[r].auth \in shown /\ req[r].secret = req[r].auth)
=============================================================================
