----------------------------- MODULE AuthSession -----------------------------
(***************************************************************************)
(* The mobile app's signed-in session: the token store (src/store/auth.ts) *)
(* and the axios client that stamps every request with the current token   *)
(* and session, refreshes once on a 401 and replays (src/api/client.ts),   *)
(* with the explicit sign-out of app/settings.tsx.                         *)
(*                                                                         *)
(* JavaScript runs to completion between two awaits, so an action is what  *)
(* runs from one await to the next.  The secure store is outside the app:  *)
(* a write and a delete asked of it are answered some time later, in       *)
(* either order.  Clears that overlap count as one.  A token is named by   *)
(* the sign-in it was issued to; 0 is no token.                            *)
(***************************************************************************)
EXTENDS Naturals, FiniteSets

CONSTANTS
    Requests,       \* requests that may be outstanding together
    MaxNonce        \* bound: no sign-in after that many sign-ins and -outs

ASSUME SessionAssumption == MaxNonce \in Nat

VARIABLES
    access,         \* useAuthStore.accessToken
    refresh,        \* useAuthStore.refreshToken
    sessionNonce,   \* useAuthStore.sessionNonce
    clearing,       \* a clear() has asked the secure store to delete
    refreshing,     \* refreshInFlight
    req             \* the requests, with what the client stamped on them

vars == <<access, refresh, sessionNonce, clearing, refreshing, req>>
store == <<access, refresh, sessionNonce, clearing>>

Token == Nat

RequestRow ==
    [pc : {"idle", "sent", "waiting"},
     login : Token,                 \* the sign-in that issued it
     kind : {"data", "logout"},
     token : Token,                 \* the Authorization header
     __sessionNonce : Nat,
     __authRetry : BOOLEAN]

NoRefresh == [pc |-> "none", token |-> 0, under |-> 0]

RefreshRow ==
    {NoRefresh} \cup
    [pc : {"posted", "saving", "ending"}, token : Token \ {0}, under : Nat]

NoRequest == [pc |-> "idle", login |-> 0, kind |-> "data", token |-> 0,
              __sessionNonce |-> 0, __authRetry |-> FALSE]

TypeOK ==
    /\ access \in Token
    /\ refresh \in Token
    /\ sessionNonce \in Nat
    /\ clearing \in BOOLEAN
    /\ refreshing \in RefreshRow
    /\ req \in [Requests -> RequestRow]

Init ==
    /\ access = 0 /\ refresh = 0
    /\ sessionNonce = 0
    /\ clearing = FALSE
    /\ refreshing = NoRefresh
    /\ req = [r \in Requests |-> NoRequest]

-----------------------------------------------------------------------------
(* The store. *)

\* login.tsx: a sign-in from the login screen, which shows while there is no
\* access token.  What was asked of the secure store is done by the time
\* somebody has typed a password.
SetTokens ==
    /\ access = 0
    /\ ~clearing
    /\ refreshing.pc # "saving"
    /\ sessionNonce < MaxNonce
    /\ sessionNonce' = sessionNonce + 1
    /\ access' = sessionNonce + 1
    /\ refresh' = sessionNonce + 1
    /\ UNCHANGED <<clearing, refreshing, req>>

\* The promise gave null: every waiting request is rejected.
RejectWaiting ==
    /\ refreshing' = NoRefresh
    /\ req' = [r \in Requests |->
                 IF req[r].pc = "waiting" THEN NoRequest ELSE req[r]]

\* A sign-out request that has settled goes on to clear(), whatever the answer.
ClearsWhenSettled(r) == req[r].kind = "logout"

WaitingSignOut == \E r \in Requests : req[r].pc = "waiting" /\ ClearsWhenSettled(r)

\* The second half of clear(), the deletes done: a new, signed-out session.
\* The refresh that asked for it settles in the same turn.
Clear ==
    /\ clearing
    /\ access' = 0 /\ refresh' = 0
    /\ sessionNonce' = sessionNonce + 1
    /\ IF refreshing.pc = "ending"
       THEN RejectWaiting /\ clearing' = WaitingSignOut
       ELSE clearing' = FALSE /\ UNCHANGED <<refreshing, req>>

-----------------------------------------------------------------------------
(* Sending. *)

\* The request interceptor: the current token, the current session.
Stamped(row) ==
    [row EXCEPT !.pc = "sent", !.token = access, !.__sessionNonce = sessionNonce]

Send(r, kind) ==
    /\ req[r].pc = "idle"
    /\ access # 0
    /\ req' = [req EXCEPT ![r] =
                 Stamped([NoRequest EXCEPT !.login = access, !.kind = kind])]
    /\ UNCHANGED <<store, refreshing>>

Settle(r) == req' = [req EXCEPT ![r] = NoRequest]

\* Any answer but a 401, and no answer at all (timeout, offline).
Answered(r) ==
    /\ req[r].pc = "sent"
    /\ Settle(r)
    /\ clearing' = (clearing \/ ClearsWhenSettled(r))
    /\ UNCHANGED <<access, refresh, sessionNonce, refreshing>>

-----------------------------------------------------------------------------
(* The response interceptor on a 401. *)

\* Deviation: the session a request was issued under is not compared.
StaleNever(r) == FALSE

\* The session ended or changed while the request was out.
Stale(r) == req[r].__sessionNonce # sessionNonce

\* Rejected without touching the store.
RejectStale(r) ==
    /\ req[r].pc = "sent"
    /\ Stale(r)
    /\ Settle(r)
    /\ clearing' = (clearing \/ ClearsWhenSettled(r))
    /\ UNCHANGED <<access, refresh, sessionNonce, refreshing>>

\* Deviation: a replay that is refused refreshes and replays again.
Retryable(r) == TRUE

\* A request is replayed once.
FirstRefusal(r) == ~req[r].__authRetry

\* There is a token to refresh with.
CanRefresh == refresh # 0

\* The replay was refused too, or there is nothing to refresh with.
RejectTerminal(r) ==
    /\ req[r].pc = "sent"
    /\ ~Stale(r)
    /\ ~FirstRefusal(r) \/ (refreshing.pc = "none" /\ ~CanRefresh)
    /\ Settle(r)
    /\ clearing' = TRUE
    /\ UNCHANGED <<access, refresh, sessionNonce, refreshing>>

\* The first 401 posts the refresh, the others await the same promise.
AwaitRefresh(r) ==
    /\ req[r].pc = "sent"
    /\ ~Stale(r)
    /\ FirstRefusal(r)
    /\ IF refreshing.pc = "none"
       THEN /\ CanRefresh
            /\ refreshing' = [pc |-> "posted", token |-> refresh,
                              under |-> sessionNonce]
       ELSE UNCHANGED refreshing
    /\ req' = [req EXCEPT ![r].pc = "waiting"]
    /\ UNCHANGED store

-----------------------------------------------------------------------------
(* The answer of /auth/refresh, for all who await it. *)

\* Deviation: the answer is committed whatever session is signed in by now.
SameRefreshAny == TRUE

\* The posted refresh token is still the one in the store.
SameRefresh == refresh = refreshing.token

\* A new access token for the session that asked, on its way to the store.
RefreshGranted ==
    /\ refreshing.pc = "posted"
    /\ SameRefresh
    /\ refreshing' = [refreshing EXCEPT !.pc = "saving"]
    /\ UNCHANGED <<store, req>>

\* setAccessToken's set, and in the same turn the waiting requests pass
\* through the request interceptor again.
RefreshSaved ==
    /\ refreshing.pc = "saving"
    /\ access' = refreshing.token
    /\ refreshing' = NoRefresh
    /\ req' = [r \in Requests |->
                 IF req[r].pc # "waiting" THEN req[r]
                 ELSE [req[r] EXCEPT !.pc = "sent",
                                     !.token = refreshing.token,
                                     !.__sessionNonce = sessionNonce,
                                     !.__authRetry = TRUE]]
    /\ UNCHANGED <<refresh, sessionNonce, clearing>>

\* The session ended or changed while the refresh was out: its answer is dropped.
RefreshDropped ==
    /\ refreshing.pc = "posted"
    /\ ~SameRefresh
    /\ RejectWaiting
    /\ clearing' = (clearing \/ WaitingSignOut)
    /\ UNCHANGED <<access, refresh, sessionNonce>>

\* Deviation: a refused refresh ends whatever session is signed in.
AskedForIt == TRUE

\* The session signed in is the one the refresh was started under.
StartedUnder == refreshing.under = sessionNonce

\* 400, 401, 403, 422: the refresh token is dead, and only the session that
\* asked ends with it.
RefreshRefused ==
    /\ refreshing.pc = "posted"
    /\ IF StartedUnder
       THEN /\ refreshing' = [refreshing EXCEPT !.pc = "ending"]
            /\ clearing' = TRUE
            /\ UNCHANGED req
       ELSE /\ RejectWaiting
            /\ clearing' = (clearing \/ WaitingSignOut)
    /\ UNCHANGED <<access, refresh, sessionNonce>>

\* Timeout, offline, 5xx, 408, 429: the tokens are kept.
RefreshLost ==
    /\ refreshing.pc = "posted"
    /\ RejectWaiting
    /\ clearing' = (clearing \/ WaitingSignOut)
    /\ UNCHANGED <<access, refresh, sessionNonce>>

-----------------------------------------------------------------------------
Refused401(r) == RejectStale(r) \/ RejectTerminal(r) \/ AwaitRefresh(r)

Settles(r) == Answered(r) \/ Refused401(r)

RefreshStep ==
    RefreshGranted \/ RefreshSaved \/ RefreshDropped \/ RefreshRefused \/ RefreshLost

Next ==
    \/ SetTokens
    \/ Clear
    \/ RefreshStep
    \/ \E r \in Requests :
           (\E kind \in {"data", "logout"} : Send(r, kind)) \/ Settles(r)

Spec == Init /\ [][Next]_vars

\* Every call is given up after REQUEST_TIMEOUT_MS and the secure store answers.
Fairness ==
    /\ WF_vars(Clear)
    /\ WF_vars(RefreshStep)
    /\ \A r \in Requests : WF_vars(Settles(r))

FairSpec == Spec /\ Fairness

-----------------------------------------------------------------------------
(* Properties. *)

\* A request is only ever on the wire with a token of the very sign-in that
\* issued it: whatever happens while it is out, its replay never carries the
\* next account's token.
OwnToken ==
    \A r \in Requests : req[r].pc = "sent" => req[r].token = req[r].login

\* The refresh token in the store belongs to the session signed in now, and
\* the access token beside it to the same session: a late refresh answer never
\* cross-wires two sessions.
StoreIsOneSession ==
    refresh # 0 => refresh = sessionNonce /\ access = refresh

SignOutSettles(r) ==
    req[r].kind = "logout" /\ req[r].pc # "idle" /\ req'[r].pc = "idle"

OwnAnswer ==
    \/ refreshing.pc # "none" /\ refreshing.token = access
    \/ \E r \in Requests : req[r].login = access /\ req'[r] # req[r]

\* Sign-out apart, a session that is signed in begins to end only on an answer
\* to one of its own requests or to its own refresh: a 401 for the session
\* before it, however late, does not sign the new one out.
EndsOnlyItsSession ==
    [][(clearing' /\ ~clearing /\ access # 0
          /\ \A r \in Requests : ~SignOutSettles(r)) => OwnAnswer]_vars

\* As above with the answer to a sign-out counted: the sign-out of one session
\* does not throw the next one back to the login screen.
SignOutEndsOnlyItsSession ==
    [][(clearing' /\ ~clearing /\ access # 0) => OwnAnswer]_vars

\* A request that was refused is not refreshed and replayed for ever: each one
\* settles, whatever the backend answers.
RequestsSettle ==
    \A r \in Requests : req[r].pc # "idle" ~> req[r].pc = "idle"
=============================================================================
