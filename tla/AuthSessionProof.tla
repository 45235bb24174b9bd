-------------------------- MODULE AuthSessionProof ---------------------------
(* Theorems about the mobile app's session (AuthSession), for any number of *)
(* outstanding requests and any number of sign-ins.                         *)
EXTENDS AuthSession, TLAPS

-----------------------------------------------------------------------------
(* The inductive invariant. *)

Out(r) == req[r].pc # "idle"
StampedNow(r) == Out(r) /\ req[r].__sessionNonce = sessionNonce

\* Nothing is stamped with a session that is still to come.
NoFuture ==
    /\ \A r \in Requests : req[r].__sessionNonce <= sessionNonce
    /\ refreshing.under <= sessionNonce

\* What is stamped with the session signed in now was issued by it.
StampedByIssuer ==
    access # 0 => \A r \in Requests : StampedNow(r) => req[r].login = access

\* A request waits for a refresh that was begun no later than its own session.
WaitsInOrder ==
    \A r \in Requests :
        req[r].pc = "waiting" =>
            /\ refreshing.pc # "none"
            /\ refreshing.pc = "posted" =>
                   refreshing.under <= req[r].__sessionNonce

\* A refresh posts the token of its session, and while that session lasts the
\* store holds it.
RefreshOwn ==
    refreshing.pc # "none" =>
        /\ refreshing.token = refreshing.under
        /\ (refreshing.pc = "posted" /\ refreshing.under = sessionNonce) =>
               refresh = refreshing.token

\* A granted token is for those who wait, and either its session is signed in
\* or nothing is and no request has been issued since.
SavingOwn ==
    refreshing.pc = "saving" =>
        /\ \A r \in Requests :
              req[r].pc = "waiting" => req[r].login = refreshing.token
        /\ \/ refresh = refreshing.token
           \/ access = 0 /\ refresh = 0 /\ \A r \in Requests : ~StampedNow(r)

IInv ==
    /\ TypeOK
    /\ NoFuture
    /\ OwnToken
    /\ StoreIsOneSession
    /\ StampedByIssuer
    /\ WaitsInOrder
    /\ RefreshOwn
    /\ SavingOwn

USE SessionAssumption

-----------------------------------------------------------------------------
\* Initially nothing is signed in and nothing is out.
LEMMA InitIInv == Init => IInv
<1> SUFFICES ASSUME Init PROVE IInv
  OBVIOUS
<1> USE DEF Init, NoRefresh, NoRequest
<1>0. \A r \in Requests : req[r] = NoRequest
  OBVIOUS
<1>1. NoRequest \in RequestRow
  BY DEF RequestRow, Token
<1>2. TypeOK
  BY <1>1 DEF TypeOK, RefreshRow, Token
<1>3. NoFuture /\ OwnToken /\ StoreIsOneSession /\ StampedByIssuer
  BY <1>0 DEF NoFuture, OwnToken, StoreIsOneSession, StampedByIssuer
<1>4. WaitsInOrder /\ RefreshOwn /\ SavingOwn
  BY <1>0 DEF WaitsInOrder, RefreshOwn, SavingOwn
<1> QED
  BY <1>2, <1>3, <1>4 DEF IInv

\* The rows of the two records, field by field.
LEMMA RowTypes ==
    ASSUME TypeOK
    PROVE  /\ refreshing.pc \in {"none", "posted", "saving", "ending"}
           /\ refreshing.token \in Nat /\ refreshing.under \in Nat
           /\ refreshing.pc # "none" => refreshing.token # 0
           /\ refreshing = [pc |-> refreshing.pc, token |-> refreshing.token,
                            under |-> refreshing.under]
           /\ NoRequest \in RequestRow
           /\ \A r \in Requests :
                 /\ req[r].pc \in {"idle", "sent", "waiting"}
                 /\ req[r].login \in Nat
                 /\ req[r].kind \in {"data", "logout"}
                 /\ req[r].token \in Nat
                 /\ req[r].__sessionNonce \in Nat
                 /\ req[r].__authRetry \in BOOLEAN
BY DEF TypeOK, RequestRow, RefreshRow, NoRefresh, NoRequest, Token

\* The invariant's parts, as one citation.
USE DEF IInv

\* A sign-in: every earlier stamp is older than the new session.
LEMMA SetTokensStep == IInv /\ SetTokens => IInv'
<1> SUFFICES ASSUME IInv, SetTokens PROVE IInv'
  OBVIOUS
<1> USE RowTypes DEF SetTokens
<1>1. TypeOK'
  BY DEF TypeOK, Token
<1>2. NoFuture'
  BY DEF NoFuture, TypeOK
<1>3. OwnToken' /\ StoreIsOneSession'
  BY DEF OwnToken, StoreIsOneSession
<1>4. StampedByIssuer'
  BY DEF StampedByIssuer, StampedNow, Out, NoFuture, TypeOK
<1>5. WaitsInOrder'
  BY DEF WaitsInOrder
<1>6. RefreshOwn' /\ SavingOwn'
  BY DEF RefreshOwn, SavingOwn, NoFuture, TypeOK
<1> QED
  BY <1>1, <1>2, <1>3, <1>4, <1>5, <1>6

\* The rejected rows go idle and the promise is reset: the parts that speak
\* of requests on the wire or of a refresh can only become easier.
LEMMA RejectWaitingStep ==
    ASSUME IInv, RejectWaiting, UNCHANGED <<access, refresh, sessionNonce>>,
           clearing' \in BOOLEAN
    PROVE  IInv'
<1> USE RowTypes DEF RejectWaiting
<1>0. \A r \in Requests : req'[r] = NoRequest \/ (req'[r] = req[r] /\ req[r].pc # "waiting")
  OBVIOUS
<1>1. TypeOK'
  BY DEF TypeOK, RequestRow, RefreshRow, NoRequest, Token
<1>2. NoFuture'
  BY <1>0 DEF NoFuture, TypeOK, NoRequest, NoRefresh
<1>3. OwnToken' /\ StoreIsOneSession'
  BY <1>0 DEF OwnToken, StoreIsOneSession, NoRequest
<1>4. StampedByIssuer'
  BY <1>0 DEF StampedByIssuer, StampedNow, Out, NoRequest
<1>5. WaitsInOrder'
  BY <1>0 DEF WaitsInOrder, NoRequest
<1>6. RefreshOwn' /\ SavingOwn'
  BY DEF RefreshOwn, SavingOwn, NoRefresh
<1> QED
  BY <1>1, <1>2, <1>3, <1>4, <1>5, <1>6

\* A sign-out: the new session has issued nothing.
LEMMA ClearStep == IInv /\ Clear => IInv'
<1> SUFFICES ASSUME IInv, Clear PROVE IInv'
  OBVIOUS
<1> USE RowTypes DEF Clear
<1>0. \A r \in Requests :
         \/ req'[r] = NoRequest
         \/ /\ req'[r] = req[r]
            /\ req[r].pc = "waiting" => refreshing' = refreshing /\ refreshing.pc # "ending"
  BY DEF RejectWaiting, TypeOK
<1>a. refreshing' = refreshing \/ refreshing' = NoRefresh
  BY DEF RejectWaiting
<1>1. TypeOK'
  <2>1. refreshing' \in RefreshRow /\ req' \in [Requests -> RequestRow]
    BY <1>a DEF TypeOK, RejectWaiting, RefreshRow
  <2>2. clearing' \in BOOLEAN
    BY DEF WaitingSignOut
  <2> QED
    BY <2>1, <2>2 DEF TypeOK, Token
<1>2. NoFuture'
  BY <1>0, <1>a DEF NoFuture, TypeOK, NoRequest, NoRefresh
<1>3. OwnToken' /\ StoreIsOneSession'
  BY <1>0 DEF OwnToken, StoreIsOneSession, NoRequest
<1>4. StampedByIssuer'
  BY DEF StampedByIssuer
<1>5. WaitsInOrder'
  BY <1>0, <1>a DEF WaitsInOrder, NoRequest, NoRefresh
<1>6. RefreshOwn'
  BY <1>a DEF RefreshOwn, NoFuture, TypeOK, NoRefresh
<1>7. \A r \in Requests : ~StampedNow(r)'
  BY <1>0 DEF StampedNow, Out, NoFuture, TypeOK, NoRequest
<1>8. SavingOwn'
  BY <1>0, <1>a, <1>7 DEF SavingOwn, NoRefresh, NoRequest
<1> QED
  BY <1>1, <1>2, <1>3, <1>4, <1>5, <1>6, <1>8

\* A request issued now carries the token of the session signed in now.
LEMMA SendStep ==
    ASSUME IInv, NEW r \in Requests, NEW kind \in {"data", "logout"}, Send(r, kind)
    PROVE  IInv'
<1> USE RowTypes DEF Send, store
<1>0. /\ req'[r].pc = "sent" /\ req'[r].token = access /\ req'[r].login = access
      /\ req'[r].__sessionNonce = sessionNonce
      /\ \A q \in Requests \ {r} : req'[q] = req[q]
  BY DEF Stamped, NoRequest, TypeOK
<1>1. TypeOK'
  BY DEF TypeOK, Stamped, NoRequest, RequestRow, Token
<1>2. NoFuture'
  BY <1>0 DEF NoFuture, TypeOK
<1>3. OwnToken' /\ StoreIsOneSession'
  BY <1>0 DEF OwnToken, StoreIsOneSession
<1>4. StampedByIssuer'
  BY <1>0 DEF StampedByIssuer, StampedNow, Out
<1>5. WaitsInOrder'
  BY <1>0 DEF WaitsInOrder
<1>6. RefreshOwn' /\ SavingOwn'
  BY <1>0 DEF RefreshOwn, SavingOwn, StampedNow, Out
<1> QED
  BY <1>1, <1>2, <1>3, <1>4, <1>5, <1>6

\* A settled request changes nothing but its own row.
LEMMA SettleStep ==
    ASSUME IInv, NEW r \in Requests, Settle(r), clearing' \in BOOLEAN,
           UNCHANGED <<access, refresh, sessionNonce, refreshing>>
    PROVE  IInv'
<1> USE RowTypes DEF Settle
<1>0. \A q \in Requests : req'[q] = NoRequest \/ req'[q] = req[q]
  BY DEF TypeOK
<1>1. TypeOK'
  BY DEF TypeOK, NoRequest, RequestRow, Token
<1>2. NoFuture'
  BY <1>0 DEF NoFuture, TypeOK, NoRequest
<1>3. OwnToken' /\ StoreIsOneSession'
  BY <1>0 DEF OwnToken, StoreIsOneSession, NoRequest
<1>4. StampedByIssuer'
  BY <1>0 DEF StampedByIssuer, StampedNow, Out, NoRequest
<1>5. WaitsInOrder'
  BY <1>0 DEF WaitsInOrder, NoRequest
<1>6. RefreshOwn' /\ SavingOwn'
  BY <1>0 DEF RefreshOwn, SavingOwn, StampedNow, Out, NoRequest
<1> QED
  BY <1>1, <1>2, <1>3, <1>4, <1>5, <1>6

\* A 401 that is not stale waits: the refresh it begins is its own session's.
LEMMA AwaitRefreshStep ==
    ASSUME IInv, NEW r \in Requests, AwaitRefresh(r) PROVE IInv'
<1> USE RowTypes DEF AwaitRefresh, store
<1>0. /\ req'[r] = [req[r] EXCEPT !.pc = "waiting"]
      /\ req'[r].pc = "waiting" /\ req'[r].login = req[r].login
      /\ req'[r].__sessionNonce = sessionNonce
      /\ req[r].__sessionNonce = sessionNonce
      /\ \A q \in Requests \ {r} : req'[q] = req[q]
  BY DEF TypeOK, RequestRow, Stale
<1>a. \/ refreshing' = refreshing /\ refreshing.pc # "none"
      \/ /\ refreshing.pc = "none" /\ refresh # 0
         /\ refreshing' = [pc |-> "posted", token |-> refresh, under |-> sessionNonce]
  BY DEF CanRefresh
<1>b. refreshing' \in RefreshRow
  BY <1>a DEF TypeOK, RefreshRow, Token
<1>1. TypeOK'
  BY <1>b DEF TypeOK, RequestRow
<1>2. NoFuture'
  BY <1>0, <1>a DEF NoFuture, TypeOK
<1>3. OwnToken' /\ StoreIsOneSession'
  BY <1>0 DEF OwnToken, StoreIsOneSession
<1>4. StampedByIssuer'
  BY <1>0 DEF StampedByIssuer, StampedNow, Out
<1>5. WaitsInOrder'
  BY <1>0, <1>a DEF WaitsInOrder, NoFuture, TypeOK
<1>6. RefreshOwn'
  BY <1>a DEF RefreshOwn, StoreIsOneSession
<1>7. refreshing'.pc = "saving" =>
         refresh = refreshing.token /\ req[r].login = refreshing.token
  BY <1>0, <1>a DEF SavingOwn, StampedByIssuer, StampedNow, Out, StoreIsOneSession
<1>8. SavingOwn'
  BY <1>0, <1>a, <1>7 DEF SavingOwn
<1> QED
  BY <1>1, <1>2, <1>3, <1>4, <1>5, <1>6, <1>8

\* The answer is for the session signed in: so are those who wait for it.
LEMMA RefreshGrantedStep == IInv /\ RefreshGranted => IInv'
<1> SUFFICES ASSUME IInv, RefreshGranted PROVE IInv'
  OBVIOUS
<1> USE RowTypes DEF RefreshGranted, store
<1>0. /\ refreshing'.pc = "saving" /\ refreshing'.token = refreshing.token
      /\ refreshing'.under = refreshing.under
      /\ refreshing' = [pc |-> "saving", token |-> refreshing.token,
                        under |-> refreshing.under]
  OBVIOUS
<1>1. TypeOK'
  BY <1>0 DEF TypeOK, RefreshRow, Token
<1>2. NoFuture' /\ OwnToken' /\ StoreIsOneSession' /\ StampedByIssuer'
  BY <1>0 DEF NoFuture, OwnToken, StoreIsOneSession, StampedByIssuer, StampedNow, Out
<1>3. WaitsInOrder' /\ RefreshOwn'
  BY <1>0 DEF WaitsInOrder, RefreshOwn
<1>4. refreshing.under = sessionNonce /\ refreshing.token = access /\ access # 0
  BY DEF SameRefresh, RefreshOwn, StoreIsOneSession
<1>5. \A r \in Requests : req[r].pc = "waiting" => StampedNow(r)
  BY <1>4 DEF WaitsInOrder, NoFuture, StampedNow, Out, TypeOK
<1>6. SavingOwn'
  BY <1>0, <1>4, <1>5 DEF SavingOwn, StampedByIssuer, SameRefresh
<1> QED
  BY <1>1, <1>2, <1>3, <1>6

\* The replays carry the token of the session that issued them.
LEMMA RefreshSavedStep == IInv /\ RefreshSaved => IInv'
<1> SUFFICES ASSUME IInv, RefreshSaved PROVE IInv'
  OBVIOUS
<1> USE RowTypes DEF RefreshSaved
<1>0. ASSUME NEW r \in Requests
      PROVE  \/ req[r].pc # "waiting" /\ req'[r] = req[r]
             \/ /\ req[r].pc = "waiting" /\ req[r].login = refreshing.token
                /\ req'[r].pc = "sent" /\ req'[r].login = req[r].login
                /\ req'[r].token = refreshing.token
                /\ req'[r].__sessionNonce = sessionNonce
                /\ req'[r] \in RequestRow
  <2>1. req[r] \in RequestRow
    BY DEF TypeOK
  <2>2. CASE req[r].pc = "waiting"
    <3>1. req'[r] = [req[r] EXCEPT !.pc = "sent", !.token = refreshing.token,
                         !.__sessionNonce = sessionNonce, !.__authRetry = TRUE]
      BY <2>2
    <3>2. req'[r] = [pc |-> "sent", login |-> req[r].login, kind |-> req[r].kind,
                     token |-> refreshing.token, __sessionNonce |-> sessionNonce,
                     __authRetry |-> TRUE]
      BY <2>1, <3>1 DEF RequestRow
    <3>3. req'[r] \in RequestRow
      BY <3>2 DEF RequestRow, Token, TypeOK
    <3> QED
      BY <2>2, <3>2, <3>3 DEF SavingOwn
  <2> QED
    BY <2>2
<1>1. TypeOK'
  <2>1. \A r \in Requests : req'[r] \in RequestRow
    BY <1>0 DEF TypeOK
  <2>2. req' \in [Requests -> RequestRow]
    BY <2>1
  <2> QED
    BY <2>2 DEF TypeOK, RefreshRow, Token
<1>2. NoFuture'
  <2>0. sessionNonce \in Nat /\ sessionNonce' = sessionNonce
    BY DEF TypeOK
  <2>1. refreshing'.under = 0
    BY DEF NoRefresh
  <2>2. NoFuture
    OBVIOUS
  <2> HIDE DEF RefreshSaved, IInv
  <2> QED
    BY <1>0, <2>0, <2>1, <2>2 DEF NoFuture
<1>3. OwnToken'
  <2>1. OwnToken
    OBVIOUS
  <2> HIDE DEF RefreshSaved, IInv
  <2> QED
    BY <1>0, <2>1 DEF OwnToken
<1>4. StoreIsOneSession'
  BY DEF SavingOwn, StoreIsOneSession
<1>5. StampedByIssuer'
  <2>1. /\ refreshing.pc = "saving" /\ access' = refreshing.token
        /\ sessionNonce' = sessionNonce
        /\ StampedByIssuer /\ SavingOwn /\ StoreIsOneSession
    OBVIOUS
  <2> HIDE DEF RefreshSaved, IInv
  <2> QED
    BY <1>0, <2>1 DEF StampedByIssuer, SavingOwn, StoreIsOneSession, StampedNow, Out
<1>6. WaitsInOrder' /\ RefreshOwn' /\ SavingOwn'
  BY <1>0 DEF WaitsInOrder, RefreshOwn, SavingOwn, NoRefresh
<1> QED
  BY <1>1, <1>2, <1>3, <1>4, <1>5, <1>6

\* A refused refresh keeps the store as it is until the deletes are done.
LEMMA RefreshRefusedStep == IInv /\ RefreshRefused => IInv'
<1> SUFFICES ASSUME IInv, RefreshRefused PROVE IInv'
  OBVIOUS
<1> USE RowTypes DEF RefreshRefused
<1>1. CASE StartedUnder
  <2>0. /\ refreshing' = [pc |-> "ending", token |-> refreshing.token,
                          under |-> refreshing.under]
        /\ UNCHANGED <<access, refresh, sessionNonce, req>>
    BY <1>1
  <2>1. TypeOK'
    BY <1>1, <2>0 DEF TypeOK, RefreshRow, Token
  <2>2. NoFuture' /\ OwnToken' /\ StoreIsOneSession' /\ StampedByIssuer'
    BY <2>0 DEF NoFuture, OwnToken, StoreIsOneSession, StampedByIssuer, StampedNow, Out
  <2>3. WaitsInOrder' /\ RefreshOwn' /\ SavingOwn'
    BY <2>0 DEF WaitsInOrder, RefreshOwn, SavingOwn
  <2> QED
    BY <2>1, <2>2, <2>3
<1>2. CASE ~StartedUnder
  BY <1>2, RejectWaitingStep DEF WaitingSignOut, TypeOK
<1> QED
  BY <1>1, <1>2

\* Every step keeps the invariant.
LEMMA NextIInv == IInv /\ [Next]_vars => IInv'
<1> SUFFICES ASSUME IInv, [Next]_vars PROVE IInv'
  OBVIOUS
<1>1. CASE SetTokens
  BY <1>1, SetTokensStep
<1>2. CASE Clear
  BY <1>2, ClearStep
<1>3. CASE RefreshGranted
  BY <1>3, RefreshGrantedStep
<1>4. CASE RefreshSaved
  BY <1>4, RefreshSavedStep
<1>5. CASE RefreshDropped
  BY <1>5, RejectWaitingStep DEF RefreshDropped, WaitingSignOut, TypeOK
<1>6. CASE RefreshRefused
  BY <1>6, RefreshRefusedStep
<1>7. CASE RefreshLost
  BY <1>7, RejectWaitingStep DEF RefreshLost, WaitingSignOut, TypeOK
<1>8. ASSUME NEW r \in Requests, NEW kind \in {"data", "logout"}, Send(r, kind)
      PROVE  IInv'
  BY <1>8, SendStep
<1>9. ASSUME NEW r \in Requests, Settles(r) PROVE IInv'
  <2>1. CASE Answered(r)
    BY <2>1, SettleStep DEF Answered, ClearsWhenSettled, TypeOK
  <2>2. CASE RejectStale(r)
    BY <2>2, SettleStep DEF RejectStale, ClearsWhenSettled, TypeOK
  <2>3. CASE RejectTerminal(r)
    BY <2>3, SettleStep DEF RejectTerminal
  <2>4. CASE AwaitRefresh(r)
    BY <2>4, AwaitRefreshStep
  <2> QED
    BY <1>9, <2>1, <2>2, <2>3, <2>4 DEF Settles, Refused401
<1>10. CASE UNCHANGED vars
  BY <1>10 DEF vars, TypeOK, NoFuture, OwnToken, StoreIsOneSession,
               StampedByIssuer, WaitsInOrder, RefreshOwn, SavingOwn, StampedNow, Out
<1> QED
  BY <1>1, <1>2, <1>3, <1>4, <1>5, <1>6, <1>7, <1>8, <1>9, <1>10 DEF Next, RefreshStep

-----------------------------------------------------------------------------
\* The invariant holds of every behaviour.
THEOREM SessionInvariance == Spec => []IInv
<1> QED
  BY InitIInv, NextIInv, PTL DEF Spec

\* The store, the refresh and every request keep their types; a posted refresh
\* token is never the absent one.
THEOREM SessionTypeCorrect == Spec => []TypeOK
<1>1. IInv => TypeOK
  BY DEF IInv
<1> QED
  BY SessionInvariance, <1>1, PTL

\* No request, first try or replay, is ever on the wire with the token of a
\* sign-in other than the one that issued it.
THEOREM RequestsCarryTheirOwn == Spec => []OwnToken
<1>1. IInv => OwnToken
  BY DEF IInv
<1> QED
  BY SessionInvariance, <1>1, PTL

\* Whatever answers come late, the two tokens in the store belong to the
\* session that is signed in.
THEOREM TokensOfOneSession == Spec => []StoreIsOneSession
<1>1. IInv => StoreIsOneSession
  BY DEF IInv
<1> QED
  BY SessionInvariance, <1>1, PTL

\* Sign-out apart, a signed-in session begins to end only on an answer to one
\* of its own requests or to its own refresh.
THEOREM SessionsEndThemselves == Spec => EndsOnlyItsSession
<1> DEFINE Ends == (clearing' /\ ~clearing /\ access # 0
                     /\ \A r \in Requests : ~SignOutSettles(r)) => OwnAnswer
<1>1. ASSUME IInv, [Next]_vars PROVE [Ends]_vars
  <2> SUFFICES ASSUME Next, clearing', ~clearing, access # 0,
                      \A r \in Requests : ~SignOutSettles(r)
               PROVE  OwnAnswer
    BY <1>1
  <2> USE <1>1, RowTypes
  <2>0. ~(RejectWaiting /\ WaitingSignOut)
    <3> SUFFICES ASSUME RejectWaiting, NEW r \in Requests,
                        req[r].pc = "waiting", ClearsWhenSettled(r)
                 PROVE  FALSE
      BY DEF WaitingSignOut
    <3>1. req'[r].pc = "idle"
      BY DEF RejectWaiting, NoRequest
    <3> QED
      BY <3>1 DEF SignOutSettles, ClearsWhenSettled
  <2>1. CASE RefreshRefused
    <3>1. StartedUnder
      BY <2>0, <2>1 DEF RefreshRefused
    <3>2. refreshing.pc # "none" /\ refreshing.token = access
      BY <2>1, <3>1 DEF RefreshRefused, StartedUnder, RefreshOwn, StoreIsOneSession
    <3> QED
      BY <3>2 DEF OwnAnswer
  <2>2. CASE RefreshDropped \/ RefreshLost
    BY <2>0, <2>2 DEF RefreshDropped, RefreshLost
  <2>3. ASSUME NEW r \in Requests, Answered(r) \/ RejectStale(r) PROVE FALSE
    <3>1. ClearsWhenSettled(r)
      BY <2>3, Zenon DEF Answered, RejectStale
    <3>2. req[r].pc = "sent" /\ req' = [req EXCEPT ![r] = NoRequest]
      BY <2>3 DEF Answered, RejectStale, Settle
    <3>3. req \in [Requests -> RequestRow]
      BY DEF TypeOK
    <3>4. req'[r].pc = "idle"
      BY <3>2, <3>3 DEF NoRequest
    <3> QED
      BY <3>1, <3>2, <3>4 DEF SignOutSettles, ClearsWhenSettled
  <2>4. ASSUME NEW r \in Requests, RejectTerminal(r) PROVE OwnAnswer
    <3>1. req[r].login = access
      BY <2>4 DEF RejectTerminal, Stale, StampedByIssuer, StampedNow, Out
    <3>2. req'[r] # req[r]
      BY <2>4 DEF RejectTerminal, Settle, NoRequest, TypeOK
    <3> QED
      BY <3>1, <3>2 DEF OwnAnswer
  <2>5. CASE SetTokens \/ Clear \/ RefreshGranted \/ RefreshSaved
    BY <2>5 DEF SetTokens, Clear, RefreshGranted, RefreshSaved, store
  <2>6. ASSUME NEW r \in Requests,
               AwaitRefresh(r) \/ \E kind \in {"data", "logout"} : Send(r, kind)
        PROVE  FALSE
    BY <2>6 DEF AwaitRefresh, Send, store
  <2> QED
    BY <2>1, <2>2, <2>3, <2>4, <2>5, <2>6
       DEF Next, RefreshStep, Settles, Refused401
<1> QED
  BY SessionInvariance, <1>1, PTL DEF Spec, EndsOnlyItsSession
=============================================================================
