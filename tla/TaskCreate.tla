------------------------------ MODULE TaskCreate ------------------------------
(***************************************************************************)
(* One task wanted from one Site Log entry: the create screen and its      *)
(* panel for a create in doubt (app/tasks/new.tsx, PendingCreatePanel.tsx),*)
(* the send and the question that follows a lost answer                    *)
(* (src/tasks/createFlow.ts), the records kept on the phone                *)
(* (src/store/taskPendingCreates.ts), and the server's requests, one at a  *)
(* time for a key (backend/app/services/tasks/create.py).                  *)
(*                                                                         *)
(* JavaScript runs to completion between two awaits: an action is what     *)
(* runs from one await to the next.  The user wants one task: once told of *)
(* it, they do not tap Save again.  What "unavailable" and "unknown" do is *)
(* the same and both are called unknown.                                   *)
(***************************************************************************)
EXTENDS Naturals, Sequences, FiniteSets

CONSTANTS
    Keys,           \* create_client_id values
    Values,         \* what the form can hold
    Others,         \* the values that assign the task to somebody else
    Foreign,        \* the key of another account's record on this phone
    Author, Other,  \* the accounts that sign in here
    None,           \* nothing, nobody
    MaxFaults       \* bound: requests the phone gives up on, app deaths, failed
                    \* disk operations, sessions ended, changed rights

ASSUME TaskAssumption ==
    /\ Others \subseteq Values
    /\ Foreign \notin Keys /\ None \notin Keys \cup Values
    /\ Author # Other /\ None \notin {Author, Other}
    /\ MaxFaults \in Nat

VARIABLES
    disk,       \* AsyncStorage 'task-pending-creates'
    memory,     \* useTaskPendingCreates.pending
    hydrated,   \* the disk has been read once
    queue,      \* the chain of disk operations
    app,        \* creates being sent, records being asked about, the screen
    user,       \* the signed-in account
    leaving,    \* POST /auth/logout is out
    req,        \* create requests on their way or being served
    task,       \* the committed tasks of the author, by key
    accepts,    \* values the entry and the assignees allow now
    mayAssign,  \* the author's role allows assigning to others
    known,      \* history: keys the phone was told the task of
    givenUp,    \* history: a record was dropped by discard or sign-out
    overtaken,  \* history: a refusal came while an older request was on its way
    faults

store == <<disk, memory, hydrated, queue>>
server == <<req, task>>
rights == <<accepts, mayAssign>>
hist == <<known, givenUp, overtaken>>
vars == <<store, app, user, leaving, server, rights, hist, faults>>

-----------------------------------------------------------------------------
Records == [Keys \cup {Foreign} -> Values \cup {None}]

Operation ==
    [op : {"put", "remove", "clear", "hydrate"}, key : Keys \cup {None},
     val : Values \cup {None}, for : {"send", "check", "discard", "none"},
     copy : Records \cup {None}]        \* the list as read, None until then

Op(op, k, v, for) == [op |-> op, key |-> k, val |-> v, for |-> for, copy |-> None]
Hydrate == Op("hydrate", None, None, "none")

Reply == {"none", "created", "refused", "refused_ahead"}

Sending ==
    [pc : {"idle", "putting", "posted", "forgetting"}, val : Values \cup {None},
     reply : Reply, stale : BOOLEAN]

Checking ==
    [pc : {"idle", "joining", "asking", "forgetting"},
     here : BOOLEAN,                    \* its screen is still in front
     stale : BOOLEAN]

Screen ==
    [open : BOOLEAN, key : Keys \cup {None},            \* keyRef; None, not used yet
     saving : BOOLEAN, panel : Keys \cup {None},
     phase : {"none", "checking", "not_found", "unknown", "sending"}]

Request ==
    [key : Keys, val : Values, by : {Author, Other}, awaited : BOOLEAN,
     pc : {"out", "authenticated", "inserted"}, mayAssign : BOOLEAN]

TypeOK ==
    /\ disk \in Records /\ memory \in Records
    /\ hydrated \in BOOLEAN
    /\ queue \in Seq(Operation)
    /\ app \in [send : [Keys -> Sending], check : [Keys -> Checking], screen : Screen]
    /\ user \in {Author, Other, None}
    /\ leaving \in BOOLEAN
    /\ req \subseteq Request
    /\ task \in [Keys -> Values \cup {None}]
    /\ accepts \subseteq Values /\ mayAssign \in BOOLEAN
    /\ known \subseteq Keys /\ givenUp \in BOOLEAN /\ overtaken \in BOOLEAN
    /\ faults \in 0 .. MaxFaults

NoSend == [pc |-> "idle", val |-> None, reply |-> "none", stale |-> FALSE]
NoCheck == [pc |-> "idle", here |-> FALSE, stale |-> FALSE]
NoScreen == [open |-> FALSE, key |-> None, saving |-> FALSE, panel |-> None,
             phase |-> "none"]
Started == [send |-> [k \in Keys |-> NoSend], check |-> [k \in Keys |-> NoCheck],
            screen |-> NoScreen]

\* Another account's unresolved create is on the phone; the app has just begun.
Init ==
    /\ \E v \in Values : disk = [k \in Keys \cup {Foreign} |->
                                    IF k = Foreign THEN v ELSE None]
    /\ memory = [k \in Keys \cup {Foreign} |-> None]
    /\ hydrated = FALSE
    /\ queue = <<Hydrate>>
    /\ app = Started
    /\ user = Author /\ leaving = FALSE
    /\ req = {} /\ task = [k \in Keys |-> None]
    /\ accepts = Values /\ mayAssign = TRUE
    /\ known = {} /\ givenUp = FALSE /\ overtaken = FALSE
    /\ faults = 0

Fault == faults < MaxFaults /\ faults' = faults + 1

-----------------------------------------------------------------------------
(* What the app knows of the author's creates. *)

screen == app.screen
Running(k) == app.send[k].pc # "idle"

\* forEvent: sending, or on the phone and not resolved.
PendingIn(a, list) == {k \in Keys : a.send[k].pc # "idle" \/ list[k] # None}
Pending == PendingIn(app, memory)

\* The panel of a record that is no longer pending is unmounted.
Shown(a, list) ==
    IF a.screen.panel \in PendingIn(a, list) THEN a
    ELSE [a EXCEPT !.screen.panel = None, !.screen.phase = "none"]

Queued(o) == queue' = Append(queue, o)
InQueue(k) == \E i \in DOMAIN queue : queue[i].key = k

\* A key nothing has heard of.
Unused(k) ==
    /\ ~Running(k) /\ app.check[k].pc = "idle" /\ ~InQueue(k)
    /\ disk[k] = None /\ memory[k] = None /\ task[k] = None /\ k \notin known
    /\ \A q \in req : q.key # k

-----------------------------------------------------------------------------
(* The end of a send, as the screens see it. *)

\* Nothing was created under a refused key: the next save gets a new one.
RefusedForm(s) ==
    [s EXCEPT !.key = None, !.saving = FALSE, !.panel = None, !.phase = "none"]

\* The form or the panel that sent k, or a panel that joined its answer.
Watching(a, k) ==
    \/ a.screen.saving /\ a.screen.key = k
    \/ a.screen.phase = "sending" /\ a.screen.panel = k
    \/ a.check[k].pc = "joining" /\ a.check[k].here

AfterSend(a, k, outcome) ==
    LET s == a.screen
        after(phase) ==
            [s EXCEPT !.saving = IF s.key = k THEN FALSE ELSE s.saving,
                      !.phase = IF s.phase = "sending" /\ s.panel = k
                                THEN phase ELSE s.phase]
    IN  IF ~s.open \/ ~Watching(a, k) THEN s
        ELSE CASE outcome = "created" -> NoScreen
               [] outcome = "refused" -> RefusedForm(s)
               [] outcome = "not_saved" -> after("not_found")
               [] outcome = "unknown" -> after("unknown")

\* A panel that joined a send which ended without an answer asks the server.
AfterJoin(c, outcome) ==
    IF c.pc # "joining" THEN c
    ELSE IF c.stale \/ outcome \in {"created", "refused"} THEN NoCheck
    ELSE [c EXCEPT !.pc = "asking"]

\* list is what the phone's memory then holds.
EndSend(a, k, outcome, list) ==
    Shown([send |-> [a.send EXCEPT ![k] = NoSend],
           check |-> [a.check EXCEPT ![k] = AfterJoin(a.check[k], outcome)],
           screen |-> AfterSend(a, k, outcome)], list)

\* Found: the screen that asked moves to the task.
EndCheck(a, k, list) ==
    Shown([a EXCEPT !.check[k] = NoCheck,
                    !.screen = IF a.check[k].here THEN NoScreen ELSE a.screen], list)

-----------------------------------------------------------------------------
(* The phone's disk: one operation at a time. *)

\* Deviation: a change is applied to what is in memory.
MemoryList == memory

\* Every change is applied to what is on disk.
List == disk

Owner(k) == IF k = Foreign THEN Other ELSE Author

Applied(o, list) ==
    CASE o.op = "put" -> [list EXCEPT ![o.key] = o.val]
      [] o.op = "remove" -> [list EXCEPT ![o.key] = None]
      [] o.op = "clear" -> [k \in DOMAIN list |->
                               IF Owner(k) = Author THEN None ELSE list[k]]
      [] o.op = "hydrate" -> list

\* sameSession, immediately before the request leaves.
SameSession(k) == ~app.send[k].stale

Created(k) == [key |-> k, val |-> app.send[k].val, by |-> user, awaited |-> TRUE,
               pc |-> "out", mayAssign |-> FALSE]

\* The record is on the phone: send, under whoever is signed in.
PutWritten(k, list) ==
    IF SameSession(k)
    THEN app' = [app EXCEPT !.send[k].pc = "posted"] /\ req' = req \cup {Created(k)}
    ELSE app' = EndSend(app, k, "unknown", list) /\ UNCHANGED req

\* Deviation: the record could not be written, and the create is sent.
PutFailedSends(k) == PutWritten(k, memory)

\* not_saved: nothing is sent.
PutFailed(k) == app' = EndSend(app, k, "not_saved", memory) /\ UNCHANGED req

Outcome(reply) == IF reply = "created" THEN "created" ELSE "refused"

\* What awaited a removal goes on, whether it was written (forget, discardPending).
RemoveSettled(o, list) ==
    /\ app' = CASE o.for = "send" ->
                       EndSend(app, o.key, Outcome(app.send[o.key].reply), list)
                [] o.for = "check" -> EndCheck(app, o.key, list)
                [] OTHER -> Shown(app, list)
    /\ UNCHANGED req

DiskRead ==
    /\ queue # <<>> /\ Head(queue).copy = None
    /\ queue' = [queue EXCEPT ![1].copy = List]
    /\ UNCHANGED <<disk, memory, hydrated, app, user, leaving, server, rights, hist, faults>>

DiskWrite ==
    /\ queue # <<>> /\ Head(queue).copy # None
    /\ LET o == Head(queue)
           list == Applied(o, o.copy)
       IN  /\ disk' = IF o.op = "hydrate" THEN disk ELSE list
           /\ memory' = list
           /\ IF o.op = "put" THEN PutWritten(o.key, list) ELSE RemoveSettled(o, list)
           /\ givenUp' = (givenUp \/ o.for = "discard")
    /\ hydrated' = TRUE
    /\ queue' = Tail(queue)
    /\ UNCHANGED <<user, leaving, task, rights, known, overtaken, faults>>

\* The disk cannot be read, or the write is refused: nothing changes on it.
DiskFails ==
    /\ Fault
    /\ queue # <<>>
    /\ LET o == Head(queue) IN
       IF o.op = "put" THEN PutFailed(o.key) ELSE RemoveSettled(o, memory)
    /\ queue' = Tail(queue)
    /\ UNCHANGED <<disk, memory, hydrated, user, leaving, task, rights, hist>>

-----------------------------------------------------------------------------
(* The screen and its panel. *)

OpenScreen ==
    /\ user = Author /\ ~screen.open
    /\ app' = [app EXCEPT !.screen.open = TRUE]
    /\ UNCHANGED <<store, user, leaving, server, rights, hist, faults>>

\* usePendingCreatesHydrated: a failed load is tried again.
RetryHydrate ==
    /\ screen.open /\ ~hydrated
    /\ \A i \in DOMAIN queue : queue[i].op # "hydrate"
    /\ Queued(Hydrate)
    /\ UNCHANGED <<disk, memory, hydrated, app, user, leaving, server, rights, hist, faults>>

\* Deviation: the form is offered before the disk has been read.
FormUnread == screen.open /\ ~screen.saving /\ Pending = {}

\* A new create is offered only when nothing is known to be in doubt.
Form == screen.open /\ hydrated /\ ~screen.saving /\ Pending = {}

\* sendCreate, up to its first await.
Begin(a, k, v) ==
    [a EXCEPT !.send[k] = [NoSend EXCEPT !.pc = "putting", !.val = v]]

Save(v) ==
    /\ Form /\ known = {}
    /\ \E k \in IF screen.key = None THEN {u \in Keys : Unused(u)} ELSE {screen.key} :
          /\ app' = [Begin(app, k, v) EXCEPT !.screen.key = k, !.screen.saving = TRUE]
          /\ Queued(Op("put", k, v, "send"))
    /\ UNCHANGED <<disk, memory, hydrated, user, leaving, server, rights, hist, faults>>

\* resolvePending: a send that is out is waited for, the server asked otherwise.
FirstAsk(k) == IF Running(k) THEN "joining" ELSE "asking"

Ask(k) ==
    /\ app' = [app EXCEPT !.screen.panel = k, !.screen.phase = "checking",
                          !.check[k] = [pc |-> FirstAsk(k), here |-> TRUE, stale |-> FALSE]]
    /\ UNCHANGED <<store, user, leaving, server, rights, hist, faults>>

Panel(k) == screen.open /\ hydrated /\ ~screen.saving /\ k \in Pending

\* The panel of a record appears and finds out what happened to it.  (What an
\* earlier screen has asked and not heard can only find it too.)
PanelMounts(k) ==
    /\ Panel(k) /\ screen.panel # k
    /\ app.check[k].pc # "forgetting"
    /\ Ask(k)

CheckAgain(k) ==
    /\ Panel(k) /\ screen.panel = k /\ screen.phase = "unknown"
    /\ Ask(k)

\* The same record: same key, same values.
SendAgain(k) ==
    /\ Panel(k) /\ screen.panel = k /\ screen.phase = "not_found"
    /\ IF Running(k)
       THEN /\ app' = [app EXCEPT !.screen.phase = "sending"]
            /\ UNCHANGED queue
       ELSE /\ app' = [Begin(app, k, memory[k]) EXCEPT !.screen.phase = "sending"]
            /\ Queued(Op("put", k, memory[k], "send"))
    /\ UNCHANGED <<disk, memory, hydrated, user, leaving, server, rights, hist, faults>>

\* Asked and confirmed; once more while the removal is queued changes nothing.
Discard(k) ==
    /\ Panel(k) /\ screen.panel = k /\ screen.phase \in {"not_found", "unknown"}
    /\ \A i \in DOMAIN queue : queue[i].for # "discard"
    /\ Queued(Op("remove", k, None, "discard"))
    /\ UNCHANGED <<disk, memory, hydrated, app, user, leaving, server, rights, hist, faults>>

\* The screen goes; what it began goes on without it.
Left(a) ==
    [a EXCEPT !.screen = NoScreen,
              !.check = [k \in Keys |-> [a.check[k] EXCEPT !.here = FALSE]]]

LeaveScreen ==
    /\ screen.open
    /\ app' = Left(app)
    /\ UNCHANGED <<store, user, leaving, server, rights, hist, faults>>

-----------------------------------------------------------------------------
(* Answers. *)

Forget(k, for) == Queued(Op("remove", k, None, for))

\* A definite answer: the record is forgotten.
SendAnswered(k) ==
    /\ app.send[k].pc = "posted" /\ app.send[k].reply # "none"
    /\ app' = [app EXCEPT !.send[k].pc = "forgetting"]
    /\ Forget(k, "send")
    /\ known' = IF app.send[k].reply = "created" THEN known \cup {k} ELSE known
    /\ overtaken' = (overtaken \/ app.send[k].reply = "refused_ahead")
    /\ UNCHANGED <<disk, memory, hydrated, user, leaving, server, rights, givenUp, faults>>

Abandoned(k) ==
    {IF q.key = k THEN [q EXCEPT !.awaited = FALSE] ELSE q : q \in req}

\* No usable answer: timeout, lost connection, 5xx, 401, a server without tasks.
SendUnknown(k) ==
    /\ Fault
    /\ app.send[k].pc = "posted"
    /\ app' = EndSend(app, k, "unknown", memory)
    /\ req' = Abandoned(k)
    /\ UNCHANGED <<store, user, leaving, task, rights, hist>>

LookupFound(k) ==
    /\ app.check[k].pc = "asking" /\ ~app.check[k].stale
    /\ task[k] # None
    /\ app' = [app EXCEPT !.check[k].pc = "forgetting"]
    /\ Forget(k, "check")
    /\ known' = known \cup {k}
    /\ UNCHANGED <<disk, memory, hydrated, user, leaving, server, rights, givenUp, overtaken, faults>>

\* The panel that asked says so, if it is still there.
Concludes(k, phase) ==
    app' = [app EXCEPT
              !.check[k] = NoCheck,
              !.screen.phase =
                 IF app.check[k].here /\ screen.panel = k /\ screen.phase = "checking"
                 THEN phase ELSE screen.phase]

LookupEmpty(k) ==
    /\ app.check[k].pc = "asking" /\ ~app.check[k].stale
    /\ task[k] = None
    /\ Concludes(k, "not_found")
    /\ UNCHANGED <<store, user, leaving, server, rights, hist, faults>>

\* Asked under an account that is gone, or not answered: nothing is concluded.
LookupUnknown(k) ==
    /\ app.check[k].pc = "asking"
    /\ Concludes(k, "unknown")
    /\ UNCHANGED <<store, user, leaving, server, rights, hist, faults>>

-----------------------------------------------------------------------------
(* Sessions and the app. *)

\* Every sign-in and sign-out makes what was begun before it stale.
NewSession(u) ==
    /\ user' = u
    /\ LET a == Left(app) IN
       app' = [a EXCEPT
          !.send = [k \in Keys |-> [a.send[k] EXCEPT !.stale = Running(k)]],
          !.check = [k \in Keys |-> [a.check[k] EXCEPT !.stale = a.check[k].pc # "idle"]]]

SessionEnds ==
    /\ Fault
    /\ user # None
    /\ NewSession(None)
    /\ UNCHANGED <<store, leaving, server, rights, hist>>

SignIn(u) ==
    /\ user = None
    /\ NewSession(u)
    /\ UNCHANGED <<store, leaving, server, rights, hist, faults>>

Logout ==
    /\ Fault
    /\ user = Author /\ ~leaving
    /\ leaving' = TRUE
    /\ UNCHANGED <<store, app, user, server, rights, hist>>

\* The sign-out has settled: clear(), then clearUser of the account that left.
LogoutPosted ==
    /\ leaving
    /\ leaving' = FALSE
    /\ NewSession(None)
    /\ Queued(Op("clear", None, None, "none"))
    /\ givenUp' = (givenUp \/ \E k \in Keys : disk[k] # None \/ Running(k))
    /\ UNCHANGED <<disk, memory, hydrated, server, rights, known, overtaken, faults>>

\* The app dies and is started again; what was sent is not recalled.
AppDies ==
    /\ Fault
    /\ app' = Started
    /\ memory' = [k \in DOMAIN memory |-> None]
    /\ hydrated' = FALSE
    /\ queue' = <<Hydrate>>
    /\ leaving' = FALSE
    /\ req' = {[q EXCEPT !.awaited = FALSE] : q \in req}
    /\ UNCHANGED <<disk, user, task, rights, hist>>

-----------------------------------------------------------------------------
(* The server. *)

Becomes(q, r) == req' = (req \ {q}) \cup {r}

\* get_current_user: the role is as it is now, for the whole request.
Authenticate(q) ==
    /\ q.pc = "out"
    /\ Becomes(q, [q EXCEPT !.pc = "authenticated", !.mayAssign = mayAssign])
    /\ UNCHANGED <<store, app, user, leaving, task, rights, hist, faults>>

Rivals(q) == {r \in req \ {q} : r.key = q.key /\ r.by = q.by}

\* readable_source, current_revision, check_assignee
Allowed(q) == q.val \in accepts /\ (q.val \in Others => q.mayAssign)

\* Deviation: no advisory lock; the unique key still holds an insert back.
MyTurnUnlocked(q) == Allowed(q) => \A r \in Rivals(q) : r.pc # "inserted"

\* pg_advisory_xact_lock: not while another request of this key is uncommitted.
MyTurn(q) == \A r \in Rivals(q) : r.pc # "inserted"

\* The request is over; its sender hears of it if it still waits.
Answer(q, reply) ==
    /\ req' = req \ {q}
    /\ app' = IF q.awaited THEN [app EXCEPT !.send[q.key].reply = reply] ELSE app

\* _replay: the task, or a mismatch of the fingerprint (409).
Replay(q) ==
    /\ q.pc = "authenticated" /\ q.by = Author /\ MyTurn(q)
    /\ task[q.key] # None
    /\ Answer(q, IF task[q.key] = q.val THEN "created" ELSE "refused")
    /\ UNCHANGED <<store, user, leaving, task, rights, hist, faults>>

\* 404, 409 or 422, decided on what is so now.
Refuse(q) ==
    /\ q.pc = "authenticated" /\ MyTurn(q)
    /\ q.by = Author => task[q.key] = None
    /\ ~Allowed(q)
    /\ Answer(q, IF \E r \in Rivals(q) : r.pc # "inserted"
                 THEN "refused_ahead" ELSE "refused")
    /\ UNCHANGED <<store, user, leaving, task, rights, hist, faults>>

Insert(q) ==
    /\ q.pc = "authenticated" /\ MyTurn(q)
    /\ q.by = Author => task[q.key] = None
    /\ Allowed(q)
    /\ Becomes(q, [q EXCEPT !.pc = "inserted"])
    /\ UNCHANGED <<store, app, user, leaving, task, rights, hist, faults>>

Commit(q) ==
    /\ q.pc = "inserted"
    /\ task' = IF q.by = Author THEN [task EXCEPT ![q.key] = q.val] ELSE task
    /\ Answer(q, "created")
    /\ UNCHANGED <<store, user, leaving, rights, hist, faults>>

\* Never arrived, or rolled back.
Drop(q) ==
    /\ req' = req \ {q}
    /\ UNCHANGED <<store, app, user, leaving, task, rights, hist, faults>>

\* The entry, an assignee or the author's role changes.
RightsChange ==
    /\ Fault
    /\ accepts' \in {Values, Values \ Others, {}}
    /\ mayAssign' \in BOOLEAN
    /\ rights' # rights
    /\ UNCHANGED <<store, app, user, leaving, server, hist>>

-----------------------------------------------------------------------------
Next ==
    \/ DiskRead \/ DiskWrite \/ DiskFails
    \/ OpenScreen \/ RetryHydrate \/ LeaveScreen
    \/ \E v \in Values : Save(v)
    \/ \E k \in Keys :
          \/ PanelMounts(k) \/ CheckAgain(k) \/ SendAgain(k) \/ Discard(k)
          \/ SendAnswered(k) \/ SendUnknown(k)
          \/ LookupFound(k) \/ LookupEmpty(k) \/ LookupUnknown(k)
    \/ SessionEnds \/ Logout \/ LogoutPosted \/ AppDies
    \/ \E u \in {Author, Other} : SignIn(u)
    \/ \E q \in req : Authenticate(q) \/ Replay(q) \/ Refuse(q) \/ Insert(q)
                        \/ Commit(q) \/ Drop(q)
    \/ RightsChange

Spec == Init /\ [][Next]_vars

-----------------------------------------------------------------------------
(* Properties. *)

\* tasks/create.py:114-124, taskPendingCreates.ts:9-14: whatever is lost, late,
\* sent again or asked, one wish makes one task.  Unless the user dropped the
\* record, or the server refused a resend before a request that was sent earlier
\* had reached it.
NoTwins ==
    Cardinality({k \in Keys : task[k] # None}) <= 1 \/ givenUp \/ overtaken

\* taskPendingCreates.ts:12-14: the same values are sent again under the same key,
\* "so even a request that was only slow cannot become a second task".
SlowIsNotTwice ==
    Cardinality({k \in Keys : task[k] # None}) <= 1 \/ givenUp

\* createFlow.ts:121-125: a key that may have a task the user was not told of, or
\* may get one yet, is on the phone's disk: a crash at any moment leaves it there.
KeyIsKept ==
    \A k \in Keys \ known :
       task[k] # None \/ (\E q \in req : q.key = k) =>
          disk[k] # None \/ givenUp \/ overtaken

\* taskPendingCreates.ts:22-28: no change, whatever could not be read or written
\* before it, loses another account's record.
OthersRecordKept == disk[Foreign] # None

\* createFlow.ts:22-27 and 191: a request is its record's: sent for the account
\* that tapped, and every request under a key has the same values, until the user
\* discards the record and the form keeps the key.
SentAsRecorded ==
    \A q \in req :
       /\ q.by = Author
       /\ \A r \in req : r.key = q.key => r.val = q.val \/ givenUp
       /\ task[q.key] # None => task[q.key] = q.val \/ givenUp

\* createFlow.ts:54-62: while the app has a create out, nobody asks the server
\* about it, for "not committed yet" and "never arrived" look the same.
OneConversation ==
    \A k \in Keys : app.check[k].pc = "asking" /\ Running(k) => givenUp

-----------------------------------------------------------------------------
(* What the rest of the system may rely on. *)

TaskRegister == INSTANCE TaskSet WITH
    value <- task, told <- known, letGo <- givenUp \/ overtaken

\* tasks/create.py:114-124, createFlow.ts:121-125: the phone and the server, with
\* all that is lost, late and sent again between them, are a set of tasks: one is
\* made at most once under a key and never changes, it is the only one unless the
\* record was dropped or overtaken, and the user is told only of what was made.
ImplementsTaskSet == TaskRegister!Spec
=============================================================================
