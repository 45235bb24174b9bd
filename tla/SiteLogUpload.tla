--------------------------- MODULE SiteLogUpload ---------------------------
(***************************************************************************)
(* The two-phase upload of one declared Site Log capture: the manifest,    *)
(* the governed Evidence rows, the object store, and the HTTP requests     *)
(* that race on them (backend/app/services/site_log/).                     *)
(*                                                                         *)
(* Every transaction takes the event row FOR UPDATE first, so transactions *)
(* on one event are serialised and each is one action here.  What is NOT   *)
(* serialised is a request: Txn A, the byte stream, and Txn B (or the      *)
(* failure bookkeeping) are separate steps, and between any two of them    *)
(* the request may die, another request may run, and an administrator may  *)
(* reset the row.                                                          *)
(***************************************************************************)
EXTENDS Naturals, FiniteSets

CONSTANTS
    Attachments,    \* the manifest rows of the event (attachment_client_id)
    Inline,         \* the server-owned inline-text row; in Attachments or not
    Contents,       \* the payloads a request may carry
    BodyText,       \* revision 1's text: what the inline row must hold
    Jobs,           \* jobs that are readable and not completed
    EvidenceIds,    \* fresh uuid4 values
    Requests,       \* concurrent upload requests the server is running
    MaxFaults,      \* bound: failures and live resets in one behaviour
    None            \* SQL NULL

VARIABLES
    att,        \* site_log_event_attachments, one row per declared attachment
    evidence,   \* the evidence table
    event,      \* the event row's capture_status and job_id
    objects,    \* final objects in the evidence store
    req,        \* the upload requests in flight, and the last reply of each
    aged,       \* a manifest row untouched for RESET_MIN_AGE
    audit,      \* last attachment_state_changed row of each attachment
    faults      \* failures so far

vars == <<att, evidence, event, objects, req, aged, audit, faults>>
rows == <<att, evidence, audit, aged>>

-----------------------------------------------------------------------------
(* The rows and the values they hold. *)

TxnBAttempts == 3

AttachmentState == {"awaiting_upload", "pending", "stored", "failed"}
ManifestRow ==
    [state : AttachmentState, attempt : Nat, evidence : EvidenceIds \cup {None}]

\* evidence/{evidence_id}/{sha16}.a{N}: one final key per upload attempt.
ObjectKey == [evidence : EvidenceIds, attempt : Nat, content : Contents]

EvidenceRow ==
    [status : {"pending", "stored", "failed"}, job : Jobs \cup {None},
     key : ObjectKey \cup {None}]

ASSUME UploadAssumption ==
    /\ None \notin Attachments \cup Contents \cup Jobs \cup EvidenceIds
    /\ None \notin ObjectKey \cup EvidenceRow
    /\ BodyText \in Contents
    /\ MaxFaults \in Nat

EventRow ==
    [status : {"pending_upload", "complete", "partial_failed"},
     job : Jobs \cup {None}]

FailureReason == {"size_cap", "storage_error", "internal_error"}
Reply == {"none", "stored", "replay", "refused", "superseded",
          "content_mismatch", "error"} \cup FailureReason
RequestState ==
    [pc : {"idle", "streaming", "completing", "failing"},
     att : Attachments \cup {None}, attempt : Nat,
     content : Contents \cup {None}, tries : 0 .. TxnBAttempts - 1, reply : Reply]

\* A request slot that is free, with the reply last given about row a.
Replied(a, reply) == [pc |-> "idle", att |-> a, attempt |-> 0,
                      content |-> None, tries |-> 0, reply |-> reply]
NoRequest == Replied(None, "none")

TypeOK ==
    /\ att \in [Attachments -> ManifestRow]
    /\ evidence \in [EvidenceIds -> EvidenceRow \cup {None}]
    /\ event \in EventRow
    /\ objects \subseteq ObjectKey
    /\ req \in [Requests -> RequestState]
    /\ aged \in [Attachments -> BOOLEAN]
    /\ audit \in [Attachments -> [to : AttachmentState, attempt : Nat]]
    /\ faults \in 0 .. MaxFaults

\* The event as declare_capture commits it: every row awaiting, no Evidence.
Init ==
    /\ att = [a \in Attachments |->
                [state |-> "awaiting_upload", attempt |-> 0, evidence |-> None]]
    /\ evidence = [e \in EvidenceIds |-> None]
    /\ event \in [status : {"pending_upload"}, job : Jobs \cup {None}]
    /\ objects = {}
    /\ req = [r \in Requests |-> NoRequest]
    /\ aged = [a \in Attachments |-> FALSE]
    /\ audit = [a \in Attachments |-> [to |-> "awaiting_upload", attempt |-> 0]]
    /\ faults = 0

-----------------------------------------------------------------------------
(* Helpers shared by the handlers. *)

\* A caller's bytes for an ordinary row; revision 1's own text for the inline
\* row, which only the server's internal path may upload.
RequestBytes(a) == IF a = Inline THEN {BodyText} ELSE Contents

\* What Txn B checks a receipt against: only the inline row has an expectation.
ReceiptAccepted(a, c) == a = Inline => c = BodyText

NewEvidence == [status |-> "pending", job |-> event.job, key |-> None]

\* Deviation: the compare-and-set forgets the attempt number.
CurrentState(r) == att[req[r].att].state = "pending"

\* The compare-and-set of Txn B and of the failure bookkeeping.
Current(r) ==
    /\ att[req[r].att].state = "pending"
    /\ att[req[r].att].attempt = req[r].attempt

Live(r, a) == req[r].pc # "idle" /\ req[r].att = a

\* Manifest row, Evidence row and the audit rows move in one transaction;
\* every write of the manifest row renews updated_at.
MoveRow(a, to, row) ==
    /\ att' = [att EXCEPT ![a].state = to]
    /\ evidence' = [evidence EXCEPT ![att[a].evidence] = row]
    /\ audit' = [audit EXCEPT ![a] = [to |-> to, attempt |-> att[a].attempt]]
    /\ aged' = [aged EXCEPT ![a] = FALSE]

\* Deviation: only the manifest row is failed.
MarkManifestFailed(a) == MoveRow(a, "failed", evidence[att[a].evidence])

MarkFailed(a) ==
    MoveRow(a, "failed", [evidence[att[a].evidence] EXCEPT !.status = "failed"])

Fault == faults < MaxFaults /\ faults' = faults + 1

Reach(r, pc) == req' = [req EXCEPT ![r].pc = pc]
Answer(r, reply) == req' = [req EXCEPT ![r].pc = "idle", ![r].reply = reply]

-----------------------------------------------------------------------------
(* Upload Txn A. *)

\* Attempt n of request r takes row a, with Evidence e and whatever row ev.
Take(r, a, n, e, ev) ==
    /\ evidence' = [evidence EXCEPT ![e] = ev]
    /\ att' = [att EXCEPT ![a] =
                 [state |-> "pending", attempt |-> n, evidence |-> e]]
    /\ \E c \in RequestBytes(a) :
        req' = [req EXCEPT ![r] =
                  [pc |-> "streaming", att |-> a, attempt |-> n,
                   content |-> c, tries |-> 0, reply |-> "none"]]
    /\ audit' = [audit EXCEPT ![a] = [to |-> "pending", attempt |-> n]]
    /\ aged' = [aged EXCEPT ![a] = FALSE]
    /\ UNCHANGED <<event, objects, faults>>

TakeFirst(r, a, n) ==
    \E e \in EvidenceIds : evidence[e] = None /\ Take(r, a, n, e, NewEvidence)

TakeAgain(r, a, n) ==
    LET e == att[a].evidence IN
    Take(r, a, n, e, [evidence[e] EXCEPT !.status = "pending"])

\* Deviation: a retry reuses the number of the attempt that failed.
AcquireSameAttempt(r, a) ==
    /\ req[r].pc = "idle"
    /\ \/ att[a].state = "awaiting_upload" /\ TakeFirst(r, a, 1)
       \/ att[a].state = "failed" /\ TakeAgain(r, a, att[a].attempt)

\* Deviation: a stored row is uploaded again instead of replayed.
AcquireStored(r, a) ==
    /\ req[r].pc = "idle"
    /\ \/ att[a].state = "awaiting_upload" /\ TakeFirst(r, a, 1)
       \/ att[a].state \in {"failed", "stored"}
            /\ TakeAgain(r, a, att[a].attempt + 1)

\* acquire_attachment on an awaiting or failed row: bind the Evidence row once,
\* take the next attempt number, commit before any byte is sent.
Acquire(r, a) ==
    /\ req[r].pc = "idle"
    /\ att[a].state \in {"awaiting_upload", "failed"}
    /\ IF att[a].evidence = None THEN TakeFirst(r, a, att[a].attempt + 1)
                                 ELSE TakeAgain(r, a, att[a].attempt + 1)

\* acquire_attachment's no-write outcomes: a stored row replays, a pending row
\* is in progress (409).
AcquireNoWrite(r, a) ==
    /\ req[r].pc = "idle"
    /\ att[a].state \in {"stored", "pending"}
    /\ req' = [req EXCEPT ![r] =
          Replied(a, IF att[a].state = "stored" THEN "replay" ELSE "refused")]
    /\ UNCHANGED <<rows, event, objects, faults>>

-----------------------------------------------------------------------------
(* The stream, which holds no lock. *)

KeyOf(r) == [evidence |-> att[req[r].att].evidence, attempt |-> req[r].attempt,
             content |-> req[r].content]

\* Deviation: the receipt is given before the final copy.
StreamUncopied(r) ==
    /\ req[r].pc = "streaming"
    /\ Reach(r, "completing")
    /\ UNCHANGED <<rows, event, objects, faults>>

\* storage.put answers with a receipt: the final object is published, or the
\* object already at this attempt's own key is adopted.
StreamStored(r) ==
    /\ req[r].pc = "streaming"
    /\ objects' = objects \cup {KeyOf(r)}
    /\ Reach(r, "completing")
    /\ UNCHANGED <<rows, event, faults>>

\* The size cap, a classified storage error, or a failing body source.  The
\* copy may have landed although its answer was an error.
StreamFails(r, reason) ==
    /\ req[r].pc = "streaming"
    /\ Fault
    /\ objects' \in {objects} \cup
          (IF reason = "storage_error" THEN {objects \cup {KeyOf(r)}} ELSE {})
    /\ req' = [req EXCEPT ![r].pc = "failing", ![r].reply = reason]
    /\ UNCHANGED <<rows, event>>

-----------------------------------------------------------------------------
(* The failure bookkeeping of an attempt. *)

\* _fail_attachment: a superseded attempt is a no-write return, then the
\* original error is answered.
FailAttachment(r) ==
    /\ req[r].pc = "failing"
    /\ IF Current(r) THEN MarkFailed(req[r].att) ELSE UNCHANGED rows
    /\ Reach(r, "idle")
    /\ UNCHANGED <<event, objects, faults>>

\* Deviation: the original failure is answered over an unknown bookkeeping.
BookkeepingSwallowed(r) ==
    /\ req[r].pc = "failing"
    /\ Fault
    /\ \/ Current(r) /\ MarkFailed(req[r].att)
       \/ UNCHANGED rows
    /\ Reach(r, "idle")
    /\ UNCHANGED <<event, objects>>

\* The bookkeeping write itself fails, before its commit or with only the
\* acknowledgement lost: a cap or storage failure is then answered by the
\* database error, never by its own status.
BookkeepingUnconfirmed(r) ==
    /\ req[r].pc = "failing"
    /\ Fault
    /\ \/ Current(r) /\ MarkFailed(req[r].att)
       \/ UNCHANGED rows
    /\ Answer(r, "error")
    /\ UNCHANGED <<event, objects>>

-----------------------------------------------------------------------------
(* Upload Txn B. *)

\* The write of _complete_once: the winning attempt's value columns, or the
\* failed transition of an inline receipt that is not revision 1.
BindReceipt(r) ==
    LET a == req[r].att IN
    IF ReceiptAccepted(a, req[r].content)
    THEN MoveRow(a, "stored",
                 [status |-> "stored", job |-> event.job, key |-> KeyOf(r)])
    ELSE MarkFailed(a)

CompleteOnce(r) ==
    /\ req[r].pc = "completing"
    /\ Current(r)
    /\ BindReceipt(r)
    /\ Answer(r, IF ReceiptAccepted(req[r].att, req[r].content)
                 THEN "stored" ELSE "content_mismatch")
    /\ UNCHANGED <<event, objects, faults>>

CompleteSuperseded(r) ==
    /\ req[r].pc = "completing"
    /\ ~Current(r)
    /\ Answer(r, "superseded")
    /\ UNCHANGED <<rows, event, objects, faults>>

\* A retryable database error ends one Txn B attempt, before the commit or with
\* only its acknowledgement lost; the last of TxnBAttempts is answered.
CompleteRetry(r) ==
    /\ req[r].pc = "completing"
    /\ Fault
    /\ \/ Current(r) /\ BindReceipt(r)
       \/ UNCHANGED rows
    /\ IF req[r].tries + 1 < TxnBAttempts
       THEN req' = [req EXCEPT ![r].tries = @ + 1]
       ELSE Answer(r, "error")
    /\ UNCHANGED <<event, objects>>

\* Process death, cancellation, or an error nothing retries: the request stops
\* where it is and the rows keep what is committed.
Die(r) ==
    /\ req[r].pc # "idle"
    /\ Fault
    /\ Answer(r, "error")
    /\ UNCHANGED <<rows, event, objects>>

-----------------------------------------------------------------------------
(* The operator and the capture. *)

Age(a) ==
    /\ att[a].state = "pending"
    /\ ~aged[a]
    /\ aged' = [aged EXCEPT ![a] = TRUE]
    /\ UNCHANGED <<att, evidence, audit, event, objects, req, faults>>

\* Deviation: a finalized capture cannot be reset.
ResetUnfinalized(a) ==
    /\ event.status = "pending_upload"
    /\ att[a].state = "pending"
    /\ aged[a]
    /\ MarkFailed(a)
    /\ UNCHANGED <<event, objects, req, faults>>

\* reset_attachment: an administrator fails a row that has been pending for
\* RESET_MIN_AGE.  Nothing tells a dead upload from a slow one, so the reset of
\* an upload that is still running counts as a fault.
ResetAttachment(a) ==
    /\ att[a].state = "pending"
    /\ aged[a]
    /\ MarkFailed(a)
    /\ IF \E r \in Requests : Live(r, a) /\ req[r].attempt = att[a].attempt
       THEN Fault ELSE UNCHANGED faults
    /\ UNCHANGED <<event, objects, req>>

\* The status the manifest gives the capture.
FinalizeTarget ==
    IF \A a \in Attachments : att[a].state = "stored"
    THEN "complete" ELSE "partial_failed"

\* Deviation: partial_failed is final.
FinalizeOnce ==
    /\ \A a \in Attachments : att[a].state \notin {"awaiting_upload", "pending"}
    /\ event.status = "pending_upload"
    /\ event' = [event EXCEPT !.status = FinalizeTarget]
    /\ UNCHANGED <<rows, objects, req, faults>>

\* finalize_capture: refused while a row is awaiting or pending; the status the
\* event already has is a no-write replay.
FinalizeCapture ==
    /\ \A a \in Attachments : att[a].state \notin {"awaiting_upload", "pending"}
    /\ event.status # FinalizeTarget
    /\ event' = [event EXCEPT !.status = FinalizeTarget]
    /\ UNCHANGED <<rows, objects, req, faults>>

\* Some manifest row is bound to Evidence row e.
Bound(e) == \E a \in Attachments : att[a].evidence = e

\* Deviation: only Evidence already stored follows the event's job.
SyncStoredJob(j) ==
    /\ event' = [event EXCEPT !.job = j]
    /\ evidence' = [e \in EvidenceIds |->
          IF Bound(e) /\ evidence[e].status = "stored"
          THEN [evidence[e] EXCEPT !.job = j] ELSE evidence[e]]
    /\ UNCHANGED <<att, audit, aged, objects, req, faults>>

\* _sync_job: the event and every Evidence row bound to it, in one transaction.
SyncJob(j) ==
    /\ event' = [event EXCEPT !.job = j]
    /\ evidence' = [e \in EvidenceIds |->
          IF Bound(e) THEN [evidence[e] EXCEPT !.job = j] ELSE evidence[e]]
    /\ UNCHANGED <<att, audit, aged, objects, req, faults>>

\* assign_job sets a missing job, relink_job replaces a set one.
AssignJob(j) == event.job = None /\ SyncJob(j)
RelinkJob(j) == event.job # None /\ event.job # j /\ SyncJob(j)

-----------------------------------------------------------------------------
RequestStep(r) ==
    \/ \E a \in Attachments : Acquire(r, a) \/ AcquireNoWrite(r, a)
    \/ StreamStored(r)
    \/ \E reason \in FailureReason : StreamFails(r, reason)
    \/ FailAttachment(r)
    \/ BookkeepingUnconfirmed(r)
    \/ CompleteOnce(r)
    \/ CompleteSuperseded(r)
    \/ CompleteRetry(r)
    \/ Die(r)

Next ==
    \/ \E r \in Requests : RequestStep(r)
    \/ \E a \in Attachments : Age(a) \/ ResetAttachment(a)
    \/ FinalizeCapture
    \/ \E j \in Jobs : AssignJob(j) \/ RelinkJob(j)

Spec == Init /\ [][Next]_vars

\* A running request is scheduled to its end; the client keeps retrying a row
\* that is not stored and finalizes; the operator resets what stays pending.
Progress(r) == StreamStored(r) \/ FailAttachment(r)
                 \/ CompleteOnce(r) \/ CompleteSuperseded(r)
Fairness ==
    /\ \A r \in Requests : WF_vars(Progress(r))
    /\ \A a \in Attachments :
        /\ WF_vars(\E r \in Requests : Acquire(r, a))
        /\ WF_vars(Age(a))
        /\ WF_vars(ResetAttachment(a))
    /\ WF_vars(FinalizeCapture)

FairSpec == Spec /\ Fairness
-----------------------------------------------------------------------------
(* Properties.  The hazard each one is about is named in PROJECT.json. *)

\* The manifest row and its governed Evidence row never disagree, whichever
\* transaction was the last to touch them: a row has no Evidence exactly while
\* it awaits its first upload, the two states are equal, no Evidence serves two
\* rows, and the last audit row is the state and attempt it audits.
ManifestMirrorsEvidence ==
    \A a \in Attachments :
        /\ (att[a].evidence = None) <=> (att[a].state = "awaiting_upload")
        /\ att[a].evidence # None =>
              /\ evidence[att[a].evidence] # None
              /\ evidence[att[a].evidence].status = att[a].state
              /\ \A b \in Attachments \ {a} : att[b].evidence # att[a].evidence
        /\ audit[a] = [to |-> att[a].state, attempt |-> att[a].attempt]

\* A stored row names an object that exists, published under this Evidence row
\* by the attempt that is still the row's current one; no other row names one.
StoredObjectExists ==
    \A a \in Attachments :
        att[a].evidence # None =>
            LET ev == evidence[att[a].evidence] IN
            IF att[a].state = "stored"
            THEN /\ ev.key \in objects
                 /\ ev.key.evidence = att[a].evidence
                 /\ ev.key.attempt = att[a].attempt
            ELSE ev.key = None

\* Attempt numbers fence the requests: none runs ahead of its row, and two
\* requests that run for one row carry different numbers.
AttemptsAreFenced ==
    \A r \in Requests : req[r].pc # "idle" =>
        /\ req[r].attempt \in 1 .. att[req[r].att].attempt
        /\ \A s \in Requests \ {r} :
              Live(s, req[r].att) => req[s].attempt # req[r].attempt

\* complete means complete: every declared attachment is stored.
CompleteMeansStored ==
    event.status = "complete" => \A a \in Attachments : att[a].state = "stored"

\* An event and all the Evidence bound to it name the same job, whether the job
\* was set before, during or after the uploads.
EvidenceFollowsJob ==
    \A e \in EvidenceIds : Bound(e) => evidence[e].job = event.job

\* The inline row only ever carries revision 1's text: in flight and stored.
InlineIsRevisionOne ==
    Inline \in Attachments =>
        /\ \A r \in Requests : Live(r, Inline) => req[r].content = BodyText
        /\ att[Inline].state = "stored" =>
              evidence[att[Inline].evidence].key.content = BodyText

\* The row has left the attempt of the request.
Superseded(r) ==
    \/ att[req[r].att].state # "pending"
    \/ att[req[r].att].attempt # req[r].attempt

\* What a client was told stays true.  A success names a row that is stored,
\* with the bytes that very request sent; a failure status (413, 502) is never
\* given over an attempt that is still pending.
RepliesHold ==
    \A r \in Requests : req[r].pc = "idle" =>
        /\ req[r].reply = "stored" =>
              /\ att[req[r].att].state = "stored"
              /\ att[req[r].att].attempt = req[r].attempt
              /\ evidence[att[req[r].att].evidence].key.content = req[r].content
        /\ req[r].reply = "replay" => att[req[r].att].state = "stored"
        /\ req[r].reply \in {"size_cap", "storage_error"} => Superseded(r)

\* A manifest row moves only along ATTACHMENT_STATE_TRANSITIONS, keeps its
\* Evidence row for ever once bound, and takes the next attempt number exactly
\* when it becomes pending.
RowsMoveForward ==
    [][\A a \in Attachments : att'[a] # att[a] =>
         /\ <<att[a].state, att'[a].state>> \in
               {<<"awaiting_upload", "pending">>, <<"failed", "pending">>,
                <<"pending", "stored">>, <<"pending", "failed">>}
         /\ att[a].evidence # None => att'[a].evidence = att[a].evidence
         /\ att'[a].attempt =
               att[a].attempt + (IF att'[a].state = "pending" THEN 1 ELSE 0)]_vars

\* A request whose attempt is no longer the row's current pending one changes no
\* row: a late completion or failure cannot touch a newer attempt.
SupersededIsInert ==
    [][\A r \in Requests :
         (req[r].pc # "idle" /\ Superseded(r) /\ req'[r] # req[r])
            => UNCHANGED <<att, evidence, audit>>]_vars

Capture == INSTANCE CaptureRegister WITH
    value  <- [a \in Attachments |->
                 IF att[a].state = "stored"
                 THEN evidence[att[a].evidence].key.content ELSE None],
    status <- event.status,
    job    <- event.job

\* The detailed protocol implements the write-once capture register.
ImplementsCapture == Capture!Spec

\* A row is never stuck: whatever dies, pending is left.
PendingIsLeft ==
    \A a \in Attachments : att[a].state = "pending" ~> att[a].state # "pending"

\* Once failures stop, retries bring every row to stored and the capture to
\* complete, from wherever the failures left it.
EventuallyComplete == <>[](event.status = "complete")
=============================================================================
