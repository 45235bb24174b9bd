------------------------- MODULE SiteLogUploadProof -------------------------
(***************************************************************************)
(* Machine-checked invariants of SiteLogUpload, for any number of          *)
(* attachments, requests, jobs, payloads and failures; then what a step    *)
(* may never do, and that the protocol implements the write-once register  *)
(* of CaptureRegister.                                                     *)
(***************************************************************************)
EXTENDS SiteLogUpload, TLAPS

\* The rows: type, mirror, storage, status, job, inline text at rest.
RowsTyped ==
    /\ att \in [Attachments -> ManifestRow]
    /\ evidence \in [EvidenceIds -> EvidenceRow \cup {None}]
    /\ event \in EventRow
    /\ objects \subseteq ObjectKey
    /\ aged \in [Attachments -> BOOLEAN]
    /\ audit \in [Attachments -> [to : AttachmentState, attempt : Nat]]

InlineAtRest ==
    \A a \in Attachments :
        (a = Inline /\ att[a].state = "stored") =>
            evidence[att[a].evidence].key.content = BodyText

RowInv ==
    /\ RowsTyped
    /\ ManifestMirrorsEvidence
    /\ StoredObjectExists
    /\ CompleteMeansStored
    /\ EvidenceFollowsJob
    /\ InlineAtRest

\* A running request has a row, a payload the row accepts and an attempt that
\* bound an Evidence row.
LiveRequests ==
    \A r \in Requests : req[r].pc # "idle" =>
        /\ req[r].att \in Attachments
        /\ req[r].content \in RequestBytes(req[r].att)
        /\ att[req[r].att].evidence # None

\* A request that waits for Txn B has published its object.
ReceiptsPublished ==
    \A r \in Requests : req[r].pc = "completing" => KeyOf(r) \in objects

ReqInv ==
    /\ req \in [Requests -> RequestState]
    /\ LiveRequests
    /\ ReceiptsPublished
    /\ AttemptsAreFenced

IInv == RowInv /\ ReqInv /\ faults \in 0 .. MaxFaults

(***************************************************************************)
(* Types.                                                                  *)
(***************************************************************************)

\* Whatever a row accepts is a payload.
LEMMA RequestBytesOfRow ==
    \A a \in Attachments : RequestBytes(a) \subseteq Contents
  BY UploadAssumption DEF RequestBytes

\* A row that has left awaiting_upload is bound to an Evidence row of the table.
LEMMA BoundRow ==
    ASSUME RowsTyped, ManifestMirrorsEvidence,
           NEW a \in Attachments, att[a].state # "awaiting_upload"
    PROVE  /\ att[a].evidence \in EvidenceIds
           /\ att[a].evidence # None
           /\ evidence[att[a].evidence] \in EvidenceRow
           /\ evidence[att[a].evidence].status = att[a].state
  BY DEF RowsTyped, ManifestMirrorsEvidence, ManifestRow

\* The final key of a running request is a well-formed key.
LEMMA KeyOfType ==
    ASSUME RowsTyped, ReqInv, NEW r \in Requests, req[r].pc # "idle"
    PROVE  KeyOf(r) \in ObjectKey
  <1>1. req[r].att \in Attachments /\ req[r].content \in Contents
    BY RequestBytesOfRow DEF ReqInv, LiveRequests
  <1>2. att[req[r].att].evidence \in EvidenceIds
    BY <1>1 DEF RowsTyped, ReqInv, LiveRequests, ManifestRow
  <1>3. req[r].attempt \in Nat
    BY DEF ReqInv, RequestState
  <1>4. QED
    BY <1>1, <1>2, <1>3 DEF KeyOf, ObjectKey

(***************************************************************************)
(* What each way of writing the rows preserves.                            *)
(***************************************************************************)

\* Moving a pending row to stored or failed keeps every row invariant, provided
\* the new Evidence row matches the new state.
LEMMA MoveRowRows ==
    ASSUME RowInv, NEW a \in Attachments, att[a].state = "pending",
           NEW to \in {"stored", "failed"}, NEW row \in EvidenceRow,
           row.status = to, row.job = event.job,
           IF to = "stored"
           THEN /\ row.key \in objects
                /\ row.key.evidence = att[a].evidence
                /\ row.key.attempt = att[a].attempt
                /\ a = Inline => row.key.content = BodyText
           ELSE row.key = None,
           MoveRow(a, to, row), UNCHANGED <<event, objects>>
    PROVE  RowInv'
  <1> DEFINE e == att[a].evidence
  <1>1. e \in EvidenceIds /\ e # None
    BY BoundRow DEF RowInv
  <1>2. \A b \in Attachments \ {a} : att[b].evidence # e
    BY <1>1 DEF RowInv, ManifestMirrorsEvidence
  <1>3. /\ att' = [att EXCEPT ![a].state = to]
        /\ evidence' = [evidence EXCEPT ![e] = row]
        /\ audit' = [audit EXCEPT ![a] =
                       [to |-> to, attempt |-> att[a].attempt]]
        /\ aged' = [aged EXCEPT ![a] = FALSE]
    BY DEF MoveRow
  <1>4. RowsTyped'
    BY <1>1, <1>3 DEF RowInv, RowsTyped, ManifestRow, AttachmentState
  <1>5. /\ \A b \in Attachments \ {a} : att'[b] = att[b]
        /\ att'[a].state = to /\ att'[a].evidence = e
        /\ att'[a].attempt = att[a].attempt
        /\ evidence'[e] = row
        /\ \A x \in EvidenceIds \ {e} : evidence'[x] = evidence[x]
    BY <1>1, <1>3 DEF RowInv, RowsTyped, ManifestRow
  <1>6. ManifestMirrorsEvidence'
    <2>1. /\ audit'[a] = [to |-> att'[a].state, attempt |-> att'[a].attempt]
          /\ \A b \in Attachments \ {a} : audit'[b] = audit[b]
      BY <1>3, <1>5 DEF RowInv, RowsTyped
    <2>2. row # None
      BY UploadAssumption
    <2>3. to # "awaiting_upload"
      OBVIOUS
    <2>4. \A b \in Attachments : att'[b].evidence = att[b].evidence
      BY <1>5
    <2>5. \A b \in Attachments \ {a} :
             att[b].evidence # None => evidence'[att[b].evidence] = evidence[att[b].evidence]
      BY <1>2, <1>5 DEF RowInv, RowsTyped, ManifestRow
    <2>6. ASSUME NEW b \in Attachments, NEW c \in Attachments \ {b},
                 att'[b].evidence # None
          PROVE  att'[c].evidence # att'[b].evidence
      <3>1. /\ att'[b].evidence = att[b].evidence
            /\ att'[c].evidence = att[c].evidence
        BY <2>4
      <3>2. att[b].evidence # None => att[c].evidence # att[b].evidence
        BY DEF RowInv, ManifestMirrorsEvidence
      <3>3. QED
        BY <2>6, <3>1, <3>2
    <2>7. \A b \in Attachments :
             /\ (att'[b].evidence = None) <=> (att'[b].state = "awaiting_upload")
             /\ att'[b].evidence # None =>
                   /\ evidence'[att'[b].evidence] # None
                   /\ evidence'[att'[b].evidence].status = att'[b].state
             /\ audit'[b] = [to |-> att'[b].state, attempt |-> att'[b].attempt]
      BY <1>1, <1>5, <2>1, <2>2, <2>3, <2>5 DEF RowInv, ManifestMirrorsEvidence
    <2>8. QED
      BY <2>6, <2>7 DEF ManifestMirrorsEvidence
  <1>7. StoredObjectExists'
    BY <1>1, <1>2, <1>5 DEF RowInv, RowsTyped, ManifestRow, StoredObjectExists
  <1>8. CompleteMeansStored' /\ InlineAtRest'
    BY <1>1, <1>2, <1>5
       DEF RowInv, RowsTyped, ManifestRow, CompleteMeansStored, InlineAtRest,
           ManifestMirrorsEvidence
  <1>9. EvidenceFollowsJob'
    BY <1>1, <1>2, <1>5 DEF RowInv, EvidenceFollowsJob, Bound
  <1>10. QED
    BY <1>4, <1>6, <1>7, <1>8, <1>9 DEF RowInv

\* Failing a pending row, by its own request or by an administrator.
LEMMA MarkFailedRows ==
    ASSUME RowInv, NEW a \in Attachments, att[a].state = "pending",
           MarkFailed(a), UNCHANGED <<event, objects>>
    PROVE  RowInv'
  <1> DEFINE e == att[a].evidence
             row == [evidence[e] EXCEPT !.status = "failed"]
  <1>1. e \in EvidenceIds /\ e # None /\ evidence[e] \in EvidenceRow
    BY BoundRow DEF RowInv
  <1>2. /\ row \in EvidenceRow /\ row.status = "failed"
        /\ row.job = evidence[e].job /\ row.key = evidence[e].key
    BY <1>1 DEF EvidenceRow
  <1>3. row.job = event.job
    BY <1>1, <1>2 DEF RowInv, EvidenceFollowsJob, Bound
  <1>4. row.key = None
    BY <1>1, <1>2 DEF RowInv, StoredObjectExists
  <1>5. MoveRow(a, "failed", row)
    BY DEF MarkFailed
  <1> HIDE DEF row
  <1>6. QED
    BY <1>2, <1>3, <1>4, <1>5, MoveRowRows

\* Txn B by the request that holds the row's current attempt.
LEMMA BindReceiptRows ==
    ASSUME RowInv, ReqInv, NEW r \in Requests, req[r].pc = "completing",
           Current(r), BindReceipt(r), UNCHANGED <<event, objects>>
    PROVE  RowInv'
  <1> DEFINE a == req[r].att
             row == [status |-> "stored", job |-> event.job, key |-> KeyOf(r)]
  <1>1. a \in Attachments /\ att[a].state = "pending"
    BY DEF ReqInv, LiveRequests, Current
  <1>2. CASE ReceiptAccepted(a, req[r].content)
    <2>1. MoveRow(a, "stored", row)
      BY <1>2 DEF BindReceipt
    <2>2. /\ KeyOf(r) \in ObjectKey /\ KeyOf(r) \in objects
          /\ KeyOf(r).evidence = att[a].evidence
          /\ KeyOf(r).attempt = att[a].attempt
          /\ a = Inline => KeyOf(r).content = BodyText
      BY <1>2, KeyOfType
         DEF ReqInv, ReceiptsPublished, RowInv, Current, KeyOf, ReceiptAccepted
    <2>3. row \in EvidenceRow
      BY <2>2 DEF RowInv, RowsTyped, EventRow, EvidenceRow
    <2>4. row.status = "stored" /\ row.job = event.job /\ row.key = KeyOf(r)
      OBVIOUS
    <2> HIDE DEF row
    <2>5. QED
      BY <1>1, <2>1, <2>2, <2>3, <2>4, MoveRowRows
  <1>3. CASE ~ReceiptAccepted(a, req[r].content)
    BY <1>1, <1>3, MarkFailedRows DEF BindReceipt
  <1>4. QED
    BY <1>2, <1>3

\* Txn A, first attempt or retry: the row's next attempt over an Evidence row
\* that no other attachment is bound to.
LEMMA TakeRows ==
    ASSUME RowInv, NEW r \in Requests, NEW a \in Attachments,
           att[a].state \in {"awaiting_upload", "failed"},
           NEW e \in EvidenceIds, att[a].evidence \in {None, e},
           \A b \in Attachments \ {a} : att[b].evidence # e,
           NEW ev \in EvidenceRow,
           ev.status = "pending", ev.job = event.job, ev.key = None,
           Take(r, a, att[a].attempt + 1, e, ev)
    PROVE  RowInv'
  <1>1. e # None /\ ev # None
    BY UploadAssumption
  <1>2. /\ att' = [att EXCEPT ![a] = [state |-> "pending",
                     attempt |-> att[a].attempt + 1, evidence |-> e]]
        /\ evidence' = [evidence EXCEPT ![e] = ev]
        /\ audit' = [audit EXCEPT ![a] =
                       [to |-> "pending", attempt |-> att[a].attempt + 1]]
        /\ aged' = [aged EXCEPT ![a] = FALSE]
        /\ UNCHANGED <<event, objects>>
    BY DEF Take
  <1>3. RowsTyped'
    BY <1>2 DEF RowInv, RowsTyped, ManifestRow, AttachmentState
  <1>4. /\ \A b \in Attachments \ {a} : att'[b] = att[b]
        /\ att'[a].state = "pending" /\ att'[a].evidence = e
        /\ evidence'[e] = ev
        /\ \A x \in EvidenceIds \ {e} : evidence'[x] = evidence[x]
    BY <1>2 DEF RowInv, RowsTyped, ManifestRow
  <1>5. \A b \in Attachments \ {a} :
           att[b].evidence # None =>
              evidence'[att[b].evidence] = evidence[att[b].evidence]
    BY <1>4 DEF RowInv, RowsTyped, ManifestRow
  <1>6. ManifestMirrorsEvidence'
    <2>1. /\ audit'[a] = [to |-> att'[a].state, attempt |-> att'[a].attempt]
          /\ \A b \in Attachments \ {a} : audit'[b] = audit[b]
      BY <1>2 DEF RowInv, RowsTyped
    <2>2. ASSUME NEW b \in Attachments, NEW c \in Attachments \ {b},
                 att'[b].evidence # None
          PROVE  att'[c].evidence # att'[b].evidence
      <3>1. CASE b = a \/ c = a
        BY <1>4, <3>1
      <3>2. CASE b # a /\ c # a
        <4>1. att'[b] = att[b] /\ att'[c] = att[c]
          BY <1>4, <3>2
        <4>2. att[b].evidence # None => att[c].evidence # att[b].evidence
          BY DEF RowInv, ManifestMirrorsEvidence
        <4>3. QED
          BY <2>2, <4>1, <4>2
      <3>3. QED
        BY <3>1, <3>2
    <2>3. \A b \in Attachments :
             /\ (att'[b].evidence = None) <=> (att'[b].state = "awaiting_upload")
             /\ att'[b].evidence # None =>
                   /\ evidence'[att'[b].evidence] # None
                   /\ evidence'[att'[b].evidence].status = att'[b].state
             /\ audit'[b] = [to |-> att'[b].state, attempt |-> att'[b].attempt]
      BY <1>1, <1>4, <1>5, <2>1 DEF RowInv, ManifestMirrorsEvidence
    <2>4. QED
      BY <2>2, <2>3 DEF ManifestMirrorsEvidence
  <1>7. StoredObjectExists'
    BY <1>1, <1>2, <1>4, <1>5 DEF RowInv, StoredObjectExists
  <1>8. CompleteMeansStored'
    BY <1>2 DEF RowInv, CompleteMeansStored
  <1>9. EvidenceFollowsJob'
    BY <1>1, <1>2, <1>4 DEF RowInv, EvidenceFollowsJob, Bound
  <1>10. InlineAtRest'
    <2> SUFFICES ASSUME NEW b \in Attachments, b = Inline,
                        att'[b].state = "stored"
                 PROVE  evidence'[att'[b].evidence].key.content = BodyText
      BY DEF InlineAtRest
    <2>1. b # a /\ att'[b] = att[b]
      BY <1>4
    <2>2. att[b].evidence # None
      BY <2>1, BoundRow DEF RowInv
    <2>3. QED
      BY <1>5, <2>1, <2>2 DEF RowInv, InlineAtRest
  <1>11. QED
    BY <1>3, <1>6, <1>7, <1>8, <1>9, <1>10 DEF RowInv

\* acquire_attachment keeps the row invariants, on a first attempt and a retry.
LEMMA AcquireRows ==
    ASSUME RowInv, NEW r \in Requests, NEW a \in Attachments, Acquire(r, a)
    PROVE  RowInv'
  <1>1. att[a].state \in {"awaiting_upload", "failed"}
    BY DEF Acquire
  <1>2. CASE att[a].evidence = None
    <2>1. PICK e \in EvidenceIds :
             /\ evidence[e] = None
             /\ Take(r, a, att[a].attempt + 1, e, NewEvidence)
      BY <1>2 DEF Acquire, TakeFirst
    <2>2. \A b \in Attachments \ {a} : att[b].evidence # e
      BY <2>1, UploadAssumption DEF RowInv, ManifestMirrorsEvidence
    <2>3. /\ NewEvidence \in EvidenceRow
          /\ NewEvidence.status = "pending"
          /\ NewEvidence.job = event.job
          /\ NewEvidence.key = None
      BY DEF NewEvidence, EvidenceRow, RowInv, RowsTyped, EventRow
    <2>4. QED
      BY <1>1, <1>2, <2>1, <2>2, <2>3, TakeRows
  <1>3. CASE att[a].evidence # None
    <2> DEFINE e == att[a].evidence
               ev == [evidence[e] EXCEPT !.status = "pending"]
    <2>1. /\ e \in EvidenceIds /\ evidence[e] \in EvidenceRow
          /\ \A b \in Attachments \ {a} : att[b].evidence # e
      BY <1>3 DEF RowInv, RowsTyped, ManifestRow, ManifestMirrorsEvidence
    <2>2. /\ ev \in EvidenceRow /\ ev.status = "pending"
          /\ ev.job = evidence[e].job /\ ev.key = evidence[e].key
      BY <2>1 DEF EvidenceRow
    <2>3. ev.job = event.job
      BY <2>1, <2>2 DEF RowInv, EvidenceFollowsJob, Bound
    <2>4. ev.key = None
      BY <1>1, <1>3, <2>2 DEF RowInv, StoredObjectExists
    <2>5. Take(r, a, att[a].attempt + 1, e, ev)
      BY <1>3 DEF Acquire, TakeAgain
    <2> HIDE DEF ev
    <2>6. QED
      BY <1>1, <2>1, <2>2, <2>3, <2>4, <2>5, TakeRows
  <1>4. QED
    BY <1>2, <1>3

\* Assigning or relinking the job moves the event and all its Evidence.
LEMMA SyncJobRows ==
    ASSUME RowInv, NEW j \in Jobs, SyncJob(j)
    PROVE  RowInv'
  <1>1. /\ event' = [event EXCEPT !.job = j]
        /\ event'.job = j /\ event'.status = event.status
        /\ UNCHANGED <<att, audit, aged, objects>>
    BY DEF SyncJob, RowInv, RowsTyped, EventRow
  <1>2. \A e \in EvidenceIds : Bound(e) => evidence[e] \in EvidenceRow
    BY UploadAssumption DEF RowInv, RowsTyped, ManifestMirrorsEvidence, Bound
  <1>3. /\ evidence' \in [EvidenceIds -> EvidenceRow \cup {None}]
        /\ \A e \in EvidenceIds : Bound(e) =>
              /\ evidence'[e] \in EvidenceRow
              /\ evidence'[e].job = j
              /\ evidence'[e].status = evidence[e].status
              /\ evidence'[e].key = evidence[e].key
    BY <1>2 DEF SyncJob, EvidenceRow, RowInv, RowsTyped
  <1>4. \A a \in Attachments : att[a].evidence # None => Bound(att[a].evidence)
                                    /\ att[a].evidence \in EvidenceIds
    BY DEF Bound, RowInv, RowsTyped, ManifestRow
  <1>5. RowsTyped'
    BY <1>1, <1>3 DEF RowInv, RowsTyped, EventRow
  <1>6. ManifestMirrorsEvidence'
    BY <1>1, <1>3, <1>4, UploadAssumption DEF RowInv, ManifestMirrorsEvidence
  <1>7. StoredObjectExists'
    BY <1>1, <1>3, <1>4 DEF RowInv, StoredObjectExists
  <1>8. CompleteMeansStored'
    BY <1>1 DEF RowInv, CompleteMeansStored
  <1>9. EvidenceFollowsJob'
    BY <1>1, <1>3 DEF EvidenceFollowsJob, Bound
  <1>10. InlineAtRest'
    BY <1>1, <1>3, <1>4 DEF RowInv, InlineAtRest, ManifestMirrorsEvidence
  <1>11. QED
    BY <1>5, <1>6, <1>7, <1>8, <1>9, <1>10 DEF RowInv

\* finalize_capture keeps the row invariants.
LEMMA FinalizeRows ==
    ASSUME RowInv, FinalizeCapture
    PROVE  RowInv'
  <1>1. /\ event'.status = FinalizeTarget /\ event'.job = event.job
        /\ event' \in EventRow
        /\ UNCHANGED <<att, evidence, audit, aged, objects>>
    BY DEF FinalizeCapture, FinalizeTarget, RowInv, RowsTyped, EventRow, rows
  <1>2. CompleteMeansStored'
    BY <1>1 DEF FinalizeTarget, CompleteMeansStored
  <1>3. QED
    BY <1>1, <1>2 DEF RowInv, RowsTyped, ManifestMirrorsEvidence,
         StoredObjectExists, EvidenceFollowsJob, Bound, InlineAtRest

(***************************************************************************)
(* What a step preserves of the requests.                                  *)
(***************************************************************************)

\* Rows that keep their attempt numbers and bindings, a store that only grows,
\* and requests that only stop or advance, keep the request invariant.
LEMMA RequestFrame ==
    ASSUME RowInv, ReqInv,
           req' \in [Requests -> RequestState],
           \A b \in Attachments : /\ att'[b].attempt = att[b].attempt
                                  /\ att'[b].evidence = att[b].evidence,
           objects \subseteq objects',
           \A s \in Requests : req'[s].pc # "idle" =>
              /\ req[s].pc # "idle"
              /\ req'[s].att = req[s].att
              /\ req'[s].attempt = req[s].attempt
              /\ req'[s].content = req[s].content
              /\ req'[s].pc = "completing" =>
                    req[s].pc = "completing" \/ KeyOf(s) \in objects'
    PROVE  ReqInv'
  <1>1. LiveRequests'
    BY DEF ReqInv, LiveRequests, RequestBytes
  <1>2. \A s \in Requests : req'[s].pc # "idle" => KeyOf(s)' = KeyOf(s)
    BY DEF ReqInv, LiveRequests, KeyOf
  <1>3. ReceiptsPublished'
    BY <1>2 DEF ReqInv, ReceiptsPublished
  <1>4. AttemptsAreFenced'
    <2> SUFFICES ASSUME NEW s \in Requests, req'[s].pc # "idle"
                 PROVE  /\ req'[s].attempt \in 1 .. att'[req'[s].att].attempt
                        /\ \A t \in Requests \ {s} :
                              (req'[t].pc # "idle" /\ req'[t].att = req'[s].att)
                                 => req'[t].attempt # req'[s].attempt
      BY DEF AttemptsAreFenced, Live
    <2>1. /\ req[s].pc # "idle" /\ req[s].att \in Attachments
          /\ req'[s].att = req[s].att /\ req'[s].attempt = req[s].attempt
      BY DEF ReqInv, LiveRequests
    <2>2. req[s].attempt \in 1 .. att[req[s].att].attempt
      BY <2>1 DEF ReqInv, AttemptsAreFenced
    <2>3. \A t \in Requests \ {s} :
             (req[t].pc # "idle" /\ req[t].att = req[s].att)
                => req[t].attempt # req[s].attempt
      BY <2>1 DEF ReqInv, AttemptsAreFenced, Live
    <2>4. QED
      BY <2>1, <2>2, <2>3
  <1>5. QED
    BY <1>1, <1>3, <1>4 DEF ReqInv

\* The rows' moves keep attempt numbers and bindings.
LEMMA MoveRowFrame ==
    ASSUME RowInv, NEW a \in Attachments, NEW to, NEW row, MoveRow(a, to, row)
    PROVE  \A b \in Attachments : /\ att'[b].attempt = att[b].attempt
                                  /\ att'[b].evidence = att[b].evidence
  BY DEF MoveRow, RowInv, RowsTyped, ManifestRow

\* So do the bookkeeping write and the Txn B write of a request.
LEMMA FailOrBindFrame ==
    ASSUME RowInv, NEW r \in Requests, req[r].att \in Attachments,
           MarkFailed(req[r].att) \/ BindReceipt(r) \/ UNCHANGED rows
    PROVE  \A b \in Attachments : /\ att'[b].attempt = att[b].attempt
                                  /\ att'[b].evidence = att[b].evidence
  BY MoveRowFrame DEF MarkFailed, BindReceipt, rows

\* A step that leaves the rows alone may only publish objects.
LEMMA UnchangedRows ==
    ASSUME RowInv, UNCHANGED <<rows, event>>,
           objects \subseteq objects', objects' \subseteq ObjectKey
    PROVE  RowInv'
  <1>1. UNCHANGED <<att, evidence, audit, aged, event>>
    BY DEF rows
  <1>2. StoredObjectExists'
    BY <1>1 DEF RowInv, StoredObjectExists
  <1>3. RowsTyped'
    BY <1>1 DEF RowInv, RowsTyped
  <1>4. ManifestMirrorsEvidence'
    BY <1>1 DEF RowInv, ManifestMirrorsEvidence
  <1>5. CompleteMeansStored' /\ InlineAtRest'
    BY <1>1 DEF RowInv, CompleteMeansStored, InlineAtRest
  <1>6. EvidenceFollowsJob'
    BY <1>1 DEF RowInv, EvidenceFollowsJob, Bound
  <1>7. QED
    BY <1>2, <1>3, <1>4, <1>5, <1>6 DEF RowInv

\* A step that leaves a request with a new pc, reply or try count.
LEMMA AnswerFrame ==
    ASSUME ReqInv, NEW r \in Requests, NEW reply \in Reply, Answer(r, reply)
    PROVE  /\ req' \in [Requests -> RequestState]
           /\ \A s \in Requests : req'[s].pc # "idle" =>
                 s # r /\ req'[s] = req[s]
  BY ZenonT(30) DEF Answer, ReqInv, RequestState

\* acquire_attachment keeps the request invariants: the number it takes is new.
LEMMA AcquireRequests ==
    ASSUME RowInv, ReqInv, NEW r \in Requests, NEW a \in Attachments,
           Acquire(r, a)
    PROVE  ReqInv'
  <1> DEFINE n == att[a].attempt + 1
  <1>1. PICK e \in EvidenceIds :
           att[a].evidence \in {None, e} /\ \E ev : Take(r, a, n, e, ev)
    BY DEF Acquire, TakeFirst, TakeAgain, RowInv, RowsTyped, ManifestRow
  <1>2. PICK c \in RequestBytes(a) :
           req' = [req EXCEPT ![r] =
                     [pc |-> "streaming", att |-> a, attempt |-> n,
                      content |-> c, tries |-> 0, reply |-> "none"]]
    BY <1>1 DEF Take
  <1>3. att[a].attempt \in Nat
    BY DEF RowInv, RowsTyped, ManifestRow
  <1>4. /\ att'[a].attempt = n /\ att'[a].evidence = e
        /\ \A b \in Attachments \ {a} : att'[b] = att[b]
        /\ objects' = objects
    BY <1>1 DEF Take, RowInv, RowsTyped
  <1>5. /\ req'[r].pc = "streaming" /\ req'[r].att = a
        /\ req'[r].attempt = n /\ req'[r].content = c
        /\ \A s \in Requests \ {r} : req'[s] = req[s]
    BY <1>2 DEF ReqInv
  <1>6. req' \in [Requests -> RequestState]
    BY <1>2, <1>3, RequestBytesOfRow
       DEF ReqInv, RequestState, TxnBAttempts, Reply
  <1>7. LiveRequests'
    <2> SUFFICES ASSUME NEW s \in Requests, req'[s].pc # "idle"
                 PROVE  /\ req'[s].att \in Attachments
                        /\ req'[s].content \in RequestBytes(req'[s].att)
                        /\ att'[req'[s].att].evidence # None
      BY DEF LiveRequests, RequestBytes
    <2>1. CASE s = r
      BY <1>4, <1>5, <2>1, UploadAssumption
    <2>2. CASE s # r
      BY <1>1, <1>4, <1>5, <2>2, UploadAssumption DEF ReqInv, LiveRequests
    <2>3. QED
      BY <2>1, <2>2
  <1>8. ReceiptsPublished'
    <2> SUFFICES ASSUME NEW s \in Requests, req'[s].pc = "completing"
                 PROVE  KeyOf(s)' \in objects'
      BY DEF ReceiptsPublished
    <2>1. s # r /\ req'[s] = req[s]
      BY <1>5
    <2>2. /\ req[s].att \in Attachments /\ att[req[s].att].evidence # None
          /\ KeyOf(s) \in objects
      BY <2>1 DEF ReqInv, LiveRequests, ReceiptsPublished
    <2>3. att'[req[s].att].evidence = att[req[s].att].evidence
      BY <1>1, <1>4, <2>2
    <2>4. QED
      BY <1>4, <2>1, <2>2, <2>3 DEF KeyOf
  <1>9. AttemptsAreFenced'
    <2>1. \A s \in Requests \ {r} : req[s].pc # "idle" =>
             /\ req[s].att \in Attachments
             /\ req[s].attempt \in 1 .. att[req[s].att].attempt
      BY DEF ReqInv, LiveRequests, AttemptsAreFenced
    <2>2. \A s \in Requests \ {r} : \A t \in Requests \ {r, s} :
             (req[s].pc # "idle" /\ req[t].pc # "idle" /\ req[t].att = req[s].att)
                => req[t].attempt # req[s].attempt
      BY DEF ReqInv, AttemptsAreFenced, Live
    <2>3. \A s \in Requests : req'[s].pc # "idle" =>
             req'[s].attempt \in 1 .. att'[req'[s].att].attempt
      BY <1>3, <1>4, <1>5, <2>1 DEF RowInv, RowsTyped, ManifestRow
    <2>4. ASSUME NEW s \in Requests, NEW t \in Requests \ {s},
                 req'[s].pc # "idle", req'[t].pc # "idle",
                 req'[t].att = req'[s].att
          PROVE  req'[t].attempt # req'[s].attempt
      <3>1. CASE s = r
        BY <1>3, <1>5, <2>1, <2>4, <3>1
      <3>2. CASE t = r
        BY <1>3, <1>5, <2>1, <2>4, <3>2
      <3>3. CASE s # r /\ t # r
        BY <1>5, <2>2, <2>4, <3>3
      <3>4. QED
        BY <3>1, <3>2, <3>3
    <2>5. QED
      BY <2>3, <2>4 DEF AttemptsAreFenced, Live
  <1>10. QED
    BY <1>6, <1>7, <1>8, <1>9 DEF ReqInv

(***************************************************************************)
(* The invariant.                                                          *)
(***************************************************************************)

\* The event as declare_capture commits it satisfies the invariant.
LEMMA InitIInv == Init => IInv
  <1> SUFFICES ASSUME Init PROVE IInv
    OBVIOUS
  <1>1. RowsTyped
    BY DEF Init, RowsTyped, ManifestRow, AttachmentState, EventRow
  <1>2. NoRequest \in RequestState /\ NoRequest.pc = "idle"
    BY DEF NoRequest, Replied, RequestState, TxnBAttempts, Reply
  <1>3. ReqInv
    BY <1>2 DEF Init, ReqInv, LiveRequests, ReceiptsPublished, AttemptsAreFenced
  <1>4. ManifestMirrorsEvidence
    BY DEF Init, ManifestMirrorsEvidence
  <1>5. StoredObjectExists /\ CompleteMeansStored /\ InlineAtRest
    BY DEF Init, StoredObjectExists, CompleteMeansStored, InlineAtRest
  <1>6. EvidenceFollowsJob
    BY UploadAssumption DEF Init, EvidenceFollowsJob, Bound
  <1>7. QED
    BY <1>1, <1>3, <1>4, <1>5, <1>6, UploadAssumption DEF Init, IInv, RowInv

\* A step in which request r stops, fails the row or binds its receipt.
LEMMA RequestStops ==
    ASSUME IInv, NEW r \in Requests, req[r].pc # "idle",
           req' \in [Requests -> RequestState],
           \A s \in Requests : req'[s].pc # "idle" =>
              /\ req[s].pc # "idle" /\ req'[s].att = req[s].att
              /\ req'[s].attempt = req[s].attempt
              /\ req'[s].content = req[s].content
              /\ req'[s].pc = req[s].pc,
           UNCHANGED <<event, objects>>,
           \/ UNCHANGED rows
           \/ Current(r) /\ MarkFailed(req[r].att)
           \/ Current(r) /\ req[r].pc = "completing" /\ BindReceipt(r)
    PROVE  RowInv' /\ ReqInv'
  <1>1. req[r].att \in Attachments
    BY DEF IInv, ReqInv, LiveRequests
  <1>2. RowInv'
    <2>1. CASE UNCHANGED rows
      BY <2>1, UnchangedRows DEF IInv, RowInv, RowsTyped
    <2>2. CASE Current(r) /\ MarkFailed(req[r].att)
      BY <1>1, <2>2, MarkFailedRows DEF IInv, Current
    <2>3. CASE Current(r) /\ req[r].pc = "completing" /\ BindReceipt(r)
      BY <2>3, BindReceiptRows DEF IInv
    <2>4. QED
      BY <2>1, <2>2, <2>3
  <1>3. \A b \in Attachments : /\ att'[b].attempt = att[b].attempt
                               /\ att'[b].evidence = att[b].evidence
    BY <1>1, FailOrBindFrame DEF IInv
  <1>4. ReqInv'
    BY <1>3, RequestFrame DEF IInv
  <1>5. QED
    BY <1>2, <1>4

\* Every step keeps the invariant, one case per action.
LEMMA StepIInv == IInv /\ [Next]_vars => IInv'
  <1> SUFFICES ASSUME IInv, [Next]_vars PROVE IInv'
    OBVIOUS
  <1>0. /\ RowInv /\ ReqInv /\ req \in [Requests -> RequestState]
        /\ objects \subseteq ObjectKey /\ faults \in 0 .. MaxFaults
        /\ MaxFaults \in Nat
    BY UploadAssumption DEF IInv, RowInv, RowsTyped, ReqInv
  <1>1. (Fault \/ UNCHANGED faults) => faults' \in 0 .. MaxFaults
    BY <1>0 DEF Fault
  <1>2. ASSUME NEW r \in Requests, NEW a \in Attachments, Acquire(r, a)
        PROVE  IInv'
    <2>1. UNCHANGED faults
      BY <1>2 DEF Acquire, TakeFirst, TakeAgain, Take
    <2>2. QED
      BY <1>0, <1>1, <1>2, <2>1, AcquireRows, AcquireRequests DEF IInv
  <1>3. ASSUME NEW r \in Requests, NEW a \in Attachments, AcquireNoWrite(r, a)
        PROVE  IInv'
    <2>1. req' \in [Requests -> RequestState]
      <3>1. PICK reply \in Reply :
               req' = [req EXCEPT ![r] = Replied(a, reply)]
        BY <1>3 DEF AcquireNoWrite, Reply
      <3>2. Replied(a, reply) \in RequestState
        BY DEF Replied, RequestState, TxnBAttempts
      <3>3. QED
        BY <1>0, <3>1, <3>2
    <2>2. /\ \A s \in Requests \ {r} : req'[s] = req[s]
          /\ req'[r].pc = "idle"
      BY <1>0, <1>3 DEF AcquireNoWrite, Replied
    <2>3. UNCHANGED <<rows, event, objects, faults>>
      BY <1>3 DEF AcquireNoWrite
    <2>4. RowInv'
      BY <1>0, <2>3, UnchangedRows
    <2>5. ReqInv'
      BY <1>0, <2>1, <2>2, <2>3, RequestFrame DEF rows
    <2>6. QED
      BY <1>1, <2>3, <2>4, <2>5 DEF IInv
  <1>4. ASSUME NEW r \in Requests, StreamStored(r)
        PROVE  IInv'
    <2>1. /\ req[r].pc = "streaming" /\ KeyOf(r) \in ObjectKey
          /\ objects' = objects \cup {KeyOf(r)}
          /\ req' = [req EXCEPT ![r].pc = "completing"]
          /\ UNCHANGED <<rows, event, faults>>
      BY <1>0, <1>4, KeyOfType DEF RowInv, StreamStored, Reach
    <2>2. RowInv'
      BY <1>0, <2>1, UnchangedRows
    <2>3. /\ req' \in [Requests -> RequestState]
          /\ \A s \in Requests \ {r} : req'[s] = req[s]
          /\ req'[r].att = req[r].att /\ req'[r].attempt = req[r].attempt
          /\ req'[r].content = req[r].content
      BY <1>0, <2>1 DEF RequestState
    <2>4. ReqInv'
      BY <1>0, <2>1, <2>3, RequestFrame DEF rows
    <2>5. QED
      BY <1>1, <2>1, <2>2, <2>4 DEF IInv
  <1>5. ASSUME NEW r \in Requests, NEW reason \in FailureReason,
               StreamFails(r, reason)
        PROVE  IInv'
    <2>1. /\ req[r].pc = "streaming" /\ KeyOf(r) \in ObjectKey
          /\ objects' \in {objects, objects \cup {KeyOf(r)}}
          /\ req' = [req EXCEPT ![r].pc = "failing", ![r].reply = reason]
          /\ Fault /\ UNCHANGED <<rows, event>>
      BY <1>0, <1>5, KeyOfType DEF RowInv, StreamFails
    <2>2. RowInv'
      BY <1>0, <2>1, UnchangedRows
    <2>3. /\ req' \in [Requests -> RequestState]
          /\ \A s \in Requests \ {r} : req'[s] = req[s]
          /\ req'[r].att = req[r].att /\ req'[r].attempt = req[r].attempt
          /\ req'[r].content = req[r].content /\ req'[r].pc = "failing"
      <3>1. req[r] \in RequestState /\ reason \in Reply
        BY <1>0 DEF Reply
      <3>2. PICK q : q = [req[r] EXCEPT !.pc = "failing", !.reply = reason]
        OBVIOUS
      <3>3. /\ q \in RequestState /\ q.att = req[r].att /\ q.attempt = req[r].attempt
            /\ q.content = req[r].content /\ q.pc = "failing"
        BY <3>1, <3>2 DEF RequestState
      <3>4. req' = [req EXCEPT ![r] = q]
        BY <1>0, <2>1, <3>2
      <3> QED BY <1>0, <3>3, <3>4
    <2>4. ReqInv'
      BY <1>0, <2>1, <2>3, RequestFrame DEF rows
    <2>5. QED
      BY <1>1, <2>1, <2>2, <2>4 DEF IInv
  <1>6. ASSUME NEW r \in Requests, FailAttachment(r)
        PROVE  IInv'
    <2>1. /\ req[r].pc # "idle" /\ req' = [req EXCEPT ![r].pc = "idle"]
          /\ UNCHANGED <<event, objects, faults>>
          /\ UNCHANGED rows \/ (Current(r) /\ MarkFailed(req[r].att))
      BY <1>6 DEF FailAttachment, Reach
    <2>2. req' \in [Requests -> RequestState]
      BY <1>0, <2>1 DEF RequestState
    <2>3. \A s \in Requests : req'[s].pc # "idle" => req'[s] = req[s]
      BY <1>0, <2>1
    <2>4. QED
      BY <1>1, <2>1, <2>2, <2>3, RequestStops DEF IInv
  <1>7. ASSUME NEW r \in Requests, BookkeepingUnconfirmed(r)
        PROVE  IInv'
    <2>1. /\ req[r].pc # "idle" /\ Answer(r, "error") /\ Fault
          /\ UNCHANGED <<event, objects>>
          /\ UNCHANGED rows \/ (Current(r) /\ MarkFailed(req[r].att))
      BY <1>7 DEF BookkeepingUnconfirmed
    <2>2. /\ req' \in [Requests -> RequestState]
          /\ \A s \in Requests : req'[s].pc # "idle" => req'[s] = req[s]
      BY <1>0, <2>1, AnswerFrame DEF Reply
    <2>3. QED
      BY <1>1, <2>1, <2>2, RequestStops DEF IInv
  <1>8. ASSUME NEW r \in Requests, CompleteOnce(r)
        PROVE  IInv'
    <2>1. PICK reply \in Reply : Answer(r, reply)
      BY <1>8 DEF CompleteOnce, Reply
    <2>2. /\ req' \in [Requests -> RequestState]
          /\ \A s \in Requests : req'[s].pc # "idle" => req'[s] = req[s]
      BY <1>0, <2>1, AnswerFrame
    <2>3. /\ req[r].pc = "completing" /\ Current(r) /\ BindReceipt(r)
          /\ UNCHANGED <<event, objects, faults>>
      BY <1>8 DEF CompleteOnce
    <2>4. QED
      BY <1>1, <2>2, <2>3, RequestStops DEF IInv
  <1>9. ASSUME NEW r \in Requests, CompleteSuperseded(r) \/ Die(r)
        PROVE  IInv'
    <2>1. /\ req[r].pc # "idle" /\ UNCHANGED <<rows, event, objects>>
          /\ Fault \/ UNCHANGED faults
          /\ \E reply \in Reply : Answer(r, reply)
      BY <1>9 DEF CompleteSuperseded, Die, Reply
    <2>2. /\ req' \in [Requests -> RequestState]
          /\ \A s \in Requests : req'[s].pc # "idle" => req'[s] = req[s]
      BY <1>0, <2>1, AnswerFrame
    <2>3. QED
      BY <1>1, <2>1, <2>2, RequestStops DEF IInv
  <1>10. ASSUME NEW r \in Requests, CompleteRetry(r)
         PROVE  IInv'
    <2>1. /\ req[r].pc = "completing" /\ Fault /\ UNCHANGED <<event, objects>>
          /\ UNCHANGED rows \/ (Current(r) /\ BindReceipt(r))
      BY <1>10 DEF CompleteRetry
    <2>2. /\ req' \in [Requests -> RequestState]
          /\ \A s \in Requests : req'[s].pc # "idle" =>
               /\ req[s].pc # "idle" /\ req'[s].att = req[s].att
               /\ req'[s].attempt = req[s].attempt
               /\ req'[s].content = req[s].content /\ req'[s].pc = req[s].pc
      <3>1. CASE req[r].tries + 1 < TxnBAttempts
        <4>1. req' = [req EXCEPT ![r].tries = @ + 1]
          BY <1>10, <3>1 DEF CompleteRetry
        <4>2. req[r].tries + 1 \in 0 .. TxnBAttempts - 1
          BY <1>0, <3>1 DEF RequestState, TxnBAttempts
        <4>3. QED
          BY <1>0, <4>1, <4>2 DEF RequestState
      <3>2. CASE ~(req[r].tries + 1 < TxnBAttempts)
        BY <1>0, <1>10, <3>2, AnswerFrame DEF CompleteRetry, Reply
      <3>3. QED
        BY <3>1, <3>2
    <2>3. QED
      BY <1>1, <2>1, <2>2, RequestStops DEF IInv
  <1>11. ASSUME NEW a \in Attachments, Age(a)
         PROVE  IInv'
    <2>1. /\ UNCHANGED <<att, evidence, audit, event, objects, req, faults>>
          /\ aged' \in [Attachments -> BOOLEAN]
      BY <1>0, <1>11 DEF Age, RowInv, RowsTyped
    <2>2. RowInv'
      <3>1. RowsTyped' /\ ManifestMirrorsEvidence' /\ StoredObjectExists'
        BY <1>0, <2>1
           DEF RowInv, RowsTyped, ManifestMirrorsEvidence, StoredObjectExists
      <3>2. CompleteMeansStored' /\ EvidenceFollowsJob' /\ InlineAtRest'
        BY <1>0, <2>1
           DEF RowInv, CompleteMeansStored, EvidenceFollowsJob, Bound,
               InlineAtRest
      <3>3. QED
        BY <3>1, <3>2 DEF RowInv
    <2>3. ReqInv'
      BY <1>0, <2>1, RequestFrame
    <2>4. QED
      BY <1>1, <2>1, <2>2, <2>3 DEF IInv
  <1>12. ASSUME NEW a \in Attachments, ResetAttachment(a)
         PROVE  IInv'
    <2>1. /\ att[a].state = "pending" /\ MarkFailed(a)
          /\ UNCHANGED <<event, objects, req>>
          /\ Fault \/ UNCHANGED faults
      BY <1>12 DEF ResetAttachment
    <2>2. RowInv'
      BY <1>0, <2>1, MarkFailedRows
    <2>3. ReqInv'
      BY <1>0, <2>1, MoveRowFrame, RequestFrame DEF MarkFailed
    <2>4. QED
      BY <1>1, <2>1, <2>2, <2>3 DEF IInv
  <1>13. CASE FinalizeCapture
    <2>1. UNCHANGED <<att, objects, req, faults>>
      BY <1>13 DEF FinalizeCapture, rows
    <2>2. QED
      BY <1>0, <1>1, <1>13, <2>1, FinalizeRows, RequestFrame DEF IInv
  <1>14. ASSUME NEW j \in Jobs, AssignJob(j) \/ RelinkJob(j)
         PROVE  IInv'
    <2>1. SyncJob(j) /\ UNCHANGED <<att, objects, req, faults>>
      BY <1>14 DEF AssignJob, RelinkJob, SyncJob
    <2>2. QED
      BY <1>0, <1>1, <2>1, SyncJobRows, RequestFrame DEF IInv
  <1>15. CASE UNCHANGED vars
    <2>1. UNCHANGED <<rows, event, objects, req, faults, att>>
      BY <1>15 DEF vars, rows
    <2>2. QED
      BY <1>0, <1>1, <2>1, UnchangedRows, RequestFrame DEF IInv
  <1>16. QED
    BY <1>2, <1>3, <1>4, <1>5, <1>6, <1>7, <1>8, <1>9, <1>10, <1>11, <1>12,
       <1>13, <1>14, <1>15 DEF Next, RequestStep

\* The inductive invariant holds in every reachable state.
THEOREM Invariance == Spec => []IInv
  BY InitIInv, StepIInv, PTL DEF Spec

(***************************************************************************)
(* What follows from it.                                                   *)
(***************************************************************************)

\* Every variable keeps its type: rows, requests, objects, and the bounds on
\* Txn B tries and on failures.
THEOREM TypeCorrect == Spec => []TypeOK
  <1>1. IInv => TypeOK
    BY DEF IInv, RowInv, RowsTyped, ReqInv, TypeOK
  <1>2. QED
    BY Invariance, <1>1, PTL

\* A manifest row, its Evidence row and its last audit row agree in every
\* committed state of the upload protocol.
THEOREM ManifestAgrees == Spec => []ManifestMirrorsEvidence
  <1>1. IInv => ManifestMirrorsEvidence
    BY DEF IInv, RowInv
  <1>2. QED
    BY Invariance, <1>1, PTL

\* A stored row always names a published object of its own last attempt.
THEOREM StoredIsPublished == Spec => []StoredObjectExists
  <1>1. IInv => StoredObjectExists
    BY DEF IInv, RowInv
  <1>2. QED
    BY Invariance, <1>1, PTL

\* Concurrent requests of one row always carry different attempt numbers, none
\* ahead of the row.
THEOREM Fencing == Spec => []AttemptsAreFenced
  <1>1. IInv => AttemptsAreFenced
    BY DEF IInv, ReqInv
  <1>2. QED
    BY Invariance, <1>1, PTL

\* A complete capture has every declared attachment stored.
THEOREM CompleteIsComplete == Spec => []CompleteMeansStored
  <1>1. IInv => CompleteMeansStored
    BY DEF IInv, RowInv
  <1>2. QED
    BY Invariance, <1>1, PTL

\* All the Evidence of an event names the event's job.
THEOREM JobsAgree == Spec => []EvidenceFollowsJob
  <1>1. IInv => EvidenceFollowsJob
    BY DEF IInv, RowInv
  <1>2. QED
    BY Invariance, <1>1, PTL

\* The inline row carries nothing but revision 1's text, in flight and at rest.
THEOREM InlineIsText == Spec => []InlineIsRevisionOne
  <1>1. IInv => InlineIsRevisionOne
    BY DEF IInv, RowInv, ReqInv, InlineAtRest, LiveRequests, RequestBytes,
           InlineIsRevisionOne, Live
  <1>2. QED
    BY Invariance, <1>1, PTL

(***************************************************************************)
(* The ways a step can write the rows and the event.                       *)
(***************************************************************************)

Quiet == UNCHANGED <<att, evidence, audit, event>>
Binds(r) == req[r].pc = "completing" /\ Current(r) /\ BindReceipt(r)
Fails(a) == att[a].state = "pending" /\ MarkFailed(a)

\* Every step leaves the rows alone, or is one of five writes.
LEMMA StepKinds ==
    ASSUME IInv, [Next]_vars
    PROVE  \/ Quiet
           \/ \E r \in Requests, a \in Attachments : Acquire(r, a)
           \/ \E r \in Requests : Binds(r) /\ UNCHANGED event
           \/ \E a \in Attachments : Fails(a) /\ UNCHANGED event
           \/ FinalizeCapture
           \/ \E j \in Jobs : j # event.job /\ SyncJob(j)
  <1>1. ASSUME NEW r \in Requests, Current(r), MarkFailed(req[r].att),
               req[r].pc # "idle", UNCHANGED event
        PROVE  \E a \in Attachments : Fails(a) /\ UNCHANGED event
    BY <1>1 DEF IInv, ReqInv, LiveRequests, Current, Fails
  <1>2. ASSUME NEW r \in Requests, RequestStep(r),
               \A a \in Attachments : ~Acquire(r, a)
        PROVE  \/ Quiet
               \/ Binds(r) /\ UNCHANGED event
               \/ \E a \in Attachments : Fails(a) /\ UNCHANGED event
    <2>1. CASE \E a \in Attachments : AcquireNoWrite(r, a)
      BY <2>1 DEF AcquireNoWrite, Quiet, rows
    <2>2. CASE StreamStored(r) \/ Die(r) \/ CompleteSuperseded(r)
      BY <2>2 DEF StreamStored, Die, CompleteSuperseded, Quiet, rows
    <2>3. CASE \E reason \in FailureReason : StreamFails(r, reason)
      BY <2>3 DEF StreamFails, Quiet, rows
    <2>4. CASE FailAttachment(r)
      BY <1>1, <2>4 DEF FailAttachment, Quiet, rows
    <2>5. CASE BookkeepingUnconfirmed(r)
      BY <1>1, <2>5 DEF BookkeepingUnconfirmed, Quiet, rows
    <2>6. CASE CompleteOnce(r) \/ CompleteRetry(r)
      BY <2>6 DEF CompleteOnce, CompleteRetry, Binds, Quiet, rows
    <2>7. QED
      BY <1>2, <2>1, <2>2, <2>3, <2>4, <2>5, <2>6 DEF RequestStep
  <1>3. ASSUME NEW a \in Attachments, Age(a) \/ ResetAttachment(a)
        PROVE  Quiet \/ (Fails(a) /\ UNCHANGED event)
    BY <1>3 DEF Age, ResetAttachment, Quiet, Fails
  <1>4. ASSUME NEW j \in Jobs, AssignJob(j) \/ RelinkJob(j)
        PROVE  j # event.job /\ SyncJob(j)
    BY <1>4, UploadAssumption DEF AssignJob, RelinkJob
  <1>5. CASE UNCHANGED vars
    BY <1>5 DEF vars, Quiet
  <1>6. QED
    BY <1>2, <1>3, <1>4, <1>5 DEF Next

\* Txn B writes one pending row: failed, or stored with its own final key.
LEMMA BindsMoves ==
    ASSUME IInv, NEW r \in Requests, Binds(r)
    PROVE  \E a \in Attachments :
              \/ Fails(a)
              \/ /\ att[a].state = "pending"
                 /\ a = Inline => req[r].content = BodyText
                 /\ req[r].content \in Contents
                 /\ MoveRow(a, "stored", [status |-> "stored",
                                job |-> event.job, key |-> KeyOf(r)])
  <1>1. req[r].att \in Attachments /\ req[r].content \in Contents
    BY RequestBytesOfRow DEF Binds, IInv, ReqInv, LiveRequests
  <1>2. QED
    BY <1>1 DEF Binds, Current, BindReceipt, ReceiptAccepted, Fails

(***************************************************************************)
(* Rows move forward.                                                      *)
(***************************************************************************)

Forward ==
    \A a \in Attachments : att'[a] # att[a] =>
         /\ <<att[a].state, att'[a].state>> \in
               {<<"awaiting_upload", "pending">>, <<"failed", "pending">>,
                <<"pending", "stored">>, <<"pending", "failed">>}
         /\ att[a].evidence # None => att'[a].evidence = att[a].evidence
         /\ att'[a].attempt =
               att[a].attempt + (IF att'[a].state = "pending" THEN 1 ELSE 0)

\* A move to stored or failed is a forward move of one row.
LEMMA MoveForward ==
    ASSUME IInv, NEW a \in Attachments, att[a].state = "pending",
           NEW to \in {"stored", "failed"}, NEW row, MoveRow(a, to, row)
    PROVE  Forward
  <1>1. /\ att' = [att EXCEPT ![a].state = to]
        /\ att \in [Attachments -> ManifestRow]
    BY DEF MoveRow, IInv, RowInv, RowsTyped
  <1>2. \A b \in Attachments \ {a} : att'[b] = att[b]
    BY <1>1
  <1>3. /\ att'[a].state = to /\ att'[a].evidence = att[a].evidence
        /\ att'[a].attempt = att[a].attempt /\ att[a].attempt \in Nat
    BY <1>1 DEF ManifestRow
  <1>4. QED
    BY <1>2, <1>3 DEF Forward

\* Txn A is a forward move of one row.
LEMMA AcquireForward ==
    ASSUME IInv, NEW r \in Requests, NEW a \in Attachments, Acquire(r, a)
    PROVE  Forward
  <1>1. \E e : /\ att[a].evidence \in {None, e}
               /\ att' = [att EXCEPT ![a] = [state |-> "pending",
                            attempt |-> att[a].attempt + 1, evidence |-> e]]
    BY SMTT(30) DEF Acquire, TakeFirst, TakeAgain, Take
  <1>2. att \in [Attachments -> ManifestRow]
    BY DEF IInv, RowInv, RowsTyped
  <1>3. \A b \in Attachments \ {a} : att'[b] = att[b]
    BY <1>1, <1>2
  <1>4. /\ att'[a].state = "pending"
        /\ att'[a].attempt = att[a].attempt + 1
        /\ att[a].evidence # None => att'[a].evidence = att[a].evidence
    BY <1>1, <1>2
  <1>5. att[a].state \in {"awaiting_upload", "failed"}
    BY DEF Acquire
  <1>6. QED
    BY <1>3, <1>4, <1>5 DEF Forward

\* No step moves a row backwards.
LEMMA StepForward ==
    ASSUME IInv, [Next]_vars
    PROVE  Forward
  <1>1. CASE UNCHANGED att
    BY <1>1 DEF Forward
  <1>2. ASSUME NEW a \in Attachments, Fails(a)
        PROVE  Forward
    BY <1>2, MoveForward DEF Fails, MarkFailed
  <1>3. ASSUME NEW r \in Requests, Binds(r)
        PROVE  Forward
    BY <1>2, <1>3, BindsMoves, MoveForward
  <1>4. ASSUME NEW r \in Requests, NEW a \in Attachments, Acquire(r, a)
        PROVE  Forward
    BY <1>4, AcquireForward
  <1>5. CASE FinalizeCapture \/ \E j \in Jobs : SyncJob(j)
    BY <1>1, <1>5 DEF FinalizeCapture, SyncJob, rows
  <1>6. QED
    BY <1>1, <1>2, <1>3, <1>4, <1>5, StepKinds DEF Quiet

\* A manifest row moves only along the declared transitions, never loses its
\* Evidence row, and counts exactly its acquisitions.
THEOREM MovesForward == Spec => RowsMoveForward
  <1>1. IInv /\ [Next]_vars => [Forward]_vars
    BY StepForward
  <1>2. QED
    BY <1>1, Invariance, PTL DEF Spec, RowsMoveForward, Forward

(***************************************************************************)
(* A superseded request is inert.                                          *)
(***************************************************************************)

Inert ==
    \A r \in Requests :
       (req[r].pc # "idle" /\ Superseded(r) /\ req'[r] # req[r])
          => UNCHANGED <<att, evidence, audit>>

\* A step of one request changes only that request.
LEMMA RequestsAreSeparate ==
    ASSUME IInv, [Next]_vars, NEW r \in Requests, req'[r] # req[r]
    PROVE  RequestStep(r)
  <1>1. ASSUME NEW s \in Requests, s # r, RequestStep(s)
        PROVE  req'[r] = req[r]
    <2>1. \E x : req' = [req EXCEPT ![s] = x]
      <3>1. CASE \E a \in Attachments : Acquire(s, a) \/ AcquireNoWrite(s, a)
        BY <3>1 DEF Acquire, TakeFirst, TakeAgain, Take, AcquireNoWrite
      <3>2. CASE \E reason \in FailureReason : StreamFails(s, reason)
        BY <3>2 DEF StreamFails
      <3>3. CASE StreamStored(s) \/ FailAttachment(s)
        BY <3>3 DEF StreamStored, FailAttachment, Reach
      <3>4. CASE \/ BookkeepingUnconfirmed(s) \/ CompleteOnce(s)
                 \/ CompleteSuperseded(s) \/ CompleteRetry(s) \/ Die(s)
        BY <3>4 DEF BookkeepingUnconfirmed, CompleteOnce, CompleteSuperseded,
             CompleteRetry, Die, Answer
      <3>5. QED
        BY <1>1, <3>1, <3>2, <3>3, <3>4 DEF RequestStep
    <2>2. QED
      BY <1>1, <2>1 DEF IInv, ReqInv
  <1>2. CASE \E a \in Attachments : Age(a) \/ ResetAttachment(a)
    BY <1>2 DEF Age, ResetAttachment
  <1>3. CASE FinalizeCapture \/ \E j \in Jobs : AssignJob(j) \/ RelinkJob(j)
    BY <1>3 DEF FinalizeCapture, AssignJob, RelinkJob, SyncJob
  <1>4. CASE UNCHANGED vars
    BY <1>4 DEF vars
  <1>5. QED
    BY <1>1, <1>2, <1>3, <1>4 DEF Next

\* A late completion, failure or bookkeeping of an attempt the row has left
\* writes nothing: no row, no Evidence, no audit.
THEOREM LateRequestsAreInert == Spec => SupersededIsInert
  <1>1. IInv /\ [Next]_vars => [Inert]_vars
    <2> SUFFICES ASSUME IInv, [Next]_vars, NEW r \in Requests,
                        req[r].pc # "idle", Superseded(r), req'[r] # req[r]
                 PROVE  UNCHANGED <<att, evidence, audit>>
      BY DEF Inert
    <2>1. RequestStep(r) /\ ~Current(r)
      BY RequestsAreSeparate DEF Superseded, Current
    <2>2. CASE \E a \in Attachments : Acquire(r, a) \/ AcquireNoWrite(r, a)
      BY <2>2 DEF Acquire, AcquireNoWrite
    <2>3. CASE \E reason \in FailureReason : StreamFails(r, reason)
      BY <2>3 DEF StreamFails, rows
    <2>4. CASE StreamStored(r) \/ FailAttachment(r) \/ BookkeepingUnconfirmed(r)
      BY <2>1, <2>4 DEF StreamStored, FailAttachment, BookkeepingUnconfirmed, rows
    <2>5. CASE \/ CompleteOnce(r) \/ CompleteSuperseded(r)
               \/ CompleteRetry(r) \/ Die(r)
      BY <2>1, <2>5 DEF CompleteOnce, CompleteSuperseded, CompleteRetry, Die, rows
    <2>6. QED
      BY <2>1, <2>2, <2>3, <2>4, <2>5 DEF RequestStep
  <1>2. QED
    BY <1>1, Invariance, PTL DEF Spec, SupersededIsInert, Inert

(***************************************************************************)
(* The protocol implements the register.                                   *)
(***************************************************************************)

\* What attachment a permanently holds: the value of the refinement mapping.
Held(a) == IF att[a].state = "stored"
           THEN evidence[att[a].evidence].key.content ELSE None
Value == [a \in Attachments |-> Held(a)]

\* A row holds a payload exactly when it is stored.
LEMMA HeldIsStored ==
    ASSUME IInv
    PROVE  \A a \in Attachments :
              /\ Held(a) # None <=> att[a].state = "stored"
              /\ Held(a) \in Contents \cup {None}
  <1> SUFFICES ASSUME NEW a \in Attachments, att[a].state = "stored"
               PROVE  evidence[att[a].evidence].key.content \in Contents
    BY UploadAssumption DEF Held
  <1>1. att[a].evidence # None
    BY BoundRow DEF IInv, RowInv
  <1>2. evidence[att[a].evidence].key \in ObjectKey
    BY <1>1 DEF IInv, RowInv, RowsTyped, StoredObjectExists
  <1>3. QED
    BY <1>2 DEF ObjectKey

\* Storing a receipt stores the payload of that request in the register.
LEMMA StoreMaps ==
    ASSUME IInv, NEW a \in Attachments, NEW r \in Requests,
           att[a].state = "pending", a = Inline => req[r].content = BodyText,
           req[r].content \in Contents, UNCHANGED event,
           MoveRow(a, "stored",
                   [status |-> "stored", job |-> event.job, key |-> KeyOf(r)])
    PROVE  Capture!Store(a, req[r].content)
  <1>1. /\ att[a].evidence \in EvidenceIds
        /\ \A b \in Attachments \ {a} :
              att[b].evidence # None => att[b].evidence # att[a].evidence
    BY BoundRow DEF IInv, RowInv, ManifestMirrorsEvidence
  <1>2. /\ \A b \in Attachments \ {a} : att'[b] = att[b]
        /\ att'[a].state = "stored" /\ att'[a].evidence = att[a].evidence
        /\ evidence'[att[a].evidence] =
              [status |-> "stored", job |-> event.job, key |-> KeyOf(r)]
        /\ \A x \in EvidenceIds \ {att[a].evidence} : evidence'[x] = evidence[x]
    BY <1>1 DEF MoveRow, IInv, RowInv, RowsTyped, ManifestRow
  <1>3. Held(a) = None /\ Held(a)' = req[r].content
    BY <1>2 DEF Held, KeyOf
  <1>4. ASSUME NEW b \in Attachments \ {a}
        PROVE  Held(b)' = Held(b)
    <2>1. CASE att[b].state = "stored"
      <3>1. /\ att[b].evidence \in EvidenceIds
            /\ att[b].evidence # att[a].evidence
        BY <1>1, <2>1, BoundRow DEF IInv, RowInv
      <3>2. QED
        BY <1>2, <3>1 DEF Held
    <2>2. CASE att[b].state # "stored"
      BY <1>2, <2>2 DEF Held
    <2>3. QED
      BY <2>1, <2>2
  <1>5. Value' = [Value EXCEPT ![a] = req[r].content]
    BY <1>3, <1>4 DEF Value
  <1>6. QED
    BY <1>3, <1>5 DEF Capture!Store, Value, Held

\* A write that stores nothing leaves the register alone.
LEMMA OtherRowsMap ==
    ASSUME IInv, IInv', UNCHANGED event,
           \A a \in Attachments :
              /\ att'[a].state = "stored" <=> att[a].state = "stored"
              /\ att[a].state = "stored" =>
                    /\ att'[a].evidence = att[a].evidence
                    /\ evidence'[att[a].evidence] = evidence[att[a].evidence]
    PROVE  UNCHANGED Capture!vars
  <1>1. \A a \in Attachments : Held(a)' = Held(a)
    BY DEF Held
  <1>2. Value' = Value
    BY <1>1 DEF Value
  <1>3. QED
    BY <1>2 DEF Capture!vars, Value, Held

\* Failing a row leaves the register alone.
LEMMA FailMaps ==
    ASSUME IInv, IInv', NEW a \in Attachments, Fails(a), UNCHANGED event
    PROVE  UNCHANGED Capture!vars
  <1>1. /\ att[a].state = "pending"
        /\ att' = [att EXCEPT ![a].state = "failed"]
        /\ \E row : evidence' = [evidence EXCEPT ![att[a].evidence] = row]
    BY DEF Fails, MarkFailed, MoveRow
  <1>2. /\ att'[a].state = "failed"
        /\ \A b \in Attachments \ {a} : att'[b] = att[b]
    BY <1>1 DEF IInv, RowInv, RowsTyped, ManifestRow
  <1>3. ASSUME NEW b \in Attachments, att[b].state = "stored"
        PROVE  evidence'[att[b].evidence] = evidence[att[b].evidence]
    <2>1. /\ att[b].evidence \in EvidenceIds
          /\ att[b].evidence # att[a].evidence
      BY <1>1, <1>3, BoundRow DEF IInv, RowInv, ManifestMirrorsEvidence
    <2>2. QED
      BY <1>1, <2>1 DEF IInv, RowInv, RowsTyped
  <1>4. QED
    BY <1>1, <1>2, <1>3, OtherRowsMap

\* Acquiring a row leaves the register alone.
LEMMA AcquireMaps ==
    ASSUME IInv, IInv', NEW r \in Requests, NEW a \in Attachments, Acquire(r, a)
    PROVE  UNCHANGED Capture!vars
  <1>1. \E e \in EvidenceIds : \E ev :
           /\ att[a].evidence \in {None, e}
           /\ att[a].evidence = None => evidence[e] = None
           /\ att' = [att EXCEPT ![a] = [state |-> "pending",
                        attempt |-> att[a].attempt + 1, evidence |-> e]]
           /\ evidence' = [evidence EXCEPT ![e] = ev]
           /\ UNCHANGED event
    <2>1. CASE att[a].evidence = None
      BY <2>1 DEF Acquire, TakeFirst, Take
    <2>2. CASE att[a].evidence # None
      <3>1. att[a].evidence \in EvidenceIds
        BY <2>2 DEF IInv, RowInv, RowsTyped, ManifestRow
      <3>2. QED
        BY <2>2, <3>1 DEF Acquire, TakeAgain, Take
    <2>3. QED
      BY <2>1, <2>2
  <1>2. att[a].state # "stored"
    BY DEF Acquire
  <1>3. PICK e \in EvidenceIds : \E ev :
           /\ att[a].evidence \in {None, e}
           /\ att[a].evidence = None => evidence[e] = None
           /\ att' = [att EXCEPT ![a] = [state |-> "pending",
                        attempt |-> att[a].attempt + 1, evidence |-> e]]
           /\ evidence' = [evidence EXCEPT ![e] = ev]
           /\ UNCHANGED event
    BY <1>1
  <1>4. /\ \A b \in Attachments \ {a} : att'[b] = att[b]
        /\ att'[a].state = "pending"
    BY <1>3 DEF IInv, RowInv, RowsTyped
  <1>5. ASSUME NEW b \in Attachments, att[b].state = "stored"
        PROVE  evidence'[att[b].evidence] = evidence[att[b].evidence]
    <2>1. /\ att[b].evidence \in EvidenceIds /\ evidence[att[b].evidence] # None
          /\ att[b].evidence # att[a].evidence
      BY <1>2, <1>5, BoundRow DEF IInv, RowInv, ManifestMirrorsEvidence
    <2>2. att[b].evidence # e
      BY <1>3, <2>1
    <2>3. QED
      BY <1>3, <2>1, <2>2 DEF IInv, RowInv, RowsTyped
  <1>6. QED
    BY <1>2, <1>3, <1>4, <1>5, OtherRowsMap

\* Assigning or relinking the job attributes the register and keeps its values.
LEMMA SyncMaps ==
    ASSUME IInv, NEW j \in Jobs, j # event.job, SyncJob(j)
    PROVE  Capture!Attribute(j)
  <1>1. /\ event'.job = j /\ event'.status = event.status /\ att' = att
    BY DEF SyncJob, IInv, RowInv, RowsTyped, EventRow
  <1>2. ASSUME NEW a \in Attachments
        PROVE  Held(a)' = Held(a)
    <2>1. CASE att[a].state = "stored"
      <3>1. /\ att[a].evidence \in EvidenceIds
            /\ evidence[att[a].evidence] \in EvidenceRow
            /\ Bound(att[a].evidence)
        BY <2>1, BoundRow DEF IInv, RowInv, Bound
      <3>2. evidence'[att[a].evidence].key = evidence[att[a].evidence].key
        BY <3>1 DEF SyncJob, EvidenceRow
      <3>3. QED
        BY <1>1, <3>2 DEF Held
    <2>2. CASE att[a].state # "stored"
      BY <1>1, <2>2 DEF Held
    <2>3. QED
      BY <2>1, <2>2
  <1>3. Value' = Value
    BY <1>2 DEF Value
  <1>4. QED
    BY <1>1, <1>3 DEF Capture!Attribute, Value, Held

\* Finalizing completes a full register or records that it falls short.
LEMMA FinalizeMaps ==
    ASSUME IInv, FinalizeCapture
    PROVE  Capture!Complete \/ Capture!FallShort
  <1>1. /\ event'.status = FinalizeTarget /\ event.status # FinalizeTarget
        /\ event'.job = event.job
        /\ UNCHANGED <<att, evidence>>
    BY DEF FinalizeCapture, rows, IInv, RowInv, RowsTyped, EventRow
  <1>2. Value' = Value
    BY <1>1 DEF Value, Held
  <1>3. Capture!Full <=> \A a \in Attachments : att[a].state = "stored"
    BY HeldIsStored DEF Capture!Full, Held
  <1>4. event.status # "complete" \/ Capture!Full
    BY <1>3 DEF IInv, RowInv, CompleteMeansStored
  <1>5. event.status \in {"pending_upload", "complete", "partial_failed"}
    BY DEF IInv, RowInv, RowsTyped, EventRow
  <1>6. QED
    BY <1>1, <1>2, <1>3, <1>4, <1>5
       DEF FinalizeTarget, Capture!Complete, Capture!FallShort, Value, Held

\* The two-phase upload, with its crashes, retries, resets and concurrent
\* requests, is a write-once register: an attachment's payload never changes
\* once stored, and complete is reached only over a full register and kept.
THEOREM Implements == Spec => ImplementsCapture
  <1>1. Init => Capture!Init
    BY DEF Init, Capture!Init
  <1>2. IInv /\ IInv' /\ [Next]_vars => [Capture!Next]_(Capture!vars)
    <2> SUFFICES ASSUME IInv, IInv', [Next]_vars
                 PROVE  Capture!Next \/ UNCHANGED Capture!vars
      OBVIOUS
    <2>1. CASE Quiet
      BY <2>1, OtherRowsMap DEF Quiet
    <2>2. ASSUME NEW r \in Requests, NEW a \in Attachments, Acquire(r, a)
          PROVE  UNCHANGED Capture!vars
      BY <2>2, AcquireMaps
    <2>3. ASSUME NEW r \in Requests, Binds(r), UNCHANGED event
          PROVE  Capture!Next \/ UNCHANGED Capture!vars
      <3>1. PICK a \in Attachments :
               \/ Fails(a)
               \/ /\ att[a].state = "pending"
                  /\ a = Inline => req[r].content = BodyText
                  /\ req[r].content \in Contents
                  /\ MoveRow(a, "stored", [status |-> "stored",
                                 job |-> event.job, key |-> KeyOf(r)])
        BY <2>3, BindsMoves
      <3>2. CASE Fails(a)
        BY <2>3, <3>2, FailMaps
      <3>3. CASE ~Fails(a)
        <4>1. Capture!Store(a, req[r].content)
          BY <2>3, <3>1, <3>3, StoreMaps
        <4>2. req[r].content \in Contents
          BY <3>1, <3>3
        <4>3. QED
          BY <4>1, <4>2 DEF Capture!Next, Capture!Store
      <3>4. QED
        BY <3>2, <3>3
    <2>4. CASE FinalizeCapture
      BY <2>4, FinalizeMaps DEF Capture!Next
    <2>5. ASSUME NEW j \in Jobs, j # event.job, SyncJob(j)
          PROVE  Capture!Next
      BY <2>5, SyncMaps DEF Capture!Next
    <2>6. QED
      BY <2>1, <2>2, <2>3, <2>4, <2>5, FailMaps, StepKinds
  <1>3. QED
    BY <1>1, <1>2, Invariance, PTL DEF Spec, ImplementsCapture, Capture!Spec

(***************************************************************************)
(* What a client was told.                                                 *)
(***************************************************************************)

\* The promise of a reply, and what a failing request is about to answer.
Promise(r) ==
    /\ req[r].pc = "failing" => req[r].reply \in FailureReason
    /\ req[r].pc = "idle" =>
          /\ req[r].reply = "stored" =>
                /\ req[r].att \in Attachments
                /\ att[req[r].att].state = "stored"
                /\ att[req[r].att].attempt = req[r].attempt
                /\ Held(req[r].att) = req[r].content
          /\ req[r].reply = "replay" =>
                req[r].att \in Attachments /\ att[req[r].att].state = "stored"
          /\ req[r].reply \in {"size_cap", "storage_error"} =>
                /\ req[r].att \in Attachments
                /\ Superseded(r)
                /\ req[r].attempt <= att[req[r].att].attempt

Promises == \A r \in Requests : Promise(r)

\* A stored row keeps what it holds.
LEMMA StoredKeepsHeld ==
    ASSUME IInv, IInv', [Next]_vars, NEW a \in Attachments, att[a].state = "stored"
    PROVE  Held(a)' = Held(a)
  <1>1. ASSUME UNCHANGED Capture!vars PROVE Held(a)' = Held(a)
    <2>1. Value' = Value
      BY <1>1 DEF Capture!vars, Value, Held
    <2>2. Value'[a] = Held(a)' /\ Value[a] = Held(a)
      BY DEF Value
    <2>3. QED
      BY <2>1, <2>2
  <1>2. CASE Quiet
    BY <1>2 DEF Quiet, Held
  <1>3. ASSUME NEW r \in Requests, NEW b \in Attachments, Acquire(r, b)
        PROVE  Held(a)' = Held(a)
    BY <1>1, <1>3, AcquireMaps
  <1>4. ASSUME NEW b \in Attachments, Fails(b), UNCHANGED event
        PROVE  Held(a)' = Held(a)
    BY <1>1, <1>4, FailMaps
  <1>5. ASSUME NEW r \in Requests, Binds(r), UNCHANGED event
        PROVE  Held(a)' = Held(a)
    <2>1. PICK b \in Attachments :
              \/ Fails(b)
              \/ /\ att[b].state = "pending"
                 /\ b = Inline => req[r].content = BodyText
                 /\ req[r].content \in Contents
                 /\ MoveRow(b, "stored", [status |-> "stored",
                                job |-> event.job, key |-> KeyOf(r)])
      BY <1>5, BindsMoves
    <2>2. CASE Fails(b)
      BY <1>4, <1>5, <2>2
    <2>3. CASE ~Fails(b)
      <3>1. Capture!Store(b, req[r].content)
        BY <1>5, <2>1, <2>3, StoreMaps
      <3>2. Value' = [Value EXCEPT ![b] = req[r].content] /\ b # a
        BY <2>1, <2>3, <3>1 DEF Capture!Store, Value, Held
      <3>3. Value'[a] = Held(a)' /\ Value[a] = Held(a) /\ Value'[a] = Value[a]
        BY <3>2 DEF Value
      <3>4. QED
        BY <3>3
    <2>4. QED
      BY <2>2, <2>3
  <1>6. CASE FinalizeCapture
    BY <1>6 DEF FinalizeCapture, rows, Held
  <1>7. ASSUME NEW j \in Jobs, SyncJob(j)
        PROVE  Held(a)' = Held(a)
    <2> DEFINE e == att[a].evidence
    <2>1. e \in EvidenceIds /\ evidence[e] \in EvidenceRow /\ att' = att
      BY <1>7, BoundRow DEF IInv, RowInv, SyncJob
    <2>2. Bound(e)
      BY DEF Bound
    <2>3. evidence'[e] = [evidence[e] EXCEPT !.job = j]
      BY <1>7, <2>1, <2>2 DEF SyncJob
    <2>4. evidence'[e].key = evidence[e].key
      BY <2>1, <2>3 DEF EvidenceRow
    <2>5. QED
      BY <2>1, <2>4 DEF Held
  <1>8. QED
    BY <1>2, <1>3, <1>4, <1>5, <1>6, <1>7, StepKinds

\* Rows that move forward keep every promise already given.
LEMMA PromiseStands ==
    ASSUME IInv, IInv', [Next]_vars, NEW r \in Requests, Promise(r),
           req'[r] = req[r]
    PROVE  Promise(r)'
  <1> DEFINE a == req[r].att
  <1>1. ASSUME a \in Attachments
        PROVE  /\ att[a] \in ManifestRow /\ att'[a] \in ManifestRow
               /\ att[a].state = "stored" =>
                    /\ att'[a].state = "stored" /\ att'[a].attempt = att[a].attempt
                    /\ Held(a)' = Held(a)
               /\ Superseded(r) /\ req[r].attempt <= att[a].attempt =>
                    Superseded(r)' /\ req[r].attempt <= att'[a].attempt
    <2>1. Forward
      BY StepForward
    <2>2. /\ att[a] \in ManifestRow /\ att'[a] \in ManifestRow
          /\ att[a].attempt \in Nat /\ att'[a].attempt \in Nat
          /\ req[r].attempt \in Nat
      BY <1>1 DEF IInv, RowInv, RowsTyped, ReqInv, RequestState, ManifestRow
    <2>3. CASE att'[a] = att[a]
      BY <1>1, <2>2, <2>3, StoredKeepsHeld DEF Superseded
    <2>4. CASE att'[a] # att[a]
      BY <1>1, <2>1, <2>2, <2>4 DEF Forward, Superseded
    <2>5. QED
      BY <2>3, <2>4
  <1>2. QED
    BY <1>1 DEF Promise

\* What a request answers is true when it answers it.
LEMMA PromiseGiven ==
    ASSUME IInv, IInv', NEW r \in Requests, RequestStep(r), Promise(r)
    PROVE  Promise(r)'
  <1>0. /\ req \in [Requests -> RequestState] /\ req[r] \in RequestState
        /\ att \in [Attachments -> ManifestRow]
    BY DEF IInv, ReqInv, RowInv, RowsTyped
  <1>1. ASSUME NEW reply \in Reply, Answer(r, reply)
        PROVE  /\ req'[r].pc = "idle" /\ req'[r].reply = reply
               /\ req'[r].att = req[r].att /\ req'[r].attempt = req[r].attempt
               /\ req'[r].content = req[r].content
    BY <1>0, <1>1 DEF Answer, RequestState
  <1>2. CASE \E a \in Attachments : Acquire(r, a)
    <2>1. PICK a \in Attachments : \E n, e, ev : Take(r, a, n, e, ev)
      BY <1>2 DEF Acquire, TakeFirst, TakeAgain
    <2>2. req'[r].pc = "streaming"
      BY <1>0, <2>1 DEF Take
    <2>3. QED
      BY <2>2 DEF Promise
  <1>3. CASE \E a \in Attachments : AcquireNoWrite(r, a)
    <2>1. PICK a \in Attachments : AcquireNoWrite(r, a)
      BY <1>3
    <2>2. /\ req'[r] = Replied(a, IF att[a].state = "stored" THEN "replay" ELSE "refused")
          /\ att' = att
      BY <1>0, <2>1 DEF AcquireNoWrite, rows
    <2>3. QED
      BY <2>2 DEF Promise, Replied
  <1>4. CASE StreamStored(r)
    <2>1. req'[r].pc = "completing"
      BY <1>0, <1>4 DEF StreamStored, Reach, RequestState
    <2>2. QED
      BY <2>1 DEF Promise
  <1>5. CASE \E reason \in FailureReason : StreamFails(r, reason)
    <2>1. PICK reason \in FailureReason :
             req' = [req EXCEPT ![r].pc = "failing", ![r].reply = reason]
      BY <1>5 DEF StreamFails
    <2>2. req'[r].pc = "failing" /\ req'[r].reply = reason
      BY <1>0, <2>1 DEF RequestState
    <2>3. QED
      BY <2>2 DEF Promise
  <1>6. CASE FailAttachment(r)
    <2> DEFINE a == req[r].att
    <2>1. /\ a \in Attachments /\ req[r].reply \in FailureReason
          /\ req[r].attempt <= att[a].attempt
      BY <1>6 DEF FailAttachment, Promise, IInv, ReqInv, LiveRequests, AttemptsAreFenced
    <2>2. /\ req'[r].pc = "idle" /\ req'[r].reply = req[r].reply
          /\ req'[r].att = a /\ req'[r].attempt = req[r].attempt
      BY <1>0, <1>6 DEF FailAttachment, Reach, RequestState
    <2>3. /\ att'[a].attempt = att[a].attempt
          /\ att'[a].state # "pending" \/ att'[a].attempt # req[r].attempt
      <3>1. CASE Current(r)
        BY <1>0, <1>6, <2>1, <3>1 DEF FailAttachment, MarkFailed, MoveRow, ManifestRow
      <3>2. CASE ~Current(r)
        BY <1>6, <3>2 DEF FailAttachment, Current, rows
      <3>3. QED
        BY <3>1, <3>2
    <2>4. Superseded(r)'
      BY <2>2, <2>3 DEF Superseded
    <2>5. QED
      BY <2>1, <2>2, <2>3, <2>4 DEF Promise, FailureReason
  <1>7. CASE BookkeepingUnconfirmed(r) \/ Die(r)
    <2>1. req'[r].pc = "idle" /\ req'[r].reply = "error"
      BY <1>1, <1>7 DEF BookkeepingUnconfirmed, Die, Reply
    <2>2. QED
      BY <2>1 DEF Promise
  <1>8. CASE CompleteSuperseded(r)
    <2>1. req'[r].pc = "idle" /\ req'[r].reply = "superseded"
      BY <1>1, <1>8 DEF CompleteSuperseded, Reply
    <2>2. QED
      BY <2>1 DEF Promise
  <1>9. CASE CompleteRetry(r)
    <2>1. CASE req[r].tries + 1 < TxnBAttempts
      <3>1. req'[r].pc = "completing"
        BY <1>0, <1>9, <2>1 DEF CompleteRetry, RequestState
      <3>2. QED
        BY <3>1 DEF Promise
    <2>2. CASE ~(req[r].tries + 1 < TxnBAttempts)
      <3>1. req'[r].pc = "idle" /\ req'[r].reply = "error"
        BY <1>1, <1>9, <2>2 DEF CompleteRetry, Reply
      <3>2. QED
        BY <3>1 DEF Promise
    <2>3. QED
      BY <2>1, <2>2
  <1>10. CASE CompleteOnce(r)
    <2>0. PICK a \in Attachments : a = req[r].att
      BY <1>10 DEF CompleteOnce, IInv, ReqInv, LiveRequests
    <2>1. /\ Current(r) /\ BindReceipt(r) /\ att[a].state = "pending"
          /\ att[a].evidence \in EvidenceIds /\ att[a].evidence # None
      BY <1>10, <2>0, BoundRow DEF CompleteOnce, Current, IInv, RowInv
    <2>2. CASE ReceiptAccepted(a, req[r].content)
      <3>1. /\ req'[r].pc = "idle" /\ req'[r].reply = "stored"
            /\ req'[r].att = a /\ req'[r].attempt = req[r].attempt
            /\ req'[r].content = req[r].content
        BY <1>1, <1>10, <2>0, <2>2 DEF CompleteOnce, Reply
      <3>2. MoveRow(a, "stored", [status |-> "stored", job |-> event.job, key |-> KeyOf(r)])
        BY <2>0, <2>1, <2>2 DEF BindReceipt
      <3>3. /\ att'[a].state = "stored" /\ att'[a].attempt = att[a].attempt
            /\ att'[a].evidence = att[a].evidence
            /\ evidence'[att[a].evidence] =
                  [status |-> "stored", job |-> event.job, key |-> KeyOf(r)]
        BY <1>0, <2>1, <3>2 DEF MoveRow, IInv, RowInv, RowsTyped, ManifestRow
      <3>4. Held(a)' = req[r].content
        BY <2>0, <3>3 DEF Held, KeyOf
      <3>5. att[a].attempt = req[r].attempt
        BY <2>0, <2>1 DEF Current
      <3>6. QED
        BY <3>1, <3>3, <3>4, <3>5 DEF Promise, Held
    <2>3. CASE ~ReceiptAccepted(a, req[r].content)
      <3>1. req'[r].pc = "idle" /\ req'[r].reply = "content_mismatch"
        BY <1>1, <1>10, <2>0, <2>3 DEF CompleteOnce, Reply
      <3>2. QED
        BY <3>1 DEF Promise
    <2>4. QED
      BY <2>2, <2>3
  <1>11. QED
    BY <1>2, <1>3, <1>4, <1>5, <1>6, <1>7, <1>8, <1>9, <1>10 DEF RequestStep

\* A reply stays true: the row a client was told is stored stays stored, under
\* that request's attempt and with its bytes, and no failure status is given
\* over an attempt that may still succeed, whatever else runs, fails or is
\* reset.
THEOREM RepliesStayTrue == Spec => []RepliesHold
  <1>1. Init => Promises
    BY DEF Init, NoRequest, Replied, Promises, Promise
  <1>2. IInv /\ Promises /\ [Next]_vars => Promises'
    <2> SUFFICES ASSUME IInv, Promises, [Next]_vars, NEW r \in Requests
                 PROVE  Promise(r)'
      BY DEF Promises
    <2>1. IInv' /\ Promise(r)
      BY StepIInv DEF Promises
    <2>2. CASE req'[r] = req[r]
      BY <2>1, <2>2, PromiseStands
    <2>3. CASE req'[r] # req[r]
      BY <2>1, <2>3, RequestsAreSeparate, PromiseGiven
    <2>4. QED
      BY <2>2, <2>3
  <1>3. IInv /\ Promises => RepliesHold
    <2> SUFFICES ASSUME IInv, Promises, NEW r \in Requests, req[r].pc = "idle"
                 PROVE  /\ req[r].reply = "stored" =>
                             /\ att[req[r].att].state = "stored"
                             /\ att[req[r].att].attempt = req[r].attempt
                             /\ evidence[att[req[r].att].evidence].key.content
                                   = req[r].content
                        /\ req[r].reply = "replay" => att[req[r].att].state = "stored"
                        /\ req[r].reply \in {"size_cap", "storage_error"} => Superseded(r)
      BY DEF RepliesHold
    <2>1. Promise(r)
      BY DEF Promises
    <2>2. QED
      BY <2>1 DEF Promise, Held
  <1>4. QED
    BY <1>1, <1>2, <1>3, Invariance, PTL DEF Spec
=============================================================================
