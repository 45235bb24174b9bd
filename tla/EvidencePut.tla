----------------------------- MODULE EvidencePut -----------------------------
(***************************************************************************)
(* S3EvidenceStorage.put (backend/app/services/evidence_storage.py): the   *)
(* bytes go to a staging object by multipart upload, the destination is    *)
(* probed, the staging object is copied to its final key and removed.      *)
(* Puts of several attempts of one Evidence run side by side, because an   *)
(* attempt that stalls is reset and tried again while its put still runs.  *)
(*                                                                         *)
(* The bucket is external.  A request it was sent may be carried out at    *)
(* any later time or never, whether or not the put still waits for it;     *)
(* and a put may see an error whatever became of its request.              *)
(***************************************************************************)
EXTENDS Naturals

CONSTANTS
    Evidences, Attempts,    \* each (evidence_id, attempt_no) is put once
    Contents,               \* payloads; a hash stands for its payload
    Empty,                  \* the payload without bytes
    GraceTicks,             \* CLEANUP_GRACE_SECONDS
    Earlier,                \* final keys in use from before a restore
    None

ASSUME PutAssumption ==
    /\ Attempts \subseteq Nat
    /\ Empty \notin Contents /\ None \notin Contents
    /\ GraceTicks \in Nat
    /\ Earlier \subseteq Evidences \X Contents \X Attempts

VARIABLES
    put,        \* the calls of put
    sent,       \* requests the bucket has not dealt with
    uploads,    \* multipart uploads that are open
    staging,    \* staging objects
    object      \* final objects

vars == <<put, sent, uploads, staging, object>>
bucket == <<uploads, staging, object>>

Puts == Evidences \X Attempts
Keys == Evidences \X Contents \X Attempts

Op == {"create", "complete", "head", "copy", "abort", "delete"}
Failure == {"source", "storage", "exists", "cancelled"}

Put ==
    [pc : {"idle", "create", "stream", "complete", "head", "copy", "cleanup",
           "ended"},
     payload : Contents \cup {Empty, None},
     upload_id : {"none", "known"},
     completed : {"no", "yes"},
     primary : Failure \cup {"none"},    \* the exception being handled
     cancelled : {"no", "yes"},
     grace : 0 .. GraceTicks,            \* what is left until the deadline
     reply : {"none", "done", "absent", "present", "error"},
     lost : SUBSET Op,                   \* history: went on without an answer
     outcome : Failure \cup {"none", "stored", "died"}]

Object == [by : Puts \cup {None}, bytes : Contents]

TypeOK ==
    /\ put \in [Puts -> Put]
    /\ sent \subseteq [by : Puts, op : Op]
    /\ uploads \subseteq Puts
    /\ staging \in [Puts -> Contents \cup {None}]
    /\ object \in [Keys -> Object \cup {None}]

Fresh ==
    [pc |-> "idle", payload |-> None, upload_id |-> "none", completed |-> "no",
     primary |-> "none", cancelled |-> "no", grace |-> GraceTicks,
     reply |-> "none", lost |-> {}, outcome |-> "none"]

\* After a database restore an attempt number may be used a second time, its
\* first object still in the bucket.
Init ==
    /\ put = [p \in Puts |-> Fresh]
    /\ sent = {}
    /\ uploads = {}
    /\ staging = [p \in Puts |-> None]
    /\ object = [k \in Keys |->
                    IF k \in Earlier THEN [by |-> None, bytes |-> k[2]] ELSE None]

-----------------------------------------------------------------------------
(* Keys. *)

\* Deviation: one staging key for all attempts.
UnscopedStagingKey(p) == <<p[1], CHOOSE n \in Attempts : \A m \in Attempts : n <= m>>

\* s3_staging_key: evidence/{evidence_id}/.staging.a{N}
StagingKey(p) == p

\* make_object_key: evidence/{evidence_id}/{sha256}.a{N}
FinalKey(p) == <<p[1], put[p].payload, p[2]>>

-----------------------------------------------------------------------------
(* The bucket. *)

Awaited(p) ==
    CASE put[p].pc \in {"create", "complete", "head", "copy"} -> put[p].pc
      [] put[p].pc = "cleanup" ->
            IF put[p].completed = "yes" THEN "delete" ELSE "abort"
      [] OTHER -> "none"

\* The request leaves; its answer reaches the put if it still waits for it.
Reply(r, answer) ==
    /\ sent' = sent \ {r}
    /\ put' = IF Awaited(r.by) = r.op
              THEN [put EXCEPT ![r.by] = [@ EXCEPT !.reply = answer]]
              ELSE put

ServeCreate(r) ==
    /\ r.op = "create"
    /\ uploads' = uploads \cup {r.by}
    /\ Reply(r, "done")
    /\ UNCHANGED <<staging, object>>

ServeComplete(r) ==
    /\ r.op = "complete"
    /\ r.by \in uploads
    /\ uploads' = uploads \ {r.by}
    /\ staging' = [staging EXCEPT ![StagingKey(r.by)] = put[r.by].payload]
    /\ Reply(r, "done")
    /\ UNCHANGED object

ServeHead(r) ==
    /\ r.op = "head"
    /\ Reply(r, IF object[FinalKey(r.by)] = None THEN "absent" ELSE "present")
    /\ UNCHANGED bucket

ServeCopy(r) ==
    /\ r.op = "copy"
    /\ staging[StagingKey(r.by)] # None
    /\ object' = [object EXCEPT ![FinalKey(r.by)] =
                     [by |-> r.by, bytes |-> staging[StagingKey(r.by)]]]
    /\ Reply(r, "done")
    /\ UNCHANGED <<uploads, staging>>

ServeAbort(r) ==
    /\ r.op = "abort"
    /\ r.by \in uploads
    /\ uploads' = uploads \ {r.by}
    /\ Reply(r, "done")
    /\ UNCHANGED <<staging, object>>

ServeDelete(r) ==
    /\ r.op = "delete"
    /\ staging' = [staging EXCEPT ![StagingKey(r.by)] = None]
    /\ Reply(r, "done")
    /\ UNCHANGED <<uploads, object>>

\* Refused, or lost on the way; NoSuchUpload and NoSuchKey among others.
Refuse(r) == Reply(r, "error") /\ UNCHANGED bucket

Serve(r) ==
    \/ ServeCreate(r) \/ ServeComplete(r) \/ ServeHead(r) \/ ServeCopy(r)
    \/ ServeAbort(r) \/ ServeDelete(r) \/ Refuse(r)

-----------------------------------------------------------------------------
(* The put, from one await to the next. *)

Send(p, op) == sent' = sent \cup {[by |-> p, op |-> op]}

\* The call at pc came back; the next one is made.
Call(p, pc, answer, next) ==
    /\ put[p].pc = pc
    /\ put[p].reply = answer
    /\ put' = [put EXCEPT ![p] = [next EXCEPT !.reply = "none"]]
    /\ UNCHANGED bucket

ConnectFails(p) ==
    /\ put[p].pc = "idle"
    /\ put' = [put EXCEPT ![p] = [@ EXCEPT !.pc = "ended", !.outcome = "storage"]]
    /\ UNCHANGED <<sent, bucket>>

Start(p) ==
    /\ \E c \in Contents \cup {Empty} :
          Call(p, "idle", "none", [put[p] EXCEPT !.pc = "create", !.payload = c])
    /\ Send(p, "create")

Created(p) ==
    /\ Call(p, "create", "done",
            [put[p] EXCEPT !.pc = "stream", !.upload_id = "known"])
    /\ UNCHANGED sent

\* The source ends and every part was taken.
Streamed(p) ==
    /\ put[p].payload # Empty
    /\ Call(p, "stream", "none", [put[p] EXCEPT !.pc = "complete"])
    /\ Send(p, "complete")

\* Deviation: the cleanup boundary is not moved.
CompletedUnmarked(p) ==
    /\ Call(p, "complete", "done", [put[p] EXCEPT !.pc = "head"])
    /\ Send(p, "head")

Completed(p) ==
    /\ Call(p, "complete", "done",
            [put[p] EXCEPT !.pc = "head", !.completed = "yes"])
    /\ Send(p, "head")

HeadAbsent(p) ==
    /\ Call(p, "head", "absent", [put[p] EXCEPT !.pc = "copy"])
    /\ Send(p, "copy")

\* _delete_staging_after_success
Copied(p) ==
    /\ Call(p, "copy", "done", [put[p] EXCEPT !.pc = "cleanup"])
    /\ Send(p, "delete")

-----------------------------------------------------------------------------
(* Unwinding: _cleanup_staging under _supervise_cleanup. *)

\* Without an upload id there is nothing to clean and nothing is sent.
Unwind(p, failure, cancelled, lost) ==
    LET next == [put[p] EXCEPT
                    !.primary = failure, !.cancelled = cancelled,
                    !.reply = "none", !.lost = put[p].lost \cup lost]
    IN  /\ UNCHANGED bucket
        /\ IF put[p].upload_id = "known"
           THEN /\ put' = [put EXCEPT ![p] = [next EXCEPT !.pc = "cleanup"]]
                /\ Send(p, IF put[p].completed = "yes" THEN "delete" ELSE "abort")
           ELSE /\ put' = [put EXCEPT ![p] =
                              [next EXCEPT !.pc = "ended", !.outcome = failure]]
                /\ UNCHANGED sent

\* The bucket answered with an error.
CallRefused(p) ==
    /\ put[p].pc \in {"create", "complete", "head", "copy"}
    /\ put[p].reply = "error"
    /\ Unwind(p, "storage", "no", {})

\* The connection broke or timed out: the answer, if any, is not known.
CallLost(p) ==
    /\ put[p].pc \in {"create", "complete", "head", "copy"}
    /\ Unwind(p, "storage", "no", {put[p].pc})

\* A part is refused or the payload was empty.
StreamFails(p) ==
    /\ put[p].pc = "stream"
    /\ Unwind(p, "storage", "no", {})

\* The request body or the size cap raised.
SourceFails(p) ==
    /\ put[p].pc = "stream"
    /\ Unwind(p, "source", "no", {})

\* ObjectAlreadyExists
HeadPresent(p) ==
    /\ put[p].pc = "head"
    /\ put[p].reply = "present"
    /\ Unwind(p, "exists", "no", {})

\* The task is cancelled at an await of the transfer.
Cancel(p) ==
    /\ put[p].pc \in {"create", "stream", "complete", "head", "copy"}
    /\ Unwind(p, "cancelled", "yes", {put[p].pc} \cap Op)

\* Deviation: each cancellation starts the grace period again.
CancelRestarts(p) ==
    /\ put[p].pc = "cleanup"
    /\ put' = [put EXCEPT ![p] = [@ EXCEPT !.cancelled = "yes", !.grace = GraceTicks]]
    /\ UNCHANGED <<sent, bucket>>

\* The task is cancelled while its cleanup runs; a repetition changes nothing.
CancelCleanup(p) ==
    /\ put[p].pc = "cleanup"
    /\ put' = [put EXCEPT ![p] = [@ EXCEPT !.cancelled = "yes"]]
    /\ UNCHANGED <<sent, bucket>>

Tick(p) ==
    /\ put[p].pc = "cleanup"
    /\ put[p].cancelled = "yes"
    /\ put[p].grace > 0
    /\ put' = [put EXCEPT ![p] = [@ EXCEPT !.grace = put[p].grace - 1]]
    /\ UNCHANGED <<sent, bucket>>

\* Deviation: the first failure stays the outcome.
FirstFailure(p) ==
    IF put[p].primary = "none" THEN "stored" ELSE put[p].primary

\* A cancellation outranks what caused the cleanup.
Outcome(p) ==
    IF put[p].cancelled = "yes" THEN "cancelled"
    ELSE IF put[p].primary = "none" THEN "stored"
    ELSE put[p].primary

End(p, outcome, lost) ==
    /\ put[p].pc = "cleanup"
    /\ put' = [put EXCEPT ![p] = [@ EXCEPT !.pc = "ended", !.outcome = outcome,
                                         !.lost = put[p].lost \cup lost]]
    /\ UNCHANGED <<sent, bucket>>

CleanedUp(p) == put[p].reply = "done" /\ End(p, Outcome(p), {})

\* Deviation: a failure to remove the staging object fails the put.
CleanupFailureRaised(p) == End(p, "storage", {Awaited(p)})

\* Logged and swallowed.
CleanupFails(p) == End(p, Outcome(p), {Awaited(p)})

\* The cancellation propagates, the cleanup still in flight.
GraceOver(p) ==
    /\ put[p].cancelled = "yes"
    /\ put[p].grace = 0
    /\ End(p, Outcome(p), {Awaited(p)})

Die(p) ==
    /\ put[p].pc \notin {"idle", "ended"}
    /\ put' = [put EXCEPT ![p] = [@ EXCEPT !.pc = "ended", !.outcome = "died"]]
    /\ UNCHANGED <<sent, bucket>>

Step(p) ==
    \/ ConnectFails(p) \/ Start(p) \/ Created(p) \/ Streamed(p) \/ Completed(p)
    \/ HeadAbsent(p) \/ Copied(p)
    \/ CallRefused(p) \/ CallLost(p) \/ StreamFails(p) \/ SourceFails(p)
    \/ HeadPresent(p) \/ Cancel(p) \/ CancelCleanup(p) \/ Tick(p)
    \/ CleanedUp(p) \/ CleanupFails(p) \/ GraceOver(p) \/ Die(p)

Next == (\E p \in Puts : Step(p)) \/ (\E r \in sent : Serve(r))

Spec == Init /\ [][Next]_vars

-----------------------------------------------------------------------------
(* Properties. *)

\* A final object holds the bytes its key was computed from, whatever other
\* attempts staged at the same time.
FinalIsItsHash ==
    \A k \in Keys : object[k] # None => object[k].bytes = k[2]

\* A final object is never replaced or removed: not by another attempt, not
\* by a late request, not by a cleanup.
ObjectsImmutable ==
    [][\A k \in Keys : object[k] # None => object'[k] = object[k]]_vars

\* A put that returns a StoredObject has published it.
StoredIsPublished ==
    \A p \in Puts : put[p].outcome = "stored" =>
       object[FinalKey(p)] = [by |-> p, bytes |-> put[p].payload]

\* A put that ended leaves something behind only for a reason: a multipart
\* upload if its process died, it never heard of the upload it created, or its
\* abort failed or was overtaken by the deadline; a staging object if its
\* process died, it never heard that the upload completed, or its delete failed
\* or was overtaken.
ResidueIsExplained ==
    \A p \in Puts : put[p].pc = "ended" /\ put[p].outcome # "died" =>
       /\ p \in uploads => put[p].lost \cap {"create", "abort"} # {}
       /\ staging[StagingKey(p)] # None =>
             put[p].lost \cap {"complete", "delete"} # {}

\* A final object whose put reported a failure is there because the put was
\* cancelled, died, or never heard the answer to its copy.
OrphanIsExplained ==
    \A k \in Keys : object[k] # None /\ object[k].by # None =>
       LET p == object[k].by
       IN  put[p].pc = "ended" =>
              \/ put[p].outcome \in {"stored", "cancelled", "died"}
              \/ "copy" \in put[p].lost

\* A put that was cancelled raises the cancellation, even if it already had
\* its object or another failure to report.
CancellationPropagates ==
    \A p \in Puts : put[p].pc = "ended" /\ put[p].cancelled = "yes" =>
       put[p].outcome \in {"cancelled", "died"}

\* Nothing gives a cancelled put more time: a step of its own, of the bucket or
\* of another cancellation ends the put or leaves its cleanup at most the grace
\* it had.
CleanupIsBounded ==
    [][\A p \in Puts :
          put[p].pc = "cleanup" /\ put[p].cancelled = "yes" =>
             \/ put'[p].pc = "ended"
             \/ /\ put'[p].pc = "cleanup" /\ put'[p].cancelled = "yes"
                /\ put'[p].grace <= put[p].grace]_vars
=============================================================================
