---------------------------- MODULE SiteLogSubmit ----------------------------
(***************************************************************************)
(* One Site Log capture on the phone: the form that saves it, the draft in *)
(* memory and on disk with the files kept for it, the submission that      *)
(* sends it (src/siteLog/submit.ts), discard, sign-out and its wipe, and   *)
(* the server's answers to a declare, an upload and a finalize, which may  *)
(* come late or never.                                                     *)
(*                                                                         *)
(* JavaScript runs to completion between two awaits: an action is what     *)
(* runs from one await to the next.  The server side is what SiteLogUpload *)
(* establishes of it: one event, rows that are stored once, complete only  *)
(* over stored rows.                                                       *)
(***************************************************************************)
EXTENDS Naturals, FiniteSets

CONSTANTS
    Attachments,    \* the manifest rows of the capture
    Inline,         \* the server-owned inline-text row; in Attachments or not
    Users,          \* accounts that sign in on this phone
    Author,         \* the account that wrote the capture
    Nobody,         \* signed out
    MaxFaults       \* bound: app deaths, sessions that end, sign-outs, writes to
                    \* the phone that fail, overdue requests, failed attempts

ASSUME SubmitAssumption ==
    /\ Author \in Users
    /\ Nobody \notin Users
    /\ MaxFaults \in Nat

VARIABLES
    memory,     \* the draft in useSiteLogDrafts
    disk,       \* the draft in AsyncStorage
    files,      \* the bytes of each attachment on this phone
    screen,     \* the capture screen: an unsent form, one whose save is
                \* under way, or none that could still lose anything
    user,       \* the signed-in account
    run,        \* the submission: runSubmit and the callback that called it
    dialog,     \* an open native alert
    leaving,    \* an explicit sign-out
    removing,   \* removeAndRelease or clearCaptures awaiting its write
    event,      \* the server's event row
    att,        \* its manifest rows
    trying,     \* rows with a live server-side attempt
    late,       \* requests the phone gave up on and the server may still serve
    saved,      \* the capture was reported written to the phone
    givenUp,    \* the user agreed to lose the capture
    blind,      \* a refusal cleared the doubt left by an earlier declare
    faults      \* faults so far

draft == <<memory, disk>>
ui == <<screen, user, dialog, leaving>>
server == <<event, att, trying>>
hist == <<saved, givenUp, blind>>
vars == <<memory, disk, files, ui, run, removing, server, late, hist, faults>>

-----------------------------------------------------------------------------
Declared == Attachments \ {Inline}

\* held: the attachments whose URI is the place they are kept at.
Draft == [present : BOOLEAN, declaration : BOOLEAN, server : BOOLEAN,
          unconfirmed : BOOLEAN, held : SUBSET Declared]

Gone == [present |-> FALSE, declaration |-> FALSE, server |-> FALSE,
         unconfirmed |-> FALSE, held |-> {}]
NewDraft == [Gone EXCEPT !.present = TRUE]

AttachmentState == {"awaiting_upload", "pending", "stored", "failed"}
CaptureStatus == {"pending_upload", "partial_failed", "complete"}

Reads == {"lookup", "reread"}
Writes == {"declare", "redeclare", "upload", "finalize"}
Label == {"none", "rescue", "look", "post", "recover", "uploads", "done", "return"}

Submission ==
    [pc : {"idle", "saving", "rescue", "flush", "done"} \cup Reads \cup Writes,
     then : Label,                              \* where a flush resumes
     call : {"none", "sent", "served"},         \* the request being awaited
     by : Users \cup {Nobody},                  \* the account it was stamped with
     item : Attachments \cup {Nobody},          \* the attachment being uploaded
     seen : [Attachments -> AttachmentState],   \* the event as last answered
     status : CaptureStatus,
     todo : SUBSET Attachments,
     blocked : BOOLEAN,
     stale : BOOLEAN,                           \* sessionChanged()
     trouble : BOOLEAN]                         \* something went wrong on the way

Unseen == [a \in Attachments |-> "awaiting_upload"]

NoRun == [pc |-> "idle", then |-> "none", call |-> "none", by |-> Nobody,
          item |-> Nobody, seen |-> Unseen, status |-> "pending_upload",
          todo |-> {}, blocked |-> FALSE, stale |-> FALSE, trouble |-> FALSE]

Message == [kind : {"declare", "upload", "finalize"},
            item : Attachments \cup {Nobody}, by : Users \cup {Nobody}]

TypeOK ==
    /\ memory \in Draft /\ disk \in Draft
    /\ files \in [Declared -> {"kept", "cached", "reclaimed", "released"}]
    /\ screen \in {"form", "saving", "closed"}
    /\ user \in Users \cup {Nobody}
    /\ run \in Submission
    /\ dialog \in {"none", "open", "outdated"}
    /\ leaving \in [pc : {"no", "posting", "wiping"}, listed : BOOLEAN]
    /\ removing \in BOOLEAN
    /\ event \in [exists : BOOLEAN, status : CaptureStatus]
    /\ att \in [Attachments -> AttachmentState]
    /\ trying \subseteq Attachments
    /\ late \subseteq Message
    /\ saved \in BOOLEAN /\ givenUp \in BOOLEAN /\ blind \in BOOLEAN
    /\ faults \in 0..MaxFaults

Staying == [pc |-> "no", listed |-> FALSE]

\* A capture about to be saved, its files kept; or a draft an older build left
\* behind, its files still in the OS cache.
Init ==
    /\ \/ /\ screen = "form" /\ memory = Gone /\ disk = Gone /\ saved = FALSE
          /\ files = [a \in Declared |-> "kept"]
       \/ /\ screen = "closed" /\ memory = NewDraft /\ disk = NewDraft
          /\ saved = TRUE
          /\ files = [a \in Declared |-> "cached"]
    /\ user = Author
    /\ run = NoRun /\ dialog = "none" /\ leaving = Staying
    /\ removing = FALSE
    /\ event = [exists |-> FALSE, status |-> "pending_upload"]
    /\ att = Unseen
    /\ trying = {} /\ late = {}
    /\ givenUp = FALSE /\ blind = FALSE
    /\ faults = 0

-----------------------------------------------------------------------------
(* The submission from one await to the next. *)

\* A request leaves, stamped with whatever account is signed in now.
Send(r, request) ==
    [r EXCEPT !.pc = request, !.then = "none", !.call = "sent", !.by = user]

First(S) == CHOOSE a \in S : TRUE

\* Deviation: an attachment that was refused is tried again at once.
NextUploadAgain(r) ==
    LET here == {a \in r.todo : files[a] = "kept"} IN
    IF r.stale THEN NoRun
    ELSE IF here = {} THEN [Send(r, "reread") EXCEPT !.todo = {}, !.item = Nobody]
    ELSE [Send(r, "upload") EXCEPT !.item = First(here), !.todo = here]

\* The next attachment that wants its bytes sent and still has them; when none
\* is left, the event is read again.
NextUpload(r) ==
    LET here == {a \in r.todo : files[a] = "kept"} IN
    IF r.stale THEN NoRun
    ELSE IF here = {} THEN [Send(r, "reread") EXCEPT !.todo = {}, !.item = Nobody]
    ELSE [Send(r, "upload") EXCEPT !.item = First(here), !.todo = here \ {First(here)}]

StartUploads(r) ==
    LET stranded == {a \in Declared : files[a] = "kept" /\ r.seen[a] = "pending"} IN
    NextUpload([r EXCEPT
        !.seen = Unseen,
        !.todo = {a \in Declared : r.seen[a] \in {"awaiting_upload", "failed"}},
        !.blocked = stranded # {},
        !.trouble = r.trouble \/ stranded # {}])

\* Deviation: a row that was never begun is not repaired.
InlineFailedOnly(r) ==
    Inline \in Attachments /\ r.seen[Inline] = "failed"

\* Replaying the declaration is the only repair of the server's own row.
InlineNeedsRecovery(r) ==
    Inline \in Attachments /\ r.seen[Inline] \in {"failed", "awaiting_upload"}

\* Deviation: the account is not checked again after the write before declaring.
ContinueUnchecked(k, r) ==
    CASE k = "rescue" -> [r EXCEPT !.pc = "rescue", !.then = "none"]
      [] k = "look" -> Send(r, "lookup")
      [] k = "post" -> Send(r, "declare")
      [] k = "recover" -> IF r.stale THEN NoRun
                          ELSE IF InlineNeedsRecovery(r) THEN Send(r, "redeclare")
                          ELSE StartUploads(r)
      [] k = "uploads" -> IF r.stale THEN NoRun ELSE StartUploads(r)
      [] k = "done" -> [r EXCEPT !.pc = "done", !.then = "none"]
      [] k = "return" -> NoRun

\* What the submission does when the write it awaited is on disk.
Continue(k, r) ==
    CASE k = "rescue" -> [r EXCEPT !.pc = "rescue", !.then = "none"]
      [] k = "look" -> Send(r, "lookup")
      [] k = "post" -> IF r.stale THEN NoRun ELSE Send(r, "declare")
      [] k = "recover" -> IF r.stale THEN NoRun
                          ELSE IF InlineNeedsRecovery(r) THEN Send(r, "redeclare")
                          ELSE StartUploads(r)
      [] k = "uploads" -> IF r.stale THEN NoRun ELSE StartUploads(r)
      [] k = "done" -> [r EXCEPT !.pc = "done", !.then = "none"]
      [] k = "return" -> NoRun

\* Deviation: progress is saved by writing the whole draft back.
PatchUpserts(d, r, k) ==
    /\ memory' = [d EXCEPT !.present = TRUE]
    /\ run' = IF r.stale THEN Continue(k, r) ELSE [r EXCEPT !.pc = "flush", !.then = k]

\* patchDurable, unless the account has changed: a patch of a draft that is no
\* longer in the store changes nothing, and the write is awaited all the same.
Patch(d, r, k) ==
    IF r.stale
    THEN run' = Continue(k, r) /\ UNCHANGED memory
    ELSE /\ memory' = IF memory.present THEN d ELSE memory
         /\ run' = [r EXCEPT !.pc = "flush", !.then = k]

Doubted == [memory EXCEPT !.unconfirmed = TRUE]
Refuted == [memory EXCEPT !.unconfirmed = FALSE]
\* rememberEvent
Remembered == [memory EXCEPT !.server = TRUE, !.unconfirmed = FALSE]

Troubled(r) == [r EXCEPT !.trouble = r.trouble \/ r.pc # "idle"]
Outdated(r) == [r EXCEPT !.stale = r.stale \/ r.pc # "idle"]

Quiet ==
    /\ late = {} /\ trying = {}
    /\ \A a \in Attachments : att[a] # "pending"
    /\ \A a \in Declared : files[a] = "kept"

\* runSubmit up to its first await.
Start(r) ==
    IF r.stale
    THEN run' = NoRun /\ UNCHANGED memory
    ELSE IF memory.declaration
    THEN run' = Continue("rescue", r) /\ UNCHANGED memory
    ELSE Patch([memory EXCEPT !.declaration = TRUE], r, "rescue")

CanTap == user = Author /\ run.pc = "idle" /\ dialog = "none"

Fault == faults < MaxFaults /\ faults' = faults + 1

Tapped(pc) == [NoRun EXCEPT !.pc = pc, !.trouble = ~Quiet]

Save ==
    /\ screen = "form" /\ CanTap
    /\ screen' = "saving"
    /\ memory' = [NewDraft EXCEPT !.held = Declared]
    /\ run' = Tapped("saving")
    /\ UNCHANGED <<disk, files, user, dialog, leaving, removing, server, late, hist, faults>>

SaveWritten ==
    /\ run.pc = "saving"
    /\ disk' = memory
    /\ saved' = (saved \/ memory.present)
    /\ Start(run)
    /\ screen' = "closed"
    /\ UNCHANGED <<files, user, dialog, leaving, removing, server, late,
                   givenUp, blind, faults>>

\* The write was refused: the form still holds everything, the store does not.
SaveFailed ==
    /\ Fault
    /\ run.pc = "saving"
    /\ memory' = Gone
    /\ run' = NoRun
    /\ screen' = IF screen = "saving" THEN "form" ELSE screen
    /\ UNCHANGED <<disk, files, user, dialog, leaving, removing, server, late, hist>>

Resume ==
    /\ memory.present /\ CanTap
    /\ Start(Tapped("rescue"))
    /\ UNCHANGED <<disk, files, ui, removing, server, late, hist, faults>>

Flushed ==
    /\ run.pc = "flush"
    /\ disk' = memory
    /\ run' = Continue(run.then, run)
    /\ blind' = (blind /\ run.then # "post")
    /\ UNCHANGED <<memory, files, ui, removing, server, late, saved, givenUp, faults>>

FlushFails ==
    /\ Fault
    /\ run.pc = "flush"
    /\ run' = NoRun
    /\ UNCHANGED <<draft, files, ui, removing, server, late, hist>>

\* Files an older build left in the OS cache are copied, or cannot be; one patch
\* then names the copies.  A copy that is not named is made again.
RescueFiles ==
    /\ run.pc = "rescue"
    /\ \E kept \in SUBSET {a \in Declared : files[a] = "cached"} :
         /\ files' = [a \in Declared |->
                         IF a \in kept /\ ~run.stale THEN "kept" ELSE files[a]]
         /\ LET r == [run EXCEPT !.trouble = run.trouble \/
                          \E a \in Declared \ kept : files[a] # "kept"]
            IN  IF kept = {}
                THEN run' = Continue("look", r) /\ UNCHANGED memory
                ELSE Patch([memory EXCEPT !.held = @ \cup kept], r, "look")
    /\ UNCHANGED <<disk, ui, removing, server, late, hist, faults>>

-----------------------------------------------------------------------------
(* Requests.  What the server does to its rows comes first. *)

\* One event per (author, capture id): a second declare is a replay.  Its inline
\* text is then uploaded, unless the process dies first.
DeclareEffect(u) ==
    IF u # Author
    THEN UNCHANGED server
    ELSE /\ event' = [event EXCEPT !.exists = TRUE]
         /\ \/ trying' = trying \cup
                  {a \in Attachments \cap {Inline} : att[a] \in {"awaiting_upload", "failed"}}
            \/ trying' = trying
         /\ UNCHANGED att

UploadEffect(a, u) ==
    /\ trying' = IF u = Author /\ att[a] \in {"awaiting_upload", "failed"}
                 THEN trying \cup {a} ELSE trying
    /\ UNCHANGED <<event, att>>

NonePending == \A a \in Attachments : att[a] # "pending"

FinalizeTarget ==
    IF \A a \in Attachments : att[a] = "stored" THEN "complete" ELSE "partial_failed"

FinalizeEffect(u) ==
    /\ event' = IF u = Author /\ NonePending /\ event.status # "complete"
                THEN [event EXCEPT !.status = FinalizeTarget] ELSE event
    /\ UNCHANGED <<att, trying>>

Sent == [kind |-> IF run.pc = "redeclare" THEN "declare" ELSE run.pc,
         item |-> IF run.pc = "upload" THEN run.item ELSE Nobody, by |-> run.by]

InFlight == IF run.pc \in Writes /\ run.call = "sent" THEN {Sent} ELSE {}

\* A write the phone stops waiting for may still be served, or never.
Overdue ==
    \/ UNCHANGED <<late, faults>>
    \/ InFlight # {} /\ Fault /\ late' = late \cup InFlight

\* The request is settled, one way or another.
Settled == [run EXCEPT !.call = "none", !.by = Nobody, !.item = Nobody]
Failed == [Settled EXCEPT !.trouble = TRUE]
Served == [run EXCEPT !.call = "served", !.by = Nobody]
Answer == [Settled EXCEPT !.seen = att]

\* Deviation: the declare goes out before the doubt is on disk.
LookupAnsweredUnmarked ==
    /\ run.pc = "lookup"
    /\ IF run.stale
       THEN run' = NoRun /\ UNCHANGED memory
       ELSE IF event.exists /\ run.by = Author
       THEN Patch(Remembered, Answer, "recover")
       ELSE run' = Continue("post", Settled) /\ UNCHANGED memory
    /\ UNCHANGED <<disk, files, ui, removing, server, late, hist, faults>>

\* null is "the server has nothing under this id": declare, but only once the
\* draft on disk says the result may become unknown.
LookupAnswered ==
    /\ run.pc = "lookup"
    /\ IF run.stale
       THEN run' = NoRun /\ UNCHANGED memory
       ELSE IF event.exists /\ run.by = Author
       THEN Patch(Remembered, Answer, "recover")
       ELSE Patch(Doubted, Settled, "post")
    /\ UNCHANGED <<disk, files, ui, removing, server, late, hist, faults>>

ReadRefused ==
    /\ run.pc \in Reads
    /\ run' = NoRun
    /\ UNCHANGED <<draft, files, ui, removing, server, late, hist, faults>>

DeclareServed ==
    /\ run.pc \in {"declare", "redeclare"} /\ run.call = "sent"
    /\ DeclareEffect(run.by)
    /\ run' = Served
    /\ UNCHANGED <<draft, files, ui, removing, late, hist, faults>>

\* 201 or 200; a row left pending by an earlier attempt is not touched.
DeclareAnswered ==
    /\ run.pc \in {"declare", "redeclare"} /\ run.call = "served"
    /\ Inline \in Attachments => Inline \notin trying /\ att[Inline] \in {"stored", "pending"}
    /\ Patch(Remembered, Answer, IF run.pc = "declare" THEN "recover" ELSE "uploads")
    /\ UNCHANGED <<disk, files, ui, removing, server, late, hist, faults>>

\* 502 with the event: it exists, only its inline text failed to store.
DeclareInlineFailed ==
    /\ run.pc \in {"declare", "redeclare"} /\ run.call = "served"
    /\ Inline \in Attachments \ trying /\ att[Inline] = "failed"
    /\ Patch(Remembered, [Answer EXCEPT !.trouble = TRUE],
             IF run.pc = "declare" THEN "return" ELSE "uploads")
    /\ UNCHANGED <<disk, files, ui, removing, server, late, hist, faults>>

DeclareOverdue == \E m \in late : m.kind = "declare"

\* 4xx: this request created nothing.
DeclareRefused ==
    /\ run.pc \in {"declare", "redeclare"} /\ run.call = "sent"
    /\ IF run.pc = "declare"
       THEN /\ Patch(Refuted, Failed, "return")
            /\ blind' = (blind \/ event.exists \/ DeclareOverdue)
       ELSE /\ Patch(memory, Failed, "uploads")
            /\ UNCHANGED blind
    /\ UNCHANGED <<disk, files, ui, removing, server, late, saved, givenUp, faults>>

\* 5xx without an event: not an answer about what happened.
DeclareUnanswered ==
    /\ run.pc \in {"declare", "redeclare"}
    /\ IF run.pc = "declare"
       THEN run' = NoRun /\ UNCHANGED memory
       ELSE Patch(Doubted, Failed, "return")
    /\ Overdue
    /\ UNCHANGED <<disk, files, ui, removing, server, hist>>

UploadServed ==
    /\ run.pc = "upload" /\ run.call = "sent"
    /\ UploadEffect(run.item, run.by)
    /\ run' = Served
    /\ UNCHANGED <<draft, files, ui, removing, late, hist, faults>>

UploadAnswered ==
    /\ run.pc = "upload" /\ run.call = "served" /\ run.item \notin trying
    /\ run' = NextUpload(IF att[run.item] = "stored" THEN Settled ELSE Failed)
    /\ UNCHANGED <<draft, files, ui, removing, server, late, hist, faults>>

UploadRefused ==
    /\ run.pc = "upload"
    /\ run' = NextUpload(Failed)
    /\ Overdue
    /\ UNCHANGED <<draft, files, ui, removing, server, hist>>

\* Nothing is finalized while anything is still in flight.
RereadAnswered ==
    /\ run.pc = "reread"
    /\ LET r == [Settled EXCEPT !.status = event.status] IN
       IF ~NonePending
       THEN Patch(Remembered, [r EXCEPT !.trouble = TRUE], "done")
       ELSE /\ run' = IF run.stale THEN NoRun ELSE Send(r, "finalize")
            /\ UNCHANGED memory
    /\ UNCHANGED <<disk, files, ui, removing, server, late, hist, faults>>

FinalizeServed ==
    /\ run.pc = "finalize" /\ run.call = "sent" /\ NonePending
    /\ FinalizeEffect(run.by)
    /\ run' = Served
    /\ UNCHANGED <<draft, files, ui, removing, late, hist, faults>>

FinalizeAnswered ==
    /\ run.pc = "finalize" /\ run.call = "served"
    /\ Patch(Remembered, [Settled EXCEPT !.status = event.status], "done")
    /\ UNCHANGED <<disk, files, ui, removing, server, late, hist, faults>>

\* A refusal is not the end: the record exists, and the reread stands.
FinalizeRefused ==
    /\ run.pc = "finalize"
    /\ Patch(Remembered, Failed, "done")
    /\ Overdue
    /\ UNCHANGED <<disk, files, ui, removing, server, hist>>

\* A timeout or a dropped connection, of any request: not confirmed.
Unanswered ==
    /\ run.pc \in Reads \cup Writes
    /\ Patch(Doubted, Failed, "return")
    /\ Overdue
    /\ UNCHANGED <<disk, files, ui, removing, server, hist>>

-----------------------------------------------------------------------------
(* The end of a run, and what takes a draft away. *)

Remove ==
    /\ memory' = Gone
    /\ removing' = (removing \/ memory.present)

Done ==
    /\ run.pc = "done"
    /\ run' = NoRun
    /\ IF ~run.blocked /\ run.status = "complete"
       THEN Remove
       ELSE UNCHANGED <<memory, removing>>
    /\ UNCHANGED <<disk, files, ui, server, late, hist, faults>>

\* The files go only once the draft that points at them is gone from disk.
RemovalWritten ==
    /\ removing
    /\ disk' = memory
    /\ files' = [a \in Declared |-> IF files[a] = "kept" THEN "released" ELSE files[a]]
    /\ removing' = FALSE
    /\ UNCHANGED <<memory, ui, run, server, late, hist, faults>>

RemovalFails ==
    /\ Fault
    /\ removing
    /\ removing' = FALSE
    /\ UNCHANGED <<draft, files, ui, run, server, late, hist>>

\* The persist middleware's own, unawaited write.
Persist ==
    /\ disk # memory
    /\ disk' = memory
    /\ UNCHANGED <<memory, files, ui, run, removing, server, late, hist, faults>>

\* Leaving an unsent form, which asks first, abandons what it holds.
LeaveScreen ==
    /\ screen # "closed" /\ dialog = "none"
    /\ screen' = "closed"
    /\ IF screen = "form"
       THEN files' = [a \in Declared |-> "released"] /\ givenUp' = TRUE
       ELSE UNCHANGED <<files, givenUp>>
    /\ UNCHANGED <<draft, user, dialog, leaving, run, removing, server, late, saved, blind, faults>>

DiscardAsked ==
    /\ memory.present /\ CanTap
    /\ dialog' = "open"
    /\ UNCHANGED <<draft, files, screen, user, leaving, run, removing, server, late, hist, faults>>

\* Answered by the session that was asked, or not acted on.
DiscardConfirmed ==
    /\ dialog # "none"
    /\ dialog' = "none"
    /\ IF dialog = "outdated"
       THEN UNCHANGED <<memory, removing, givenUp>>
       ELSE Remove /\ givenUp' = TRUE
    /\ UNCHANGED <<disk, files, screen, user, leaving, run, server, late, saved, blind, faults>>

DialogDismissed ==
    /\ dialog # "none"
    /\ dialog' = "none"
    /\ UNCHANGED <<draft, files, screen, user, leaving, run, removing, server, late, hist, faults>>

\* Sign-out asks only when the account leaving has an unsent capture, and what
\* it was asked about is the list that may be deleted.
Logout ==
    /\ Fault
    /\ user # Nobody /\ leaving.pc = "no" /\ dialog = "none"
    /\ LET unsent == user = Author /\ memory.present IN
       /\ leaving' = [pc |-> "posting", listed |-> unsent]
       /\ givenUp' = (givenUp \/ unsent)
    /\ UNCHANGED <<draft, files, screen, user, dialog, run, removing, server, late,
                   saved, blind>>

\* Every sign-in and sign-out starts a new session.  The router leaves the form.
NewSession(u) ==
    /\ user' = u
    /\ run' = Outdated(run)
    /\ dialog' = IF dialog = "none" THEN "none" ELSE "outdated"
    /\ screen' = "closed"
    /\ \/ UNCHANGED files
       \/ screen = "form" /\ files' = [a \in Declared |-> "released"]

\* POST /auth/logout has settled: clear().
LogoutPosted ==
    /\ leaving.pc = "posting"
    /\ leaving' = [leaving EXCEPT !.pc = "wiping"]
    /\ NewSession(Nobody)
    /\ UNCHANGED <<draft, removing, server, late, hist, faults>>

\* Deviation: the list is made again when the wipe begins.
WipeWhatIsThere ==
    /\ leaving.pc = "wiping"
    /\ leaving' = Staying
    /\ Remove /\ run' = Troubled(run)
    /\ UNCHANGED <<disk, files, screen, user, dialog, server, late, hist, faults>>

\* wipeOnExplicitLogout, clearCaptures: exactly what was agreed to.
Wipe ==
    /\ leaving.pc = "wiping"
    /\ leaving' = Staying
    /\ IF leaving.listed
       THEN Remove /\ run' = Troubled(run)
       ELSE UNCHANGED <<memory, removing, run>>
    /\ UNCHANGED <<disk, files, screen, user, dialog, server, late, hist, faults>>

SessionEnds ==
    /\ Fault
    /\ user # Nobody
    /\ NewSession(Nobody)
    /\ UNCHANGED <<draft, leaving, removing, server, late, hist>>

SignIn(u) ==
    /\ user = Nobody
    /\ NewSession(u)
    /\ UNCHANGED <<draft, leaving, removing, server, late, hist, faults>>

\* The app dies: what was not written is lost, what was sent is not recalled.
\* The draft on disk still looks for a file in the cache if it was copied and
\* the patch that names the copy was not written.
AppDies ==
    /\ Fault
    /\ memory' = disk
    /\ run' = NoRun
    /\ late' \in {late, late \cup InFlight}
    /\ screen' = "closed"
    /\ dialog' = "none" /\ leaving' = Staying /\ removing' = FALSE
    /\ files' = [a \in Declared |->
                    IF disk.present /\ files[a] = "kept" /\ a \notin disk.held
                    THEN "cached" ELSE files[a]]
    /\ UNCHANGED <<disk, user, server, hist>>

CacheReclaimed(a) ==
    /\ files[a] = "cached"
    /\ files' = [files EXCEPT ![a] = "reclaimed"]
    /\ run' = Troubled(run)
    /\ UNCHANGED <<draft, ui, removing, server, late, hist, faults>>

-----------------------------------------------------------------------------
(* The server, with nobody waiting. *)

ServeLate(m) ==
    /\ late' = late \ {m}
    /\ \/ m.kind = "declare" /\ DeclareEffect(m.by)
       \/ m.kind = "upload" /\ UploadEffect(m.item, m.by)
       \/ m.kind = "finalize" /\ FinalizeEffect(m.by)
    /\ UNCHANGED <<draft, files, ui, run, removing, hist, faults>>

AttemptBegins(a) ==
    /\ a \in trying /\ att[a] \in {"awaiting_upload", "failed"}
    /\ att' = [att EXCEPT ![a] = "pending"]
    /\ UNCHANGED <<draft, files, ui, run, removing, event, trying, late, hist, faults>>

\* A capture that is inline text alone is finalized by the same request.
AttemptSettles(a) ==
    /\ a \in trying /\ att[a] = "pending"
    /\ trying' = trying \ {a}
    /\ \/ /\ att' = [att EXCEPT ![a] = "stored"]
          /\ event' = IF Declared = {} THEN [event EXCEPT !.status = "complete"] ELSE event
          /\ UNCHANGED <<run, faults>>
       \/ /\ Fault
          /\ att' = [att EXCEPT ![a] = "failed"]
          /\ run' = Troubled(run)
          /\ UNCHANGED event
    /\ UNCHANGED <<draft, files, ui, removing, late, hist>>

AttemptDies(a) ==
    /\ Fault
    /\ a \in trying
    /\ trying' = trying \ {a}
    /\ run' = Troubled(run)
    /\ UNCHANGED <<draft, files, ui, removing, event, att, late, hist>>

\* An administrator's reset; an attempt still running is superseded by it.
Reset(a) ==
    /\ att[a] = "pending"
    /\ att' = [att EXCEPT ![a] = "failed"]
    /\ trying' = trying \ {a}
    /\ run' = Troubled(run)
    /\ UNCHANGED <<draft, files, ui, removing, event, late, hist, faults>>

-----------------------------------------------------------------------------
RunStep ==
    \/ SaveWritten \/ SaveFailed \/ Flushed \/ FlushFails \/ RescueFiles
    \/ LookupAnswered \/ ReadRefused
    \/ DeclareServed \/ DeclareAnswered \/ DeclareInlineFailed
    \/ DeclareRefused \/ DeclareUnanswered
    \/ UploadServed \/ UploadAnswered \/ UploadRefused
    \/ RereadAnswered \/ FinalizeServed \/ FinalizeAnswered \/ FinalizeRefused
    \/ Unanswered \/ Done

Next ==
    \/ Save \/ Resume
    \/ RunStep
    \/ RemovalWritten \/ RemovalFails \/ Persist
    \/ LeaveScreen
    \/ DiscardAsked \/ DiscardConfirmed \/ DialogDismissed
    \/ Logout \/ LogoutPosted \/ Wipe
    \/ SessionEnds
    \/ \E u \in Users : SignIn(u)
    \/ AppDies
    \/ \E a \in Declared : CacheReclaimed(a)
    \/ \E m \in late : ServeLate(m)
    \/ \E a \in Attachments :
         AttemptBegins(a) \/ AttemptSettles(a) \/ AttemptDies(a) \/ Reset(a)

Spec == Init /\ [][Next]_vars

-----------------------------------------------------------------------------
(* What a submission must never do. *)

\* store/siteLogDrafts.ts:10-12, "nothing the user typed, chose or recorded should
\* be lost": a capture reported saved is on the phone, with every file it was
\* given there, until the server has confirmed it complete or the user agreed to
\* lose it, and the draft on disk names no place a file is not at.  (A file an
\* older build left in the OS cache may go with the cache.)
NothingIsLost ==
    saved /\ ~givenUp /\ event.status # "complete" =>
        /\ disk.present
        /\ \A a \in Declared : files[a] # "released"
        /\ \A a \in disk.held : files[a] = "kept"

\* siteLog/submit.ts:95-101: nothing that writes leaves under another account,
\* however sessions end and begin while the submission awaits its own storage.
OnlyTheAuthorWrites ==
    /\ run.pc \in Writes /\ run.call = "sent" => run.by = Author
    /\ \A m \in late : m.by = Author

\* siteLog/submit.ts:334-341: a draft on disk that says "not sent" is the truth,
\* even after the app has died: the server has no event and is not about to make
\* one.  What it may have received is pinned on disk, to be replayed verbatim.
\* The one exception is a refusal that arrives while an earlier declare, which
\* the phone gave up on, has been or may still be served.
NotSentIsTrue ==
    LET known == event.exists \/ DeclareOverdue
                    \/ (run.pc = "declare" /\ run.call = "sent")
    IN  disk.present /\ known => /\ disk.declaration
                                 /\ disk.server \/ disk.unconfirmed \/ blind

\* siteLog/submit.ts:376-377, "the SERVER refusing: nothing was created, so the
\* result is not unknown any more": after a refusal, "not sent" is the truth.
RefusalSettles == ~(blind /\ memory.present /\ ~memory.server /\ ~memory.unconfirmed)

\* siteLog/submit.ts:212-214 and 224-225: what was removed stays removed.  No late
\* patch of a submission, no write and no restart brings back a draft that was
\* discarded, wiped or confirmed.
NoResurrection ==
    [][~memory.present /\ ~disk.present /\ screen # "form" =>
          ~memory'.present /\ ~disk'.present]_vars

\* siteLog/submit.ts:200-201 and 399-403: a submission in which nothing went wrong
\* completes the capture, whatever state earlier ones left it in: failed rows are
\* sent again, the inline row is repaired by a replay, a partial event finalized.
QuietRunCompletes ==
    [][/\ run.pc # "idle" /\ ~run.trouble /\ ~run.stale
       /\ run'.pc = "idle"
       => \/ event.status = "complete" /\ ~memory'.present
          \/ SaveFailed \/ FlushFails \/ ReadRefused \/ DeclareUnanswered
          \/ AppDies]_vars

\* How far along runSubmit a submission is: a write to the phone comes just
\* before what it resumes at.
Place == [saving |-> 0, rescue |-> 2, look |-> 4, lookup |-> 4, post |-> 6,
          declare |-> 6, recover |-> 8, redeclare |-> 8, uploads |-> 10,
          upload |-> 10, reread |-> 12, finalize |-> 14, done |-> 16, return |-> 18]
Along(r) == IF r.pc = "flush" THEN Place[r.then] - 1 ELSE Place[r.pc]

\* siteLog/submit.ts:200-201 and 507-511, the spinner that never cleared: whatever
\* each answer is, the submission moves on.  No request is sent again, the inline
\* row is replayed once, each attachment is tried once; so, each await being
\* bounded by a timeout, every submission ends and gives its button back.
RunAdvances ==
    [][/\ run.pc # "idle" /\ run'.pc # "idle"
       /\ <<run'.pc, run'.then, run'.call, run'.item>> #
             <<run.pc, run.then, run.call, run.item>>
       => \/ Along(run') > Along(run)
          \/ /\ Along(run') = Along(run)
             /\ \/ run'.todo \subseteq run.todo \ {run'.item} /\ run'.item \in run.todo
                \/ run'.todo = run.todo /\ run.call = "sent" /\ run'.call = "served"
      ]_vars
=============================================================================
