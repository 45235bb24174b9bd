------------------------- MODULE SiteLogSubmitProof --------------------------
(***************************************************************************)
(* What holds of SiteLogSubmit for any manifest, any accounts and any      *)
(* number of faults: the capture is kept, only its author sends it, "not   *)
(* sent" is the truth, and what a submission's steps may never do.         *)
(***************************************************************************)
EXTENDS SiteLogSubmit, Integers, TLAPS

USE SubmitAssumption

-----------------------------------------------------------------------------
(* The inductive invariant. *)

Complete == event.status = "complete"

\* Where an active submission is, or where it resumes.
At(r) == IF r.pc = "flush" THEN r.then ELSE r.pc

\* Past this point the server has answered with its event.
Confirmed == {"recover", "redeclare", "uploads", "upload", "reread", "finalize", "done"}

\* Nothing went wrong since the tap, and nothing else is going on: what is under
\* way at the server is the request the phone waits for.
Undisturbed(r) ==
    /\ late = {}
    /\ \A a \in Declared : files[a] = "kept"
    /\ \A a \in Attachments : att[a] = "pending" => a \in trying
    /\ trying \subseteq IF r.call # "served" THEN {}
                        ELSE IF r.pc = "upload" THEN {r.item}
                        ELSE IF r.pc \in {"declare", "redeclare"} THEN {Inline}
                        ELSE {}

\* What an undisturbed submission has done so far.
Achieved(r) ==
    /\ At(r) \in {"recover", "uploads"} =>
          \A a \in Attachments : /\ r.seen[a] # "pending"
                                 /\ r.seen[a] = "stored" => att[a] = "stored"
    /\ At(r) = "uploads" /\ Inline \in Attachments => r.seen[Inline] = "stored"
    /\ At(r) = "upload" =>
          \A a \in Attachments : att[a] = "stored" \/ a \in r.todo \/ a = r.item
    /\ At(r) \in {"reread", "finalize"} => \A a \in Attachments : att[a] = "stored"
    /\ At(r) = "finalize" /\ r.call = "served" => Complete
    /\ At(r) = "done" => r.status = "complete"

Sound(r) ==
    /\ r.pc = "flush" <=> r.then # "none"
    /\ r.todo \subseteq Declared /\ (r.pc = "upload" => r.item \in Declared)
    /\ r.pc # "idle" /\ ~r.stale => user = Author
    /\ r.pc \in Writes /\ r.call = "sent" => r.by = Author
    /\ At(r) \in Confirmed => event.exists
    /\ r.pc = "declare" /\ r.call = "served" => event.exists
    /\ r.status = "complete" => Complete
    /\ At(r) = "return" \/ r.blocked => r.trouble
    /\ r.pc # "idle" /\ ~r.trouble => Undisturbed(r) /\ Achieved(r)

\* The form loses nothing because nothing it holds has been sent or promised.
Unsaved ==
    /\ screen = "form" => run.pc = "idle" /\ ~memory.present
    /\ screen = "saving" => run.pc = "saving"
    /\ screen # "closed" \/ run.pc = "saving" => ~saved /\ ~event.exists /\ late = {}

\* What goes was agreed to, or confirmed.
Kept ==
    /\ leaving.listed => givenUp
    /\ removing => givenUp \/ Complete
    /\ saved /\ ~givenUp /\ ~Complete => memory.present /\ disk.present
    /\ (saved \/ screen # "closed" \/ run.pc = "saving") /\ ~givenUp /\ ~Complete =>
          \A a \in Declared : files[a] # "released"

\* A file is where a draft says it is kept, unless it was released; the form has
\* all of its files.
Placed ==
    /\ \A a \in memory.held \cup disk.held : files[a] \in {"kept", "released"}
    /\ screen # "closed" => \A a \in Declared : files[a] = "kept"

\* A draft that says so when the server may have something.
Tells(d) == d.present => d.declaration /\ (d.server \/ d.unconfirmed \/ blind)

Known == event.exists \/ DeclareOverdue \/ (run.pc = "declare" /\ run.call = "sent")

Pinned ==
    /\ Known => Tells(memory) /\ Tells(disk)
    /\ run.pc \notin {"idle", "saving"} /\ memory.present => memory.declaration
    /\ run.pc = "flush" /\ run.then = "post" /\ memory.present =>
          memory.server \/ memory.unconfirmed

\* What is being removed, or asked about, no submission carries on with.
Going ==
    /\ dialog # "none" => run.pc = "idle" /\ screen = "closed"
    /\ leaving.pc = "wiping" => screen = "closed"
    /\ removing => screen = "closed" /\ ~memory.present /\ (run.pc # "idle" => run.trouble)

LateIsAuthors ==
    \A m \in late : m.by = Author /\ (m.kind = "upload" => m.item \in Declared)

IInv ==
    TypeOK /\ Sound(run) /\ Unsaved /\ Going /\ Kept /\ Placed /\ Pinned /\ LateIsAuthors

-----------------------------------------------------------------------------
(* The submission from one await to the next. *)

\* The values the model starts from have their types.
LEMMA Nulls ==
    /\ Nobody \in Users \cup {Nobody} /\ Author \in Users \cup {Nobody}
    /\ Unseen \in [Attachments -> AttachmentState]
    /\ NoRun \in Submission
    /\ Gone \in Draft /\ NewDraft \in Draft
    /\ ~Gone.present /\ NewDraft.present
    /\ Declared \subseteq Attachments
BY DEF Unseen, AttachmentState, NoRun, Submission, Reads, Writes, Label, CaptureStatus,
       Gone, NewDraft, Draft, Declared

\* Whether a submission had trouble can be set.
LEMMA Marked ==
    ASSUME NEW r \in Submission, NEW t \in BOOLEAN
    PROVE  /\ [r EXCEPT !.trouble = t] \in Submission
           /\ [r EXCEPT !.trouble = t].trouble = t
           /\ [r EXCEPT !.trouble = t].stale = r.stale
<1>1. [r EXCEPT !.trouble = t] \in Submission
  BY Zenon DEF Submission
<1>2. /\ [r EXCEPT !.trouble = t].trouble = t
      /\ [r EXCEPT !.trouble = t].stale = r.stale
  BY DEF Submission
<1> QED BY <1>1, <1>2

\* So can what it has seen, has to do and was blocked by.
Replan(r, seen, todo, blocked, t) ==
    [r EXCEPT !.seen = seen, !.todo = todo, !.blocked = blocked, !.trouble = t]

LEMMA Replanned ==
    ASSUME NEW r \in Submission, NEW seen \in [Attachments -> AttachmentState],
           NEW todo \in SUBSET Attachments, NEW blocked \in BOOLEAN, NEW t \in BOOLEAN,
           NEW x, x = Replan(r, seen, todo, blocked, t)
    PROVE  /\ x \in Submission
           /\ x.todo = todo /\ x.stale = r.stale /\ x.status = r.status
           /\ x.blocked = blocked /\ x.trouble = t
<1>1. x \in Submission
  BY Zenon DEF Submission, Replan
<1>2. /\ x.todo = todo /\ x.stale = r.stale /\ x.status = r.status
      /\ x.blocked = blocked /\ x.trouble = t
  BY DEF Submission, Replan
<1> QED BY <1>1, <1>2

\* What is left of an active submission's soundness wherever it goes on.
Ready(r) ==
    /\ r \in Submission
    /\ r.todo \subseteq Declared
    /\ ~r.stale => user = Author
    /\ r.status = "complete" => Complete
    /\ r.blocked => r.trouble
    /\ ~r.trouble => /\ late = {} /\ trying = {}
                     /\ \A a \in Declared : files[a] = "kept"
                     /\ \A a \in Attachments : att[a] # "pending"

\* No submission is a sound one.
LEMMA NoRunSound == NoRun \in Submission /\ Sound(NoRun)
BY Nulls DEF NoRun, Sound, At, Confirmed, Writes

\* A request leaves: under the author, if it writes.
LEMMA SendSound ==
    ASSUME TypeOK, NEW r, Ready(r), NEW q \in Reads \cup Writes,
           q \in Writes => ~r.stale,
           q \in Confirmed => event.exists,
           q \in {"reread", "finalize"} => r.trouble \/ \A a \in Attachments : att[a] = "stored",
           NEW item \in Attachments \cup {Nobody}, NEW todo \in SUBSET Declared,
           q = "upload" => item \in Declared,
           q = "upload" => r.trouble \/
              \A a \in Attachments : att[a] = "stored" \/ a \in todo \/ a = item
    PROVE  LET x == [Send(r, q) EXCEPT !.item = item, !.todo = todo]
           IN  x \in Submission /\ Sound(x)
<1> DEFINE x == [Send(r, q) EXCEPT !.item = item, !.todo = todo]
<1>1. /\ r \in Submission /\ user \in Users \cup {Nobody}
      /\ x = [r EXCEPT !.pc = q, !.then = "none", !.call = "sent", !.by = user,
                       !.item = item, !.todo = todo]
  BY DEF Ready, TypeOK, Send
<1>2. /\ x.pc = q /\ x.then = "none" /\ x.call = "sent" /\ x.by = user
      /\ x.item = item /\ x.todo = todo /\ x.seen = r.seen /\ x.status = r.status
      /\ x.blocked = r.blocked /\ x.stale = r.stale /\ x.trouble = r.trouble
  BY <1>1 DEF Submission
<1> HIDE DEF x
<1>3. x \in Submission
  <2>1. "none" \in Label
    BY DEF Label
  <2> QED BY <1>1, <2>1, Nulls DEF Submission
<1>4. At(x) = q /\ q \notin {"idle", "flush", "return", "done", "recover", "uploads"}
  BY <1>2 DEF At, Reads, Writes
<1>5. ~x.trouble => Undisturbed(x) /\ Achieved(x)
  BY <1>2, <1>4 DEF Undisturbed, Achieved, Ready
<1>6. Sound(x)
  BY <1>2, <1>4, <1>5 DEF Sound, Ready
<1> QED BY <1>3, <1>6 DEF x

\* A request that leaves and changes nothing else of the submission.
LEMMA PlainSend ==
    ASSUME NEW r \in Submission, NEW q
    PROVE  Send(r, q) = [Send(r, q) EXCEPT !.item = r.item, !.todo = r.todo]
BY DEF Send, Submission

\* What is uploaded next is one of those to do, and is not done again.
LEMMA NextUploadIs ==
    ASSUME NEW r \in Submission
    PROVE  \/ r.stale /\ NextUpload(r) = NoRun
           \/ /\ ~r.stale /\ \A a \in r.todo : files[a] # "kept"
              /\ NextUpload(r) = [Send(r, "reread") EXCEPT !.item = Nobody, !.todo = {}]
           \/ /\ ~r.stale
              /\ \E a \in r.todo :
                    LET here == {b \in r.todo : files[b] = "kept"}
                    IN  /\ files[a] = "kept"
                        /\ NextUpload(r) = [Send(r, "upload") EXCEPT
                                               !.item = a, !.todo = here \ {a}]
<1> DEFINE here == {b \in r.todo : files[b] = "kept"}
<1>1. CASE r.stale
  BY <1>1 DEF NextUpload
<1>2. CASE ~r.stale /\ here = {}
  <2>1. NextUpload(r) = [Send(r, "reread") EXCEPT !.todo = {}, !.item = Nobody]
    BY <1>2 DEF NextUpload
  <2>2. @ = [Send(r, "reread") EXCEPT !.item = Nobody, !.todo = {}]
    BY DEF Send, Submission
  <2> QED BY <1>2, <2>1, <2>2
<1>3. CASE ~r.stale /\ here # {}
  <2>1. First(here) \in here
    BY <1>3 DEF First
  <2>2. NextUpload(r) = [Send(r, "upload") EXCEPT !.item = First(here),
                                                  !.todo = here \ {First(here)}]
    BY <1>3 DEF NextUpload
  <2> QED BY <1>3, <2>1, <2>2
<1> QED BY <1>1, <1>2, <1>3

\* The upload loop: the next file, or, when none is left, the event again.
LEMMA NextUploadSound ==
    ASSUME TypeOK, NEW r, Ready(r), event.exists,
           r.trouble \/ \A a \in Attachments : att[a] = "stored" \/ a \in r.todo
    PROVE  NextUpload(r) \in Submission /\ Sound(NextUpload(r))
<1> DEFINE here == {b \in r.todo : files[b] = "kept"}
<1>0. r \in Submission /\ r.todo \in SUBSET Attachments /\ r.todo \subseteq Declared
      /\ {"reread", "upload"} \subseteq Reads \cup Writes /\ Nobody \in Attachments \cup {Nobody}
  BY DEF Ready, Submission, Reads, Writes
<1>1. CASE NextUpload(r) = NoRun
  BY <1>1, NoRunSound
<1>2. ASSUME ~r.stale, \A a \in r.todo : files[a] # "kept"
      PROVE  LET x == [Send(r, "reread") EXCEPT !.item = Nobody, !.todo = {}]
             IN  x \in Submission /\ Sound(x)
  <2>1. r.trouble \/ \A a \in Attachments : att[a] = "stored"
    BY <1>0, <1>2 DEF Ready
  <2>2. {} \in SUBSET Declared
    OBVIOUS
  <2> QED BY <1>0, <1>2, <2>1, <2>2, SendSound
<1>3. ASSUME ~r.stale, NEW a \in r.todo, files[a] = "kept"
      PROVE  LET x == [Send(r, "upload") EXCEPT !.item = a, !.todo = here \ {a}]
             IN  x \in Submission /\ Sound(x)
  <2>1. r.trouble \/ here = r.todo
    BY <1>0 DEF Ready
  <2>2. here \ {a} \in SUBSET Declared /\ a \in Attachments \cup {Nobody}
    BY <1>0, <1>3
  <2>3. r.trouble \/ \A b \in Attachments : att[b] = "stored" \/ b \in here \ {a} \/ b = a
    BY <2>1
  <2> HIDE DEF here
  <2>4. PICK rest : rest = here \ {a}
    OBVIOUS
  <2>5. rest \in SUBSET Declared
        /\ (r.trouble \/ \A b \in Attachments : att[b] = "stored" \/ b \in rest \/ b = a)
    BY <2>2, <2>3, <2>4
  <2>6. a \in Declared
    BY <1>0, <1>3
  <2>7. LET x == [Send(r, "upload") EXCEPT !.item = a, !.todo = rest]
        IN  x \in Submission /\ Sound(x)
    BY <1>0, <1>3, <2>2, <2>5, <2>6, SendSound DEF Reads, Confirmed
  <2> QED BY <2>4, <2>7
<1> QED BY <1>0, <1>1, <1>2, <1>3, NextUploadIs, ZenonT(30)

\* What has to hold of a submission that goes on at k.
Resumes(k, r) ==
    /\ Ready(r)
    /\ k \in Label \ {"none"}
    /\ k \in Confirmed => event.exists
    /\ k = "return" => r.trouble
    /\ ~r.trouble =>
          /\ k \in {"recover", "uploads"} =>
                \A a \in Attachments : /\ r.seen[a] # "pending"
                                       /\ r.seen[a] = "stored" => att[a] = "stored"
          /\ k = "uploads" /\ Inline \in Attachments => r.seen[Inline] = "stored"
          /\ k = "done" => r.status = "complete"

\* What the last answer says is missing is what there is to upload.
LEMMA StartUploadsSound ==
    ASSUME TypeOK, NEW r, Ready(r), event.exists,
           r.trouble \/ /\ \A a \in Attachments : /\ r.seen[a] # "pending"
                                                  /\ r.seen[a] = "stored" => att[a] = "stored"
                        /\ Inline \in Attachments => r.seen[Inline] = "stored"
    PROVE  StartUploads(r) \in Submission /\ Sound(StartUploads(r))
<1> DEFINE stranded == {a \in Declared : files[a] = "kept" /\ r.seen[a] = "pending"}
           todo == {a \in Declared : r.seen[a] \in {"awaiting_upload", "failed"}}
           x == [r EXCEPT !.seen = Unseen, !.todo = todo, !.blocked = stranded # {},
                          !.trouble = r.trouble \/ stranded # {}]
<1>1. r \in Submission /\ r.seen \in [Attachments -> AttachmentState]
  BY DEF Ready, Submission
<1>2. todo \subseteq Declared /\ todo \in SUBSET Attachments
      /\ (stranded # {}) \in BOOLEAN /\ (r.trouble \/ stranded # {}) \in BOOLEAN
  BY Nulls
<1>3. r.trouble \/ \A a \in Attachments : att[a] = "stored" \/ a \in todo
  BY <1>1 DEF Declared, AttachmentState
<1>4. r.trouble \/ stranded = {}
  BY Nulls
<1>5. StartUploads(r) = NextUpload(x)
  BY DEF StartUploads
<1> HIDE DEF stranded, todo
<1>6. /\ x \in Submission
      /\ x.todo = todo /\ x.stale = r.stale /\ x.status = r.status
      /\ x.blocked = (stranded # {}) /\ x.trouble = (r.trouble \/ stranded # {})
  <2>1. PICK b, t : b = (stranded # {}) /\ t = (r.trouble \/ stranded # {})
    OBVIOUS
  <2>2. b \in BOOLEAN /\ t \in BOOLEAN
    BY <1>2, <2>1
  <2>3. x = Replan(r, Unseen, todo, b, t)
    BY <2>1 DEF Replan
  <2> HIDE DEF x
  <2>4. /\ x \in Submission
        /\ x.todo = todo /\ x.stale = r.stale /\ x.status = r.status
        /\ x.blocked = b /\ x.trouble = t
    BY <1>1, <1>2, <2>2, <2>3, Nulls, Replanned
  <2> QED BY <2>1, <2>4
<1> HIDE DEF x
<1>7. Ready(x)
  BY <1>2, <1>6 DEF Ready
<1> QED BY <1>3, <1>4, <1>5, <1>6, <1>7, NextUploadSound

\* A submission is sound wherever it resumes.
LEMMA ContinueSound ==
    ASSUME TypeOK, NEW r, NEW k, Resumes(k, r)
    PROVE  Continue(k, r) \in Submission /\ Sound(Continue(k, r))
<1>0. /\ Ready(r) /\ r \in Submission
      /\ k \in {"rescue", "look", "post", "recover", "uploads", "done", "return"}
      /\ r.item \in Attachments \cup {Nobody} /\ r.todo \in SUBSET Declared
  BY DEF Resumes, Label, Ready, Submission
<1>1. ASSUME NEW pc \in {"rescue", "done"}, k = pc
      PROVE  LET x == [r EXCEPT !.pc = pc, !.then = "none"]
             IN  x \in Submission /\ Sound(x)
  <2> DEFINE x == [r EXCEPT !.pc = pc, !.then = "none"]
  <2>1. x \in Submission
    BY <1>0 DEF Submission, Label
  <2>2. /\ x.pc = pc /\ x.then = "none" /\ x.todo = r.todo /\ x.stale = r.stale
        /\ x.status = r.status /\ x.blocked = r.blocked /\ x.trouble = r.trouble
    BY <1>0 DEF Submission
  <2> HIDE DEF x
  <2>3. At(x) = pc
    BY <2>2 DEF At
  <2>4. ~x.trouble => Undisturbed(x) /\ Achieved(x)
    BY <1>1, <2>2, <2>3 DEF Undisturbed, Achieved, Resumes, Ready
  <2> QED BY <1>1, <2>1, <2>2, <2>3, <2>4 DEF Sound, Resumes, Ready, Writes, x
<1>2. ASSUME NEW q \in {"lookup", "declare", "redeclare"}, q # "lookup" => ~r.stale,
             q = "redeclare" => event.exists
      PROVE  Send(r, q) \in Submission /\ Sound(Send(r, q))
  <2>1. q \in Reads \cup Writes /\ (q \in Writes => ~r.stale)
        /\ (q \in Confirmed => event.exists) /\ q \notin {"reread", "finalize", "upload"}
    BY <1>2 DEF Reads, Writes, Confirmed
  <2>2. LET x == [Send(r, q) EXCEPT !.item = r.item, !.todo = r.todo]
        IN  x \in Submission /\ Sound(x)
    BY <1>0, <2>1, SendSound
  <2> QED BY <1>0, <2>2, PlainSend
<1>3. CASE k = "rescue" \/ k = "done"
  BY <1>1, <1>3 DEF Continue
<1>4. CASE k = "look"
  BY <1>2, <1>4 DEF Continue
<1>5. CASE k = "post"
  BY <1>2, <1>5, NoRunSound DEF Continue
<1>6. CASE k = "recover"
  <2>1. event.exists
    BY <1>6 DEF Resumes, Confirmed
  <2>2. CASE r.stale
    BY <1>6, <2>2, NoRunSound DEF Continue
  <2>3. CASE ~r.stale /\ InlineNeedsRecovery(r)
    BY <1>2, <1>6, <2>1, <2>3 DEF Continue
  <2>4. CASE ~r.stale /\ ~InlineNeedsRecovery(r)
    <3>1. r.seen \in [Attachments -> AttachmentState]
      BY <1>0 DEF Submission
    <3>2. r.trouble \/ (Inline \in Attachments => r.seen[Inline] = "stored")
      BY <1>6, <2>4, <3>1 DEF Resumes, InlineNeedsRecovery, AttachmentState
    <3> QED BY <1>0, <1>6, <2>1, <2>4, <3>2, StartUploadsSound DEF Continue, Resumes
  <2> QED BY <2>2, <2>3, <2>4
<1>7. CASE k = "uploads"
  <2>1. event.exists
    BY <1>7 DEF Resumes, Confirmed
  <2> QED BY <1>0, <1>7, <2>1, NoRunSound, StartUploadsSound DEF Continue, Resumes
<1>8. CASE k = "return"
  BY <1>8, NoRunSound DEF Continue
<1> QED BY <1>0, <1>3, <1>4, <1>5, <1>6, <1>7, <1>8

\* A write to the phone, or none for an account that is gone.
LEMMA PatchSound ==
    ASSUME TypeOK, NEW d, NEW r, NEW k, Resumes(k, r), Patch(d, r, k)
    PROVE  run' \in Submission /\ Sound(run')
<1>1. CASE r.stale
  BY <1>1, ContinueSound DEF Patch
<1>2. CASE ~r.stale
  <2> DEFINE x == [r EXCEPT !.pc = "flush", !.then = k]
  <2>0. r \in Submission /\ k \in Label \ {"none"}
    BY DEF Resumes, Ready
  <2>1. x \in Submission
    BY <2>0 DEF Submission, Label
  <2>2. /\ x.pc = "flush" /\ x.then = k /\ x.todo = r.todo /\ x.stale = r.stale
        /\ x.status = r.status /\ x.blocked = r.blocked /\ x.trouble = r.trouble
        /\ x.seen = r.seen
    BY <2>0 DEF Submission
  <2>3. run' = x
    BY <1>2 DEF Patch
  <2> HIDE DEF x
  <2>4. At(x) = k
    BY <2>2 DEF At
  <2>5. ~x.trouble => Undisturbed(x) /\ Achieved(x)
    BY <2>0, <2>2, <2>4 DEF Undisturbed, Achieved, Resumes, Ready, Label
  <2>6. Sound(x)
    BY <2>0, <2>2, <2>4, <2>5 DEF Sound, Resumes, Ready, Writes
  <2> QED BY <2>1, <2>3, <2>6
<1> QED BY <1>1, <1>2

\* What went wrong stays known to the end of the submission.
LEMMA NextUploadTrouble ==
    ASSUME NEW x \in Submission, x.trouble
    PROVE  NextUpload(x).trouble \/ NextUpload(x).pc = "idle"
<1>1. ASSUME NEW q, NEW item, NEW todo
      PROVE  [Send(x, q) EXCEPT !.item = item, !.todo = todo].trouble
  BY DEF Send, Submission
<1>2. CASE NextUpload(x) = [Send(x, "reread") EXCEPT !.item = Nobody, !.todo = {}]
  BY <1>1, <1>2
<1>3. ASSUME NEW a, NEW todo,
             NextUpload(x) = [Send(x, "upload") EXCEPT !.item = a, !.todo = todo]
      PROVE  NextUpload(x).trouble
  BY <1>1, <1>3
<1>4. CASE NextUpload(x) = NoRun
  BY <1>4 DEF NoRun
<1> QED BY <1>2, <1>3, <1>4, NextUploadIs

\* A submission that knows of trouble knows of it wherever it resumes.
LEMMA TroubleStays ==
    ASSUME NEW r \in Submission, r.trouble, NEW k \in Label \ {"none"}
    PROVE  Continue(k, r).trouble \/ Continue(k, r).pc = "idle"
<1>0. k \in {"rescue", "look", "post", "recover", "uploads", "done", "return"}
      /\ NoRun.pc = "idle"
  BY DEF Label, NoRun
<1>1. StartUploads(r).trouble \/ StartUploads(r).pc = "idle"
  <2> DEFINE stranded == {a \in Declared : files[a] = "kept" /\ r.seen[a] = "pending"}
             todo == {a \in Declared : r.seen[a] \in {"awaiting_upload", "failed"}}
             x == [r EXCEPT !.seen = Unseen, !.todo = todo, !.blocked = stranded # {},
                            !.trouble = r.trouble \/ stranded # {}]
  <2>1. todo \in SUBSET Attachments /\ (stranded # {}) \in BOOLEAN
        /\ (r.trouble \/ stranded # {}) = TRUE
    BY Nulls
  <2>2. StartUploads(r) = NextUpload(x)
    BY DEF StartUploads
  <2> HIDE DEF stranded, todo
  <2>3. x \in Submission /\ x.trouble
    BY <2>1, Nulls DEF Submission
  <2> QED BY <2>2, <2>3, NextUploadTrouble
<1>2. ASSUME NEW q PROVE Send(r, q).trouble /\ [r EXCEPT !.pc = q, !.then = "none"].trouble
  BY DEF Send, Submission
<1> QED BY <1>0, <1>1, <1>2 DEF Continue

\* Changes that a submission in which nothing went wrong does not see.
LEMMA SoundFrame ==
    ASSUME Sound(run'), UNCHANGED <<user, event, att, trying, late, files>>
    PROVE  Sound(run)'
BY DEF Sound, Undisturbed, Achieved, At, Complete

\* Whatever happens elsewhere, a submission that knows of trouble is as sound.
LEMMA TroubledFrame ==
    ASSUME Sound(run'), run'.trouble \/ run'.pc = "idle", user' = user,
           event.exists => event'.exists, Complete => Complete'
    PROVE  Sound(run)'
BY DEF Sound, At

\* An active submission whose request is settled may go on.
LEMMA ReadyRun ==
    ASSUME IInv, run.pc # "idle", NEW r \in Submission,
           r.stale = run.stale, r.todo = run.todo, r.blocked = run.blocked,
           r.status = run.status \/ r.status = event.status,
           run.trouble => r.trouble, r.trouble \/ trying = {}
    PROVE  Ready(r)
BY DEF IInv, Sound, Undisturbed, Ready, Complete

\* A settled request changes nothing else of the submission.
LEMMA SettledIs ==
    ASSUME TypeOK
    PROVE  /\ Settled \in Submission /\ Failed \in Submission /\ Answer \in Submission
           /\ \A r \in {Settled, Failed, Answer} :
                 /\ r.stale = run.stale /\ r.todo = run.todo /\ r.blocked = run.blocked
                 /\ r.status = run.status
           /\ Settled.trouble = run.trouble /\ Failed.trouble /\ Answer.trouble = run.trouble
           /\ Answer.seen = att
<1>0. run \in Submission /\ att \in [Attachments -> AttachmentState]
  BY DEF TypeOK
<1>1. /\ Settled \in Submission
      /\ Settled.stale = run.stale /\ Settled.todo = run.todo /\ Settled.blocked = run.blocked
      /\ Settled.status = run.status /\ Settled.trouble = run.trouble
  BY <1>0 DEF Settled, Submission
<1>2. /\ Failed \in Submission
      /\ Failed.stale = run.stale /\ Failed.todo = run.todo /\ Failed.blocked = run.blocked
      /\ Failed.status = run.status /\ Failed.trouble
  BY <1>1 DEF Failed, Submission
<1>3. /\ Answer \in Submission
      /\ Answer.stale = run.stale /\ Answer.todo = run.todo /\ Answer.blocked = run.blocked
      /\ Answer.status = run.status /\ Answer.trouble = run.trouble /\ Answer.seen = att
  BY <1>0, <1>1 DEF Answer, Submission
<1> QED BY <1>1, <1>2, <1>3

-----------------------------------------------------------------------------
(* A submission stays sound: its own steps. *)

\* What the invariant says of the types, at hand for the steps.
LEMMA Facts ==
    ASSUME IInv
    PROVE  /\ TypeOK /\ Sound(run) /\ run \in Submission /\ user \in Users \cup {Nobody}
           /\ att \in [Attachments -> AttachmentState] /\ trying \subseteq Attachments
           /\ event.status \in CaptureStatus /\ memory \in Draft
BY DEF IInv, TypeOK

\* A submission starts sound.
LEMMA StartSound ==
    ASSUME TypeOK, NEW r, Ready(r), Start(r)
    PROVE  run' \in Submission /\ Sound(run')
<1>1. Resumes("rescue", r)
  BY DEF Resumes, Label, Confirmed
<1> QED BY <1>1, NoRunSound, ContinueSound, PatchSound DEF Start

\* A tap makes a submission that may start; on a quiet phone and server, without trouble.
LEMMA TappedReady ==
    ASSUME IInv, CanTap, NEW pc \in {"saving", "rescue"}
    PROVE  Tapped(pc) \in Submission /\ Ready(Tapped(pc)) /\ Sound(Tapped(pc))
<1>1. Quiet \in BOOLEAN
  BY DEF Quiet
<1> DEFINE x == Tapped(pc)
<1>2. /\ x \in Submission
      /\ x.pc = pc /\ x.then = "none" /\ x.call = "none" /\ x.todo = {}
      /\ x.status = "pending_upload" /\ ~x.blocked /\ ~x.stale /\ x.trouble = ~Quiet
  BY <1>1, Nulls DEF Tapped, NoRun, Submission
<1> HIDE DEF x
<1>3. Ready(x)
  BY <1>2 DEF Ready, Quiet, CanTap
<1>4. At(x) = pc
  BY <1>2 DEF At
<1>5. ~x.trouble => Undisturbed(x) /\ Achieved(x)
  BY <1>2, <1>3, <1>4 DEF Ready, Undisturbed, Achieved
<1>6. Sound(x)
  BY <1>2, <1>3, <1>4, <1>5 DEF Sound, Ready, Confirmed, Writes
<1> QED BY <1>2, <1>3, <1>6 DEF x

\* Save and Resume.
LEMMA TapsSound ==
    ASSUME IInv, Save \/ Resume
    PROVE  run' \in Submission /\ Sound(run)'
<1>1. CASE Save
  <2>1. CanTap /\ run' = Tapped("saving")
        /\ UNCHANGED <<user, event, att, trying, late, files>>
    BY <1>1 DEF Save, server
  <2> QED BY <2>1, TappedReady, SoundFrame
<1>2. CASE Resume
  <2>1. CanTap /\ Start(Tapped("rescue"))
        /\ UNCHANGED <<user, event, att, trying, late, files>>
    BY <1>2 DEF Resume, server, ui
  <2> QED BY <2>1, Facts, TappedReady, StartSound, SoundFrame
<1> QED BY <1>1, <1>2

\* The writes to the phone.
LEMMA WritesSound ==
    ASSUME IInv, SaveWritten \/ SaveFailed \/ Flushed \/ FlushFails \/ RescueFiles
    PROVE  run' \in Submission /\ Sound(run)'
<1>1. CASE SaveWritten
  <2>1. /\ run.pc = "saving" /\ Start(run)
        /\ UNCHANGED <<user, event, att, trying, late, files>>
    BY <1>1 DEF SaveWritten, server
  <2>2. run.trouble \/ trying = {}
    BY <2>1, Facts DEF Sound, Undisturbed
  <2>3. Ready(run)
    BY <2>1, <2>2, Facts, ReadyRun
  <2> QED BY <2>1, <2>3, Facts, StartSound, SoundFrame
<1>2. CASE SaveFailed \/ FlushFails
  <2>1. run' = NoRun /\ UNCHANGED <<user, event, att, trying, late, files>>
    BY <1>2 DEF SaveFailed, FlushFails, ui, server
  <2> QED BY <2>1, NoRunSound, SoundFrame
<1>3. CASE Flushed
  <2>1. /\ run.pc = "flush" /\ run' = Continue(run.then, run)
        /\ UNCHANGED <<user, event, att, trying, late, files>>
    BY <1>3 DEF Flushed, server, ui
  <2>2. run.trouble \/ trying = {}
    BY <2>1, Facts DEF Sound, Undisturbed
  <2>3. Ready(run)
    BY <2>1, <2>2, Facts, ReadyRun
  <2>4. run.then \in Label /\ At(run) = run.then
    BY <2>1, Facts DEF Submission, At
  <2>5. Resumes(run.then, run)
    BY <2>1, <2>3, <2>4, Facts DEF Resumes, Sound, Achieved
  <2> QED BY <2>1, <2>5, Facts, ContinueSound, SoundFrame
<1>4. CASE RescueFiles
  <2>1. PICK kept \in SUBSET {a \in Declared : files[a] = "cached"} :
          /\ files' = [a \in Declared |->
                         IF a \in kept /\ ~run.stale THEN "kept" ELSE files[a]]
          /\ LET r == [run EXCEPT !.trouble = run.trouble \/
                          \E a \in Declared \ kept : files[a] # "kept"]
             IN  IF kept = {}
                 THEN run' = Continue("look", r) /\ UNCHANGED memory
                 ELSE Patch([memory EXCEPT !.held = @ \cup kept], r, "look")
    BY <1>4 DEF RescueFiles
  <2> DEFINE trouble == run.trouble \/ \E a \in Declared \ kept : files[a] # "kept"
             r == [run EXCEPT !.trouble = trouble]
  <2>2. run.pc = "rescue" /\ UNCHANGED <<user, event, att, trying, late>>
    BY <1>4 DEF RescueFiles, server, ui
  <2>3. trouble \in BOOLEAN
    BY Facts DEF Submission
  <2>4. run.trouble \/ files' = files
    <3>1. run.trouble \/ kept = {}
      BY <2>2, Facts DEF Sound, Undisturbed
    <3>2. files \in [Declared -> {"kept", "cached", "reclaimed", "released"}]
      BY Facts DEF TypeOK
    <3>3. kept = {} => files' = files
      BY <2>1, <3>2
    <3> QED BY <3>1, <3>3
  <2>5. run' = Continue("look", r) \/ \E d : Patch(d, r, "look")
    BY <2>1
  <2>6. run.trouble => trouble
    OBVIOUS
  <2> HIDE DEF trouble
  <2>7. /\ r \in Submission /\ r.stale = run.stale /\ r.todo = run.todo
        /\ r.blocked = run.blocked /\ r.status = run.status /\ r.trouble = trouble
    BY <2>3, Facts DEF Submission
  <2> HIDE DEF r
  <2>8. r.trouble \/ trying = {}
    BY <2>2, <2>6, <2>7, Facts DEF Sound, Undisturbed
  <2>9. Ready(r)
    BY <2>2, <2>6, <2>7, <2>8, Facts, ReadyRun
  <2>10. Resumes("look", r)
    BY <2>9 DEF Resumes, Label, Confirmed
  <2>11. run' \in Submission /\ Sound(run')
    BY <2>5, <2>10, Facts, ContinueSound, PatchSound
  <2>12. CASE files' = files
    BY <2>2, <2>11, <2>12, SoundFrame
  <2>13. CASE run.trouble
    <3>1. run'.trouble \/ run'.pc = "idle"
      <4>1. Continue("look", r).trouble \/ Continue("look", r).pc = "idle"
        BY <2>6, <2>7, <2>13, TroubleStays DEF Label
      <4>2. [r EXCEPT !.pc = "flush", !.then = "look"].trouble
        BY <2>6, <2>7, <2>13 DEF Submission
      <4> QED BY <2>5, <4>1, <4>2 DEF Patch
    <3>2. event'.exists = event.exists /\ (Complete' <=> Complete)
      BY <2>2 DEF Complete
    <3> QED BY <2>2, <2>11, <3>1, <3>2, TroubledFrame
  <2> QED BY <2>4, <2>12, <2>13
<1> QED BY <1>1, <1>2, <1>3, <1>4

\* Reading the event, and declaring.
LEMMA ReadsSound ==
    ASSUME IInv, LookupAnswered \/ ReadRefused \/ RereadAnswered
    PROVE  run' \in Submission /\ Sound(run)'
<1>1. CASE ReadRefused
  BY <1>1, NoRunSound, SoundFrame DEF ReadRefused, ui, server
<1>2. CASE LookupAnswered
  <2>1. run.pc = "lookup" /\ UNCHANGED <<user, event, att, trying, late, files>>
    BY <1>2 DEF LookupAnswered, server, ui
  <2>2. run.trouble \/ trying = {}
    BY <2>1, Facts DEF Sound, Undisturbed
  <2>3. Ready(Settled) /\ Ready(Answer)
    BY <2>1, <2>2, Facts, SettledIs, ReadyRun
  <2>4. CASE run.stale
    BY <1>2, <2>1, <2>4, NoRunSound, SoundFrame DEF LookupAnswered
  <2>5. CASE ~run.stale /\ event.exists /\ run.by = Author
    <3>1. Patch(Remembered, Answer, "recover")
      BY <1>2, <2>5 DEF LookupAnswered
    <3>2. Resumes("recover", Answer)
      BY <2>3, <2>5, Facts, SettledIs DEF Resumes, Label, Ready
    <3> QED BY <2>1, <3>1, <3>2, Facts, PatchSound, SoundFrame
  <2>6. CASE ~run.stale /\ ~(event.exists /\ run.by = Author)
    <3>1. Patch(Doubted, Settled, "post")
      BY <1>2, <2>6 DEF LookupAnswered
    <3>2. Resumes("post", Settled)
      BY <2>3 DEF Resumes, Label, Confirmed
    <3> QED BY <2>1, <3>1, <3>2, Facts, PatchSound, SoundFrame
  <2> QED BY <2>4, <2>5, <2>6
<1>3. CASE RereadAnswered
  <2> DEFINE r == [Settled EXCEPT !.status = event.status]
             t == [r EXCEPT !.trouble = TRUE]
  <2>1. run.pc = "reread" /\ UNCHANGED <<user, event, att, trying, late, files>>
    BY <1>3 DEF RereadAnswered, server, ui
  <2>2. run.trouble \/ trying = {}
    BY <2>1, Facts DEF Sound, Undisturbed
  <2>3. /\ r \in Submission /\ r.stale = run.stale /\ r.todo = run.todo
        /\ r.blocked = run.blocked /\ r.status = event.status /\ r.trouble = run.trouble
        /\ t \in Submission /\ t.stale = run.stale /\ t.todo = run.todo
        /\ t.blocked = run.blocked /\ t.status = event.status /\ t.trouble
    BY Facts, SettledIs DEF Submission
  <2>4. \/ Patch(Remembered, t, "done")
        \/ run' = IF run.stale THEN NoRun ELSE Send(r, "finalize")
    BY <1>3 DEF RereadAnswered
  <2> HIDE DEF r, t
  <2>5. Ready(r) /\ Ready(t)
    BY <2>1, <2>2, <2>3, Facts, ReadyRun
  <2>6. event.exists
    BY <2>1, Facts DEF Sound, At, Confirmed
  <2>7. CASE Patch(Remembered, t, "done")
    <3>1. Resumes("done", t)
      BY <2>3, <2>5, <2>6 DEF Resumes, Label
    <3> QED BY <2>1, <2>7, <3>1, Facts, PatchSound, SoundFrame
  <2>8. CASE run.stale /\ run' = NoRun
    BY <2>1, <2>8, NoRunSound, SoundFrame
  <2>9. CASE ~run.stale /\ run' = Send(r, "finalize")
    <3>1. r.trouble \/ \A a \in Attachments : att[a] = "stored"
      BY <2>1, <2>3, Facts DEF Sound, Achieved, At
    <3>2. r.item \in Attachments \cup {Nobody} /\ r.todo \in SUBSET Declared
      BY <2>3, <2>5 DEF Submission, Ready
    <3>3. "finalize" \in Reads \cup Writes
      BY DEF Writes
    <3>4. LET x == [Send(r, "finalize") EXCEPT !.item = r.item, !.todo = r.todo]
          IN  x \in Submission /\ Sound(x)
      BY <2>3, <2>5, <2>6, <2>9, <3>1, <3>2, <3>3, Facts, SendSound
    <3> QED BY <2>1, <2>3, <2>9, <3>4, PlainSend, SoundFrame
  <2> QED BY <2>4, <2>7, <2>8, <2>9
<1> QED BY <1>1, <1>2, <1>3

\* A failure: whatever is under way by now, the submission knows of trouble.
LEMMA FailedPatchSound ==
    ASSUME IInv, run.pc # "idle", NEW d, NEW k \in {"uploads", "done", "return"},
           k # "return" => event.exists, Patch(d, Failed, k),
           UNCHANGED <<user, event>>
    PROVE  run' \in Submission /\ Sound(run)'
<1>1. Ready(Failed)
  BY Facts, SettledIs, ReadyRun
<1>2. Resumes(k, Failed)
  BY <1>1, SettledIs, Facts DEF Resumes, Label, Confirmed
<1>3. run' \in Submission /\ Sound(run')
  BY <1>2, Facts, PatchSound
<1>4. run'.trouble \/ run'.pc = "idle"
  <2>1. Failed \in Submission /\ Failed.trouble
    BY Facts, SettledIs
  <2>2. Continue(k, Failed).trouble \/ Continue(k, Failed).pc = "idle"
    BY <2>1, TroubleStays DEF Label
  <2>3. [Failed EXCEPT !.pc = "flush", !.then = k].trouble
    BY <2>1 DEF Submission
  <2> QED BY <2>2, <2>3 DEF Patch
<1>5. user' = user /\ event'.exists = event.exists /\ (Complete' <=> Complete)
  BY DEF Complete
<1> QED BY <1>3, <1>4, <1>5, TroubledFrame

\* A served request changes nothing else of the submission.
LEMMA ServedIs ==
    ASSUME TypeOK, run.pc # "flush"
    PROVE  /\ Served \in Submission /\ At(Served) = run.pc
           /\ Served = [run EXCEPT !.call = "served", !.by = Nobody]
           /\ Served.call = "served" /\ Served.pc = run.pc /\ Served.then = run.then
           /\ Served.item = run.item /\ Served.todo = run.todo /\ Served.stale = run.stale
           /\ Served.trouble = run.trouble /\ Served.blocked = run.blocked
           /\ Served.status = run.status /\ Served.seen = run.seen
<1>1. run \in Submission
  BY DEF TypeOK
<1> QED BY <1>1, Nulls DEF Served, Submission, At

\* What a declare is answered, or is not.
LEMMA DeclaresSound ==
    ASSUME IInv,
           \/ DeclareServed \/ DeclareAnswered \/ DeclareInlineFailed
           \/ DeclareRefused \/ DeclareUnanswered
    PROVE  run' \in Submission /\ Sound(run)'
<1>0. /\ run.pc \in {"declare", "redeclare"} /\ UNCHANGED <<user, files>>
      /\ At(run) = run.pc
  BY DEF DeclareServed, DeclareAnswered, DeclareInlineFailed, DeclareRefused,
         DeclareUnanswered, ui, At
<1>1. CASE DeclareServed
  <2>1. /\ run.call = "sent" /\ DeclareEffect(run.by) /\ run' = Served /\ late' = late
    BY <1>1 DEF DeclareServed
  <2>2. run.by = Author
    BY <1>0, <2>1, Facts DEF Sound, Writes
  <2>3. /\ event'.exists /\ event'.status = event.status
        /\ att' = att /\ trying' \subseteq trying \cup {Inline}
    <3>1. event \in [exists : BOOLEAN, status : CaptureStatus]
      BY Facts DEF TypeOK
    <3> QED BY <2>1, <2>2, <3>1 DEF DeclareEffect
  <2>4. run.trouble \/ (trying = {} /\ late = {} /\ (\A a \in Declared : files[a] = "kept")
                        /\ \A a \in Attachments : att[a] # "pending")
    BY <1>0, <2>1, Facts DEF Sound, Undisturbed
  <2>5. ~run'.trouble => Undisturbed(run)' /\ Achieved(run)'
    <3>1. At(run)' = run.pc
      BY <1>0, <2>1, Facts, ServedIs DEF At
    <3> QED BY <1>0, <2>1, <2>3, <2>4, <3>1, Facts, ServedIs DEF Undisturbed, Achieved
  <2>6. At(run)' = run.pc
    BY <1>0, <2>1, Facts, ServedIs DEF At
  <2>7. Complete => Complete'
    BY <2>3 DEF Complete
  <2>8. Sound(run)'
    BY <1>0, <2>1, <2>3, <2>5, <2>6, <2>7, Facts, ServedIs DEF Sound, Writes
  <2> QED BY <1>0, <2>1, <2>8, Facts, ServedIs
<1>2. CASE DeclareAnswered
  <2>1. /\ run.call = "served" /\ UNCHANGED <<event, att, trying, late>>
        /\ Inline \in Attachments => Inline \notin trying /\ att[Inline] \in {"stored", "pending"}
        /\ Patch(Remembered, Answer, IF run.pc = "declare" THEN "recover" ELSE "uploads")
    BY <1>2 DEF DeclareAnswered, server
  <2>2. run.trouble \/ trying = {}
    BY <1>0, <2>1, Facts DEF Sound, Undisturbed
  <2>3. Ready(Answer)
    BY <1>0, <2>2, Facts, SettledIs, ReadyRun
  <2>4. event.exists
    BY <1>0, <2>1, Facts DEF Sound, Confirmed
  <2>5. Resumes(IF run.pc = "declare" THEN "recover" ELSE "uploads", Answer)
    <3>1. ~Answer.trouble => \A a \in Attachments : att[a] # "pending"
      BY <2>3 DEF Ready
    <3> QED BY <2>1, <2>3, <2>4, <3>1, Facts, SettledIs DEF Resumes, Label
  <2> QED BY <1>0, <2>1, <2>5, Facts, PatchSound, SoundFrame
<1>3. CASE DeclareInlineFailed
  <2> DEFINE t == [Answer EXCEPT !.trouble = TRUE]
             k == IF run.pc = "declare" THEN "return" ELSE "uploads"
  <2>1. /\ run.call = "served" /\ UNCHANGED <<event, att, trying, late>> /\ Patch(Remembered, t, k)
    BY <1>3 DEF DeclareInlineFailed, server
  <2>2. /\ t \in Submission /\ t.stale = run.stale /\ t.todo = run.todo
        /\ t.blocked = run.blocked /\ t.status = run.status /\ t.trouble
    <3>1. Answer \in Submission
      BY Facts, SettledIs
    <3>2. t \in Submission /\ t.trouble /\ t.stale = Answer.stale /\ t.todo = Answer.todo
          /\ t.blocked = Answer.blocked /\ t.status = Answer.status
      BY <3>1 DEF Submission
    <3> QED BY <3>2, Facts, SettledIs
  <2> HIDE DEF t
  <2>3. Ready(t)
    BY <1>0, <2>2, Facts, ReadyRun
  <2>4. event.exists
    BY <1>0, <2>1, Facts DEF Sound, Confirmed
  <2>5. Resumes(k, t)
    BY <2>2, <2>3, <2>4 DEF Resumes, Label
  <2> HIDE DEF k
  <2> QED BY <1>0, <2>1, <2>5, Facts, PatchSound, SoundFrame
<1>4. CASE DeclareRefused
  <2>1. /\ UNCHANGED <<event>>
        /\ \/ Patch(Refuted, Failed, "return")
           \/ run.pc = "redeclare" /\ Patch(memory, Failed, "uploads")
    BY <1>0, <1>4 DEF DeclareRefused, server
  <2>2. run.pc = "redeclare" => event.exists
    BY <1>0, Facts DEF Sound, Confirmed
  <2> QED BY <1>0, <2>1, <2>2, FailedPatchSound
<1>5. CASE DeclareUnanswered
  <2>1. event' = event /\ (run' = NoRun \/ Patch(Doubted, Failed, "return"))
    BY <1>5 DEF DeclareUnanswered, server
  <2>2. CASE run' = NoRun
    <3>1. NoRun.pc = "idle" /\ (Complete' <=> Complete)
      BY <2>1 DEF NoRun, Complete
    <3> QED BY <1>0, <2>1, <2>2, <3>1, NoRunSound, TroubledFrame
  <2> QED BY <1>0, <2>1, <2>2, FailedPatchSound
<1> QED BY <1>1, <1>2, <1>3, <1>4, <1>5

\* What an upload is answered, or is not.
LEMMA UploadsSound ==
    ASSUME IInv, UploadServed \/ UploadAnswered \/ UploadRefused
    PROVE  run' \in Submission /\ Sound(run)'
<1>0. run.pc = "upload" /\ event.exists /\ At(run) = "upload" /\ UNCHANGED <<user, files>>
  <2>1. run.pc = "upload" /\ UNCHANGED <<user, files>>
    BY DEF UploadServed, UploadAnswered, UploadRefused, ui
  <2> QED BY <2>1, Facts DEF Sound, At, Confirmed
<1>1. CASE UploadServed
  <2>1. /\ run.call = "sent" /\ UploadEffect(run.item, run.by) /\ run' = Served /\ late' = late
    BY <1>1 DEF UploadServed
  <2>2. UNCHANGED <<event, att>> /\ trying' \subseteq trying \cup {run.item}
    BY <2>1 DEF UploadEffect
  <2>3. At(run)' = "upload"
    BY <1>0, <2>1, Facts, ServedIs DEF At
  <2>4. ~run'.trouble => Undisturbed(run)' /\ Achieved(run)'
    BY <1>0, <2>1, <2>2, <2>3, Facts, ServedIs DEF Sound, Undisturbed, Achieved
  <2>5. Complete <=> Complete'
    BY <2>2 DEF Complete
  <2>6. Sound(run)'
    BY <1>0, <2>1, <2>2, <2>3, <2>4, <2>5, Facts, ServedIs DEF Sound, Writes
  <2> QED BY <1>0, <2>1, <2>6, Facts, ServedIs
<1>2. CASE UploadAnswered
  <2> DEFINE r == IF att[run.item] = "stored" THEN Settled ELSE Failed
  <2>1. /\ run.call = "served" /\ run.item \notin trying /\ run' = NextUpload(r)
        /\ UNCHANGED <<event, att, trying, late>>
    BY <1>2 DEF UploadAnswered, server
  <2>2. run.trouble \/ trying = {}
    BY <1>0, <2>1, Facts DEF Sound, Undisturbed
  <2>3. /\ Ready(Settled) /\ Ready(Failed)
    BY <1>0, <2>2, Facts, SettledIs, ReadyRun
  <2>4. r.trouble \/ \A a \in Attachments : att[a] = "stored" \/ a \in r.todo
    BY <1>0, Facts, SettledIs DEF Sound, Achieved
  <2>5. Ready(r)
    BY <2>3
  <2> HIDE DEF r
  <2>6. run' \in Submission /\ Sound(run')
    BY <1>0, <2>1, <2>4, <2>5, Facts, NextUploadSound
  <2> QED BY <1>0, <2>1, <2>6, SoundFrame
<1>3. CASE UploadRefused
  <2>1. run' = NextUpload(Failed) /\ UNCHANGED event
    BY <1>3 DEF UploadRefused, server
  <2>2. Ready(Failed) /\ Failed \in Submission /\ Failed.trouble
    BY <1>0, Facts, SettledIs, ReadyRun
  <2>3. run' \in Submission /\ Sound(run')
    BY <1>0, <2>1, <2>2, Facts, NextUploadSound
  <2>4. run'.trouble \/ run'.pc = "idle"
    BY <2>1, <2>2, NextUploadTrouble
  <2>5. event'.exists = event.exists /\ (Complete' <=> Complete)
    BY <2>1 DEF Complete
  <2> QED BY <1>0, <2>3, <2>4, <2>5, TroubledFrame
<1> QED BY <1>1, <1>2, <1>3

\* What a finalize is answered, any request that is not, and the end.
LEMMA FinalizesSound ==
    ASSUME IInv, FinalizeServed \/ FinalizeAnswered \/ FinalizeRefused \/ Unanswered \/ Done
    PROVE  run' \in Submission /\ Sound(run)'
<1>0. UNCHANGED <<user, files>>
  BY DEF FinalizeServed, FinalizeAnswered, FinalizeRefused, Unanswered, Done, ui
<1>1. CASE FinalizeServed
  <2>1. /\ run.pc = "finalize" /\ run.call = "sent" /\ FinalizeEffect(run.by) /\ NonePending
        /\ run' = Served /\ late' = late
    BY <1>1 DEF FinalizeServed
  <2>2. run.by = Author /\ event.exists /\ At(run) = "finalize"
    BY <2>1, Facts DEF Sound, Writes, At, Confirmed
  <2>3. /\ UNCHANGED <<att, trying>> /\ event'.exists
        /\ Complete => Complete'
        /\ (\A a \in Attachments : att[a] = "stored") => Complete'
    <3>1. event \in [exists : BOOLEAN, status : CaptureStatus]
      BY Facts DEF TypeOK
    <3> QED BY <2>1, <2>2, <3>1 DEF FinalizeEffect, FinalizeTarget, Complete
  <2>4. At(run)' = "finalize"
    BY <2>1, Facts, ServedIs DEF At
  <2>5. ~run'.trouble => Undisturbed(run)' /\ Achieved(run)'
    BY <1>0, <2>1, <2>2, <2>3, <2>4, Facts, ServedIs DEF Sound, Undisturbed, Achieved
  <2>6. Sound(run)'
    BY <1>0, <2>1, <2>2, <2>3, <2>4, <2>5, Facts, ServedIs DEF Sound, Writes
  <2> QED BY <2>1, <2>6, Facts, ServedIs
<1>2. CASE FinalizeAnswered
  <2> DEFINE r == [Settled EXCEPT !.status = event.status]
  <2>1. /\ run.pc = "finalize" /\ run.call = "served"
        /\ Patch(Remembered, r, "done")
        /\ UNCHANGED <<event, att, trying, late>>
    BY <1>2 DEF FinalizeAnswered, server
  <2>2. run.trouble \/ trying = {}
    BY <2>1, Facts DEF Sound, Undisturbed
  <2>3. /\ r \in Submission /\ r.stale = run.stale /\ r.todo = run.todo
        /\ r.blocked = run.blocked /\ r.status = event.status /\ r.trouble = run.trouble
    BY Facts, SettledIs DEF Submission
  <2> HIDE DEF r
  <2>4. Ready(r)
    BY <2>1, <2>2, <2>3, Facts, ReadyRun
  <2>5. event.exists /\ (run.trouble \/ Complete)
    BY <2>1, Facts DEF Sound, At, Confirmed, Achieved
  <2>6. Resumes("done", r)
    BY <2>3, <2>4, <2>5 DEF Resumes, Label, Complete
  <2> QED BY <1>0, <2>1, <2>6, Facts, PatchSound, SoundFrame
<1>3. CASE FinalizeRefused
  <2>1. run.pc = "finalize" /\ Patch(Remembered, Failed, "done") /\ event' = event
    BY <1>3 DEF FinalizeRefused, server
  <2>2. event.exists
    BY <2>1, Facts DEF Sound, At, Confirmed
  <2> QED BY <1>0, <2>1, <2>2, FailedPatchSound
<1>4. CASE Unanswered
  <2>1. run.pc # "idle" /\ Patch(Doubted, Failed, "return") /\ event' = event
    BY <1>4 DEF Unanswered, server, Reads, Writes
  <2> QED BY <1>0, <2>1, FailedPatchSound
<1>5. CASE Done
  BY <1>5, NoRunSound, SoundFrame DEF Done, ui, server
<1> QED BY <1>1, <1>2, <1>3, <1>4, <1>5

-----------------------------------------------------------------------------
(* A submission stays sound: what happens around it. *)

\* On this phone: what does not touch a submission, or ends it.
LEMMA PhoneSound ==
    ASSUME IInv,
           \/ RemovalWritten \/ RemovalFails \/ Persist \/ LeaveScreen
           \/ DiscardAsked \/ DiscardConfirmed \/ DialogDismissed
           \/ Logout \/ Wipe \/ AppDies \/ \E a \in Declared : CacheReclaimed(a)
    PROVE  run' \in Submission /\ Sound(run)'
<1>1. CASE run' = NoRun
  BY <1>1, Nulls DEF NoRun, Sound, At, Confirmed, Writes
<1>2. ASSUME run' = run, UNCHANGED <<user, event, att, trying, late>>,
             files' = files \/ run.pc = "idle" \/ run.trouble
      PROVE  run' \in Submission /\ Sound(run)'
  BY <1>2, Facts DEF Sound, Undisturbed, Achieved, At, Complete
<1>3. ASSUME run' = Troubled(run), UNCHANGED <<user, event>>
      PROVE  run' \in Submission /\ Sound(run)'
  <2>1. /\ run' \in Submission /\ run'.trouble = (run.trouble \/ run.pc # "idle")
        /\ run' = [run EXCEPT !.trouble = run.trouble \/ run.pc # "idle"]
        /\ At(run') = At(run)
    BY <1>3, Facts DEF Troubled, Submission, At
  <2>2. Sound(run)'
    BY <1>3, <2>1, Facts DEF Sound, Submission, At, Complete
  <2> QED BY <2>1, <2>2
<1>4. CASE RemovalWritten
  BY <1>2, <1>4 DEF RemovalWritten, ui, server, IInv, Going
<1>5. CASE RemovalFails \/ Persist
  BY <1>2, <1>5 DEF RemovalFails, Persist, ui, server
<1>6. CASE LeaveScreen
  BY <1>2, <1>6 DEF LeaveScreen, server, IInv, Unsaved
<1>7. CASE DiscardAsked \/ DiscardConfirmed \/ DialogDismissed \/ Logout
  BY <1>2, <1>7 DEF DiscardAsked, DiscardConfirmed, DialogDismissed, Logout, server
<1>8. CASE Wipe
  BY <1>2, <1>3, <1>8 DEF Wipe, server
<1>9. CASE AppDies
  BY <1>1, <1>9 DEF AppDies
<1>10. CASE \E a \in Declared : CacheReclaimed(a)
  BY <1>3, <1>10 DEF CacheReclaimed, ui, server
<1> QED BY <1>4, <1>5, <1>6, <1>7, <1>8, <1>9, <1>10

\* Sessions: whatever runs is stale from here on.
LEMMA SessionsSound ==
    ASSUME IInv, NEW u, NewSession(u), UNCHANGED <<event, att, trying, late>>
    PROVE  run' \in Submission /\ Sound(run)'
<1>1. run' = [run EXCEPT !.stale = run.stale \/ run.pc # "idle"]
      /\ (files' = files \/ run.pc = "idle")
  BY DEF NewSession, Outdated, IInv, Unsaved
<1>2. /\ run' \in Submission /\ run'.stale = (run.stale \/ run.pc # "idle")
      /\ run'.pc = run.pc /\ run'.then = run.then /\ run'.call = run.call /\ run'.by = run.by
      /\ run'.item = run.item /\ run'.todo = run.todo /\ run'.seen = run.seen
      /\ run'.trouble = run.trouble /\ run'.blocked = run.blocked /\ run'.status = run.status
  BY <1>1, Facts DEF Submission
<1>3. At(run)' = At(run) /\ (Complete' <=> Complete)
  BY <1>2 DEF At, Complete
<1>4. CASE run.pc = "idle"
  BY <1>2, <1>3, <1>4, Facts DEF Sound, At, Writes
<1>5. CASE run.pc # "idle"
  <2>1. files' = files
    BY <1>1, <1>5
  <2>2. ~run.trouble => Undisturbed(run)' /\ Achieved(run)'
    BY <1>2, <1>3, <1>5, <2>1, Facts DEF Sound, Undisturbed, Achieved
  <2> QED BY <1>2, <1>3, <1>5, <2>2, Facts DEF Sound
<1> QED BY <1>2, <1>4, <1>5

\* At the server, with nobody waiting.
LEMMA ServerSound ==
    ASSUME IInv,
           \/ \E m \in late : ServeLate(m)
           \/ \E a \in Attachments :
                 AttemptBegins(a) \/ AttemptSettles(a) \/ AttemptDies(a) \/ Reset(a)
    PROVE  run' \in Submission /\ Sound(run)'
<1>0. event \in [exists : BOOLEAN, status : CaptureStatus]
  BY Facts DEF TypeOK
<1>1. ASSUME run' = Troubled(run), user' = user, event' = event
      PROVE  run' \in Submission /\ Sound(run)'
  <2>1. /\ run' \in Submission /\ run'.trouble = (run.trouble \/ run.pc # "idle")
        /\ run' = [run EXCEPT !.trouble = run.trouble \/ run.pc # "idle"]
        /\ At(run') = At(run)
    BY <1>1, Facts DEF Troubled, Submission, At
  <2> QED BY <1>1, <2>1, Facts DEF Sound, Submission, At, Complete
<1>2. CASE \E m \in late : ServeLate(m)
  <2>1. PICK m \in late : ServeLate(m)
    BY <1>2
  <2>2. UNCHANGED <<run, user>> /\ (event.exists => event'.exists) /\ (Complete => Complete')
    BY <1>0, <2>1 DEF ServeLate, ui, DeclareEffect, UploadEffect, FinalizeEffect, server,
          Complete
  <2>3. run.trouble \/ run.pc = "idle"
    BY <2>1, Facts DEF Sound, Undisturbed
  <2> QED BY <2>2, <2>3, Facts DEF Sound, At
<1>3. ASSUME NEW a \in Attachments, AttemptBegins(a)
      PROVE  run' \in Submission /\ Sound(run)'
  <2>1. /\ a \in trying /\ att[a] # "stored" /\ att' = [att EXCEPT ![a] = "pending"]
        /\ UNCHANGED <<run, user, event, trying, late, files>>
    BY <1>3 DEF AttemptBegins, ui
  <2>2. run.pc # "idle" /\ ~run.trouble => Undisturbed(run)' /\ Achieved(run)'
    BY <2>1, Facts DEF Sound, Undisturbed, Achieved, At, Complete
  <2> QED BY <2>1, <2>2, Facts DEF Sound, At, Complete
<1>4. ASSUME NEW a \in Attachments, AttemptSettles(a)
      PROVE  run' \in Submission /\ Sound(run)'
  <2>1. CASE run' = Troubled(run) /\ event' = event
    BY <1>1, <1>4, <2>1 DEF AttemptSettles, ui
  <2>2. CASE /\ att' = [att EXCEPT ![a] = "stored"] /\ run' = run
             /\ event' = IF Declared = {} THEN [event EXCEPT !.status = "complete"] ELSE event
    <3>1. trying' = trying \ {a} /\ UNCHANGED <<user, late, files>>
      BY <1>4 DEF AttemptSettles, ui
    <3>2. event'.exists = event.exists /\ (Complete => Complete')
      BY <1>0, <2>2 DEF Complete
    <3>3. run.pc # "idle" /\ ~run.trouble => Undisturbed(run)' /\ Achieved(run)'
      BY <2>2, <3>1, <3>2, Facts DEF Sound, Undisturbed, Achieved, At
    <3> QED BY <2>2, <3>1, <3>2, <3>3, Facts DEF Sound, At
  <2> QED BY <1>4, <2>1, <2>2 DEF AttemptSettles
<1>5. CASE \E a \in Attachments : AttemptDies(a) \/ Reset(a)
  BY <1>1, <1>5 DEF AttemptDies, Reset, ui
<1> QED BY <1>2, <1>3, <1>4, <1>5

\* A submission stays sound whoever takes the step.
LEMMA SubmissionStep ==
    ASSUME IInv, [Next]_vars
    PROVE  run' \in Submission /\ Sound(run)'
<1>1. CASE RunStep
  BY <1>1, WritesSound, ReadsSound, DeclaresSound, UploadsSound, FinalizesSound DEF RunStep
<1>2. CASE LogoutPosted \/ SessionEnds \/ \E u \in Users : SignIn(u)
  BY <1>2, SessionsSound DEF LogoutPosted, SessionEnds, SignIn, server
<1>3. CASE UNCHANGED vars
  <2>1. run' = run /\ UNCHANGED <<user, event, att, trying, late, files>>
    BY <1>3 DEF vars, ui, server
  <2> QED BY <2>1, Facts, SoundFrame
<1> QED BY <1>1, <1>2, <1>3, TapsSound, PhoneSound, ServerSound DEF Next

-----------------------------------------------------------------------------
(* Types. *)

\* The draft after a write of the submission.
LEMMA PatchMoves ==
    ASSUME NEW d, NEW r \in Submission, NEW k \in Label \ {"none"}, Patch(d, r, k)
    PROVE  /\ memory' = memory \/ (memory.present /\ memory' = d)
           /\ memory' # memory => run'.pc = "flush" /\ run'.then = k
           /\ \/ run' = Continue(k, r) /\ memory' = memory /\ r.stale
              \/ run' = [r EXCEPT !.pc = "flush", !.then = k] /\ ~r.stale
                 /\ run'.pc = "flush" /\ run'.then = k
                 /\ memory' = IF memory.present THEN d ELSE memory
<1>1. [r EXCEPT !.pc = "flush", !.then = k].pc = "flush"
      /\ [r EXCEPT !.pc = "flush", !.then = k].then = k
  BY DEF Submission
<1> QED BY <1>1 DEF Patch

\* The drafts a submission writes: what it learned, and where it kept its files.
Patches ==
    {[memory EXCEPT !.declaration = TRUE], memory, Doubted, Remembered}
    \cup {[memory EXCEPT !.held = @ \cup kept] :
             kept \in SUBSET {a \in Declared : files'[a] = "kept"}}

\* A patch of a submission takes nothing away from what the draft says.
LEMMA PatchesAre ==
    ASSUME memory \in Draft
    PROVE  /\ Patches \subseteq Draft
           /\ \A d \in Patches :
                 /\ d.present = memory.present
                 /\ memory.declaration => d.declaration
                 /\ memory.server \/ memory.unconfirmed => d.server \/ d.unconfirmed
                 /\ \A a \in d.held : a \in memory.held \/ files'[a] = "kept"
           /\ Refuted.held = memory.held
           /\ Refuted \in Draft /\ Refuted.present = memory.present
           /\ Refuted.declaration = memory.declaration /\ Refuted.server = memory.server
           /\ Doubted.unconfirmed /\ Remembered.server
           /\ [memory EXCEPT !.declaration = TRUE].declaration
<1>1. ASSUME NEW d \in {[memory EXCEPT !.declaration = TRUE], memory, Doubted, Remembered}
      PROVE  /\ d \in Draft /\ d.present = memory.present /\ d.held = memory.held
             /\ memory.declaration => d.declaration
             /\ memory.server \/ memory.unconfirmed => d.server \/ d.unconfirmed
  BY <1>1 DEF Draft, Doubted, Remembered
<1>2. ASSUME NEW kept \in SUBSET {a \in Declared : files'[a] = "kept"},
             NEW d, d = [memory EXCEPT !.held = @ \cup kept]
      PROVE  /\ d \in Draft /\ d.present = memory.present /\ d.held = memory.held \cup kept
             /\ memory.declaration => d.declaration
             /\ memory.server \/ memory.unconfirmed => d.server \/ d.unconfirmed
  BY <1>2 DEF Draft
<1>3. ASSUME NEW d \in Patches
      PROVE  /\ d \in Draft /\ d.present = memory.present
             /\ memory.declaration => d.declaration
             /\ memory.server \/ memory.unconfirmed => d.server \/ d.unconfirmed
             /\ \A a \in d.held : a \in memory.held \/ files'[a] = "kept"
  <2>1. CASE d \in {[memory EXCEPT !.declaration = TRUE], memory, Doubted, Remembered}
    BY <1>1, <2>1
  <2>2. CASE \E kept \in SUBSET {a \in Declared : files'[a] = "kept"} :
                d = [memory EXCEPT !.held = @ \cup kept]
    <3>1. PICK kept \in SUBSET {a \in Declared : files'[a] = "kept"} :
                d = [memory EXCEPT !.held = @ \cup kept]
      BY <2>2
    <3> QED BY <1>2, <3>1
  <2> QED BY <2>1, <2>2 DEF Patches
<1>4. /\ Refuted \in Draft /\ Refuted.present = memory.present /\ Refuted.held = memory.held
      /\ Refuted.declaration = memory.declaration /\ Refuted.server = memory.server
      /\ Doubted.unconfirmed /\ Remembered.server
      /\ [memory EXCEPT !.declaration = TRUE].declaration
  BY DEF Draft, Doubted, Refuted, Remembered
<1> QED BY <1>3, <1>4

\* What a step of the submission makes of the draft.
LEMMA RunStepDraft ==
    ASSUME IInv, RunStep
    PROVE  \/ memory' = memory
           \/ memory.present /\ memory' \in Patches
           \/ memory.present /\ memory' = Refuted /\ DeclareRefused
           \/ (SaveFailed \/ Done) /\ memory' = Gone
<1>0. run \in Submission /\ Settled \in Submission /\ Failed \in Submission /\ Answer \in Submission
  BY Facts, SettledIs
<1>1. ASSUME NEW d \in Patches, NEW r, NEW k, Patch(d, r, k)
      PROVE  memory' = memory \/ (memory.present /\ memory' \in Patches)
  BY <1>1 DEF Patch
<1>2. ASSUME NEW r, Start(r)
      PROVE  memory' = memory \/ (memory.present /\ memory' \in Patches)
  BY <1>1, <1>2 DEF Start, Patches
<1>3. CASE SaveWritten \/ SaveFailed \/ Flushed \/ FlushFails
  BY <1>1, <1>2, <1>3 DEF SaveWritten, SaveFailed, Flushed, FlushFails, Patches, draft
<1>10. CASE RescueFiles
  <2>1. PICK kept \in SUBSET {a \in Declared : files[a] = "cached"} :
          /\ files' = [a \in Declared |->
                         IF a \in kept /\ ~run.stale THEN "kept" ELSE files[a]]
          /\ LET r == [run EXCEPT !.trouble = run.trouble \/
                          \E a \in Declared \ kept : files[a] # "kept"]
             IN  IF kept = {}
                 THEN run' = Continue("look", r) /\ UNCHANGED memory
                 ELSE Patch([memory EXCEPT !.held = @ \cup kept], r, "look")
    BY <1>10 DEF RescueFiles
  <2> DEFINE r == [run EXCEPT !.trouble = run.trouble \/
                      \E a \in Declared \ kept : files[a] # "kept"]
             d == [memory EXCEPT !.held = @ \cup kept]
  <2>2. r.stale = run.stale
    BY <1>0 DEF Submission
  <2>3. ~run.stale => d \in Patches
    BY <2>1 DEF Patches
  <2>4. memory' = memory \/ Patch(d, r, "look")
    BY <2>1
  <2> HIDE DEF r, d
  <2> QED BY <1>1, <2>2, <2>3, <2>4 DEF Patch
<1>4. CASE LookupAnswered \/ ReadRefused \/ RereadAnswered
  BY <1>1, <1>4 DEF LookupAnswered, ReadRefused, RereadAnswered, Patches, draft
<1>5. CASE DeclareServed \/ DeclareAnswered \/ DeclareInlineFailed \/ DeclareUnanswered
  BY <1>1, <1>5 DEF DeclareServed, DeclareAnswered, DeclareInlineFailed, DeclareUnanswered,
                    Patches, draft
<1>6. CASE DeclareRefused
  BY <1>6 DEF DeclareRefused, Patch
<1>7. CASE UploadServed \/ UploadAnswered \/ UploadRefused
  BY <1>7 DEF UploadServed, UploadAnswered, UploadRefused, draft
<1>8. CASE FinalizeServed \/ FinalizeAnswered \/ FinalizeRefused \/ Unanswered
  BY <1>1, <1>8 DEF FinalizeServed, FinalizeAnswered, FinalizeRefused, Unanswered, Patches, draft
<1>9. CASE Done
  BY <1>9 DEF Done, Remove
<1> QED BY <1>3, <1>4, <1>5, <1>6, <1>7, <1>8, <1>9, <1>10 DEF RunStep

\* What the phone stops waiting for is a message of the author's.
LEMMA InFlightIs ==
    ASSUME IInv
    PROVE  /\ InFlight \subseteq Message
           /\ \A m \in InFlight :
                 /\ m.by = Author
                 /\ run.pc \in Writes /\ run.call = "sent"
                 /\ m.kind = "declare" => run.pc \in {"declare", "redeclare"}
                 /\ m.kind = "upload" => m.item \in Declared
<1>1. ASSUME run.pc \in Writes, run.call = "sent"
      PROVE  /\ Sent \in Message /\ Sent.by = Author
             /\ Sent.kind = "declare" => run.pc \in {"declare", "redeclare"}
             /\ Sent.kind = "upload" => Sent.item \in Declared
  <2>1. run.by = Author /\ run.by \in Users \cup {Nobody}
        /\ run.item \in Attachments \cup {Nobody} /\ (run.pc = "upload" => run.item \in Declared)
    BY <1>1, Facts DEF Sound, Submission
  <2> QED BY <1>1, <2>1 DEF Sent, Message, Writes
<1> QED BY <1>1 DEF InFlight

\* What becomes overdue is in flight.
LEMMA OverdueIs ==
    ASSUME IInv, Overdue
    PROVE  /\ late' \subseteq Message /\ faults' \in 0 .. MaxFaults
           /\ LateIsAuthors'
           /\ late' # late => run.pc \in Writes /\ run.call = "sent"
           /\ \A m \in late' \ late : m.kind = "declare" => run.pc \in {"declare", "redeclare"}
<1>1. late \subseteq Message /\ faults \in 0 .. MaxFaults /\ LateIsAuthors
  BY DEF IInv, TypeOK, LateIsAuthors
<1>2. late' = late \/ late' = late \cup InFlight
  BY DEF Overdue
<1>3. faults' \in 0 .. MaxFaults
  BY <1>1 DEF Overdue, Fault
<1>4. late' # late => \E m \in InFlight : TRUE
  BY <1>2
<1>5. late' # late => run.pc \in Writes /\ run.call = "sent"
  BY InFlightIs, <1>4
<1>6. late' \subseteq Message /\ LateIsAuthors'
  BY InFlightIs, <1>1, <1>2 DEF LateIsAuthors
<1>7. \A m \in late' \ late : m \in InFlight
  BY <1>2
<1> QED BY InFlightIs, <1>3, <1>5, <1>6, <1>7

\* Everything of the state but the submission itself.
OtherTypes ==
    /\ memory \in Draft /\ disk \in Draft
    /\ files \in [Declared -> {"kept", "cached", "reclaimed", "released"}]
    /\ screen \in {"form", "saving", "closed"}
    /\ user \in Users \cup {Nobody}
    /\ dialog \in {"none", "open", "outdated"}
    /\ leaving \in [pc : {"no", "posting", "wiping"}, listed : BOOLEAN]
    /\ removing \in BOOLEAN
    /\ event \in [exists : BOOLEAN, status : CaptureStatus]
    /\ att \in [Attachments -> AttachmentState]
    /\ trying \subseteq Attachments
    /\ late \subseteq Message
    /\ saved \in BOOLEAN /\ givenUp \in BOOLEAN /\ blind \in BOOLEAN
    /\ faults \in 0 .. MaxFaults

\* The steps of the submission keep the types,
LEMMA RunStepTypes == ASSUME IInv, RunStep PROVE OtherTypes'
<1>0. OtherTypes
  BY Facts DEF TypeOK, OtherTypes
<1>1. memory' \in Draft
  BY <1>0, RunStepDraft, PatchesAre, Nulls DEF OtherTypes
<1> USE DEF OtherTypes, ui, server, hist, draft
<1>2. CASE SaveWritten \/ SaveFailed \/ Flushed \/ FlushFails \/ RescueFiles
  <2>1. CASE SaveWritten
    <3>1. memory.present \in BOOLEAN
      BY <1>0 DEF Draft
    <3> QED BY <1>0, <1>1, <2>1, <3>1 DEF SaveWritten
  <2>2. CASE SaveFailed \/ FlushFails
    BY <1>0, <1>1, <2>2 DEF SaveFailed, FlushFails, Fault
  <2>3. CASE Flushed
    BY <1>0, <1>1, <2>3 DEF Flushed
  <2>4. CASE RescueFiles
    <3>1. files' \in [Declared -> {"kept", "cached", "reclaimed", "released"}]
      BY <1>0, <2>4 DEF RescueFiles
    <3> QED BY <1>0, <1>1, <2>4, <3>1 DEF RescueFiles
  <2> QED BY <1>2, <2>1, <2>2, <2>3, <2>4
<1>3. CASE LookupAnswered \/ ReadRefused \/ RereadAnswered
  BY <1>0, <1>1, <1>3 DEF LookupAnswered, ReadRefused, RereadAnswered
<1>4. CASE DeclareServed \/ DeclareAnswered \/ DeclareInlineFailed
  <2>1. CASE DeclareServed
    BY <1>0, <1>1, <2>1, ZenonT(30) DEF DeclareServed, DeclareEffect
  <2>2. CASE DeclareAnswered
    BY <1>0, <1>1, <2>2 DEF DeclareAnswered
  <2>3. CASE DeclareInlineFailed
    BY <1>0, <1>1, <2>3 DEF DeclareInlineFailed
  <2> QED BY <1>4, <2>1, <2>2, <2>3
<1>5. CASE DeclareRefused \/ DeclareUnanswered
  <2>1. CASE DeclareRefused
    <3>1. blind' \in BOOLEAN
      BY <1>0, <2>1, Zenon DEF DeclareRefused
    <3>2. /\ disk' = disk /\ files' = files /\ removing' = removing /\ UNCHANGED server
          /\ UNCHANGED ui /\ late' = late /\ saved' = saved /\ givenUp' = givenUp
          /\ faults' = faults
      BY <2>1 DEF DeclareRefused
    <3> QED BY <1>0, <1>1, <3>1, <3>2
  <2>2. CASE DeclareUnanswered
    BY <1>0, <1>1, <2>2, OverdueIs DEF DeclareUnanswered
  <2> QED BY <1>5, <2>1, <2>2
<1>6. CASE UploadServed \/ UploadAnswered \/ UploadRefused
  <2>1. run.pc = "upload" => run.item \in Attachments
    BY Facts, Nulls DEF Sound
  <2> QED BY <1>0, <1>1, <1>6, <2>1, OverdueIs DEF UploadServed, UploadAnswered, UploadRefused, UploadEffect
<1>7. CASE FinalizeServed
  BY <1>0, <1>1, <1>7 DEF FinalizeServed, FinalizeEffect, FinalizeTarget, CaptureStatus
<1>8. CASE FinalizeAnswered \/ FinalizeRefused \/ Unanswered \/ Done
  <2>1. CASE FinalizeAnswered
    BY <1>0, <1>1, <2>1 DEF FinalizeAnswered
  <2>2. CASE FinalizeRefused
    BY <1>0, <1>1, <2>2, OverdueIs DEF FinalizeRefused
  <2>3. CASE Unanswered
    BY <1>0, <1>1, <2>3, OverdueIs DEF Unanswered
  <2>4. CASE Done
    BY <1>0, <1>1, <2>4, ZenonT(30) DEF Done, Remove
  <2> QED BY <1>8, <2>1, <2>2, <2>3, <2>4
<1> QED BY <1>2, <1>3, <1>4, <1>5, <1>6, <1>7, <1>8 DEF RunStep

\* and so do the phone's own,
LEMMA PhoneTypes ==
    ASSUME IInv,
           \/ Save \/ Resume \/ RemovalWritten \/ RemovalFails \/ Persist
           \/ LeaveScreen \/ DiscardAsked \/ DiscardConfirmed \/ DialogDismissed
           \/ Logout \/ LogoutPosted \/ Wipe \/ SessionEnds
           \/ (\E u \in Users : SignIn(u)) \/ AppDies
           \/ \E a \in Declared : CacheReclaimed(a)
    PROVE  OtherTypes'
<1>0. OtherTypes /\ memory.present \in BOOLEAN /\ removing \in BOOLEAN
      /\ Staying \in [pc : {"no", "posting", "wiping"}, listed : BOOLEAN]
  BY Facts DEF TypeOK, OtherTypes, Draft, Staying
<1> USE DEF OtherTypes, ui, server, hist, draft
<1>1. CASE Save \/ RemovalWritten \/ RemovalFails \/ Persist \/ LeaveScreen
  <2>1. CASE Save
    <3>1. [NewDraft EXCEPT !.held = Declared] \in Draft
      BY Nulls DEF Draft
    <3> QED BY <1>0, <2>1, <3>1 DEF Save
  <2>2. CASE RemovalWritten
    <3>1. files' \in [Declared -> {"kept", "cached", "reclaimed", "released"}]
      BY <1>0, <2>2 DEF RemovalWritten
    <3>2. /\ memory' = memory /\ disk' = memory /\ removing' = FALSE
          /\ screen' = screen /\ user' = user /\ dialog' = dialog /\ leaving' = leaving
          /\ UNCHANGED <<server, late, hist>> /\ faults' = faults
      BY <2>2 DEF RemovalWritten
    <3> QED BY <1>0, <3>1, <3>2, ZenonT(30)
  <2>3. CASE LeaveScreen
    <3>1. files' \in [Declared -> {"kept", "cached", "reclaimed", "released"}]
      BY <1>0, <2>3 DEF LeaveScreen
    <3> QED BY <1>0, <2>3, <3>1 DEF LeaveScreen
  <2>4. CASE RemovalFails \/ Persist
    <3>1. RemovalFails => faults' \in 0 .. MaxFaults
      BY <1>0 DEF RemovalFails, Fault
    <3>2. CASE RemovalFails
      <4>1. /\ memory' = memory /\ disk' = disk /\ files' = files /\ removing' = FALSE
            /\ screen' = screen /\ user' = user /\ dialog' = dialog /\ leaving' = leaving
            /\ UNCHANGED <<server, late, hist>>
        BY <3>2 DEF RemovalFails
      <4> QED BY <1>0, <3>1, <3>2, <4>1, ZenonT(30)
    <3>3. CASE Persist
      BY <1>0, <3>3 DEF Persist
    <3> QED BY <2>4, <3>2, <3>3
  <2> QED BY <1>1, <2>1, <2>2, <2>3, <2>4
<1>2. CASE Resume
  <2>1. memory' \in Draft
    BY <1>0, <1>2, PatchesAre DEF Resume, Start, Patch, Patches
  <2> QED BY <1>0, <1>2, <2>1 DEF Resume
<1>3. CASE DiscardAsked \/ DiscardConfirmed \/ DialogDismissed
  BY <1>0, <1>3, Nulls DEF DiscardAsked, DiscardConfirmed, DialogDismissed, Remove
<1>4. CASE Logout \/ Wipe
  <2>1. CASE Logout
    BY <1>0, <2>1 DEF Logout, Fault
  <2>2. CASE Wipe
    BY <1>0, <2>2, Nulls DEF Wipe, Remove
  <2> QED BY <1>4, <2>1, <2>2
<1>5. ASSUME NEW u \in Users \cup {Nobody}, NewSession(u)
      PROVE  /\ user' \in Users \cup {Nobody} /\ dialog' \in {"none", "open", "outdated"}
             /\ screen' = "closed"
             /\ files' \in [Declared -> {"kept", "cached", "reclaimed", "released"}]
  BY <1>0, <1>5 DEF NewSession
<1>6. CASE LogoutPosted \/ SessionEnds \/ \E u \in Users : SignIn(u)
  <2>1. CASE LogoutPosted
    <3>1. leaving' \in [pc : {"no", "posting", "wiping"}, listed : BOOLEAN]
      BY <1>0, <2>1 DEF LogoutPosted
    <3> QED BY <1>0, <1>5, <2>1, <3>1 DEF LogoutPosted
  <2>2. CASE SessionEnds
    BY <1>0, <1>5, <2>2 DEF SessionEnds, Fault
  <2>3. CASE \E u \in Users : SignIn(u)
    BY <1>0, <1>5, <2>3 DEF SignIn
  <2> QED BY <1>6, <2>1, <2>2, <2>3
<1>7. CASE AppDies
  <2>1. late' \subseteq Message
    BY <1>0, <1>7, InFlightIs DEF AppDies
  <2>2. faults' \in 0 .. MaxFaults /\ memory' \in Draft /\ leaving' = Staying
        /\ screen' = "closed" /\ dialog' = "none" /\ removing' = FALSE
    BY <1>0, <1>7 DEF AppDies, Fault
  <2>3. files' \in [Declared -> {"kept", "cached", "reclaimed", "released"}]
    BY <1>0, <1>7 DEF AppDies
  <2>4. UNCHANGED <<disk, user, server, hist>>
    BY <1>7 DEF AppDies
  <2> QED BY <1>0, <2>1, <2>2, <2>3, <2>4
<1>8. CASE \E a \in Declared : CacheReclaimed(a)
  BY <1>0, <1>8 DEF CacheReclaimed
<1> QED BY <1>1, <1>2, <1>3, <1>4, <1>6, <1>7, <1>8

\* and the server's.
LEMMA ServerTypes ==
    ASSUME IInv,
           \/ \E m \in late : ServeLate(m)
           \/ \E a \in Attachments :
                 AttemptBegins(a) \/ AttemptSettles(a) \/ AttemptDies(a) \/ Reset(a)
    PROVE  OtherTypes'
<1>0. OtherTypes
  BY Facts DEF TypeOK, OtherTypes
<1> USE DEF OtherTypes, ui, server, hist, draft
<1>1. CASE \E m \in late : ServeLate(m)
  <2>1. PICK m \in late : ServeLate(m)
    BY <1>1
  <2>2. m \in Message /\ (m.kind = "upload" => m.item \in Attachments)
    BY <1>0, Nulls DEF IInv, LateIsAuthors
  <2>3. trying' \subseteq Attachments
    BY <1>0, <2>1, <2>2 DEF ServeLate, DeclareEffect, UploadEffect, FinalizeEffect
  <2>4. event' \in [exists : BOOLEAN, status : CaptureStatus] /\ att' = att
    BY <1>0, <2>1 DEF ServeLate, DeclareEffect, UploadEffect, FinalizeEffect, FinalizeTarget,
                     CaptureStatus
  <2> QED BY <1>0, <2>1, <2>3, <2>4 DEF ServeLate
<1>2. CASE \E a \in Attachments :
              AttemptBegins(a) \/ AttemptSettles(a) \/ AttemptDies(a) \/ Reset(a)
  BY <1>0, <1>2 DEF AttemptBegins, AttemptSettles, AttemptDies, Reset, Fault, AttachmentState,
                    CaptureStatus
<1> QED BY <1>1, <1>2

\* Every step keeps the types.
LEMMA TypeStep == ASSUME IInv, [Next]_vars PROVE TypeOK'
<1>1. OtherTypes'
  <2>1. CASE UNCHANGED vars
    BY <2>1, Facts DEF vars, TypeOK, OtherTypes, ui, server, hist
  <2> QED BY <2>1, RunStepTypes, PhoneTypes, ServerTypes DEF Next
<1> QED BY <1>1, SubmissionStep DEF TypeOK, OtherTypes

-----------------------------------------------------------------------------
(* Where a submission goes. *)

\* The places in their order.
LEMMA Places ==
    /\ Place["saving"] = 0 /\ Place["rescue"] = 2 /\ Place["look"] = 4
    /\ Place["lookup"] = 4 /\ Place["post"] = 6 /\ Place["declare"] = 6
    /\ Place["recover"] = 8 /\ Place["redeclare"] = 8 /\ Place["uploads"] = 10
    /\ Place["upload"] = 10 /\ Place["reread"] = 12 /\ Place["finalize"] = 14
    /\ Place["done"] = 16 /\ Place["return"] = 18
BY DEF Place

\* Where it may be once it has gone on at k.
Onward(k) ==
    CASE k = "rescue" -> {"rescue"}
      [] k = "look" -> {"lookup"}
      [] k = "post" -> {"idle", "declare"}
      [] k = "recover" -> {"idle", "redeclare", "upload", "reread"}
      [] k = "uploads" -> {"idle", "upload", "reread"}
      [] k = "done" -> {"done"}
      [] k = "return" -> {"idle"}

\* A request is where the submission then is.
LEMMA SendGoes ==
    ASSUME NEW r \in Submission, NEW q, NEW item, NEW todo
    PROVE  /\ Send(r, q).pc = q
           /\ [Send(r, q) EXCEPT !.item = item, !.todo = todo].pc = q
           /\ [Send(r, q) EXCEPT !.item = item, !.todo = todo].item = item
           /\ [Send(r, q) EXCEPT !.item = item, !.todo = todo].todo = todo
BY DEF Send, Submission

\* The upload loop ends, or goes on with one attachment less.
LEMMA NextUploadGoes ==
    ASSUME NEW r \in Submission
    PROVE  LET x == NextUpload(r)
           IN  \/ x.pc \in {"idle", "reread"}
               \/ x.pc = "upload" /\ x.item \in r.todo /\ x.todo \subseteq r.todo \ {x.item}
<1> DEFINE here == {b \in r.todo : files[b] = "kept"}
<1>1. CASE NextUpload(r) = NoRun
  BY <1>1 DEF NoRun
<1>2. CASE NextUpload(r) = [Send(r, "reread") EXCEPT !.item = Nobody, !.todo = {}]
  BY <1>2, SendGoes
<1>3. ASSUME NEW a \in r.todo, files[a] = "kept",
             NextUpload(r) = [Send(r, "upload") EXCEPT !.item = a, !.todo = here \ {a}]
      PROVE  NextUpload(r).pc = "upload" /\ NextUpload(r).item \in r.todo
             /\ NextUpload(r).todo \subseteq r.todo \ {NextUpload(r).item}
  BY <1>3, SendGoes
<1> QED BY <1>1, <1>2, <1>3, NextUploadIs

\* Where the submission is when it has gone on at k.
LEMMA ContinueGoes ==
    ASSUME NEW r \in Submission, NEW k \in Label \ {"none"}
    PROVE  Continue(k, r).pc \in Onward(k)
<1>0. k \in {"rescue", "look", "post", "recover", "uploads", "done", "return"}
      /\ NoRun.pc = "idle"
  BY DEF Label, NoRun
<1>1. ASSUME NEW pc PROVE [r EXCEPT !.pc = pc, !.then = "none"].pc = pc
  BY DEF Submission
<1>2. StartUploads(r).pc \in {"idle", "upload", "reread"}
  <2> DEFINE stranded == {a \in Declared : files[a] = "kept" /\ r.seen[a] = "pending"}
             todo == {a \in Declared : r.seen[a] \in {"awaiting_upload", "failed"}}
             x == [r EXCEPT !.seen = Unseen, !.todo = todo, !.blocked = stranded # {},
                            !.trouble = r.trouble \/ stranded # {}]
  <2>1. todo \in SUBSET Attachments /\ (stranded # {}) \in BOOLEAN
        /\ (r.trouble \/ stranded # {}) \in BOOLEAN
    BY Nulls
  <2>2. StartUploads(r) = NextUpload(x)
    BY DEF StartUploads
  <2> HIDE DEF stranded, todo
  <2>3. x \in Submission
    <3>1. PICK b, t : b = (stranded # {}) /\ t = (r.trouble \/ stranded # {})
      OBVIOUS
    <3>2. b \in BOOLEAN /\ t \in BOOLEAN
      BY <2>1, <3>1
    <3>3. x = Replan(r, Unseen, todo, b, t)
      BY <3>1 DEF Replan
    <3> HIDE DEF x
    <3> QED BY <2>1, <3>2, <3>3, Nulls, Replanned
  <2> HIDE DEF x
  <2> QED BY <2>2, <2>3, NextUploadGoes
<1> QED BY <1>0, <1>1, <1>2, SendGoes DEF Continue, Onward

\* Where it is when it has patched: on its way to k, or past the write already.
LEMMA PatchGoes ==
    ASSUME NEW d, NEW r \in Submission, NEW k \in Label \ {"none"}, Patch(d, r, k)
    PROVE  run'.pc \in Onward(k) \/ (run'.pc = "flush" /\ run'.then = k)
BY PatchMoves, ContinueGoes

\* Going on at k is getting to k, at least.
LEMMA OnwardAlong ==
    ASSUME NEW r, NEW k \in Label \ {"none"}, r.pc \in Onward(k), r.pc # "idle"
    PROVE  /\ Along(r) \in Int /\ Place[k] \in Int /\ Along(r) >= Place[k]
           /\ r.pc # "saving"
<1>1. k \in {"rescue", "look", "post", "recover", "uploads", "done", "return"}
  BY DEF Label
<1>2. r.pc \in {"rescue", "lookup", "declare", "redeclare", "upload", "reread", "done"}
      /\ Along(r) = Place[r.pc]
  BY <1>1 DEF Onward, Along
<1> QED BY <1>1, <1>2, Places DEF Onward

\* To patch on the way to k is to come just before k, at least.
LEMMA PatchAlong ==
    ASSUME NEW d, NEW r \in Submission, NEW k \in Label \ {"none"}, Patch(d, r, k),
           run'.pc # "idle"
    PROVE  /\ Along(run') \in Int /\ Place[k] \in Int /\ Along(run') >= Place[k] - 1
           /\ run'.pc # "saving"
<1>1. CASE run'.pc = "flush" /\ run'.then = k
  <2>1. Place[k] \in Int
    BY Places DEF Label
  <2> QED BY <1>1, <2>1 DEF Along
<1>2. CASE run'.pc \in Onward(k)
  BY <1>2, OnwardAlong
<1> QED BY <1>1, <1>2, PatchGoes

\* What an answer, or none, leads to: the end of the submission, a place further
\* on, the next attachment, or the server's doing what it was asked.
Advance ==
    \/ run'.pc = "idle"
    \/ /\ run'.pc # "saving"
       /\ Along(run) \in Int /\ Along(run') \in Int /\ Along(run') > Along(run)
    \/ /\ run.pc = "upload" /\ run'.pc = "upload"
       /\ run'.item \in run.todo /\ run'.todo \subseteq run.todo \ {run'.item}
    \/ run' = Served /\ run.call = "sent" /\ run.pc \in Writes

\* Where a submission that awaits no write is.
LEMMA RunAlong ==
    ASSUME IInv, run.pc \notin {"idle", "flush"}
    PROVE  Along(run) = Place[run.pc] /\ run.pc \in Reads \cup Writes \cup {"saving", "rescue", "done"}
BY Facts DEF Along, Submission

\* Every step of a submission advances it.
LEMMA RunStepAdvances ==
    ASSUME IInv, RunStep
    PROVE  Advance
<1>0. /\ run \in Submission /\ Settled \in Submission /\ Failed \in Submission
      /\ Answer \in Submission /\ Failed.todo = run.todo /\ Settled.todo = run.todo
  BY Facts, SettledIs
<1>1. ASSUME NEW d, NEW r \in Submission, NEW k \in Label \ {"none"}, Patch(d, r, k),
             Along(run) \in Int, Along(run) < Place[k] - 1
      PROVE  Advance
  <2>1. CASE run'.pc = "idle"
    BY <2>1 DEF Advance
  <2>2. CASE run'.pc # "idle"
    <3>1. /\ Along(run') \in Int /\ Place[k] \in Int /\ Along(run') >= Place[k] - 1
          /\ run'.pc # "saving"
      BY <1>1, <2>2, PatchAlong
    <3> QED BY <1>1, <3>1 DEF Advance
  <2> QED BY <2>1, <2>2
<1>2. ASSUME NEW r \in Submission, NEW k \in Label \ {"none"}, run' = Continue(k, r),
             Along(run) \in Int, Along(run) < Place[k]
      PROVE  Advance
  <2>1. CASE run'.pc = "idle"
    BY <2>1 DEF Advance
  <2>2. CASE run'.pc # "idle"
    <3>1. /\ Along(run') \in Int /\ Place[k] \in Int /\ Along(run') >= Place[k]
          /\ run'.pc # "saving"
      BY <1>2, <2>2, ContinueGoes, OnwardAlong
    <3> QED BY <1>2, <3>1 DEF Advance
  <2> QED BY <2>1, <2>2
<1>3. CASE run' = NoRun
  BY <1>3 DEF Advance, NoRun
<1>4. CASE SaveWritten
  <2>1. Along(run) = 0 /\ Place["rescue"] = 2 /\ Start(run)
    BY <1>4, RunAlong, Places DEF SaveWritten
  <2> QED BY <1>0, <1>1, <1>2, <1>3, <2>1 DEF Start, Label
<1>5. CASE Flushed
  <2>1. run.then \in Label \ {"none"} /\ run' = Continue(run.then, run)
        /\ Along(run) = Place[run.then] - 1
    BY <1>5, Facts DEF Flushed, Submission, Sound, Along
  <2>2. Place[run.then] \in Int
    BY <2>1, Places DEF Label
  <2>3. Along(run) \in Int /\ Along(run) < Place[run.then]
    BY <2>1, <2>2
  <2> QED BY <1>0, <1>2, <2>1, <2>3
<1>6. CASE RescueFiles
  <2>1. Along(run) = 2 /\ Place["look"] = 4
    BY <1>6, RunAlong, Places DEF RescueFiles
  <2>2. PICK t \in BOOLEAN : \/ run' = Continue("look", [run EXCEPT !.trouble = t])
                             \/ \E d : Patch(d, [run EXCEPT !.trouble = t], "look")
    <3>1. PICK kept \in SUBSET {a \in Declared : files[a] = "cached"} :
            LET r == [run EXCEPT !.trouble = run.trouble \/
                          \E a \in Declared \ kept : files[a] # "kept"]
            IN  IF kept = {}
                THEN run' = Continue("look", r) /\ UNCHANGED memory
                ELSE Patch([memory EXCEPT !.held = @ \cup kept], r, "look")
      BY <1>6 DEF RescueFiles
    <3> DEFINE t == run.trouble \/ \E a \in Declared \ kept : files[a] # "kept"
    <3>2. t \in BOOLEAN
      BY <1>0 DEF Submission
    <3>3. \/ run' = Continue("look", [run EXCEPT !.trouble = t])
          \/ \E d : Patch(d, [run EXCEPT !.trouble = t], "look")
      BY <3>1
    <3> HIDE DEF t
    <3> QED BY <3>2, <3>3
  <2>3. [run EXCEPT !.trouble = t] \in Submission
    BY <1>0, Marked
  <2> QED BY <1>1, <1>2, <2>1, <2>2, <2>3 DEF Label
<1>7. CASE LookupAnswered
  <2>1. Along(run) = 4 /\ Place["recover"] = 8 /\ Place["post"] = 6
    BY <1>7, RunAlong, Places DEF LookupAnswered
  <2> QED BY <1>0, <1>1, <1>3, <1>7, <2>1 DEF LookupAnswered, Label
<1>8. CASE DeclareAnswered \/ DeclareInlineFailed \/ DeclareRefused \/ DeclareUnanswered
  <2>1. /\ run.pc \in {"declare", "redeclare"}
        /\ Along(run) = IF run.pc = "declare" THEN 6 ELSE 8
        /\ Place["recover"] = 8 /\ Place["uploads"] = 10 /\ Place["return"] = 18
    BY <1>8, RunAlong, Places DEF DeclareAnswered, DeclareInlineFailed, DeclareRefused,
                                  DeclareUnanswered
  <2>2. [Answer EXCEPT !.trouble = TRUE] \in Submission
    BY <1>0, Marked
  <2>3. CASE DeclareAnswered
    BY <1>0, <1>1, <2>1, <2>3 DEF DeclareAnswered, Label
  <2>4. CASE DeclareInlineFailed
    BY <1>1, <2>1, <2>2, <2>4 DEF DeclareInlineFailed, Label
  <2>5. CASE DeclareRefused
    BY <1>0, <1>1, <2>1, <2>5 DEF DeclareRefused, Label
  <2>6. CASE DeclareUnanswered
    BY <1>0, <1>1, <1>3, <2>1, <2>6 DEF DeclareUnanswered, Label
  <2> QED BY <1>8, <2>3, <2>4, <2>5, <2>6
<1>9. CASE UploadAnswered \/ UploadRefused
  <2>1. PICK r \in {Settled, Failed} : run' = NextUpload(r)
    BY <1>9 DEF UploadAnswered, UploadRefused
  <2>2. run.pc = "upload" /\ Along(run) = 10 /\ Place["reread"] = 12
    BY <1>9, RunAlong, Places DEF UploadAnswered, UploadRefused
  <2>3. run'.pc = "reread" => Along(run') = 12
    BY <2>2 DEF Along
  <2> QED BY <1>0, <2>1, <2>2, <2>3, NextUploadGoes DEF Advance
<1>10. CASE RereadAnswered
  <2>1. Along(run) = 12 /\ Place["done"] = 16 /\ Place["finalize"] = 14
    BY <1>10, RunAlong, Places DEF RereadAnswered
  <2>2. /\ [Settled EXCEPT !.status = event.status] \in Submission
        /\ [[Settled EXCEPT !.status = event.status] EXCEPT !.trouble = TRUE] \in Submission
    <3>1. [Settled EXCEPT !.status = event.status] \in Submission
      BY <1>0, Facts DEF Submission
    <3> QED BY <3>1, Marked
  <2>3. CASE run'.pc = "finalize"
    BY <2>1, <2>3 DEF Advance, Along
  <2> QED BY <1>1, <1>3, <1>10, <2>1, <2>2, <2>3, SendGoes DEF RereadAnswered, Label
<1>11. CASE FinalizeAnswered \/ FinalizeRefused
  <2>1. Along(run) = 14 /\ Place["done"] = 16
    BY <1>11, RunAlong, Places DEF FinalizeAnswered, FinalizeRefused
  <2>2. [Settled EXCEPT !.status = event.status] \in Submission
    BY <1>0, Facts DEF Submission
  <2> QED BY <1>0, <1>1, <1>11, <2>1, <2>2 DEF FinalizeAnswered, FinalizeRefused, Label
<1>12. CASE Unanswered
  <2>1. Along(run) \in Int /\ Along(run) < Place["return"] - 1
    BY <1>12, RunAlong, Places DEF Unanswered, Reads, Writes
  <2> QED BY <1>0, <1>1, <1>12, <2>1 DEF Unanswered, Label
<1>13. CASE DeclareServed \/ UploadServed \/ FinalizeServed
  BY <1>13 DEF DeclareServed, UploadServed, FinalizeServed, Advance, Writes
<1>14. CASE SaveFailed \/ FlushFails \/ ReadRefused \/ Done
  BY <1>3, <1>14 DEF SaveFailed, FlushFails, ReadRefused, Done
<1> QED BY <1>4, <1>5, <1>6, <1>7, <1>8, <1>9, <1>10, <1>11, <1>12, <1>13, <1>14 DEF RunStep

\* Trouble is not forgotten while the submission lasts.
LEMMA TroubleStep ==
    ASSUME IInv, RunStep, run.trouble
    PROVE  run'.trouble \/ run'.pc = "idle"
<1>0. /\ run \in Submission /\ Settled \in Submission /\ Failed \in Submission
      /\ Answer \in Submission /\ Failed.trouble /\ Settled.trouble /\ Answer.trouble
  BY Facts, SettledIs
<1>1. ASSUME NEW d, NEW r \in Submission, r.trouble, NEW k \in Label \ {"none"}, Patch(d, r, k)
      PROVE  run'.trouble \/ run'.pc = "idle"
  <2>1. [r EXCEPT !.pc = "flush", !.then = k].trouble
    BY <1>1 DEF Submission
  <2> QED BY <1>1, <2>1, TroubleStays DEF Patch
<1>2. CASE run' = NoRun
  BY <1>2 DEF NoRun
<1>3. CASE SaveWritten
  BY <1>0, <1>1, <1>2, <1>3, TroubleStays DEF SaveWritten, Start, Label
<1>4. CASE Flushed
  <2>1. run.then \in Label \ {"none"}
    BY <1>4, Facts DEF Flushed, Submission, Sound
  <2> QED BY <1>0, <1>4, <2>1, TroubleStays DEF Flushed
<1>5. CASE RescueFiles
  <2> DEFINE r == [run EXCEPT !.trouble = TRUE]
  <2>1. r \in Submission /\ r.trouble
    BY <1>0 DEF Submission
  <2>2. run' = Continue("look", r) \/ \E d : Patch(d, r, "look")
    <3>1. PICK kept \in SUBSET {a \in Declared : files[a] = "cached"} :
            LET s == [run EXCEPT !.trouble = run.trouble \/
                          \E a \in Declared \ kept : files[a] # "kept"]
            IN  IF kept = {}
                THEN run' = Continue("look", s) /\ UNCHANGED memory
                ELSE Patch([memory EXCEPT !.held = @ \cup kept], s, "look")
      BY <1>5 DEF RescueFiles
    <3>2. (run.trouble \/ \E a \in Declared \ kept : files[a] # "kept") = TRUE
      OBVIOUS
    <3> QED BY <3>1, <3>2
  <2> HIDE DEF r
  <2> QED BY <1>1, <2>1, <2>2, TroubleStays DEF Label
<1>6. CASE LookupAnswered
  BY <1>0, <1>1, <1>2, <1>6 DEF LookupAnswered, Label
<1>7. CASE DeclareAnswered \/ DeclareRefused \/ DeclareUnanswered
  BY <1>0, <1>1, <1>2, <1>7 DEF DeclareAnswered, DeclareRefused, DeclareUnanswered, Label
<1>8. CASE DeclareInlineFailed
  <2>1. [Answer EXCEPT !.trouble = TRUE] \in Submission /\ [Answer EXCEPT !.trouble = TRUE].trouble
    BY <1>0, Marked
  <2> QED BY <1>1, <1>8, <2>1 DEF DeclareInlineFailed, Label
<1>9. CASE UploadAnswered \/ UploadRefused
  BY <1>0, <1>9, NextUploadTrouble DEF UploadAnswered, UploadRefused
<1>10. CASE RereadAnswered
  <2> DEFINE r == [Settled EXCEPT !.status = event.status]
  <2>1. r \in Submission /\ r.trouble
    BY <1>0, Facts DEF Submission
  <2>2. \/ run' = NoRun \/ run' = Send(r, "finalize")
        \/ Patch(Remembered, [r EXCEPT !.trouble = TRUE], "done")
    BY <1>10 DEF RereadAnswered
  <2> HIDE DEF r
  <2>3. /\ [r EXCEPT !.trouble = TRUE] \in Submission /\ [r EXCEPT !.trouble = TRUE].trouble
        /\ Send(r, "finalize").trouble
    BY <2>1 DEF Submission, Send
  <2> QED BY <1>1, <1>2, <2>2, <2>3 DEF Label
<1>11. CASE FinalizeAnswered \/ FinalizeRefused \/ Unanswered
  <2>1. [Settled EXCEPT !.status = event.status] \in Submission
        /\ [Settled EXCEPT !.status = event.status].trouble
    BY <1>0, Facts DEF Submission
  <2> QED BY <1>0, <1>1, <1>11, <2>1 DEF FinalizeAnswered, FinalizeRefused, Unanswered, Label
<1>12. CASE DeclareServed \/ UploadServed \/ FinalizeServed
  <2>1. Served.trouble = run.trouble
    BY <1>0 DEF Served, Submission
  <2> QED BY <1>12, <2>1 DEF DeclareServed, UploadServed, FinalizeServed
<1>13. CASE SaveFailed \/ FlushFails \/ ReadRefused \/ Done
  BY <1>2, <1>13 DEF SaveFailed, FlushFails, ReadRefused, Done
<1> QED BY <1>3, <1>4, <1>5, <1>6, <1>7, <1>8, <1>9, <1>10, <1>11, <1>12, <1>13 DEF RunStep

-----------------------------------------------------------------------------
(* What the capture screen holds, and what is being removed. *)

\* What a step of the submission leaves alone.
LEMMA RunStepFrame ==
    ASSUME IInv, RunStep
    PROVE  /\ run.pc # "idle"
           /\ UNCHANGED <<user, dialog, leaving, givenUp>>
           /\ screen' = screen \/ screen' = "closed" \/ (SaveFailed /\ run' = NoRun /\ screen' = "form")
           /\ removing' = removing \/ (Done /\ run' = NoRun)
           /\ saved' = saved \/ (SaveWritten /\ screen' = "closed")
           /\ run.pc = "saving" => SaveWritten \/ SaveFailed
           /\ disk' = disk \/ (disk' = memory /\ (SaveWritten \/ Flushed))
           /\ (blind => blind') \/ (Flushed /\ run.then = "post")
           /\ \A a \in Declared : files'[a] = files[a] \/ files'[a] = "kept"
<1> USE DEF ui, server, hist, draft, Reads, Writes
<1>1. CASE SaveWritten
  BY <1>1 DEF SaveWritten
<1>2. CASE SaveFailed
  BY <1>2 DEF SaveFailed
<1>3. CASE Flushed \/ FlushFails
  <2>1. CASE Flushed
    <3>1. /\ run.pc = "flush" /\ disk' = memory
          /\ UNCHANGED <<files, screen, user, dialog, leaving, removing, saved, givenUp>>
          /\ (blind => blind') \/ run.then = "post"
      BY <2>1 DEF Flushed
    <3> QED BY <2>1, <3>1
  <2>2. CASE FlushFails
    <3>1. /\ run.pc = "flush"
          /\ UNCHANGED <<disk, files, screen, user, dialog, leaving, removing, saved, givenUp, blind>>
      BY <2>2 DEF FlushFails
    <3> QED BY <3>1
  <2> QED BY <1>3, <2>1, <2>2
<1>4. CASE RescueFiles
  <2>1. /\ run.pc = "rescue" /\ UNCHANGED <<disk, screen, user, dialog, leaving, removing,
                                            saved, givenUp, blind>>
        /\ \A a \in Declared : files'[a] = files[a] \/ files'[a] = "kept"
    BY <1>4 DEF RescueFiles
  <2> QED BY <2>1
<1>5. CASE LookupAnswered \/ ReadRefused \/ RereadAnswered
  BY <1>5 DEF LookupAnswered, ReadRefused, RereadAnswered
<1>6. CASE DeclareServed \/ DeclareAnswered \/ DeclareInlineFailed \/ DeclareUnanswered
  <2>1. /\ run.pc \in {"declare", "redeclare"}
        /\ UNCHANGED <<disk, files, screen, user, dialog, leaving, removing, saved, givenUp, blind>>
    BY <1>6 DEF DeclareServed, DeclareAnswered, DeclareInlineFailed, DeclareUnanswered
  <2> QED BY <2>1
<1>7. CASE DeclareRefused
  <2>1. /\ run.pc \in {"declare", "redeclare"} /\ (blind => blind')
        /\ UNCHANGED <<disk, files, screen, user, dialog, leaving, removing, saved, givenUp>>
    BY <1>7 DEF DeclareRefused
  <2> QED BY <2>1
<1>8. CASE UploadServed \/ UploadAnswered \/ UploadRefused
  BY <1>8 DEF UploadServed, UploadAnswered, UploadRefused, UploadEffect
<1>9. CASE FinalizeServed \/ FinalizeAnswered \/ FinalizeRefused
  BY <1>9 DEF FinalizeServed, FinalizeAnswered, FinalizeRefused
<1>10. CASE Unanswered
  BY <1>10 DEF Unanswered
<1>11. CASE Done
  BY <1>11 DEF Done, Remove
<1> QED BY <1>1, <1>2, <1>3, <1>4, <1>5, <1>6, <1>7, <1>8, <1>9, <1>10, <1>11 DEF RunStep

\* Only the requests of the submission move the server, or are given up on.
LEMMA RunStepServer ==
    ASSUME IInv, RunStep
    PROVE  /\ late' = late \/ run.pc \in Reads \cup Writes
           /\ event' = event \/ run.pc \in Writes
<1> USE DEF server, Reads, Writes
<1>1. CASE SaveWritten \/ SaveFailed \/ Flushed \/ FlushFails \/ RescueFiles
  BY <1>1 DEF SaveWritten, SaveFailed, Flushed, FlushFails, RescueFiles
<1>2. CASE LookupAnswered \/ ReadRefused \/ RereadAnswered
  BY <1>2 DEF LookupAnswered, ReadRefused, RereadAnswered
<1>3. CASE DeclareServed \/ DeclareAnswered \/ DeclareInlineFailed \/ DeclareRefused
           \/ DeclareUnanswered
  BY <1>3 DEF DeclareServed, DeclareAnswered, DeclareInlineFailed, DeclareRefused,
              DeclareUnanswered
<1>4. CASE UploadServed \/ UploadAnswered \/ UploadRefused
  BY <1>4 DEF UploadServed, UploadAnswered, UploadRefused
<1>5. CASE FinalizeServed \/ FinalizeAnswered \/ FinalizeRefused \/ Unanswered \/ Done
  BY <1>5 DEF FinalizeServed, FinalizeAnswered, FinalizeRefused, Unanswered, Done
<1> QED BY <1>1, <1>2, <1>3, <1>4, <1>5 DEF RunStep

\* A new session leaves the submission where it is.
LEMMA NewSessionMoves ==
    ASSUME NEW u, NewSession(u), TypeOK
    PROVE  /\ run'.pc = run.pc /\ screen' = "closed" /\ run'.trouble = run.trouble
           /\ run'.then = run.then /\ run'.call = run.call
           /\ dialog' # "none" => dialog # "none"
           /\ files' = files \/ (screen = "form" /\ files' = [a \in Declared |-> "released"])
<1>1. run \in Submission
  BY DEF TypeOK
<1> QED BY <1>1 DEF NewSession, Outdated, Submission

\* So does trouble elsewhere.
LEMMA TroubledMoves ==
    ASSUME run' = Troubled(run), TypeOK
    PROVE  /\ run'.pc = run.pc /\ run'.then = run.then /\ run'.call = run.call
           /\ run.pc # "idle" => run'.trouble
<1>1. run \in Submission
  BY DEF TypeOK
<1> QED BY <1>1 DEF Troubled, Submission

\* An unsent form stays as it is until the server or the phone has it.
LEMMA UnsavedStep == ASSUME IInv, [Next]_vars PROVE Unsaved'
<1>0. Unsaved /\ Going /\ TypeOK /\ screen \in {"form", "saving", "closed"}
  BY DEF IInv, TypeOK
<1> USE DEF Unsaved, ui, server, hist, draft
<1>1. CASE RunStep
  <2>1. run'.pc # "saving"
    <3>1. CASE run' = Served /\ run.pc \in Writes
      BY <3>1, <1>0, Facts, ServedIs DEF Writes
    <3> QED BY <1>1, <3>1, RunStepAdvances DEF Advance
  <2>2. CASE SaveFailed
    <3>1. ~Gone.present /\ NoRun.pc = "idle"
      BY Nulls DEF NoRun
    <3> QED BY <1>0, <2>2, <3>1 DEF SaveFailed
  <2>3. CASE SaveWritten
    BY <2>1, <2>3 DEF SaveWritten
  <2>4. CASE ~SaveFailed /\ ~SaveWritten
    BY <1>0, <1>1, <2>1, <2>4, RunStepFrame, RunStepServer DEF Reads, Writes
  <2> QED BY <2>2, <2>3, <2>4
<1>2. CASE Save
  <2>1. Tapped("saving").pc = "saving"
    BY DEF Tapped, NoRun
  <2> QED BY <1>0, <1>2, <2>1 DEF Save
<1>3. CASE Resume
  <2>1. screen = "closed" /\ screen' = "closed"
    BY <1>0, <1>3 DEF Resume, CanTap
  <2>2. run'.pc # "saving"
    <3>1. Tapped("rescue") \in Submission
      BY <1>3, TappedReady DEF Resume
    <3>2. ASSUME NEW d, Patch(d, Tapped("rescue"), "rescue") PROVE run'.pc # "saving"
      BY <3>1, <3>2, PatchGoes DEF Label, Onward
    <3>3. run' = Continue("rescue", Tapped("rescue")) => run'.pc # "saving"
      BY <3>1, ContinueGoes DEF Label, Onward
    <3> QED BY <1>3, <3>2, <3>3 DEF Resume, Start, NoRun
  <2> QED BY <2>1, <2>2
<1>4. CASE RemovalWritten \/ RemovalFails \/ Persist
  BY <1>0, <1>4 DEF RemovalWritten, RemovalFails, Persist
<1>5. CASE LeaveScreen \/ DiscardAsked \/ DialogDismissed \/ Logout
  BY <1>0, <1>5 DEF LeaveScreen, DiscardAsked, DialogDismissed, Logout
<1>6. CASE DiscardConfirmed
  BY <1>0, <1>6 DEF DiscardConfirmed, Going
<1>7. CASE LogoutPosted \/ SessionEnds \/ \E u \in Users : SignIn(u)
  BY <1>0, <1>7, NewSessionMoves DEF LogoutPosted, SessionEnds, SignIn
<1>8. CASE Wipe
  BY <1>0, <1>8, TroubledMoves DEF Wipe, Going
<1>9. CASE AppDies
  BY <1>9 DEF AppDies, NoRun
<1>10. CASE \E a \in Declared : CacheReclaimed(a)
  BY <1>0, <1>10, TroubledMoves DEF CacheReclaimed
<1>11. CASE \E m \in late : ServeLate(m)
  <2>1. PICK m \in late : ServeLate(m)
    BY <1>11
  <2> QED BY <1>0, <2>1 DEF ServeLate
<1>12. ASSUME NEW a \in Attachments,
              AttemptBegins(a) \/ AttemptSettles(a) \/ AttemptDies(a) \/ Reset(a)
       PROVE  Unsaved'
  <2>1. run'.pc = run.pc /\ UNCHANGED <<screen, memory, saved, late>>
    BY <1>0, <1>12, TroubledMoves DEF AttemptBegins, AttemptSettles, AttemptDies, Reset
  <2>2. event'.exists = event.exists
    <3>1. event \in [exists : BOOLEAN, status : CaptureStatus]
      BY <1>0 DEF TypeOK
    <3> QED BY <1>12, <3>1 DEF AttemptBegins, AttemptSettles, AttemptDies, Reset
  <2> QED BY <1>0, <2>1, <2>2
<1>13. CASE UNCHANGED vars
  BY <1>0, <1>13 DEF vars
<1> QED
  BY <1>1, <1>2, <1>3, <1>4, <1>5, <1>6, <1>7, <1>8, <1>9, <1>10, <1>11, <1>12, <1>13 DEF Next

\* What is on its way out is not carried on with.
LEMMA GoingStep == ASSUME IInv, [Next]_vars PROVE Going'
<1>0. Unsaved /\ Going /\ TypeOK /\ screen \in {"form", "saving", "closed"}
  BY DEF IInv, TypeOK
<1> USE DEF Going, ui, server, hist, draft
<1>1. CASE RunStep
  <2>1. dialog = "none" /\ dialog' = "none" /\ leaving' = leaving
    BY <1>0, <1>1, RunStepFrame
  <2>2. screen = "closed" => screen' = "closed"
    BY <1>0, <1>1, RunStepFrame DEF SaveFailed
  <2>3. removing' => screen' = "closed" /\ ~memory'.present /\ (run'.pc # "idle" => run'.trouble)
    <3>1. CASE Done
      <4>1. run'.pc = "idle" /\ ~Gone.present /\ screen = "closed"
        BY <1>0, <3>1, Nulls DEF Done, NoRun, Unsaved
      <4> QED BY <1>0, <2>2, <3>1, <4>1 DEF Done, Remove
    <3>2. CASE ~Done
      <4>1. removing' = removing
        BY <1>1, <3>2, RunStepFrame
      <4>2. removing => ~memory'.present
        BY <1>0, <1>1, RunStepDraft, Nulls
      <4>3. removing => run.trouble
        BY <1>0, <1>1, RunStepFrame
      <4> QED BY <1>0, <1>1, <2>2, <4>1, <4>2, <4>3, TroubleStep
    <3> QED BY <3>1, <3>2
  <2> QED BY <1>0, <2>1, <2>2, <2>3
<1>2. CASE Save
  BY <1>0, <1>2 DEF Save, CanTap
<1>3. CASE Resume
  BY <1>0, <1>3 DEF Resume, CanTap
<1>4. CASE RemovalWritten \/ RemovalFails \/ Persist
  BY <1>0, <1>4 DEF RemovalWritten, RemovalFails, Persist
<1>5. CASE LeaveScreen
  BY <1>0, <1>5 DEF LeaveScreen
<1>6. CASE DiscardAsked
  BY <1>0, <1>6 DEF DiscardAsked, CanTap, Unsaved
<1>7. CASE DialogDismissed \/ Logout
  BY <1>0, <1>7 DEF DialogDismissed, Logout
<1>8. CASE DiscardConfirmed
  BY <1>0, <1>8, Nulls DEF DiscardConfirmed, Remove
<1>9. CASE LogoutPosted \/ SessionEnds \/ \E u \in Users : SignIn(u)
  BY <1>0, <1>9, NewSessionMoves DEF LogoutPosted, SessionEnds, SignIn
<1>10. CASE Wipe
  <2>1. ~Gone.present /\ leaving'.pc = "no"
    BY <1>10, Nulls DEF Wipe, Staying
  <2> QED BY <1>0, <1>10, <2>1, TroubledMoves DEF Wipe, Remove
<1>11. CASE AppDies
  BY <1>11 DEF AppDies, Staying
<1>12. CASE \E a \in Declared : CacheReclaimed(a)
  BY <1>0, <1>12, TroubledMoves DEF CacheReclaimed
<1>13. CASE \E m \in late : ServeLate(m)
  BY <1>0, <1>13 DEF ServeLate
<1>14. ASSUME NEW a \in Attachments,
              AttemptBegins(a) \/ AttemptSettles(a) \/ AttemptDies(a) \/ Reset(a)
       PROVE  Going'
  BY <1>0, <1>14, TroubledMoves DEF AttemptBegins, AttemptSettles, AttemptDies, Reset
<1>15. CASE UNCHANGED vars
  BY <1>0, <1>15 DEF vars
<1> QED
  BY <1>1, <1>2, <1>3, <1>4, <1>5, <1>6, <1>7, <1>8, <1>9, <1>10, <1>11, <1>12, <1>13, <1>14,
     <1>15 DEF Next

-----------------------------------------------------------------------------
(* The capture is kept. *)

\* The server's event is there for good, and complete for good.
LEMMA EventStep ==
    ASSUME IInv, [Next]_vars
    PROVE  (event.exists => event'.exists) /\ (Complete => Complete')
<1>0. event \in [exists : BOOLEAN, status : CaptureStatus]
  BY DEF IInv, TypeOK
<1> USE DEF Complete
<1>1. CASE event' = event
  BY <1>1
<1>2. CASE DeclareServed \/ FinalizeServed
  BY <1>0, <1>2 DEF DeclareServed, DeclareEffect, FinalizeServed, FinalizeEffect, server
<1>3. CASE UploadServed
  BY <1>1, <1>3 DEF UploadServed, UploadEffect
<1>4. CASE \E m \in late : ServeLate(m)
  BY <1>0, <1>4 DEF ServeLate, DeclareEffect, UploadEffect, FinalizeEffect, server
<1>5. CASE \E a \in Attachments : AttemptSettles(a)
  BY <1>0, <1>5 DEF AttemptSettles
<1>6. CASE \E a \in Attachments : AttemptBegins(a) \/ AttemptDies(a) \/ Reset(a)
  BY <1>1, <1>6 DEF AttemptBegins, AttemptDies, Reset
<1>7. CASE \/ SaveWritten \/ SaveFailed \/ Flushed \/ FlushFails \/ RescueFiles
           \/ LookupAnswered \/ ReadRefused \/ RereadAnswered
           \/ DeclareAnswered \/ DeclareInlineFailed \/ DeclareRefused \/ DeclareUnanswered
           \/ UploadAnswered \/ UploadRefused
           \/ FinalizeAnswered \/ FinalizeRefused \/ Unanswered \/ Done
  BY <1>1, <1>7 DEF SaveWritten, SaveFailed, Flushed, FlushFails, RescueFiles, LookupAnswered,
     ReadRefused, RereadAnswered, DeclareAnswered, DeclareInlineFailed, DeclareRefused,
     DeclareUnanswered, UploadAnswered, UploadRefused, FinalizeAnswered, FinalizeRefused,
     Unanswered, Done, server
<1>8. CASE \/ Save \/ Resume \/ RemovalWritten \/ RemovalFails \/ Persist \/ LeaveScreen
           \/ DiscardAsked \/ DiscardConfirmed \/ DialogDismissed \/ Logout \/ LogoutPosted
           \/ Wipe \/ SessionEnds \/ (\E u \in Users : SignIn(u)) \/ AppDies
           \/ \E a \in Declared : CacheReclaimed(a)
  BY <1>1, <1>8 DEF Save, Resume, RemovalWritten, RemovalFails, Persist, LeaveScreen,
     DiscardAsked, DiscardConfirmed, DialogDismissed, Logout, LogoutPosted, Wipe, SessionEnds,
     SignIn, AppDies, CacheReclaimed, server
<1>9. CASE UNCHANGED vars
  BY <1>1, <1>9 DEF vars, server
<1> QED
  BY <1>2, <1>3, <1>4, <1>5, <1>6, <1>7, <1>8, <1>9 DEF Next, RunStep

\* What is saved is kept, file by file, whoever takes the step.
LEMMA KeptStep == ASSUME IInv, [Next]_vars PROVE Kept'
<1>0. /\ Unsaved /\ Going /\ Kept /\ TypeOK /\ screen \in {"form", "saving", "closed"}
      /\ event \in [exists : BOOLEAN, status : CaptureStatus]
      /\ files \in [Declared -> {"kept", "cached", "reclaimed", "released"}]
  BY DEF IInv, TypeOK
<1>1. Complete => Complete'
  BY EventStep
<1> USE DEF Kept, ui, server, hist, draft
<1>2. CASE RunStep
  <2>1. CASE Done
    <3>1. removing' => removing \/ Complete
      BY <2>1, Facts DEF Done, Remove, Sound
    <3>2. memory' = memory \/ Complete
      BY <2>1, Facts DEF Done, Sound
    <3>3. run'.pc = "idle" /\ UNCHANGED <<disk, files, leaving, givenUp, saved, screen>>
      BY <2>1 DEF Done, NoRun
    <3> QED BY <1>0, <1>1, <3>1, <3>2, <3>3
  <2>2. CASE SaveFailed
    <3>1. run'.pc = "idle" /\ UNCHANGED <<disk, files, leaving, givenUp, saved, removing>>
          /\ ~saved /\ run.pc = "saving"
      BY <1>0, <2>2 DEF SaveFailed, NoRun, Unsaved
    <3> QED BY <1>0, <1>1, <3>1
  <2>3. CASE ~Done /\ ~SaveFailed
    <3>1. /\ UNCHANGED <<leaving, givenUp, removing>>
          /\ memory'.present = memory.present
          /\ disk'.present = disk.present
             \/ (disk'.present = memory.present /\ (SaveWritten \/ Flushed))
      BY <1>2, <2>3, RunStepFrame, RunStepDraft, PatchesAre, Facts
    <3>2. run'.pc # "saving"
      <4>1. CASE run' = Served /\ run.pc \in Writes
        BY <4>1, <1>0, Facts, ServedIs DEF Writes
      <4> QED BY <1>2, <4>1, RunStepAdvances DEF Advance
    <3>3. saved' => saved \/ (run.pc = "saving" /\ memory.present /\ disk' = memory)
      BY <1>2, RunStepFrame DEF SaveWritten
    <3>4. screen' = screen \/ screen' = "closed"
      BY <1>2, <2>3, RunStepFrame
    <3>5. \A a \in Declared : files'[a] = "released" => files[a] = "released"
      BY <1>2, RunStepFrame
    <3>6. saved' /\ ~givenUp' /\ ~Complete' => memory'.present /\ disk'.present
      BY <1>0, <1>1, <3>1, <3>3
    <3> QED BY <1>0, <1>1, <3>1, <3>2, <3>3, <3>4, <3>5, <3>6
  <2> QED BY <2>1, <2>2, <2>3
<1>3. CASE Save
  BY <1>0, <1>3, <1>1, Nulls DEF Save, Unsaved
<1>4. CASE Resume
  <2>1. memory'.present /\ run.pc = "idle" /\ UNCHANGED <<disk, files, leaving, givenUp, saved, screen, removing>>
    BY <1>4, PatchesAre, Facts DEF Resume, Start, Patch, Patches, CanTap
  <2>2. run'.pc # "saving"
    <3>1. Tapped("rescue") \in Submission
      BY <1>4, TappedReady DEF Resume
    <3>2. ASSUME NEW d, Patch(d, Tapped("rescue"), "rescue") PROVE run'.pc # "saving"
      BY <3>1, <3>2, PatchGoes DEF Label, Onward
    <3>3. run' = Continue("rescue", Tapped("rescue")) => run'.pc # "saving"
      BY <3>1, ContinueGoes DEF Label, Onward
    <3> QED BY <1>4, <3>2, <3>3 DEF Resume, Start, NoRun
  <2> QED BY <1>0, <1>1, <2>1, <2>2
<1>5. CASE RemovalWritten
  BY <1>0, <1>5, <1>1 DEF RemovalWritten
<1>6. CASE RemovalFails \/ Persist
  BY <1>0, <1>6, <1>1 DEF RemovalFails, Persist
<1>7. CASE LeaveScreen
  BY <1>0, <1>7, <1>1 DEF LeaveScreen
<1>8. CASE DiscardAsked \/ DialogDismissed
  BY <1>0, <1>8, <1>1 DEF DiscardAsked, DialogDismissed
<1>9. CASE DiscardConfirmed
  BY <1>0, <1>9, <1>1 DEF DiscardConfirmed, Remove
<1>10. CASE Logout
  <2>1. leaving'.listed => givenUp'
    BY <1>10 DEF Logout
  <2> QED BY <1>0, <1>10, <1>1, <2>1 DEF Logout
<1>11. CASE LogoutPosted \/ SessionEnds \/ \E u \in Users : SignIn(u)
  <2>1. PICK u : NewSession(u)
    BY <1>11 DEF LogoutPosted, SessionEnds, SignIn
  <2>2. leaving'.listed = leaving.listed
    BY <1>0, <1>11 DEF LogoutPosted, SessionEnds, SignIn, TypeOK
  <2>3. UNCHANGED <<memory, disk, removing, givenUp, saved>>
    BY <1>11 DEF LogoutPosted, SessionEnds, SignIn
  <2>4. run'.pc = run.pc /\ screen' = "closed"
        /\ (files' = files \/ (~saved /\ run.pc = "idle"))
    BY <1>0, <2>1, NewSessionMoves DEF Unsaved
  <2> QED BY <1>0, <1>1, <2>2, <2>3, <2>4
<1>12. CASE Wipe
  <2>1. ~leaving'.listed
    BY <1>12 DEF Wipe, Staying
  <2>2. run'.pc = run.pc
    BY <1>0, <1>12, TroubledMoves DEF Wipe
  <2> QED BY <1>0, <1>12, <1>1, <2>1, <2>2 DEF Wipe, Remove
<1>13. CASE AppDies
  <2>1. ~leaving'.listed /\ run'.pc = "idle"
    BY <1>13 DEF AppDies, Staying, NoRun
  <2> QED BY <1>0, <1>13, <1>1, <2>1 DEF AppDies
<1>14. CASE \E a \in Declared : CacheReclaimed(a)
  BY <1>0, <1>14, <1>1, TroubledMoves DEF CacheReclaimed
<1>15. CASE \E m \in late : ServeLate(m)
  BY <1>0, <1>15, <1>1 DEF ServeLate
<1>16. ASSUME NEW a \in Attachments,
              AttemptBegins(a) \/ AttemptSettles(a) \/ AttemptDies(a) \/ Reset(a)
       PROVE  Kept'
  BY <1>0, <1>16, <1>1, TroubledMoves DEF AttemptBegins, AttemptSettles, AttemptDies, Reset
<1>17. CASE UNCHANGED vars
  BY <1>0, <1>17, <1>1 DEF vars
<1> QED
  BY <1>2, <1>3, <1>4, <1>5, <1>6, <1>7, <1>8, <1>9, <1>10, <1>11, <1>12, <1>13, <1>14, <1>15,
     <1>16, <1>17 DEF Next

\* Nor does a draft name a place its file is not at.
LEMMA PlacedStep == ASSUME IInv, [Next]_vars PROVE Placed'
<1>0. /\ Unsaved /\ Going /\ Placed /\ memory \in Draft /\ disk \in Draft /\ run \in Submission
      /\ screen \in {"form", "saving", "closed"}
      /\ files \in [Declared -> {"kept", "cached", "reclaimed", "released"}]
      /\ Gone.held = {}
  BY DEF IInv, TypeOK, Gone
<1>1. memory.held \subseteq Declared /\ disk.held \subseteq Declared
  BY <1>0 DEF Draft
<1> USE DEF Placed, ui, server, hist, draft
<1>2. CASE RunStep
  <2>1. /\ \A a \in Declared : files'[a] = files[a] \/ files'[a] = "kept"
        /\ disk' = disk \/ disk' = memory
        /\ screen' = screen \/ screen' = "closed" \/ (SaveFailed /\ screen' = "form")
    BY <1>2, RunStepFrame
  <2>2. \A a \in memory'.held : a \in memory.held \/ files'[a] = "kept"
    BY <1>0, <1>2, RunStepDraft, PatchesAre
  <2>3. memory'.held \subseteq Declared
    <3>1. memory' \in Draft
      BY <1>0, <1>2, RunStepDraft, PatchesAre, Nulls
    <3> QED BY <3>1 DEF Draft
  <2>4. screen' # "closed" => screen # "closed"
    BY <1>0, <2>1 DEF SaveFailed, Unsaved
  <2> QED BY <1>0, <1>1, <2>1, <2>2, <2>3, <2>4
<1>3. CASE Save
  <2>1. /\ memory' = [NewDraft EXCEPT !.held = Declared] /\ screen = "form"
        /\ disk' = disk /\ files' = files
    BY <1>3 DEF Save
  <2>2. memory'.held = Declared
    BY <2>1, Nulls DEF Draft
  <2> QED BY <1>0, <1>1, <2>1, <2>2
<1>4. CASE Resume
  <2>1. memory'.held = memory.held
    BY <1>0, <1>4 DEF Resume, Start, Patch, Draft
  <2> QED BY <1>0, <1>1, <1>4, <2>1 DEF Resume
<1>5. CASE RemovalWritten
  BY <1>0, <1>1, <1>5 DEF RemovalWritten, Going
<1>6. CASE RemovalFails \/ Persist
  BY <1>0, <1>1, <1>6 DEF RemovalFails, Persist
<1>7. CASE LeaveScreen
  BY <1>0, <1>1, <1>7 DEF LeaveScreen
<1>8. CASE DiscardAsked \/ DialogDismissed \/ Logout
  BY <1>0, <1>1, <1>8 DEF DiscardAsked, DialogDismissed, Logout
<1>9. CASE DiscardConfirmed \/ Wipe
  <2>1. memory' \in {memory, Gone} /\ UNCHANGED <<disk, files, screen>>
    BY <1>9 DEF DiscardConfirmed, Wipe, Remove
  <2> QED BY <1>0, <1>1, <2>1
<1>10. CASE LogoutPosted \/ SessionEnds \/ \E u \in Users : SignIn(u)
  <2>1. PICK u : NewSession(u)
    BY <1>10 DEF LogoutPosted, SessionEnds, SignIn
  <2>2. UNCHANGED <<memory, disk>>
    BY <1>10 DEF LogoutPosted, SessionEnds, SignIn
  <2> QED BY <1>0, <1>1, <2>1, <2>2 DEF NewSession
<1>11. CASE AppDies
  <2>1. /\ memory' = disk /\ disk' = disk /\ screen' = "closed"
        /\ files' = [a \in Declared |->
                        IF disk.present /\ files[a] = "kept" /\ a \notin disk.held
                        THEN "cached" ELSE files[a]]
    BY <1>11 DEF AppDies
  <2> QED BY <1>0, <1>1, <2>1
<1>12. CASE \E a \in Declared : CacheReclaimed(a)
  BY <1>0, <1>1, <1>12 DEF CacheReclaimed
<1>13. CASE \E m \in late : ServeLate(m)
  BY <1>0, <1>1, <1>13 DEF ServeLate
<1>14. CASE \E a \in Attachments :
              AttemptBegins(a) \/ AttemptSettles(a) \/ AttemptDies(a) \/ Reset(a)
  BY <1>0, <1>1, <1>14 DEF AttemptBegins, AttemptSettles, AttemptDies, Reset
<1>15. CASE UNCHANGED vars
  BY <1>0, <1>1, <1>15 DEF vars
<1> QED
  BY <1>2, <1>3, <1>4, <1>5, <1>6, <1>7, <1>8, <1>9, <1>10, <1>11, <1>12, <1>13, <1>14, <1>15
  DEF Next

-----------------------------------------------------------------------------
(* "Not sent" is the truth. *)

\* A declare leaves only from the write that pins the doubt, and that write only
\* follows from an answer that the server has nothing.
LEMMA DeclareOnlyPinned ==
    ASSUME IInv, RunStep
    PROVE  /\ run'.pc = "declare" /\ run'.call = "sent" => Flushed /\ run.then = "post"
           /\ run'.pc = "flush" /\ run'.then = "post" =>
                 LookupAnswered /\ (memory.present => memory' = Doubted)
<1> DEFINE Goal == /\ run'.pc = "declare" /\ run'.call = "sent" => Flushed /\ run.then = "post"
                   /\ run'.pc = "flush" /\ run'.then = "post" =>
                         LookupAnswered /\ (memory.present => memory' = Doubted)
<1>0. /\ run \in Submission /\ Settled \in Submission /\ Failed \in Submission
      /\ Answer \in Submission
  BY Facts, SettledIs
<1>1. ASSUME NEW d, NEW r \in Submission, NEW k \in Label \ {"none", "post"}, Patch(d, r, k)
      PROVE  Goal
  <2>1. "declare" \notin Onward(k) /\ "flush" \notin Onward(k)
    BY DEF Onward, Label
  <2> QED BY <1>1, <2>1, PatchGoes
<1>2. ASSUME NEW r \in Submission, NEW k \in Label \ {"none", "post"}, run' = Continue(k, r)
      PROVE  Goal
  <2>1. "declare" \notin Onward(k) /\ "flush" \notin Onward(k)
    BY DEF Onward, Label
  <2> QED BY <1>2, <2>1, ContinueGoes
<1>3. CASE run' = NoRun
  BY <1>3 DEF NoRun
<1>4. CASE SaveWritten
  <2>1. "rescue" \in Label \ {"none", "post"}
    BY DEF Label
  <2> QED BY <1>0, <1>1, <1>2, <1>3, <1>4, <2>1 DEF SaveWritten, Start
<1>5. CASE Flushed
  <2>1. run.then \in Label \ {"none"} /\ run' = Continue(run.then, run)
    BY <1>5, Facts DEF Flushed, Submission, Sound
  <2>2. CASE run.then = "post"
    <3>1. run'.pc \in {"idle", "declare"}
      BY <1>0, <2>1, <2>2, ContinueGoes DEF Onward
    <3> QED BY <1>5, <2>2, <3>1
  <2>3. CASE run.then # "post"
    BY <1>0, <1>2, <2>1, <2>3
  <2> QED BY <2>2, <2>3
<1>6. CASE RescueFiles
  <2>1. PICK kept \in SUBSET {a \in Declared : files[a] = "cached"} :
          LET r == [run EXCEPT !.trouble = run.trouble \/
                        \E a \in Declared \ kept : files[a] # "kept"]
          IN  IF kept = {}
              THEN run' = Continue("look", r) /\ UNCHANGED memory
              ELSE Patch([memory EXCEPT !.held = @ \cup kept], r, "look")
    BY <1>6 DEF RescueFiles
  <2> DEFINE t == run.trouble \/ \E a \in Declared \ kept : files[a] # "kept"
             r == [run EXCEPT !.trouble = t]
  <2>2. t \in BOOLEAN
    BY <1>0 DEF Submission
  <2>3. run' = Continue("look", r) \/ \E d : Patch(d, r, "look")
    BY <2>1
  <2> HIDE DEF t
  <2>4. r \in Submission
    BY <1>0, <2>2 DEF Submission
  <2> HIDE DEF r
  <2> QED BY <1>1, <1>2, <2>3, <2>4 DEF Label
<1>7. CASE LookupAnswered
  <2>1. CASE Patch(Remembered, Answer, "recover")
    BY <1>0, <1>1, <2>1 DEF Label
  <2>2. CASE ~run.stale /\ Patch(Doubted, Settled, "post")
    <3>1. ~Settled.stale
      BY <2>2, Facts, SettledIs
    <3>2. run' = [Settled EXCEPT !.pc = "flush", !.then = "post"]
          /\ (memory.present => memory' = Doubted)
      BY <2>2, <3>1 DEF Patch
    <3>3. run'.pc = "flush"
      BY <1>0, <3>2 DEF Submission
    <3> QED BY <1>7, <3>2, <3>3
  <2> QED BY <1>3, <1>7, <2>1, <2>2 DEF LookupAnswered
<1>8. CASE DeclareAnswered \/ DeclareRefused \/ DeclareUnanswered
  BY <1>0, <1>1, <1>3, <1>8 DEF DeclareAnswered, DeclareRefused, DeclareUnanswered, Label
<1>9. CASE DeclareInlineFailed
  <2>1. [Answer EXCEPT !.trouble = TRUE] \in Submission
    BY <1>0, Marked
  <2> QED BY <1>1, <1>9, <2>1 DEF DeclareInlineFailed, Label
<1>10. CASE UploadAnswered \/ UploadRefused
  <2>1. PICK r \in {Settled, Failed} : run' = NextUpload(r)
    BY <1>10 DEF UploadAnswered, UploadRefused
  <2>2. run'.pc \in {"idle", "reread", "upload"}
    BY <1>0, <2>1, NextUploadGoes
  <2> QED BY <2>2
<1>11. CASE RereadAnswered
  <2> DEFINE r == [Settled EXCEPT !.status = event.status]
  <2>1. r \in Submission
    BY <1>0, Facts DEF Submission
  <2>2. \/ run' = NoRun \/ run' = Send(r, "finalize")
        \/ Patch(Remembered, [r EXCEPT !.trouble = TRUE], "done")
    BY <1>11 DEF RereadAnswered
  <2> HIDE DEF r
  <2>3. [r EXCEPT !.trouble = TRUE] \in Submission /\ Send(r, "finalize").pc = "finalize"
    BY <2>1, SendGoes DEF Submission
  <2> QED BY <1>1, <1>3, <2>2, <2>3 DEF Label
<1>12. CASE FinalizeAnswered \/ FinalizeRefused \/ Unanswered
  <2>1. [Settled EXCEPT !.status = event.status] \in Submission
    BY <1>0, Facts DEF Submission
  <2> QED BY <1>0, <1>1, <1>12, <2>1 DEF FinalizeAnswered, FinalizeRefused, Unanswered, Label
<1>13. CASE DeclareServed \/ UploadServed \/ FinalizeServed
  <2>1. run' = Served /\ run.pc \in {"declare", "redeclare", "upload", "finalize"}
    BY <1>13 DEF DeclareServed, UploadServed, FinalizeServed
  <2>2. run'.pc # "flush" /\ run'.call = "served"
    BY <2>1, Facts, ServedIs
  <2> QED BY <2>2
<1>14. CASE SaveFailed \/ FlushFails \/ ReadRefused \/ Done
  BY <1>3, <1>14 DEF SaveFailed, FlushFails, ReadRefused, Done
<1> QED
  BY <1>4, <1>5, <1>6, <1>7, <1>8, <1>9, <1>10, <1>11, <1>12, <1>13, <1>14 DEF RunStep

\* What the server may have, only a declare makes it have.
LEMMA RunStepKnown ==
    ASSUME IInv, RunStep
    PROVE  Known' => Known \/ (Flushed /\ run.then = "post")
<1>1. event'.exists => event.exists \/ (run.pc = "declare" /\ run.call = "sent")
  <2>1. event \in [exists : BOOLEAN, status : CaptureStatus]
    BY DEF IInv, TypeOK
  <2>2. CASE DeclareServed
    BY <2>2, Facts DEF DeclareServed, Sound, At, Confirmed
  <2>3. CASE FinalizeServed
    BY <2>1, <2>3 DEF FinalizeServed, FinalizeEffect
  <2>4. CASE UploadServed
    BY <2>4 DEF UploadServed, UploadEffect
  <2>5. CASE ~DeclareServed /\ ~FinalizeServed /\ ~UploadServed
    BY <2>5 DEF RunStep, SaveWritten, SaveFailed, Flushed, FlushFails, RescueFiles,
       LookupAnswered, ReadRefused, RereadAnswered, DeclareAnswered, DeclareInlineFailed,
       DeclareRefused, DeclareUnanswered, UploadAnswered, UploadRefused, FinalizeAnswered,
       FinalizeRefused, Unanswered, Done, server
  <2> QED BY <2>2, <2>3, <2>4, <2>5
<1>2. DeclareOverdue' => DeclareOverdue \/ event.exists \/ (run.pc = "declare" /\ run.call = "sent")
  <2>1. late' = late \/ Overdue
    BY DEF RunStep, SaveWritten, SaveFailed, Flushed, FlushFails, RescueFiles,
       LookupAnswered, ReadRefused, RereadAnswered, DeclareServed, DeclareAnswered,
       DeclareInlineFailed, DeclareRefused, DeclareUnanswered, UploadServed, UploadAnswered,
       UploadRefused, FinalizeServed, FinalizeAnswered, FinalizeRefused, Unanswered, Done
  <2>2. run.pc = "redeclare" => event.exists
    BY Facts DEF Sound, At, Confirmed
  <2> QED BY <2>1, <2>2, OverdueIs DEF DeclareOverdue
<1> QED BY <1>1, <1>2, DeclareOnlyPinned DEF Known

\* A submission goes on with a draft that declares what it holds.
LEMMA StartDeclares ==
    ASSUME TypeOK, NEW r, Start(r)
    PROVE  /\ run'.pc # "idle" /\ memory'.present => memory'.declaration
           /\ memory' = memory \/ (memory.present /\ memory' \in Patches)
<1>0. memory \in Draft /\ NoRun.pc = "idle"
  BY DEF TypeOK, NoRun
<1>1. CASE run' = NoRun /\ memory' = memory
  BY <1>0, <1>1
<1>2. CASE memory.declaration /\ memory' = memory
  BY <1>2
<1>3. CASE ~r.stale /\ Patch([memory EXCEPT !.declaration = TRUE], r, "rescue")
  <2>1. memory' = IF memory.present THEN [memory EXCEPT !.declaration = TRUE] ELSE memory
    BY <1>3 DEF Patch
  <2> QED BY <1>0, <2>1, PatchesAre DEF Patches
<1> QED BY <1>1, <1>2, <1>3 DEF Start

\* The submission's own steps keep the draft telling;
LEMMA PinnedRun == ASSUME IInv, RunStep PROVE Pinned'
<1>0. Pinned /\ TypeOK /\ memory \in Draft /\ run \in Submission
  BY Facts DEF IInv
<1>1. /\ memory'.present => memory.present
      /\ \/ memory' = memory \/ memory' \in Patches \/ ~memory'.present
         \/ memory' = Refuted /\ DeclareRefused
  BY <1>0, RunStepDraft, PatchesAre, Nulls
<1>2. Known' => Tells(memory)' /\ Tells(disk)'
  <2>1. CASE Flushed /\ run.then = "post"
    <3>1. run.pc = "flush" /\ disk' = memory /\ memory' = memory
      BY <2>1 DEF Flushed
    <3> QED BY <1>0, <2>1, <3>1 DEF Pinned, Tells
  <2>2. ASSUME ~(Flushed /\ run.then = "post"), Known'
        PROVE  Tells(memory)' /\ Tells(disk)'
    <3>1. Known /\ (blind => blind') /\ (disk' = disk \/ disk' = memory)
      BY <2>2, RunStepKnown, RunStepFrame
    <3>2. Tells(memory) /\ Tells(disk)
      BY <1>0, <3>1 DEF Pinned
    <3>3. Tells(disk)'
      BY <3>1, <3>2 DEF Tells
    <3>4. CASE memory' = memory \/ memory' \in Patches \/ ~memory'.present
      BY <1>0, <1>1, <3>1, <3>2, <3>4, PatchesAre DEF Tells
    <3>5. CASE memory' = Refuted /\ DeclareRefused /\ run.pc = "declare"
      <4>1. event' = event /\ late' = late /\ blind' = (blind \/ event.exists \/ DeclareOverdue)
        BY <3>5 DEF DeclareRefused, server
      <4>2. event.exists \/ DeclareOverdue
        BY <2>2, <3>5, <4>1, DeclareOnlyPinned DEF Known, DeclareOverdue, DeclareRefused, Flushed
      <4> QED BY <1>0, <3>2, <3>3, <3>5, <4>1, <4>2, PatchesAre DEF Tells
    <3>6. CASE DeclareRefused /\ run.pc # "declare"
      <4>1. memory' = memory
        BY <3>6 DEF DeclareRefused, Patch
      <4> QED BY <3>1, <3>2, <3>3, <4>1 DEF Tells
    <3> QED BY <1>1, <3>4, <3>5, <3>6
  <2> QED BY <2>1, <2>2
<1>3. run'.pc \notin {"idle", "saving"} /\ memory'.present => memory'.declaration
  <2>1. CASE SaveWritten
    BY <1>0, <2>1, StartDeclares DEF SaveWritten
  <2>2. CASE SaveFailed
    BY <2>2 DEF SaveFailed, NoRun
  <2>3. CASE run.pc # "saving"
    <3>1. memory.present => memory.declaration
      BY <1>0, <2>3, RunStepFrame DEF Pinned
    <3> QED BY <1>0, <1>1, <3>1, PatchesAre
  <2> QED BY <2>1, <2>2, <2>3, RunStepFrame
<1>4. run'.pc = "flush" /\ run'.then = "post" /\ memory'.present =>
          memory'.server \/ memory'.unconfirmed
  BY <1>0, <1>1, DeclareOnlyPinned, PatchesAre
<1> QED BY <1>2, <1>3, <1>4 DEF Pinned

\* so does every other one, a death and a late declare included.
LEMMA PinnedStep == ASSUME IInv, [Next]_vars PROVE Pinned'
<1>0. /\ Pinned /\ Unsaved /\ Going /\ TypeOK /\ memory \in Draft /\ run \in Submission
      /\ ~Gone.present /\ Sound(run)
  BY Facts, Nulls DEF IInv
<1> USE DEF Pinned, Tells, Known, DeclareOverdue, ui, server, hist, draft
<1>1. CASE RunStep
  BY <1>1, PinnedRun
<1>2. CASE Save
  <2>1. run'.pc = "saving"
    BY <1>2 DEF Save, Tapped, NoRun
  <2>2. ~Known'
    BY <1>0, <1>2, <2>1 DEF Save, Unsaved
  <2> QED BY <2>1, <2>2
<1>3. CASE Resume
  <2>1. /\ run'.pc # "idle" /\ memory'.present => memory'.declaration
        /\ memory' = memory \/ (memory.present /\ memory' \in Patches)
    BY <1>0, <1>3, StartDeclares DEF Resume
  <2>2. UNCHANGED <<disk, event, late, blind>>
    BY <1>3 DEF Resume
  <2>3. run'.pc # "declare" /\ ~(run'.pc = "flush" /\ run'.then = "post")
    <3>1. Tapped("rescue") \in Submission
      BY <1>3, TappedReady DEF Resume
    <3>2. ASSUME NEW d, Patch(d, Tapped("rescue"), "rescue")
          PROVE  run'.pc # "declare" /\ ~(run'.pc = "flush" /\ run'.then = "post")
      BY <3>1, <3>2, PatchGoes DEF Label, Onward
    <3>3. run' = Continue("rescue", Tapped("rescue")) => run'.pc \notin {"declare", "flush"}
      BY <3>1, ContinueGoes DEF Label, Onward
    <3> QED BY <1>3, <3>2, <3>3 DEF Resume, Start, NoRun
  <2> QED BY <1>0, <2>1, <2>2, <2>3, PatchesAre
<1>4. CASE RemovalWritten \/ RemovalFails \/ Persist
  BY <1>0, <1>4 DEF RemovalWritten, RemovalFails, Persist
<1>5. CASE LeaveScreen \/ DiscardAsked \/ DialogDismissed \/ Logout
  BY <1>0, <1>5 DEF LeaveScreen, DiscardAsked, DialogDismissed, Logout
<1>6. CASE DiscardConfirmed
  BY <1>0, <1>6 DEF DiscardConfirmed, Remove
<1>7. CASE LogoutPosted \/ SessionEnds \/ \E u \in Users : SignIn(u)
  <2>1. run'.pc = run.pc /\ run'.then = run.then /\ run'.call = run.call
        /\ UNCHANGED <<memory, disk, event, late, blind>>
    BY <1>0, <1>7, NewSessionMoves DEF LogoutPosted, SessionEnds, SignIn
  <2> QED BY <1>0, <2>1
<1>8. CASE Wipe
  <2>1. run'.pc = run.pc /\ run'.then = run.then /\ run'.call = run.call
        /\ (memory' = memory \/ memory' = Gone) /\ UNCHANGED <<disk, event, late, blind>>
    BY <1>0, <1>8, TroubledMoves DEF Wipe, Remove
  <2> QED BY <1>0, <2>1
<1>9. CASE AppDies
  <2>1. run'.pc = "idle" /\ memory' = disk /\ UNCHANGED <<disk, event, blind>>
        /\ late' \in {late, late \cup InFlight}
    BY <1>9 DEF AppDies, NoRun
  <2>2. run.pc = "redeclare" => event.exists
    BY <1>0 DEF Sound, At, Confirmed
  <2>3. Known' => Known
    BY <2>1, <2>2, InFlightIs
  <2> QED BY <1>0, <2>1, <2>3
<1>10. CASE \E a \in Declared : CacheReclaimed(a)
  BY <1>0, <1>10, TroubledMoves DEF CacheReclaimed
<1>11. CASE \E m \in late : ServeLate(m)
  <2>1. PICK m \in late : ServeLate(m)
    BY <1>11
  <2>2. event'.exists => event.exists \/ m.kind = "declare"
    <3>1. event \in [exists : BOOLEAN, status : CaptureStatus]
      BY <1>0 DEF TypeOK
    <3> QED BY <2>1, <3>1 DEF ServeLate, UploadEffect, FinalizeEffect
  <2>3. UNCHANGED <<run, memory, disk, blind>> /\ late' \subseteq late
    BY <2>1 DEF ServeLate
  <2>4. Known' => Known
    BY <2>2, <2>3
  <2> QED BY <1>0, <2>3, <2>4
<1>12. ASSUME NEW a \in Attachments,
              AttemptBegins(a) \/ AttemptSettles(a) \/ AttemptDies(a) \/ Reset(a)
       PROVE  Pinned'
  <2>1. run'.pc = run.pc /\ run'.then = run.then /\ run'.call = run.call
        /\ UNCHANGED <<memory, disk, late, blind>>
    BY <1>0, <1>12, TroubledMoves DEF AttemptBegins, AttemptSettles, AttemptDies, Reset
  <2>2. event'.exists = event.exists
    <3>1. event \in [exists : BOOLEAN, status : CaptureStatus]
      BY <1>0 DEF TypeOK
    <3> QED BY <1>12, <3>1 DEF AttemptBegins, AttemptSettles, AttemptDies, Reset
  <2> QED BY <1>0, <2>1, <2>2
<1>13. CASE UNCHANGED vars
  BY <1>0, <1>13 DEF vars
<1> QED
  BY <1>1, <1>2, <1>3, <1>4, <1>5, <1>6, <1>7, <1>8, <1>9, <1>10, <1>11, <1>12, <1>13 DEF Next

\* Only what its author sent is overdue.
LEMMA LateStep == ASSUME IInv, [Next]_vars PROVE LateIsAuthors'
<1>0. LateIsAuthors
  BY DEF IInv
<1> USE DEF LateIsAuthors, ui, server, hist, draft
<1>1. CASE RunStep
  <2>1. late' = late \/ Overdue
    BY <1>1 DEF RunStep, SaveWritten, SaveFailed, Flushed, FlushFails, RescueFiles,
       LookupAnswered, ReadRefused, RereadAnswered, DeclareServed, DeclareAnswered,
       DeclareInlineFailed, DeclareRefused, DeclareUnanswered, UploadServed, UploadAnswered,
       UploadRefused, FinalizeServed, FinalizeAnswered, FinalizeRefused, Unanswered, Done
  <2> QED BY <1>0, <2>1, OverdueIs
<1>2. CASE AppDies
  BY <1>0, <1>2, InFlightIs DEF AppDies
<1>3. CASE \E m \in late : ServeLate(m)
  BY <1>0, <1>3 DEF ServeLate
<1>4. CASE late' = late
  BY <1>0, <1>4
<1>5. CASE \/ Save \/ Resume \/ RemovalWritten \/ RemovalFails \/ Persist \/ LeaveScreen
           \/ DiscardAsked \/ DiscardConfirmed \/ DialogDismissed \/ Logout \/ LogoutPosted
           \/ Wipe \/ SessionEnds \/ (\E u \in Users : SignIn(u))
           \/ \E a \in Declared : CacheReclaimed(a)
  BY <1>4, <1>5 DEF Save, Resume, RemovalWritten, RemovalFails, Persist, LeaveScreen,
     DiscardAsked, DiscardConfirmed, DialogDismissed, Logout, LogoutPosted, Wipe, SessionEnds,
     SignIn, CacheReclaimed
<1>6. CASE \E a \in Attachments :
             AttemptBegins(a) \/ AttemptSettles(a) \/ AttemptDies(a) \/ Reset(a)
  BY <1>4, <1>6 DEF AttemptBegins, AttemptSettles, AttemptDies, Reset
<1>7. CASE UNCHANGED vars
  BY <1>4, <1>7 DEF vars
<1> QED BY <1>1, <1>2, <1>3, <1>5, <1>6, <1>7 DEF Next

\* The invariant holds at first,
LEMMA Initial == Init => IInv
<1> SUFFICES ASSUME Init PROVE IInv
  OBVIOUS
<1> USE DEF Init
<1>1. TypeOK
  <2>1. memory \in Draft /\ disk \in Draft /\ run \in Submission
        /\ att \in [Attachments -> AttachmentState] /\ user \in Users \cup {Nobody}
    BY Nulls
  <2>2. files \in [Declared -> {"kept", "cached", "reclaimed", "released"}]
    OBVIOUS
  <2>3. leaving \in [pc : {"no", "posting", "wiping"}, listed : BOOLEAN]
        /\ event \in [exists : BOOLEAN, status : CaptureStatus] /\ faults \in 0..MaxFaults
    BY DEF Staying, CaptureStatus
  <2>4. /\ screen \in {"form", "saving", "closed"} /\ dialog \in {"none", "open", "outdated"}
        /\ removing \in BOOLEAN /\ trying \subseteq Attachments /\ late \subseteq Message
        /\ saved \in BOOLEAN /\ givenUp \in BOOLEAN /\ blind \in BOOLEAN
    OBVIOUS
  <2> QED BY <2>1, <2>2, <2>3, <2>4 DEF TypeOK
<1>2. Sound(run)
  BY NoRunSound
<1>3. run.pc = "idle" /\ ~leaving.listed /\ leaving.pc = "no" /\ ~Gone.present
  BY Nulls DEF NoRun, Staying
<1>4. Unsaved /\ Going /\ LateIsAuthors
  BY <1>3 DEF Unsaved, Going, LateIsAuthors
<1>5. Kept
  BY <1>3, Nulls DEF Kept
<1>6. Placed
  BY DEF Placed, NewDraft, Gone
<1>7. ~Known
  BY <1>3 DEF Known, DeclareOverdue
<1>8. Pinned
  BY <1>3, <1>7 DEF Pinned
<1> QED BY <1>1, <1>2, <1>4, <1>5, <1>6, <1>8 DEF IInv

\* and from step to step.
LEMMA InvStep == IInv /\ [Next]_vars => IInv'
<1> SUFFICES ASSUME IInv, [Next]_vars PROVE IInv'
  OBVIOUS
<1> QED
  BY TypeStep, SubmissionStep, UnsavedStep, GoingStep, KeptStep, PlacedStep, PinnedStep,
     LateStep DEF IInv

-----------------------------------------------------------------------------
(* The theorems. *)

\* The inductive invariant.
THEOREM Invariance == Spec => []IInv
<1>1. Init => IInv
  BY Initial
<1>2. IInv /\ [Next]_vars => IInv'
  BY InvStep
<1> QED BY <1>1, <1>2, PTL DEF Spec

\* The submission as it leaves off, whatever happens around it.
LEMMA OthersLeaveIt ==
    ASSUME IInv, [Next]_vars, ~RunStep, run.pc # "idle"
    PROVE  \/ AppDies
           \/ /\ run'.pc = run.pc /\ run'.then = run.then
              /\ run'.call = run.call /\ run'.item = run.item
<1>0. run \in Submission
  BY Facts
<1>1. CASE Save \/ Resume
  BY <1>1 DEF Save, Resume, CanTap
<1>2. CASE \/ RemovalWritten \/ RemovalFails \/ Persist \/ LeaveScreen
           \/ DiscardAsked \/ DiscardConfirmed \/ DialogDismissed \/ Logout
           \/ (\E m \in late : ServeLate(m)) \/ (\E a \in Attachments : AttemptBegins(a))
           \/ UNCHANGED vars
  BY <1>2 DEF RemovalWritten, RemovalFails, Persist, LeaveScreen, DiscardAsked,
     DiscardConfirmed, DialogDismissed, Logout, ServeLate, AttemptBegins, vars
<1>3. CASE LogoutPosted \/ SessionEnds \/ \E u \in Users : SignIn(u)
  BY <1>0, <1>3 DEF LogoutPosted, SessionEnds, SignIn, NewSession, Outdated, Submission
<1>4. CASE \/ Wipe \/ (\E a \in Declared : CacheReclaimed(a))
           \/ \E a \in Attachments : AttemptSettles(a) \/ AttemptDies(a) \/ Reset(a)
  <2>1. run' = run \/ run' = Troubled(run)
    BY <1>4 DEF Wipe, CacheReclaimed, AttemptSettles, AttemptDies, Reset
  <2> QED BY <1>0, <2>1 DEF Troubled, Submission
<1> QED BY <1>1, <1>2, <1>3, <1>4 DEF Next

\* While the session lasts, there is something to send or to read again.
LEMMA NextUploadStays ==
    ASSUME NEW r \in Submission, ~r.stale
    PROVE  NextUpload(r).pc # "idle"
<1>1. CASE NextUpload(r) = [Send(r, "reread") EXCEPT !.item = Nobody, !.todo = {}]
  BY <1>1, SendGoes
<1>2. ASSUME NEW a, NEW todo,
             NextUpload(r) = [Send(r, "upload") EXCEPT !.item = a, !.todo = todo]
      PROVE  NextUpload(r).pc # "idle"
  BY <1>2, SendGoes
<1> QED BY <1>1, <1>2, NextUploadIs

\* A submission of the account that is signed in goes on until it returns.
LEMMA ContinueStays ==
    ASSUME NEW r \in Submission, ~r.stale, NEW k \in Label \ {"none", "return"}
    PROVE  Continue(k, r).pc # "idle"
<1>0. k \in {"rescue", "look", "post", "recover", "uploads", "done"}
  BY DEF Label
<1>1. ASSUME NEW pc PROVE [r EXCEPT !.pc = pc, !.then = "none"].pc = pc
  BY DEF Submission
<1>2. StartUploads(r).pc # "idle"
  <2> DEFINE stranded == {a \in Declared : files[a] = "kept" /\ r.seen[a] = "pending"}
             todo == {a \in Declared : r.seen[a] \in {"awaiting_upload", "failed"}}
             x == [r EXCEPT !.seen = Unseen, !.todo = todo, !.blocked = stranded # {},
                            !.trouble = r.trouble \/ stranded # {}]
  <2>1. todo \in SUBSET Attachments /\ (stranded # {}) \in BOOLEAN
        /\ (r.trouble \/ stranded # {}) \in BOOLEAN
    BY Nulls
  <2>2. StartUploads(r) = NextUpload(x)
    BY DEF StartUploads
  <2> HIDE DEF stranded, todo
  <2>3. x \in Submission /\ ~x.stale
    <3>1. PICK b, t : b = (stranded # {}) /\ t = (r.trouble \/ stranded # {})
      OBVIOUS
    <3>2. b \in BOOLEAN /\ t \in BOOLEAN
      BY <2>1, <3>1
    <3>3. x = Replan(r, Unseen, todo, b, t)
      BY <3>1 DEF Replan
    <3> HIDE DEF x
    <3> QED BY <2>1, <3>2, <3>3, Nulls, Replanned
  <2> HIDE DEF x
  <2> QED BY <2>2, <2>3, NextUploadStays
<1> QED BY <1>0, <1>1, <1>2, SendGoes DEF Continue

\* A submission that patches for the account signed in awaits the write.
LEMMA PatchStays ==
    ASSUME NEW d, NEW r \in Submission, ~r.stale, NEW k \in Label \ {"none"}, Patch(d, r, k)
    PROVE  run'.pc # "idle"
BY PatchMoves

\* How a submission in which nothing went wrong ends.
QuietEnd ==
    \/ event.status = "complete" /\ ~memory'.present
    \/ SaveFailed \/ FlushFails \/ ReadRefused \/ DeclareUnanswered \/ AppDies

\* The ends of a quiet submission, step by step.
LEMMA QuietRun ==
    ASSUME IInv, RunStep, ~run.trouble, ~run.stale, run'.pc = "idle"
    PROVE  QuietEnd
<1>0. /\ run \in Submission /\ Settled \in Submission /\ Failed \in Submission
      /\ Answer \in Submission /\ ~Settled.stale /\ ~Failed.stale /\ ~Answer.stale
  BY Facts, SettledIs
<1>1. CASE SaveWritten
  BY <1>0, <1>1, ContinueStays, PatchStays DEF SaveWritten, Start, Label
<1>2. CASE Flushed
  <2>1. run.then \in Label \ {"none", "return"} /\ run' = Continue(run.then, run)
    BY <1>2, Facts DEF Flushed, Submission, Sound, At
  <2> QED BY <1>0, <2>1, ContinueStays
<1>3. CASE RescueFiles
  <2>1. PICK t \in BOOLEAN : \/ run' = Continue("look", [run EXCEPT !.trouble = t])
                             \/ \E d : Patch(d, [run EXCEPT !.trouble = t], "look")
    <3>1. PICK kept \in SUBSET {a \in Declared : files[a] = "cached"} :
            LET r == [run EXCEPT !.trouble = run.trouble \/
                          \E a \in Declared \ kept : files[a] # "kept"]
            IN  IF kept = {}
                THEN run' = Continue("look", r) /\ UNCHANGED memory
                ELSE Patch([memory EXCEPT !.held = @ \cup kept], r, "look")
      BY <1>3 DEF RescueFiles
    <3> DEFINE t == run.trouble \/ \E a \in Declared \ kept : files[a] # "kept"
    <3>2. t \in BOOLEAN
      BY <1>0 DEF Submission
    <3>3. \/ run' = Continue("look", [run EXCEPT !.trouble = t])
          \/ \E d : Patch(d, [run EXCEPT !.trouble = t], "look")
      BY <3>1
    <3> HIDE DEF t
    <3> QED BY <3>2, <3>3
  <2>2. [run EXCEPT !.trouble = t] \in Submission /\ ~[run EXCEPT !.trouble = t].stale
    BY <1>0, Marked
  <2> QED BY <2>1, <2>2, ContinueStays, PatchStays DEF Label
<1>4. CASE LookupAnswered
  BY <1>0, <1>4, PatchStays DEF LookupAnswered, Label
<1>5. CASE DeclareAnswered \/ DeclareRefused
  BY <1>0, <1>5, PatchStays DEF DeclareAnswered, DeclareRefused, Label
<1>6. CASE DeclareInlineFailed
  <2>1. [Answer EXCEPT !.trouble = TRUE] \in Submission /\ ~[Answer EXCEPT !.trouble = TRUE].stale
    BY <1>0, Marked
  <2> QED BY <1>6, <2>1, PatchStays DEF DeclareInlineFailed, Label
<1>7. CASE UploadAnswered \/ UploadRefused
  BY <1>0, <1>7, NextUploadStays DEF UploadAnswered, UploadRefused
<1>8. CASE RereadAnswered
  <2> DEFINE r == [Settled EXCEPT !.status = event.status]
  <2>1. r \in Submission /\ ~r.stale
    BY <1>0, Facts DEF Submission
  <2>2. \/ run' = Send(r, "finalize")
        \/ Patch(Remembered, [r EXCEPT !.trouble = TRUE], "done")
    BY <1>8 DEF RereadAnswered
  <2> HIDE DEF r
  <2>3. [r EXCEPT !.trouble = TRUE] \in Submission /\ ~[r EXCEPT !.trouble = TRUE].stale
    BY <2>1 DEF Submission
  <2>4. CASE run' = Send(r, "finalize")
    BY <2>1, <2>4, SendGoes
  <2>5. CASE Patch(Remembered, [r EXCEPT !.trouble = TRUE], "done")
    BY <2>3, <2>5, PatchStays DEF Label
  <2> QED BY <2>2, <2>4, <2>5
<1>9. CASE FinalizeAnswered \/ FinalizeRefused \/ Unanswered
  <2>1. [Settled EXCEPT !.status = event.status] \in Submission
        /\ ~[Settled EXCEPT !.status = event.status].stale
    BY <1>0, Facts DEF Submission
  <2> QED BY <1>0, <1>9, <2>1, PatchStays DEF FinalizeAnswered, FinalizeRefused, Unanswered, Label
<1>10. CASE DeclareServed \/ UploadServed \/ FinalizeServed
  <2>1. run' = Served /\ run.pc \in Writes
    BY <1>10 DEF DeclareServed, UploadServed, FinalizeServed, Writes
  <2> QED BY <2>1, Facts, ServedIs DEF Writes
<1>11. CASE Done
  <2>1. run.status = "complete" /\ ~run.blocked /\ Complete
    BY <1>11, Facts DEF Done, Sound, Achieved, At
  <2>2. memory' = Gone
    BY <1>11, <2>1 DEF Done, Remove
  <2> QED BY <2>1, <2>2, Nulls DEF QuietEnd, Complete
<1>12. CASE SaveFailed \/ FlushFails \/ ReadRefused \/ DeclareUnanswered
  BY <1>12 DEF QuietEnd
<1> QED
  BY <1>1, <1>2, <1>3, <1>4, <1>5, <1>6, <1>7, <1>8, <1>9, <1>10, <1>11, <1>12 DEF RunStep

\* What the submission's variables may hold, whatever the manifest, the accounts
\* and the number of faults (siteLog/submit.ts:69-92, store/siteLogDrafts.ts:80-102).
THEOREM TypeCorrect == Spec => []TypeOK
<1>1. IInv => TypeOK
  BY DEF IInv
<1> QED BY <1>1, Invariance, PTL

\* siteLog/submit.ts:200-201 and 399-403: a submission in which nothing went wrong
\* ends only by completing the capture, whatever state earlier ones left it in:
\* whatever the manifest, the accounts and the number of faults before it.
THEOREM QuietRunsComplete == Spec => QuietRunCompletes
<1>1. IInv /\ [Next]_vars =>
        [/\ run.pc # "idle" /\ ~run.trouble /\ ~run.stale
         /\ run'.pc = "idle"
         => \/ event.status = "complete" /\ ~memory'.present
            \/ SaveFailed \/ FlushFails \/ ReadRefused \/ DeclareUnanswered
            \/ AppDies]_vars
  BY QuietRun, OthersLeaveIt DEF QuietEnd
<1> QED BY <1>1, Invariance, PTL DEF Spec, QuietRunCompletes

\* siteLog/submit.ts:200-201 and 507-511, the spinner that never cleared: every
\* answer, refusal and time-out moves a submission on, the next attachment being
\* one that was still to do; of any number of attachments, none is sent twice.
THEOREM RunsAdvance == Spec => RunAdvances
<1>1. IInv /\ [Next]_vars =>
        [/\ run.pc # "idle" /\ run'.pc # "idle"
         /\ <<run'.pc, run'.then, run'.call, run'.item>> #
               <<run.pc, run.then, run.call, run.item>>
         => \/ Along(run') > Along(run)
            \/ /\ Along(run') = Along(run)
               /\ \/ run'.todo \subseteq run.todo \ {run'.item} /\ run'.item \in run.todo
                  \/ run'.todo = run.todo /\ run.call = "sent" /\ run'.call = "served"
        ]_vars
  <2> SUFFICES ASSUME IInv, [Next]_vars, run.pc # "idle", run'.pc # "idle",
                      <<run'.pc, run'.then, run'.call, run'.item>> #
                         <<run.pc, run.then, run.call, run.item>>
               PROVE  \/ Along(run') > Along(run)
                      \/ /\ Along(run') = Along(run)
                         /\ \/ run'.todo \subseteq run.todo \ {run'.item} /\ run'.item \in run.todo
                            \/ run'.todo = run.todo /\ run.call = "sent" /\ run'.call = "served"
    OBVIOUS
  <2>1. ~AppDies
    BY DEF AppDies, NoRun
  <2>2. RunStep
    BY <2>1, OthersLeaveIt
  <2>3. CASE run' = Served /\ run.call = "sent" /\ run.pc \in Writes
    <3>1. /\ run'.pc = run.pc /\ run'.todo = run.todo /\ run'.call = "served"
          /\ run.pc # "flush" /\ run'.then = run.then
      BY <2>3, Facts, ServedIs DEF Writes
    <3> QED BY <2>3, <3>1 DEF Along
  <2>4. CASE run.pc = "upload" /\ run'.pc = "upload"
    BY <2>2, <2>4, <2>3, RunStepAdvances DEF Advance, Along
  <2> QED BY <2>2, <2>3, <2>4, RunStepAdvances DEF Advance
<1> QED BY <1>1, Invariance, PTL DEF Spec, RunAdvances

\* store/siteLogDrafts.ts:10-12, "nothing the user typed, chose or recorded should
\* be lost": with any manifest and through any number of app deaths, failed writes,
\* sign-outs and lost answers, a saved capture and its files stay on the phone
\* until the server has it complete or the user gave it up.
THEOREM CaptureIsKept == Spec => []NothingIsLost
<1>1. IInv => NothingIsLost
  <2> SUFFICES ASSUME IInv, saved, ~givenUp, event.status # "complete"
               PROVE  /\ disk.present /\ \A a \in Declared : files[a] # "released"
                      /\ \A a \in disk.held : files[a] = "kept"
    BY DEF NothingIsLost
  <2>1. disk.held \subseteq Declared
    BY DEF IInv, TypeOK, Draft
  <2> QED BY <2>1 DEF IInv, Kept, Placed, Complete
<1> QED BY <1>1, Invariance, PTL

\* siteLog/submit.ts:95-101: nothing that writes leaves under another account, of
\* however many that take turns on the phone.
THEOREM AuthorWrites == Spec => []OnlyTheAuthorWrites
<1>1. IInv => OnlyTheAuthorWrites
  BY DEF IInv, Sound, LateIsAuthors, OnlyTheAuthorWrites
<1> QED BY <1>1, Invariance, PTL

\* siteLog/submit.ts:334-341: a draft on disk that says "not sent" is the truth,
\* through any number of deaths and late requests, but for a declare the phone
\* gave up on that is served around a refusal.
THEOREM NotSentTruth == Spec => []NotSentIsTrue
<1>1. IInv => NotSentIsTrue
  BY DEF IInv, Pinned, Known, Tells, NotSentIsTrue
<1> QED BY <1>1, Invariance, PTL

\* siteLog/submit.ts:212-214 and 224-225: what was discarded, wiped or confirmed
\* stays away: no late patch, write or restart brings it back.
THEOREM RemovedStays == Spec => NoResurrection
<1>1. IInv /\ [Next]_vars =>
        [~memory.present /\ ~disk.present /\ screen # "form" =>
            ~memory'.present /\ ~disk'.present]_vars
  <2> SUFFICES ASSUME IInv, [Next]_vars, ~memory.present, ~disk.present, screen # "form"
               PROVE  ~memory'.present /\ ~disk'.present
    OBVIOUS
  <2>0. ~Gone.present
    BY Nulls
  <2>1. CASE RunStep
    BY <2>0, <2>1, RunStepDraft, RunStepFrame
  <2>2. CASE Save \/ Resume
    BY <2>2 DEF Save, Resume
  <2>3. CASE RemovalWritten \/ RemovalFails \/ Persist \/ LeaveScreen \/ DiscardAsked
             \/ DiscardConfirmed \/ DialogDismissed \/ Logout
    BY <2>0, <2>3 DEF RemovalWritten, RemovalFails, Persist, LeaveScreen, DiscardAsked,
       DiscardConfirmed, DialogDismissed, Logout, Remove, draft
  <2>4. CASE LogoutPosted \/ Wipe \/ SessionEnds \/ (\E u \in Users : SignIn(u)) \/ AppDies
             \/ \E a \in Declared : CacheReclaimed(a)
    BY <2>0, <2>4 DEF LogoutPosted, Wipe, SessionEnds, SignIn, AppDies, CacheReclaimed,
       Remove, draft
  <2>5. CASE \/ \E m \in late : ServeLate(m)
             \/ \E a \in Attachments :
                  AttemptBegins(a) \/ AttemptSettles(a) \/ AttemptDies(a) \/ Reset(a)
    BY <2>5 DEF ServeLate, AttemptBegins, AttemptSettles, AttemptDies, Reset, draft
  <2>6. CASE UNCHANGED vars
    BY <2>6 DEF vars, draft
  <2> QED BY <2>1, <2>2, <2>3, <2>4, <2>5, <2>6 DEF Next
<1> QED BY <1>1, Invariance, PTL DEF Spec, NoResurrection

=============================================================================
