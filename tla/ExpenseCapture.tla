---------------------------- MODULE ExpenseCapture ----------------------------
(***************************************************************************)
(* Creating expenses: the capture screen of one phone, its failed captures *)
(* and retries (mobile/app/capture.tsx, store/failures.ts), a client of    *)
(* the API that sends fields instead of text, and create_expense with the  *)
(* parser's search for duplicates (services/expenses.py, services/parser). *)
(*                                                                         *)
(* One user and one day, the date of all expenses.  A text stands for its  *)
(* supplier and description and has an amount the parser is sure of; the   *)
(* jobs it mentions are what the parser chooses from.  A capture of        *)
(* several lines is as many requests of one line each.  The list of failed *)
(* captures holds 20, which the bounds do not reach.                       *)
(***************************************************************************)
EXTENDS JobRows, FiniteSets

CONSTANTS
    CapTx,          \* requests that are served at one time
    Texts,
    Mentions,       \* the jobs a text names
    Amount,         \* the amount a text says
    NoJob,
    Window,         \* 90 s, in ticks
    MaxTime,        \* bound: ticks
    NoOne           \* the screen waits for no request

ASSUME CaptureAssumption ==
    /\ Mentions \in [Texts -> SUBSET Jobs] /\ NoJob \notin Jobs
    /\ Texts # {} /\ Amount \in [Texts -> Nat]
    /\ Window \in Nat /\ MaxTime \in Nat
    /\ NoOne \notin CapTx

VARIABLES
    form,           \* what is typed and picked, and which capture it is
    saving,         \* the request the screen waits for (savingRef)
    heard,          \* the requests whose answer the app waits for
    failed,         \* the failed captures that are listed
    capTx,          \* the requests
    expenses,       \* the committed rows
    now

phone == <<form, saving, heard, failed>>
captureVars == <<phone, capTx, expenses, now>>

Form == [text : Texts, chip : Jobs \cup {NoJob}, capture : Nat]
Empty == [text |-> CHOOSE t \in Texts : TRUE, chip |-> NoJob, capture |-> 0]

\* q.before: the expenses that were there when the request came.  read: the job
\* the parser resolved.
Row == [id : Nat, text : Texts, job : Jobs, read : Jobs \cup {NoJob}, parsed : BOOLEAN,
        dup : BOOLEAN, pending : BOOLEAN, at : Nat, capture : Nat, before : SUBSET Nat]
CaptureRequest ==
    [pc : {"idle", "sent", "parsed", "looked", "stored", "refused"}, parsed : BOOLEAN,
     form : Form, id : Nat, read : Jobs \cup {NoJob}, dup : BOOLEAN, before : SUBSET Nat]

CaptureTypeOK ==
    /\ form \in Form
    /\ saving \in CapTx \cup {NoOne} /\ heard \subseteq CapTx
    /\ failed \subseteq Form
    /\ capTx \in [CapTx -> CaptureRequest]
    /\ expenses \subseteq Row
    /\ now \in 0 .. MaxTime

NoCapTx == [pc |-> "idle", parsed |-> TRUE, form |-> Empty, id |-> 0, read |-> NoJob,
            dup |-> FALSE, before |-> {}]

CaptureInit ==
    /\ form = Empty /\ saving = NoOne /\ heard = {}
    /\ failed = {}
    /\ capTx = [r \in CapTx |-> NoCapTx]
    /\ expenses = {}
    /\ now = 0

server == <<job, begun, capTx, expenses>>

-----------------------------------------------------------------------------
(* The phone. *)

\* A text is typed, and a job picked or not.
Type(text, chip) ==
    /\ form.capture = 0
    /\ More
    /\ form' = [text |-> text, chip |-> chip, capture |-> begun + 1]
    /\ UNCHANGED <<saving, heard, failed, now, job, capTx, expenses>>

Send(r, f, parsed) ==
    /\ capTx[r].pc = "idle"
    /\ More
    /\ capTx' = [capTx EXCEPT ![r] =
          [NoCapTx EXCEPT !.pc = "sent", !.parsed = parsed, !.form = f, !.id = begun + 1,
                          !.before = {e.id : e \in expenses}]]
    /\ UNCHANGED <<job, expenses, now>>

onSubmit(r) ==
    /\ form.capture # 0 /\ saving = NoOne
    /\ Send(r, form, TRUE)
    /\ saving' = r /\ heard' = heard \cup {r}
    /\ UNCHANGED <<form, failed>>

\* The answer to r is in, or has been given up: the screen is free.
Heard(r) ==
    /\ r \in heard
    /\ heard' = heard \ {r}
    /\ saving' = IF saving = r THEN NoOne ELSE saving

\* recordFailure: the text is listed; the job that was picked is not.
recordFailure(r) == failed' = failed \cup {[capTx[r].form EXCEPT !.chip = NoJob]}

\* Created: the screen is left.
Created(r) ==
    /\ Heard(r) /\ capTx[r].pc = "stored"
    /\ form' = IF saving = r THEN Empty ELSE form
    /\ capTx' = [capTx EXCEPT ![r] = NoCapTx]
    /\ UNCHANGED <<failed, job, begun, expenses, now>>

\* Refused: the text stays.
Refused(r) ==
    /\ Heard(r) /\ capTx[r].pc = "refused"
    /\ recordFailure(r)
    /\ capTx' = [capTx EXCEPT ![r] = NoCapTx]
    /\ UNCHANGED <<form, job, begun, expenses, now>>

\* The client's 15 s are over, or the connection is lost: so is the answer.
GiveUp(r) ==
    /\ Heard(r)
    /\ recordFailure(r)
    /\ UNCHANGED <<form, now, server>>

\* The text comes back; the picked job is what it is.
onRefillFailure ==
    /\ saving = NoOne
    /\ \E f \in failed : form' = [f EXCEPT !.chip = form.chip]
    /\ UNCHANGED <<saving, heard, failed, now, server>>

dismissFailure ==
    /\ \E f \in failed : failed' = failed \ {f}
    /\ UNCHANGED <<form, saving, heard, now, server>>

\* The screen is left, and another one opened; or the app dies.
Leave ==
    /\ form # Empty
    /\ form' = Empty /\ saving' = NoOne
    /\ heard' \in {heard, {}}
    /\ UNCHANGED <<failed, now, server>>

-----------------------------------------------------------------------------
(* create_expense. *)

\* An answer nobody waits for is gone.
CaptureAt(r, q) ==
    /\ capTx' = [capTx EXCEPT ![r] =
          IF r \in heard \/ q.pc \notin {"stored", "refused"} THEN q ELSE NoCapTx]
    /\ UNCHANGED <<job, begun, now, phone>>

Answer(r, pc) == CaptureAt(r, [capTx[r] EXCEPT !.pc = pc]) /\ UNCHANGED expenses

\* match_job: the one active job the text names.
match_job(text) ==
    LET named == {j \in Mentions[text] : job[j] = "active"}
    IN  IF Cardinality(named) = 1 THEN CHOOSE j \in named : TRUE ELSE NoJob

\* _merge_parse_with_overrides: the caller's job, or else the parser's.
_merge(q) == IF q.form.chip # NoJob THEN q.form.chip ELSE q.read

Parse(r) ==
    LET q == capTx[r]
    IN  /\ q.pc = "sent"
        /\ CaptureAt(r, [q EXCEPT !.pc = "parsed",
                                  !.read = IF q.parsed THEN match_job(q.form.text) ELSE NoJob])
        /\ UNCHANGED expenses

\* detect_duplicate, on the job the parser has resolved.
Duplicated(q) == \E e \in expenses : e.text = q.form.text /\ e.job = q.read

\* The same entry of the last 90 s: its job and its amount.
Repeated(q) ==
    \E e \in expenses : /\ Amount[e.text] = Amount[q.form.text] /\ e.job = _merge(q)
                        /\ e.at + Window >= now

\* No job: refused.  Fields that repeat an entry: answered with that entry.
Look(r) ==
    LET q == capTx[r]
    IN  /\ q.pc = "parsed"
        /\ IF _merge(q) = NoJob THEN Answer(r, "refused")
           ELSE IF job[_merge(q)] = "gone" THEN Answer(r, "refused")
           ELSE IF ~q.parsed /\ Repeated(q) THEN Answer(r, "stored")
           ELSE /\ CaptureAt(r, [q EXCEPT !.pc = "looked", !.dup = q.parsed /\ Duplicated(q)])
                /\ UNCHANGED expenses

\* Deviation: a suspected duplicate is counted among the reasons that only enrich.
GatedByJob(q) == q.parsed /\ q.read = NoJob

\* gating_reasons: a duplicate, or no job in the text.
Gated(q) == q.parsed /\ (q.dup \/ q.read = NoJob)

Insert(r) ==
    LET q == capTx[r]
        e == [id |-> q.id, text |-> q.form.text, job |-> _merge(q), read |-> q.read,
              parsed |-> q.parsed, dup |-> q.dup, pending |-> Gated(q), at |-> now,
              capture |-> q.form.capture, before |-> q.before]
    IN  /\ q.pc = "looked"
        /\ IF job[_merge(q)] = "gone" THEN Answer(r, "refused")
           ELSE CaptureAt(r, [q EXCEPT !.pc = "stored"]) /\ expenses' = expenses \cup {e}

\* A request that fails on its way, or in a transaction that is rolled back.
Fail(r) == capTx[r].pc \in {"sent", "parsed", "looked"} /\ Answer(r, "refused")

\* An answer that nobody waits for any more.
Unheard(r) == capTx[r].pc \in {"stored", "refused"} /\ r \notin heard /\ Answer(r, "refused")

\* A client of the API posts fields, or posts them again.
Post(r) ==
    /\ \E text \in Texts, chip \in Jobs :
          Send(r, [text |-> text, chip |-> chip, capture |-> 0], FALSE)
    /\ UNCHANGED phone

Tick ==
    /\ now < MaxTime
    /\ More
    /\ now' = now + 1
    /\ UNCHANGED <<phone, job, capTx, expenses>>

CaptureStep ==
    \/ \E text \in Texts, chip \in Jobs \cup {NoJob} : Type(text, chip)
    \/ \E r \in CapTx :
          \/ onSubmit(r) \/ Created(r) \/ Refused(r) \/ GiveUp(r)
          \/ Parse(r) \/ Look(r) \/ Insert(r) \/ Fail(r) \/ Unheard(r) \/ Post(r)
    \/ onRefillFailure \/ dismissFailure \/ Leave \/ Tick

Expensed == {e.job : e \in expenses}

-----------------------------------------------------------------------------

\* expenses.py:557-585, duplicates.py:72-130: an expense that was there when a
\* request for the same one came is not repeated in silence.  Text that repeats
\* it is held for review, unless the parser's job is not the job of the first;
\* fields repeat it only when the window has passed.
TwinsOverlap ==
    \A a, b \in expenses :
       a.text = b.text /\ a.id \in b.before =>
          IF b.parsed THEN b.pending \/ b.read # a.job
          ELSE a.job = b.job => a.at + Window < b.at

\* expenses.py:564-566: the raw-text path 'already surfaces repeats via the
\* parser's duplicate_flag + the review queue': of two expenses of one capture,
\* the second of which came when the first was there, one waits for review.
RetryIsSurfaced ==
    \A a, b \in expenses :
       a.id \in b.before /\ a.capture = b.capture /\ a.capture # 0 => a.pending \/ b.pending
=============================================================================
